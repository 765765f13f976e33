# A verification project for the video semantic extractor

The repository extracts semantic data from videos and runs a quality process
around the extraction: sampling jobs turn videos into frame sets, people
annotate the frames, their adjudicated work becomes ground truth, evaluations
measure models against it, and releases are approved from the measurements.
The extraction is sequential numeric work. The process around it is a
distributed program: a Cloudflare Worker (`workers/control-plane`) whose
requests interleave at every `await`, a D1 database, an R2 bucket, and runner
processes that poll for work, upload results, disappear and come back late.

The modules here model that process, TLC checks them on small instances, and
TLAPS proves the central results for every value of the constants.

## 1. Inventory

### Platform

| Part | What the models use of it |
|---|---|
| Worker | Any number of requests at once. Each `await` is a point where every other request may run. A timestamp taken with `now()` is a local value that gets old. A request may die between two awaits. |
| D1 | One statement is atomic, a `batch` is one transaction. A call may fail without effect, or take effect although the caller sees an error. |
| R2 | Single-object `put`, `get`, `head`, `delete`; no transaction with D1. |
| Runner | Polls, heartbeats, uploads, completes or fails, under a lease token. Its calls may come late, twice or never. |

### Components

**Durable job lifecycle** (`job-lifecycle.ts`, `runner-presence.ts`).
State: `internal_jobs` (status, attempt counters, lease columns, cancellation
request), `internal_job_attempts`, `evaluation_runs.report_artifact_id`,
`artifacts` and the report objects, `runner_presence`. Operations: claim
(expiry sweep, conditional UPDATE, attempt INSERT, rollback, presence),
heartbeat, fail, complete an evaluation, cancel, retry. Hard: every operation
is several awaits; job and attempt live in two tables written by separate
statements; results are stored before the transaction that accepts them.
Correct when a job has one live attempt, attempts are bounded and never reuse
a number, a lease passes on only by expiry, accepted reports keep their object,
success is final, cancellation cannot be outrun, and no job is left behind.

**Frame artifact pipeline** (`artifact-pipeline.ts`). State:
`artifact_uploads`, `frame_sets`, `frame_set_frames`, frame and manifest
objects. Operations: reserve, upload (with the undo of a late one), finalize
(verify frame by frame, write manifest, commit, recover). It is fenced by the
leases of the job lifecycle and ends a sampling job. Correct when a registered
frame set keeps all its objects, is what its own attempt uploaded, and losers
leave nothing behind.

**Resource retention and storage operations** (`resource-retention.ts`,
`operations.ts`). State: `resource_archives` with purge leases,
`artifact_retirements`, `retention_pins`, `artifact_tombstones`. Operations:
archive, cancel, purge, pin, orphan sweep, identity pruning. Hard:
verification, archive object and batch are separate awaits; two sweeps race;
triggers fence new consumers; an orphan is deleted while a writer is about to
register it. Correct when no object is deleted that a live resource or writer
needs, and a cancelled archive restores what it took.

**Managed review campaigns** (`managed-campaigns.ts`, `managed-annotations.ts`,
`review-comparison.ts`). State: campaigns, assignments with rotating tokens,
submissions and adjudications under revisions, the result object. Hard:
revisions are compared with a row read earlier and again by the UPDATE; the
comparison is made once, by whichever call comes first; the result is stored
before the batch that refers to it. Correct when a completed pass is
immutable, a revoked token writes nothing, and completion freezes exactly what
was adjudicated.

**Ground truth** (`ground-truth.ts`). State: `ground_truth_versions`, validations and
their report objects. Operations: validate, approve, reject, supersede, under
revisions. Correct when what is approved keeps the report it was approved on,
and supersession leads to a version that can be used.

**Releases, models, evaluations** (`release-governance.ts`,
`evaluations.ts`). State: `model_versions`, `pipeline_releases`,
`evaluation_runs`. Hard: evidence is gathered over several awaits and decided
on in one batch of assertions. Correct when one release is live, its model is
approved, and every decision rests on evidence that is good at that moment.

**Policy and template registry** (`template-registry.ts`). Policy versions that
are only ever withdrawn further; templates made once from a ready frame set and an active policy.

**Internal identity** (`internal-auth.ts`). Owners, invitations, mailed
links, sessions, account updates. Correct when a link is used once, a disabled
user has no session, and the last active owner is lost to nothing but two
account updates that overlap (which do lose it, section 8).

**Sampling runner** (`sampling_runner.py`, `workers/sampling-runner`). One
job per cycle, a heartbeat thread, a run-once lock, alternation between the two
queues, a frame budget per source. Correct when an abandoned lease runs out,
both queues are served, and the budget leaves something for every source.

**Legacy adjudication** (`adjudication.ts`). A review and its result are two
JSON objects in R2, read and put back whole. Correct when a result says what
the reviews said; everything else is at the mercy of the last writer.

**Others**, with no state that the components above depend on: the read API (`internals.ts`), the grouping of resources into
pipelines for display (`pipeline-tracking.ts`), preflight checks, the capsule gateway and container, the extraction pipeline
(`backend/`), local scripts and the web applications. `PROJECT.json` lists
each; section 9 says why they are not modelled.

### How they interact

```
 admin ---- create/cancel/retry ----+            runner ---- poll/heartbeat/
                                    v              |         fail/complete
 evaluations, internals --INSERT--> internal_jobs <+
                                    |  lease
                 artifact pipeline <+---- upload/finalize (same lease)
                        | frame_sets
                        v
 template registry -> campaigns -> ground truth -> evaluations -> releases
                        ^                                |
                        +------ retention (archives) ----+
```

Two components meet in `internal_jobs`: the pipeline and the lifecycle both end
jobs, under predicates each spells out for itself. That is why the pipeline is
composed with the lifecycle instead of modelled alone.

## 2. Plan

| Order | Module | Composes | Abstract specification | Status |
|---|---|---|---|---|
| 1 | `JobLifecycle` | | `JobContract` | modelled, checked, safety and refinement proved |
| 2 | `ArtifactPipeline` | `JobLifecycle` | `JobContract` | modelled, checked, safety and refinement proved |
| 3 | `Retention` | archives, purges, cancels, consumers | invariants: no needed object is deleted | modelled, checked, safety proved |
| 4 | `ObjectRegistration` | policies, templates, model bytes, orphan sweep | what is registered has its object | modelled, checked, proved |
| 5 | `ReviewCampaign` | `ReviewComparison` | a matching of all objects (`OneToOne`) | modelled, checked, proved |
| 6 | `GroundTruth`, `Governance` | `Governance` extends `GroundTruth` | | modelled, checked, proved |
| 7 | `SamplingRunner` | `JobContract` as the server | | modelled, checked, safety proved |
| 8 | `Identity` | | | modelled, checked, proved |
| 9 | `LegacyReview` | | | modelled; a revocation is refuted (section 8), the rest proved |

Every safety and action property a passing run checks is proved; its liveness
properties are not (section 7). Left to model: the pipelines of
`pipeline-tracking.ts` that group resources for display, whose limit of links is
checked before an await and again by a trigger.

## 3. Modules

### JobLifecycle

Each column the properties need is a function over `Jobs` named after it; an
attempt row is indexed by the claim call that inserted it, and a claim call is
at the same time the lease token it mints (a random UUID is unique). `claim[c]`
and `request[r]` are the local variables of a call in flight, with a `pc` that
says which await it waits for:

| Call | Steps |
|---|---|
| `claim` | `ClaimCall` (timestamps) - `ClaimSweep` (`sweepExpired`, one batch) - `ClaimUpdate`, or `ClaimNothing` and `ClaimIdle` - `ClaimInsert` - `ClaimAnnounce`, or `ClaimRollback`; `ClaimCrash` anywhere |
| `heartbeat` | `HeartbeatCall` - `HeartbeatCommit` |
| `finish`, fail | `FailCall` - `FailCommit` |
| `finish`, complete | `CompleteCall` - `CompleteStore` or `CompleteReject` - `CompleteCommit` - `CompleteDiscard` |
| administrator | `Submit`, `CancelQueued`, `CancelRunning`, `Retry` |

A timestamp is a field of its call, so every comparison of the SQL uses the
time the handler really has. `Tick` lets time pass at any moment; past
`MaxClock` only while a lease nobody works on has time left, so that all leases
can expire and the state space stays finite.

`JobContract` is what users of the queue may rely on: the life of a job,
one-time tokens, results set once. `JobRefinement` maps the columns onto it.
`JobInvariants` holds the inductive invariants, `JobProofs` the proofs.

Abstractions: `available_at` (never set), payloads, error texts and
audit rows are left out; a submission with an idempotency key that is taken,
which `createSamplingJob` answers with the job that has it, is no step; `order by created_at, id` is the order of job numbers;
an evaluation report is valid or not, nondeterministically; a runner's hash
comparison of the token is equality.

### ArtifactPipeline

Extends the lifecycle with uploads and finalizations. A reservation's random id
is also its storage key. A manifest is the set of artifacts it names and its
key is its checksum, so equal manifests share one object. `UploadCall` to
`UploadUndo` and `FinalizeCall` to `FinalizeDiscard` are the awaits of
`uploadArtifact` and `finalize`. `PipelineInvariants` holds the inductive
invariants; the proofs are in `JobProofs`, beside those of the lifecycle they rest on. The batch of `FinalizeCommit` fails as a whole
when its conditional INSERT inserts nothing, because the rows that follow
refer to the frame set. `Repeats` says what a client may send twice.

Of the manifest's content checks (`frame-set-manifest.ts`) what the rest relies
on is kept: `Manifests` are the nonempty sets, since the validation asks for a frame in
every source and for every artifact once. Checksums, counts and timestamps are
abstracted to accept or reject.

### Retention

The archives, retirements and pins of `resource-retention.ts`, the triggers of
migration 0015, and everything that may come to need a frame set or a model:
its review, ground truth, evaluation runs, releases, pins.

| Code | Steps |
|---|---|
| `archiveResource` | `ArchiveCall` (eligible, payload list) - `ArchiveLineage` (payloads verified, lineage read) - `ArchiveStore` - `ArchiveCommit` (one batch; aborts if no longer eligible) - `ArchiveUndo` (the catch) |
| cancel | `CancelCall` (the read) - `CancelCommit` (the batch) |
| `purgeArchives` | per entry: `SweepClaim` (lease) - `SweepLoad` (record, list) - for each payload `SweepCheck` (still owned), `SweepDelete`, `SweepMark` - `SweepClose` - `SweepRelease`; `SweepFail` is the catch, `SweepDie` a killed Worker |
| time | `Age` (past the staleness cutoff), `GraceEnds`, `Lapse` (a purge lease) |
| consumers | `Pin`, `OpenReview`, `CompleteReview`, `Decide`, `CreateRun`, `RetryRun`, `Release` and so on, one batch each, fenced by `~Archived` where a trigger fences it |

`archive[k].review` is the lineage kept in the immutable snapshot; an archive
call and the id it mints are the same value. `RetentionInvariants` holds the
inductive invariant, `RetentionProofs` the proofs.

Abstractions. One campaign on one template per frame set. `engaged` stands for
"recently updated, without assignments, or with a live assignment"; `fresh` for
any event after the cutoff, which for a model includes its audit events. A
consumer that checked its inputs an await earlier may use a decision that has
since changed (`CreateRun`, `Release`), but no request is older than the staleness cutoff
of at least seven days. The guard of a model's retirement by the active release
is dropped, so more happens than in the code. Payload bytes
never change, so the comparisons of etag and checksum fail only when an object is missing;
`head` and `delete` are one step. `Limit` bounds the payloads of one entry, the code's
bounds those of one sweep. The orphan sweep is in `ObjectRegistration`, the
pruning of links and sessions in `Identity`.

### ObjectRegistration

Everything that writes an object and registers it afterwards, beside the sweep
that deletes what nobody registered.

| Code | Steps |
|---|---|
| `registerPolicy` | `RegisterPolicy` (the lookup) - `InsertPolicy` - `RecoverPolicy` (the catch reads again) |
| policy decisions | `ChangePolicy` (the read) - `UpdatePolicy` |
| `generateTemplate`, `createModel` | `GenerateTemplate` or `CreateModel` - `PutObject` - `CommitObject` - `DiscardObject` |
| orphan sweep | `Inspect` (rows, live uploads, age) - `Claim` (the tombstone batch, which asks again) - `DeleteOrphan` - `CloseOrphan`; `SweepDies` between |
| uploads | a job's frames as the sweep sees them: put, confirmed, ended, retried |
| time | `Age`: an object is older than the week of grace |

An attempt and the random key it writes under are one value; a definition is a
model value, since only its equality counts. The checks of a manifest against
its rows are an attempt that ends early. `Age` is free to happen under a
writer that is still running: the tombstone then makes its batch fail.

### ReviewCampaign and ReviewComparison

| Code | Steps |
|---|---|
| coordinator | `Create`, `Issue`, `Revoke`, `Assign`, `Cancel`; tokens `Expire` and `Lapse` |
| token holder | `Present` - `Identify` - `WriteReviewer`; or - `ReadReviewers` - `ReadRow` - `InsertAdjudication` - `Resolve`, or `Finish` - `PutResult` - `Adjudicate` - `Confirm` - `DiscardResult` |

A client sends the revision it has seen, the handler compares it with the row
and the UPDATE compares it again. Instead of numbers the model keeps the set
`current` of calls whose revision is still the row's: every write of a row
takes all other calls on it out of the set. `ReviewInvariants` holds the
inductive invariant, `ReviewCampaignProofs` the proofs.

`ReviewComparison` is `compareReviews` of `review-comparison.ts` for one frame.
What a frame is annotated with is a record of a list of `objects` and a list
`out_of_taxonomy`; two annotations agree (`FrameAgrees`) when no object is left
unmatched (`ObjectsAgree`) and the second lists are equal. The disagreements
`policy_version` and `frame_coverage` cannot occur here: `validateManagedSubmission`
fixes policy, sources and frames to the template's. The kinds of disagreement
of a frame are not told apart, since adjudication resolves frames.

In the matching, overlapping boxes of one class are paired by augmenting paths. `Visit` is one turn of the loop of
`visit`, with the map `rightToLeft` (0 where it has no entry) and the set
`visited` threaded through the calls; `Visits` is `visit` itself, as a
function of the turns it may still take. Each turn visits one more object of
the right list, so its length is a bound no call reaches, and the proofs show
that. `Matches` is the map after each `forEach`. `OneToOne` is what agreement
should mean: a bijection between the objects of the two frames along overlaps.
`DisagreementIsReal` (in `ReviewInvariants`) says, wherever a campaign compares
passes, that a frame is reported exactly when there is no such bijection or the
`out_of_taxonomy` lists differ, given `ComparesFrames`: what `ReviewCampaign`
calls `Agree` is `FrameAgrees`.

### GroundTruth and Governance

| Code | Steps |
|---|---|
| validate | `Validate` (the row) - `Analyse` (evidence read) - `PutReport` - `ValidateCommit` - `ValidateCatch` - `DiscardReport` |
| approve, reject, supersede | `Approve`, `Reject`, `Supersede` - `VerifyReport`, or `ReadReplacement` - `CheckReplacement` - `DecideCommit` |
| `createRun` | `CreateRun` - `CheckTruth` - `VerifyModel` - `ReadRelease` - `LookUpKey` - `InsertRun`; its job ends in `FinishRun` |
| model decisions | `DecideModel`, `RetireModel` - `CheckUnused`, or `ReadEvidence` - `CheckTruth` - `CommitModel` |
| release decisions | `CreateRelease` - `InsertRelease`; `DecideRelease` - (evidence) - `CommitRelease` |
| `Activate`, `Rollback` | `ReadTarget` - `ReadModel` - `ReadEvidence` - `CheckTruth` - `CommitSwitch` |

`EvidenceLost` is storage losing an object a version rests on. The corpus gates
are the operator `Adequate` over a record of counts; `Content` gives every version its counts, and the
instances put each version at the limit of a gate. Pinned hashes cannot change (migration 0013), so the guards on them
always hold and are left out.

### Identity

| Code | Steps |
|---|---|
| `sendChallengeResponse` | `CreateChallenge` - `SendLink` - `Withdraw` if the mail fails |
| `verifyChallenge` | `Verify` (one batch; its UPDATEs are conditional on the first) |
| `bootstrap`, `createUser` | `Bootstrap` or `CreateUser` - `CheckEmail` - `InsertUser` - link |
| resend, sign-in | `ResendInvitation` - `FindInvitee` - link; `RequestSignIn` - `FindRecent` - link |
| `updateUser` | `UpdateUser` - `ReadTarget` - `ReadRoles` - `CountOwners` - `WriteUser` |
| time, cron | `GrowOld`, `PruneSessions`, `PruneChallenges`; `Logout` |

`CanAccess` is the table of roles and capabilities, translated line by line for
`DutiesSeparated`. Display names, cookies and the audit log are left out.

Any number of calls may be updates. A call has one auxiliary field no guard
reads: `overtaken`, set when another update's batch is written after the call
has read its target. `OwnerLostOnlyToOverlap` needs it to name the one way in
which the last active owner is lost.

### SamplingRunner

The server is `JobContract` with lease times: whatever the contract allows it
may do, `Expire`, `Undo` (a claim taken back) and `Administer` included, so what holds here
holds against `JobLifecycle`, which implements the contract.

| Code | Steps |
|---|---|
| `run_once` | `RunOnce` - `ClaimJob`, `ClaimNothing` or `ClaimFails` - `ReadSources` or `Evaluate` - `ProcessSource` per source - `Finish`; on any exception `ReportFailure` or `ReportLost` - `Stop` |
| heartbeat thread | `BeatWakes` - `BeatAnswered` or `BeatFails`, until its event is set, or an answer ends it |
| container | `Crash` at any step: the run, its threads and `_prefer_evaluation` are gone |

A request can fail before it arrives, or arrive and lose its answer. Frames are
counted, not identified; the share of a source is the code's integer arithmetic.

### LegacyReview

`Authorize` reads the object, a computation follows, `PutReview` puts it back,
and `PutResult` publishes. One review id is modelled. A call that is refused
changes nothing and has no step.

## 4. Runs

| Run | Question | Instance |
|---|---|---|
| `MCJobCalls` | Do claims, heartbeats, failures, completions and administrators, overlapping, keep jobs, attempts, leases and reports in step, and implement `JobContract`? | a sampling and an evaluation job, 2 claims, 2 calls, one tick; rejected INSERTs and batches, dying claims |
| `MCJobLive` | Does every job end, and every cancellation take effect, when runners disappear? | 1 job, 3 claims, 1 call, fair |
| `MCFrames` | Do uploads and finalizations of two leases keep evidence, and the contract? | 1 job, 2 leases, 2 artifacts, 2 calls; rejected and ambiguous batches |
| `MCRetire` | Do archives, cancellations and failing, overtaken sweeps delete exactly what nobody needs, once, and restore what they cancel? | 1 frame set, 2 payloads, `Limit` 1, 2 archives, 2 cancels, 2 slow sweeps; failing requests |
| `MCRetireLive` | Is every archive past its grace deleted in the end? | a frame set of 2 payloads with `Limit` 1, a model, an evaluation of both, 1 archive, 1 cancel, 2 sweeps of which one may die, fair |
| `MCObjects` | Does what is registered keep its object under races of writers and an orphan sweep, and is a policy only ever withdrawn further? | 1 policy, 2 definitions, 2 clerks, 2 attempts, 1 upload, 1 sweep |
| `MCReview` | Is the merge that becomes ground truth the adjudication of the two passes, whoever loses a token meanwhile? | 1 campaign, 1 frame, 2 calls; reviewer-b and the adjudicator may lose their tokens; failing and ambiguous batches |
| `MCGroundTruth` | Does approved ground truth keep its report, and does supersession end in a usable version? | 3 versions of one template, 2 approved already, 2 validations, 2 calls; all three faults |
| `MCGovernance` | Do activation, rollback, retirement and supersession race without losing the live release or its evidence? | 1 model, 2 releases, 4 runs, 2 ground truths, 1 truth call, 2 deciders; rejected batches |
| `MCIdentity` | Are links used once, sessions of disabled users dead, is the last owner lost to nothing but overlapping updates? | empty database, 2 people, 1 link, 2 sessions, 2 calls that may both be updates; failing mail |
| `MCRunner` | Does the runner stay within its budget, serve both queues, and let go of every lease? | a sampling job of 2 sources, an evaluation, 2 tokens, limit 3; all three faults, fair |
| `MCLegacyRevoked` | Does a revocation stand? (Expected violation, section 8.) | 1 frame, 3 calls |

Bounds. *Jobs:* two claims with one attempt number each give a stale lease and
its successor, and two attempts reach `max_attempts`; a takeover of a takeover
needs a third claim, which `MCJobLive` has without faults and the proofs have with them. Two
calls suffice for a race of completions since each compares only the job row
and its own lease. A lease of one tick with `MaxClock` 1 lets a call be taken
before, at and after an expiry, and an earlier timestamp be used after it.
`AttemptLimit` bounds administrators' retries. *Frames:* two artifacts give
partial verification and two different manifests. *Retention:* two payloads and
`Limit` 1 make an entry outlast a sweep; two archives of one frame set give a
second archive after a cancellation, and an archive call that loses to another; two slow
sweeps give a takeover in the middle of a deletion. `MCRetire` has no model and no run: the
clauses of `NeededPayloadKept` about them rest on the theorem `NeededPayloadIsKept`. *Objects:* two attempts are
what a race and its loser need; keys are not shared, so a third adds nothing;
two definitions under one version are a collision. *Reviews:* one frame can agree or
disagree, and has contents where greedy and optimal matching differ and ones
that differ in `out_of_taxonomy` alone; the comparison treats frames
independently. *Ground truth:* three versions give a
chain and the attempt to close it. *Governance:* two releases are the live one
and its successor, or the live one and its predecessor; a run for each and
two of the model alone are their evidence, all against the version `g1`, which
`g2` may supersede. *Identity:* from two people a second owner can be made, and
both be demoted in two updates at once; one of the two calls does nothing but
updates. *Runner:* two tokens are a lost claim
and the next one; three frames for two sources do not divide evenly.

Symmetry is declared only over sets from which the modules never choose a least
element, and never in a run with liveness. `CHECK_DEADLOCK FALSE` is set where an
instance really stops, its calls, attempts, tokens or time used up.

## 5. Fairness

`FairSpec` asks that time passes, that some runner keeps polling, and that a
handler which was not killed goes on to its next await. The sampling-runner Worker polls on a schedule
and the runtime finishes requests; nothing obliges a runner to heartbeat, fail or complete, and no fairness is
assumed on calls of runners or administrators. So `JobSettles` and `CancellationTerminates` hold even when every runner
disappears after its claim: only leases and sweeps end the job.

`Retention!Fairness` asks that a purge that was not killed goes on, that a due
archive is claimed by some scheduled sweep (the control plane runs one every
six hours) and that the lease of a dead sweep runs out. `MCRetireLive` assumes
that a live sweep stays within its five minutes and that requests do not
keep failing: under failures for ever nothing could be reclaimed.

`FairRunnerSpec` asks that the scheduled Worker wakes the runner (it does every
minute), that a run and its heartbeat threads go on, and that time passes.
Nothing is asked of the server, of administrators or of requests: all of them
may fail for ever, and `AbandonedRunsOut` holds because a run that is over has
set the event its thread looks at.

## 6. Proofs

### Jobs and frame sets (`JobProofs`)

`TypeCorrect`: `Spec => []TypeOK`, for all constants and all
faults. `TypeOK` alone is not inductive: that `attempt_count` stays natural under the
rollback's decrement needs `RunningIsCounted`, that a rollback or a heartbeat names a job
needs `WinnersHaveJobs` and `CallsHoldLeases`. Their conjunction `TypeInv` is.

Four safety properties hold under the one assumption that an attempt INSERT does
not commit behind an error (`"insert_ambiguous" \notin Faults`; with it two of
them fail, see section 8): `LeaseIsExclusive`, `AttemptNumbersAreFresh`,
`AttemptsAreCounted` and `TakeoverAfterExpiry`. They follow from one inductive
invariant, `ClaimInv`, in two layers:

* *leases*: a job's token belongs to a claim that won this job
  (`TokensAreWon`), a claim's timestamp is past (`ClaimsArePast`), attempts have
  claims (`AttemptsHaveClaims`), and the expiry a claim or attempt remembers is
  the job's, or has passed (`ExpiriesAgree`). The last is the heart: job and
  attempt are written by different statements, yet neither can think the
  lease alive when the other does not.
* *numbers*: the numbers of recorded attempts are at most `attempt_count`, and
  a claim between UPDATE and INSERT owns a number above all recorded ones as long as it holds the job.

`ReportsAreDurable` needs that no batch commits behind an error
(`"batch_ambiguous" \notin Faults`, section 8). `ReportInv` adds to the property
what its calls in flight rely on: a completion that has stored its report and
not committed holds an object no row names, so that its discard can only remove its own.
`CancellationIsFinal` needs only `TypeInv` and no assumption: each statement that could requeue or
finish a job asks for the cancellation column itself.

`LifecycleKeepsContract` proves that the lifecycle implements `JobContract`
under the mapping of `JobRefinement`, for every fault: `ContractStep` takes the
actions one by one and shows each to be a step of the contract or a stutter.
The contract's one-time tokens need `TokenInv`: a job's token was won by a claim, and a claim that won
nothing names no job. A rolled back claim is the contract's `Withdraw`.

For the pipeline, `FrameSetsAreOutcomes` holds without any assumption. Its
invariant `OutcomeInv` says that what a finalization has checked stays uploaded
under its lease (`ManifestsChecked`), that
finalized uploads are in their job's frame set, and that reports belong to evaluations.
`ManifestsAreTended` names the three awaits in which a stray manifest may be
held (`ManifestsTended`). `EvidenceIsKept` assumes that a client repeats
nothing (`Repeats = {}`): both kinds of repetition break the property, section 8.
Under the assumption a discard names only what no frame set has registered
(`DiscardsUnregistered`). `PipelineKeepsTheContract` is the refinement of the
composition, where finalization is how a job succeeds; it is about sampling
jobs only (`\A j \in Jobs : JobType[j] = "sampling"`), since an evaluation's result is its report and not a frame set.

### The other components

`RetentionProofs` proves every safety property the passing retention runs
check, for all constants, faults, mortal and slow sweeps: `RetentionInvariant` (types),
`NeededPayloadIsKept`, `PayloadDeletedOnce`, `ClosedArchiveIsComplete` and
`CancelledIsRestored`. The inductive invariant `RetentionInv` says

* *fence*: a resource with an archive in force is needed by nobody (`Fenced`);
  it holds when the batch commits because `eligible` is evaluated again in it, and is kept by
  the triggers;
* *ledger*: the retirements in force are exactly the payloads of the archives
  in force (`RetirementsMatch`), whose payloads belong to no other resource
  (`ArchivedAlone`); a sweep only works on archives that can no longer be
  cancelled (`SweepsPurge`); what is gone was purged, what is marked is gone and
  was audited once (`GonePurged`).

Neither the purge lease nor the order of sweeps occurs in it: safety rests on the fence and
on the conditional statements, the lease only saves work.

`ObjectRegistrationProofs` proves `PolicyNeverRestored` and `AnswerStands` for
all faults, and `RegisteredKeepsBytes` under `"batch_ambiguous" \notin Faults`
(with it the property fails, section 8). The invariant of the last relates three
tables and the callers: a registered key has its object and no tombstone; a
sweep past its claim holds a tombstone; an attempt that is going to discard its
object lost, and so is not what the row names. It does not depend on the age of
objects: safety comes from the conditional batches, the week of grace only spares work.
`LiveUploadsAreKept` holds for all faults: a tombstone on an upload means that its job is over for
that upload (`ClaimedAreOver`): the claim looked at the upload and at its job's
lease, and no lease comes back.

`ReviewCampaignProofs` proves `ReviewTypesCorrect`, `ComparisonsAreFinal` and
`ResultsAreStored` from one invariant, `ReviewInv`, and from it
`OnlyCurrentWritesLand`, an action property. The invariant says what a call in
flight holds by the step it has reached (`CallInv`): the passes it read are complete and so
will not change, the result it stored is the one its batch will name, and what it is going to
discard is not what the campaign registered. Submissions and their comparison are
constants with assumptions, so these proofs hold for every rule of comparison.

`DisagreementsAreReal` assumes `ComparesFrames` (`MCReviewCampaign` assumes it
as well, for TLC to evaluate) and holds for every relation `Overlap`, lists of any length and
whatever is in flight. It combines `ComparisonIsFinal` with
`AgreementIsOneToOne`, the correctness of Kuhn's algorithm in `ObjectsAgree`:

* *the functions exist*: `Visits` and `Matches` are recursive, so
  `IterationExists` builds the sequence of their values and `VisitsDefined`,
  `MatchesDefined` show that it solves their equations and is typed.
  Inductions are stated about sets: `SetInduction` follows from the
  well-foundedness of the naturals.
* *one visit* (`Kept`, proved by `VisitKeeps` and `VisitsKeep` by induction on
  the objects not yet visited): from an injective map of overlaps, a visit that
  succeeds has placed its object, leaves everybody else placed and the objects
  visited before it untouched (`Placed`); one that fails has changed nothing,
  and what it visited is closed: all taken, and all that the holders overlap (`Exhausted`).
* *failure is final* (`ExhaustedIsShort`): the object and the holders of the
  closed set outnumber it, so by the pigeonhole principle no bijection exists.
* *all visits* (`OneMoreMatched`, `AllMatched`): the map stays injective, and
  if a bijection exists every object so far is matched; with all objects of the
  left matched, counting shows that none of the right is left over.

`SamplingRunnerProofs` proves `BudgetAlwaysSuffices` from two integer lemmas
(the share of a source, rounded up, leaves at least one frame for each later one), and
`QueuesTakeTurns` from `TurnInv`, which relates `_prefer_evaluation` and the
place in `run_once` to what was taken since each queue was asked. Both hold
against every server `JobContract` allows, and for every fault.

`IdentityProofs` proves `LinkOpensOneSession`, `DisabledLosesSessions` and
`VerifiedOnlyByMail`. `CallInv` says which link a call in flight has created and
for whom, `LinkInv` ties consumed links to their sessions, `LivingInv` that a session that can
still be presented belongs to an active person. That `Verify` is one batch conditional on an active user is
what the last rests on. `DutiesStaySeparated` is the table of roles, by cases.
`OwnerLostOnlyByOverlap` is about any number of updates in flight. `UpdateOK`
says what an update that was not overtaken has read and still holds, whatever
sign-ins, invitations and bootstraps interleave with it; a write overtakes
every update that has read, so only such a one can take the last owner
(section 8 shows it does).

`GovernanceProofs` treats both modules. `TruthInv` proves
`ApprovalKeepsReport`: an approved version rests on a passed report that no call
still intends to discard, since a commit moves the revision a second one would
need. `SupersessionsEnd` rests on `ReplacementInv`: a supersession in flight names
another version of the same template, and the batch asks again that it is approved. A replacement that is
approved when it is named closes no circle: a set of superseded versions closed under
replacement after the step either does without the new one, and was closed before, or
contains it and its replacement, which is not superseded. `GovernanceInv` proves `ActiveReleaseRunnable`, `AlwaysOneLive` and `DecisionsHaveEvidence`: a row that still
has the revision a request read still has the status it read, and evidence a
request holds can only be spoilt by supersession, which the batch asks about again.

`LegacyReviewProofs` proves `ResultIsAdjudicated`. Writers overwrite each other,
so nothing holds of the sequence of objects; but every object ever stored was made by a
single handler from a valid one, and validity (`LegacyInv`) is a property of one object
and of the ones calls still hold.

Each invariant was an INVARIANT of TLC runs before it was proved. The proofs
have one step per action; lemmas about clearing leases, about the two
tables and about revisions are shared. Every assumption about constants is the
named ASSUME of its module, which TLC evaluates in the runs, or is written in
the theorem that needs it.

## 7. Only model-checked

Liveness (`JobSettles`, `CancellationTerminates`, `DueIsReclaimed`,
`AbandonedRunsOut`) rests on fairness and ENABLED, which are out of the
provers' reach. These four properties are the only ones that a passing run checks and
no theorem states.

## 8. Findings

`MCLegacyRevoked` is a run TLC must find violated. Every handler of the
legacy service puts back the whole review it read (`adjudication.ts:427`), so a
save that was under way when an administrator revoked the assignment makes it valid
again; `workers/README.md:52-54` says administrators can revoke it. The same
file warns (`:334-337`) that R2 is not transactional, and rests on a
"single-writer assignment"; a revocation is a second writer of the object.

What else the models show when one constant of a run is changed, or when a
property is added to it that is defined in the module but no run asks for:

| Run, with | Property | What happens |
|---|---|---|
| `MCJobCalls` | `ExpiredLeaseCannotComplete` | A completion compares the expiry with a timestamp taken before it validated and stored the report (`job-lifecycle.ts:320`), so an expired lease completes; `docs/internals-architecture.md:130-131` and `docs/internals-operations.md:20-21` say it cannot. |
| `MCJobLive`, `Faults = {"insert_rejected"}` | `CancellationTerminates` | A cancel between a claim's UPDATE and its rollback (`job-lifecycle.ts:100`) leaves a queued job that no claim takes and no sweep ends. |
| `MCJobCalls`, `Faults = {"insert_ambiguous"}` | `ExclusiveLease` | An INSERT that committed behind an error is rolled back as if it had not: its attempt stays running, and every later claim of the job collides with its number. |
| `MCJobCalls`, `Faults = {"batch_ambiguous"}` | `ReportDurable` | A completion batch that committed behind an error has its report deleted by the catch. |
| `MCFrames`, `Repeats = {"upload"}` | `EvidenceKept` | A repeated upload, confirmed after finalization, deletes a frame of a ready frame set (`artifact-pipeline.ts:104`). |
| `MCFrames`, `Repeats = {"finalize"}` | `EvidenceKept` | A finalization that gave up deletes the manifest an equal one has just registered. |
| `MCRetire`, `Faults = {}` | `CampaignCancelIsFinal` | A review cancelled while its frame set is being archived is open again after the archive is cancelled (`resource-retention.ts:202`; `docs/managed-review-campaigns.md:43`). |
| `MCRetireLive`, `Faults = {"archive_ambiguous"}` | `DueIsReclaimed` | An archive transaction that committed behind an error leaves a scheduled archive without its record (`resource-retention.ts:89`), which no sweep can finish. |
| `MCReview` | `LogMatchesDisagreements` | An adjudicator may correct a frame both reviewers agreed on (`managed-campaigns.ts:262-275`); the campaign completes, but `ground-truth.ts:129` then refuses its candidate for ever. |
| `MCIdentity` | `OwnerRemains` | Two updates that overlap leave no active owner: two owners demoted at once each count the other (`internal-auth.ts:132`), or one update writes back the roles it read (`:127`) before the other made its account the only owner. |
| `MCObjects`, `Faults = {"batch_ambiguous"}` | `RegisteredHasBytes` | A registration that committed behind an error has its object deleted by the catch (`template-registry.ts:178-184`, `release-governance.ts:97`). |

Noticed while modelling, without a property of their own:

* A late failure under an old lease marks the runner that holds the current
  lease as available: `runner-presence.ts:49` asks only for the job. Presence is
  displayed and read by no decision.
* A heartbeat that is committed late, or asks for fewer seconds, moves an
  expiry backwards (`job-lifecycle.ts:203`); `TakeoverAfterExpiry` holds all the same.
* A purge takes the ten oldest due archives (`resource-retention.ts:95`); ten
  that fail at every attempt would starve the rest. `MCRetireLive` assumes
  requests do not fail for ever.
* `updateUser` writes back the status or the roles it read when the request
  names only the other (`internal-auth.ts:127-128`), and undoes an update that
  came between.
* `status()` can report a bootstrap as available while `bootstrap()` is closed.
* A container that restarts forgets which queue is next
  (`sampling_runner.py:170`), so `TurnsTaken` speaks of one process: one that restarts after every
  sampling job never asks for evaluations.
* In the legacy service a late completion can replace a published result, and
  a late creation a review that is under way.

## 9. Not modelled

| Component | Why |
|---|---|
| Internals API (`internals.ts`), in part | Projections, and the registration of a dataset with its first version, one batch on a database of its own that nothing here changes afterwards. The request for a sampling job is `Submit` of `JobLifecycle`. |
| Pipeline tracking (`pipeline-tracking.ts`) | Pipelines group resources for display; no other component reads their rows. |
| Preflight and catalogues | Shape checks of one document and tables of constants. |
| Gateway and container proxies | Stateless forwarding: nothing is kept between two requests. |
| Extraction pipeline (`backend/`) | Sequential numeric and media processing, right or wrong in its data. |
| Managed manifests | A check of one document on the runner's side; `SamplingRunner` takes its outcome. |
| Review and diagnostics scripts | Local tools of one user. |
| Web applications | Presentation over the APIs, without authoritative state. |

Within the modelled components: reads (job inputs, downloads, lists, previews)
change nothing; the authentication of an internal call is a precondition of
every action, except where it is the subject (`Identity`, `ReviewCampaign`,
`LegacyReview`); audit rows are written by the same batches, and the two kinds
that matter are modelled, the activity of a model (`fresh`) and the record of a
deletion (`deletions`).
