---------------------------- MODULE JobLifecycle ----------------------------
(***************************************************************************)
(* Durable jobs of the control plane: workers/control-plane/src/           *)
(* job-lifecycle.ts over the tables internal_jobs, internal_job_attempts,  *)
(* evaluation_runs, artifacts and runner_presence, and the R2 bucket that  *)
(* holds evaluation reports.                                               *)
(*                                                                         *)
(* Every D1 statement or D1 batch is one atomic step; every await between  *)
(* two of them is a point where any other call may run.  A timestamp a     *)
(* handler takes with now() is a field of its call, so it can be stale by  *)
(* the time the statement that uses it runs.                               *)
(***************************************************************************)
EXTENDS Naturals, FiniteSets

CONSTANTS
    Jobs,          \* job numbers, in the order (created_at, id)
    Claims,        \* claim calls; a call is also the lease token it mints
    Requests,      \* heartbeat, fail and complete calls; also report ids
    Runners,       \* runner_id values
    None,          \* SQL NULL
    JobType,       \* [Jobs -> Types]: the job_type column
    MaxAttempts,   \* max_attempts of a new job
    AttemptLimit,  \* bound: an administrator retries only below it
    LeaseSeconds,  \* lease lengths a caller may ask for, in clock ticks
    MaxClock,      \* bound: see Tick
    Faults         \* the failures the platform may produce, see AllFaults

Types == {"sampling", "evaluation"}

AllFaults ==
    {"insert_rejected",   \* the attempt INSERT fails
     "insert_ambiguous",  \* it commits, but the caller sees an error
     "batch_rejected",    \* the completion batch fails
     "batch_ambiguous",   \* it commits, but the caller sees an error
     "crash"}             \* a claim call dies between two awaits

ASSUME ConstantsAssumption ==
    /\ Jobs \subseteq Nat \ {0}
    /\ JobType \in [Jobs -> Types]
    /\ None \notin Claims /\ None \notin Requests /\ None \notin Runners
    /\ MaxAttempts \in Nat \ {0}
    /\ AttemptLimit \in Nat
    /\ LeaseSeconds \subseteq Nat \ {0}
    /\ MaxClock \in Nat
    /\ Faults \subseteq AllFaults

VARIABLES
    clock,
    \* internal_jobs, one function per column that matters
    status, attempt_count, max_attempts,
    lease_token_hash, lease_expires_at, cancellation_requested,
    \* internal_job_attempts: the row a claim inserted
    attempt_status, attempt_expires_at,
    \* calls in flight, and what a finished claim left with its runner
    claim, request,
    \* evaluation_runs.report_artifact_id, registered reports, report objects
    report_artifact_id, artifacts, bucket,
    presence       \* runner_presence

jobVars == <<status, attempt_count, max_attempts,
             lease_token_hash, lease_expires_at, cancellation_requested>>
attemptVars == <<attempt_status, attempt_expires_at>>
reportVars == <<report_artifact_id, artifacts, bucket>>
vars == <<clock, jobVars, attemptVars, claim, request, reportVars, presence>>

JobStatus == {"none", "queued", "running", "succeeded", "failed", "cancelled"}
AttemptStatus == {"none", "running", "succeeded", "failed", "cancelled",
                  "lease_expired"}

Claim == [pc : {"idle", "called", "swept", "unclaimed", "updated",
                "rollback", "inserted", "held", "dead"},
          runner : Runners \cup {None}, type : Types,
          at : Nat, until : Nat,           \* claimedAt, expiresAt
          job : Jobs \cup {0}, number : Nat]  \* row.id, row.attempt_count

Request == [pc : {"idle", "heartbeat", "fail", "complete", "stored",
                  "discard", "registered"},
            lease : Claims \cup {None},
            at : Nat, until : Nat,         \* timestamp, expiresAt
            requeue : BOOLEAN]

Presence == [status : {"absent", "available"}, job : {0}]
            \cup [status : {"busy"}, job : Jobs]

IdleClaim == [pc |-> "idle", runner |-> None, type |-> "sampling",
              at |-> 0, until |-> 0, job |-> 0, number |-> 0]
IdleRequest == [pc |-> "idle", lease |-> None, at |-> 0, until |-> 0,
                requeue |-> FALSE]
Available == [status |-> "available", job |-> 0]
Busy(j) == [status |-> "busy", job |-> j]

TypeOK ==
    /\ clock \in Nat
    /\ status \in [Jobs -> JobStatus]
    /\ attempt_count \in [Jobs -> Nat]
    /\ max_attempts \in [Jobs -> Nat \ {0}]
    /\ lease_token_hash \in [Jobs -> Claims \cup {None}]
    /\ lease_expires_at \in [Jobs -> Nat]
    /\ cancellation_requested \in [Jobs -> BOOLEAN]
    /\ attempt_status \in [Claims -> AttemptStatus]
    /\ attempt_expires_at \in [Claims -> Nat]
    /\ claim \in [Claims -> Claim]
    /\ request \in [Requests -> Request]
    /\ report_artifact_id \in [Jobs -> Requests \cup {None}]
    /\ artifacts \in SUBSET Requests
    /\ bucket \in SUBSET Requests
    /\ presence \in [Runners -> Presence]

Init ==
    /\ clock = 0
    /\ status = [j \in Jobs |-> "none"]
    /\ attempt_count = [j \in Jobs |-> 0]
    /\ max_attempts = [j \in Jobs |-> MaxAttempts]
    /\ lease_token_hash = [j \in Jobs |-> None]
    /\ lease_expires_at = [j \in Jobs |-> 0]
    /\ cancellation_requested = [j \in Jobs |-> FALSE]
    /\ attempt_status = [c \in Claims |-> "none"]
    /\ attempt_expires_at = [c \in Claims |-> 0]
    /\ claim = [c \in Claims |-> IdleClaim]
    /\ request = [r \in Requests |-> IdleRequest]
    /\ report_artifact_id = [j \in Jobs |-> None]
    /\ artifacts = {}
    /\ bucket = {}
    /\ presence = [n \in Runners |-> [status |-> "absent", job |-> 0]]

-----------------------------------------------------------------------------
(***************************************************************************)
(* Predicates of the SQL                                                   *)
(***************************************************************************)

\* j is running under the unexpired lease c, as a call dated ts sees it.
LeaseActive(j, c, ts) ==
    /\ status[j] = "running"
    /\ lease_token_hash[j] = c
    /\ lease_expires_at[j] > ts

\* ... and the attempt the lease opened is still open (the EXISTS clause).
AttemptActive(j, c, ts) ==
    LeaseActive(j, c, ts) /\ attempt_status[c] = "running"

\* Mutants of Eligible: a takeover that forgets the expiry, and no takeover.
EligibleUnexpired(j, type, ts) ==
    /\ JobType[j] = type /\ ~cancellation_requested[j]
    /\ attempt_count[j] < max_attempts[j]
    /\ status[j] \in {"queued", "running"}
EligibleQueued(j, type, ts) ==
    /\ JobType[j] = type /\ ~cancellation_requested[j]
    /\ attempt_count[j] < max_attempts[j] /\ status[j] = "queued"

\* The WHERE of the claim's inner SELECT.  available_at is always NULL.
Eligible(j, type, ts) ==
    /\ JobType[j] = type
    /\ ~cancellation_requested[j]
    /\ attempt_count[j] < max_attempts[j]
    /\ \/ status[j] = "queued"
       \/ status[j] = "running" /\ lease_expires_at[j] <= ts

\* lease_owner: the runner whose claim minted the job's lease.
Owns(n, j) ==
    lease_token_hash[j] # None /\ claim[lease_token_hash[j]].runner = n

\* UNIQUE (job_id, attempt_number) would refuse the row of claim c.
NumberTaken(c) ==
    \E d \in Claims : /\ attempt_status[d] # "none"
                      /\ claim[d].job = claim[c].job
                      /\ claim[d].number = claim[c].number

\* Mutant: the job id stays in the row.
AvailabilityKeepsJob(j) ==
    presence' = [n \in Runners |->
        IF presence[n] = Busy(j) THEN [presence[n] EXCEPT !.status = "available"]
        ELSE presence[n]]

\* runnerAvailabilityAfterJobStatement, which asks nothing about the lease.
AvailabilityAfterJob(j) ==
    presence' = [n \in Runners |->
                    IF presence[n] = Busy(j) THEN Available ELSE presence[n]]

\* The clearing of the three lease columns, for the jobs of S.
ClearLease(S) ==
    /\ lease_token_hash' =
          [j \in Jobs |-> IF j \in S THEN None ELSE lease_token_hash[j]]
    /\ lease_expires_at' =
          [j \in Jobs |-> IF j \in S THEN 0 ELSE lease_expires_at[j]]

-----------------------------------------------------------------------------
(***************************************************************************)
(* Claiming                                                                *)
(***************************************************************************)

\* A runner polls: the handler takes claimedAt and expiresAt.
ClaimCall(c, n, type, seconds) ==
    /\ claim[c].pc = "idle"
    /\ claim' = [claim EXCEPT ![c] =
          [IdleClaim EXCEPT !.pc = "called", !.runner = n, !.type = type,
                            !.at = clock, !.until = clock + seconds]]
    /\ UNCHANGED <<clock, jobVars, attemptVars, request, reportVars, presence>>

\* The WHERE clauses of the sweep's second and third UPDATE.
Lapsed(j, ts) == status[j] = "running" /\ lease_expires_at[j] <= ts
AbandonedNever(ts) == {}  \* Mutant: the second UPDATE is missing.
Abandoned(ts) == {j \in Jobs : Lapsed(j, ts) /\ cancellation_requested[j]}
Exhausted(ts) == {j \in Jobs : /\ Lapsed(j, ts) /\ ~cancellation_requested[j]
                               /\ attempt_count[j] >= max_attempts[j]}

\* sweepExpired: close expired attempts, then cancel the expired jobs with a
\* cancellation request and fail those that used up their attempts.
ClaimSweep(c) ==
    LET ts == claim[c].at
    IN  /\ claim[c].pc = "called"
        /\ claim' = [claim EXCEPT ![c].pc = "swept"]
        /\ attempt_status' = [d \in Claims |->
              IF attempt_status[d] = "running" /\ attempt_expires_at[d] <= ts
                THEN "lease_expired" ELSE attempt_status[d]]
        /\ status' = [j \in Jobs |->
              IF j \in Abandoned(ts) THEN "cancelled"
              ELSE IF j \in Exhausted(ts) THEN "failed" ELSE status[j]]
        /\ ClearLease(Abandoned(ts) \cup Exhausted(ts))
        /\ UNCHANGED <<clock, attempt_count, max_attempts,
                       cancellation_requested, attempt_expires_at, request,
                       reportVars, presence>>

\* The conditional UPDATE takes the oldest eligible job.  The call keeps
\* only what its later statements read.
ClaimUpdate(c) ==
    /\ claim[c].pc = "swept"
    /\ \E j \in Jobs :
          /\ Eligible(j, claim[c].type, claim[c].at)
          /\ \A k \in Jobs :
                Eligible(k, claim[c].type, claim[c].at) => j <= k
          /\ status' = [status EXCEPT ![j] = "running"]
          /\ lease_token_hash' = [lease_token_hash EXCEPT ![j] = c]
          /\ lease_expires_at' =
                [lease_expires_at EXCEPT ![j] = claim[c].until]
          /\ attempt_count' = [attempt_count EXCEPT ![j] = @ + 1]
          /\ claim' = [claim EXCEPT ![c] =
                [IdleClaim EXCEPT !.pc = "updated", !.runner = claim[c].runner,
                                  !.until = claim[c].until, !.job = j,
                                  !.number = attempt_count[j] + 1]]
    /\ UNCHANGED <<clock, max_attempts, cancellation_requested, attemptVars,
                   request, reportVars, presence>>

ClaimNothing(c) ==
    /\ claim[c].pc = "swept"
    /\ \A j \in Jobs : ~Eligible(j, claim[c].type, claim[c].at)
    /\ claim' = [claim EXCEPT ![c].pc = "unclaimed"]
    /\ UNCHANGED <<clock, jobVars, attemptVars, request, reportVars, presence>>

\* recordIdleRunnerPresence: busy if the runner still holds a live lease.
ClaimIdle(c) ==
    LET n == claim[c].runner
        held == {j \in Jobs : /\ status[j] = "running" /\ Owns(n, j)
                              /\ lease_expires_at[j] > claim[c].at}
    IN  /\ claim[c].pc = "unclaimed"
        /\ \/ held = {} /\ presence' = [presence EXCEPT ![n] = Available]
           \/ \E j \in held : /\ \A k \in held : j <= k
                              /\ presence' = [presence EXCEPT ![n] = Busy(j)]
        /\ claim' = [claim EXCEPT ![c] = IdleClaim]
        /\ UNCHANGED <<clock, jobVars, attemptVars, request, reportVars>>

\* The attempt row is a second statement, after the UPDATE has committed.
InsertRow(c) ==
    /\ ~NumberTaken(c)
    /\ attempt_status' = [attempt_status EXCEPT ![c] = "running"]
    /\ attempt_expires_at' = [attempt_expires_at EXCEPT ![c] = claim[c].until]

ClaimInsert(c) ==
    /\ claim[c].pc = "updated"
    /\ \/ InsertRow(c) /\ claim' = [claim EXCEPT ![c].pc = "inserted"]
       \/ /\ "insert_ambiguous" \in Faults
          /\ InsertRow(c) /\ claim' = [claim EXCEPT ![c].pc = "rollback"]
       \/ /\ NumberTaken(c) \/ "insert_rejected" \in Faults
          /\ claim' = [claim EXCEPT ![c].pc = "rollback"]
          /\ UNCHANGED attemptVars
    /\ UNCHANGED <<clock, jobVars, request, reportVars, presence>>

\* Mutant: the rollback does not ask whether the lease is still its own.
ClaimRollbackAnyLease(c) ==
    LET j == claim[c].job
    IN  /\ claim[c].pc = "rollback"
        /\ IF status[j] = "running"
             THEN /\ status' = [status EXCEPT ![j] = "queued"]
                  /\ attempt_count' = [attempt_count EXCEPT ![j] = @ - 1]
                  /\ ClearLease({j})
             ELSE UNCHANGED <<status, attempt_count, lease_token_hash,
                              lease_expires_at>>
        /\ claim' = [claim EXCEPT ![c] = IdleClaim]
        /\ UNCHANGED <<clock, max_attempts, cancellation_requested,
                       attemptVars, request, reportVars, presence>>

\* The catch of the INSERT hands the job back if the lease is still ours.
\* The token was never returned; without a row, the call leaves no trace.
ClaimRollback(c) ==
    LET j == claim[c].job
    IN  /\ claim[c].pc = "rollback"
        /\ IF status[j] = "running" /\ lease_token_hash[j] = c
             THEN /\ status' = [status EXCEPT ![j] = "queued"]
                  /\ attempt_count' = [attempt_count EXCEPT ![j] = @ - 1]
                  /\ ClearLease({j})
             ELSE UNCHANGED <<status, attempt_count, lease_token_hash,
                              lease_expires_at>>
        /\ claim' = [claim EXCEPT ![c] =
                        IF attempt_status[c] = "none" THEN IdleClaim
                        ELSE [@ EXCEPT !.pc = "dead", !.until = 0]]
        /\ UNCHANGED <<clock, max_attempts, cancellation_requested,
                       attemptVars, request, reportVars, presence>>

\* recordRunnerPresence, after which the response carries the token.
ClaimAnnounce(c) ==
    /\ claim[c].pc = "inserted"
    /\ presence' = [presence EXCEPT ![claim[c].runner] = Busy(claim[c].job)]
    /\ claim' = [claim EXCEPT ![c].pc = "held", ![c].until = 0]
    /\ UNCHANGED <<clock, jobVars, attemptVars, request, reportVars>>

\* The Worker running the claim dies: the token never reaches the runner.
ClaimCrash(c) ==
    /\ "crash" \in Faults
    /\ claim[c].pc \in {"updated", "rollback", "inserted"}
    /\ claim' = [claim EXCEPT ![c].pc = "dead", ![c].until = 0]
    /\ UNCHANGED <<clock, jobVars, attemptVars, request, reportVars, presence>>

-----------------------------------------------------------------------------
(***************************************************************************)
(* Heartbeat, failure and completion of a leased job                       *)
(***************************************************************************)

\* A runner holding token c calls; the handler takes its timestamp before
\* it reads the body (fail, complete) or sends its batch (heartbeat).
Call(r, c, pc, until, requeue) ==
    /\ request[r].pc = "idle"
    /\ claim[c].pc = "held"
    /\ request' = [request EXCEPT ![r] =
          [pc |-> pc, lease |-> c, at |-> clock, until |-> until,
           requeue |-> requeue]]
    /\ UNCHANGED <<clock, jobVars, attemptVars, claim, reportVars, presence>>

HeartbeatCall(r, c, seconds) ==
    clock <= MaxClock /\ Call(r, c, "heartbeat", clock + seconds, FALSE)
FailCall(r, c, requeue) == Call(r, c, "fail", 0, requeue)
CompleteCall(r, c) ==
    /\ Call(r, c, "complete", 0, FALSE)
    /\ JobType[claim[c].job] = "evaluation"

\* The heartbeat's batch extends the job's and the attempt's lease together.
\* Its presence statement only refreshes times, which are not modelled.
HeartbeatCommit(r) ==
    LET c == request[r].lease
        j == claim[c].job
    IN  /\ request[r].pc = "heartbeat"
        /\ IF AttemptActive(j, c, request[r].at)
             THEN /\ lease_expires_at' =
                        [lease_expires_at EXCEPT ![j] = request[r].until]
                  /\ attempt_expires_at' =
                        [attempt_expires_at EXCEPT ![c] = request[r].until]
             ELSE UNCHANGED <<lease_expires_at, attempt_expires_at>>
        /\ request' = [request EXCEPT ![r] = IdleRequest]
        /\ UNCHANGED <<clock, status, attempt_count, max_attempts,
                       lease_token_hash, cancellation_requested,
                       attempt_status, claim, reportVars, presence>>

\* What a reported failure makes of the job, and of its attempt.
FailStatus(r) ==
    LET j == claim[request[r].lease].job
    IN  IF cancellation_requested[j] THEN "cancelled"
        ELSE IF request[r].requeue /\ attempt_count[j] < max_attempts[j]
        THEN "queued" ELSE "failed"

\* Mutant: a requeue leaves the attempt open.
AttemptAfterRequeue(s) == IF s = "queued" THEN "running" ELSE s
AttemptAfterFail(s) == IF s = "cancelled" THEN "cancelled" ELSE "failed"

\* finish, action "fail".
FailCommit(r) ==
    LET c == request[r].lease
        j == claim[c].job
    IN  /\ request[r].pc = "fail"
        /\ IF AttemptActive(j, c, request[r].at)
             THEN /\ status' = [status EXCEPT ![j] = FailStatus(r)]
                  /\ attempt_status' = [attempt_status EXCEPT ![c] =
                        AttemptAfterFail(FailStatus(r))]
                  /\ ClearLease({j})
             ELSE UNCHANGED <<status, attempt_status, lease_token_hash,
                              lease_expires_at>>
        /\ AvailabilityAfterJob(j)
        /\ request' = [request EXCEPT ![r] = IdleRequest]
        /\ UNCHANGED <<clock, attempt_count, max_attempts,
                       cancellation_requested, attempt_expires_at, claim,
                       reportVars>>

\* completeEvaluation: the validated report is stored under a fresh key.
CompleteStore(r) ==
    /\ request[r].pc = "complete"
    /\ bucket' = bucket \cup {r}
    /\ request' = [request EXCEPT ![r].pc = "stored"]
    /\ UNCHANGED <<clock, jobVars, attemptVars, claim, report_artifact_id,
                   artifacts, presence>>

\* The report fails validation before anything is stored.
CompleteReject(r) ==
    /\ request[r].pc = "complete"
    /\ request' = [request EXCEPT ![r] = IdleRequest]
    /\ UNCHANGED <<clock, jobVars, attemptVars, claim, reportVars, presence>>

\* Mutant: the completion does not look at the cancellation request.
CompletableCancelled(r) ==
    LeaseActive(claim[request[r].lease].job, request[r].lease, request[r].at)

\* The WHERE clause the completion's INSERT and job UPDATE share.
Completable(r) ==
    LET c == request[r].lease
        j == claim[c].job
    IN  /\ LeaseActive(j, c, request[r].at)
        /\ ~cancellation_requested[j]

\* The transaction registers the report and closes job and attempt.
CompleteBatch(r) ==
    LET c == request[r].lease
        j == claim[c].job
    IN  /\ AvailabilityAfterJob(j)
        /\ IF Completable(r)
             THEN /\ artifacts' = artifacts \cup {r}
                  /\ report_artifact_id' =
                        [report_artifact_id EXCEPT ![j] = r]
                  /\ status' = [status EXCEPT ![j] = "succeeded"]
                  /\ ClearLease({j})
                  /\ attempt_status' = [attempt_status EXCEPT ![c] =
                        IF @ = "running" THEN "succeeded" ELSE @]
             ELSE UNCHANGED <<artifacts, report_artifact_id, status,
                              lease_token_hash, lease_expires_at,
                              attempt_status>>

CompleteCommit(r) ==
    /\ request[r].pc = "stored"
    /\ \/ /\ CompleteBatch(r)
          /\ request' = [request EXCEPT ![r].pc =
                IF Completable(r) THEN "registered" ELSE "discard"]
       \/ /\ "batch_ambiguous" \in Faults
          /\ CompleteBatch(r)
          /\ request' = [request EXCEPT ![r].pc = "discard"]
       \/ /\ "batch_rejected" \in Faults
          /\ request' = [request EXCEPT ![r].pc = "discard"]
          /\ UNCHANGED <<jobVars, attempt_status, report_artifact_id,
                         artifacts, presence>>
    /\ UNCHANGED <<clock, attempt_count, max_attempts, cancellation_requested,
                   attempt_expires_at, claim, bucket>>

\* Mutant: the storage key names the attempt, not the call.
CompleteDiscardAttempt(r) ==
    /\ request[r].pc = "discard"
    /\ bucket' = {q \in bucket : request[q].lease # request[r].lease}
    /\ request' = [request EXCEPT ![r] =
          IF r \in artifacts THEN [@ EXCEPT !.pc = "registered"]
          ELSE IdleRequest]
    /\ UNCHANGED <<clock, jobVars, attemptVars, claim, report_artifact_id,
                   artifacts, presence>>

\* A caught error, or an update that matched no row: remove the object.
\* The DELETE of the artifact row finds none, or finds it referenced.
CompleteDiscard(r) ==
    /\ request[r].pc = "discard"
    /\ bucket' = bucket \ {r}
    /\ request' = [request EXCEPT ![r] =
          IF r \in artifacts THEN [@ EXCEPT !.pc = "registered"]
          ELSE IdleRequest]
    /\ UNCHANGED <<clock, jobVars, attemptVars, claim, report_artifact_id,
                   artifacts, presence>>

-----------------------------------------------------------------------------
(***************************************************************************)
(* Administrator                                                           *)
(***************************************************************************)

\* A sampling job or evaluation run is created, queued.  A request whose
\* idempotency key is taken, before the INSERT or by it, is answered with
\* the job that has it, and creates none.
Submit(j) ==
    /\ status[j] = "none"
    /\ \A k \in Jobs : k < j => status[k] # "none"
    /\ status' = [status EXCEPT ![j] = "queued"]
    /\ UNCHANGED <<clock, attempt_count, max_attempts, lease_token_hash,
                   lease_expires_at, cancellation_requested, attemptVars,
                   claim, request, reportVars, presence>>

\* The cancel handler's two UPDATEs.  The first does nothing to a job that
\* is not queued, so each is a step on its own.
CancelQueued(j) ==
    /\ status[j] = "queued"
    /\ status' = [status EXCEPT ![j] = "cancelled"]
    /\ cancellation_requested' = [cancellation_requested EXCEPT ![j] = TRUE]
    /\ UNCHANGED <<clock, attempt_count, max_attempts, lease_token_hash,
                   lease_expires_at, attemptVars, claim, request, reportVars,
                   presence>>

CancelRunning(j) ==
    /\ status[j] = "running"
    /\ ~cancellation_requested[j]
    /\ cancellation_requested' = [cancellation_requested EXCEPT ![j] = TRUE]
    /\ UNCHANGED <<clock, status, attempt_count, max_attempts,
                   lease_token_hash, lease_expires_at, attemptVars, claim,
                   request, reportVars, presence>>

\* Mutant: a retry accepts every terminal job.
RetryTerminal(j) ==
    /\ attempt_count[j] < AttemptLimit
    /\ status[j] \in {"failed", "cancelled", "succeeded"}
    /\ status' = [status EXCEPT ![j] = "queued"]
    /\ cancellation_requested' = [cancellation_requested EXCEPT ![j] = FALSE]
    /\ max_attempts' = [max_attempts EXCEPT ![j] =
          IF @ <= attempt_count[j] THEN attempt_count[j] + 1 ELSE @]
    /\ UNCHANGED <<clock, attempt_count, lease_token_hash, lease_expires_at,
                   attemptVars, claim, request, reportVars, presence>>

\* A retry raises max_attempts only where no attempt would be left.
Retry(j) ==
    /\ attempt_count[j] < AttemptLimit
    /\ status[j] \in {"failed", "cancelled"}
    /\ status' = [status EXCEPT ![j] = "queued"]
    /\ cancellation_requested' = [cancellation_requested EXCEPT ![j] = FALSE]
    /\ max_attempts' = [max_attempts EXCEPT ![j] =
          IF @ <= attempt_count[j] THEN attempt_count[j] + 1 ELSE @]
    /\ UNCHANGED <<clock, attempt_count, lease_token_hash, lease_expires_at,
                   attemptVars, claim, request, reportVars, presence>>

-----------------------------------------------------------------------------
\* Time.  Past MaxClock it passes only while a lease that no claim call is
\* still working on has time to run, so every lease can expire and the clock
\* is bounded by MaxClock and the attempts.
Tick ==
    /\ \/ clock < MaxClock
       \/ \E c \in Claims : /\ claim[c].pc \in {"held", "dead"}
                            /\ LeaseActive(claim[c].job, c, clock)
    /\ clock' = clock + 1
    /\ UNCHANGED <<jobVars, attemptVars, claim, request, reportVars, presence>>

ClaimStep(c) ==
    \/ ClaimSweep(c)
    \/ ClaimUpdate(c)
    \/ ClaimNothing(c)
    \/ ClaimIdle(c)
    \/ ClaimInsert(c)
    \/ ClaimRollback(c)
    \/ ClaimAnnounce(c)

RequestStep(r) ==
    \/ HeartbeatCommit(r)
    \/ FailCommit(r)
    \/ CompleteStore(r)
    \/ CompleteReject(r)
    \/ CompleteCommit(r)
    \/ CompleteDiscard(r)

\* Polls for a type without jobs would differ from idle polls in nothing.
Poll(c) ==
    \E n \in Runners, j \in Jobs, seconds \in LeaseSeconds :
        ClaimCall(c, n, JobType[j], seconds)

RunnerCall(r) ==
    \E c \in Claims :
        \/ \E seconds \in LeaseSeconds : HeartbeatCall(r, c, seconds)
        \/ \E requeue \in BOOLEAN : FailCall(r, c, requeue)
        \/ CompleteCall(r, c)

Admin(j) == Submit(j) \/ CancelQueued(j) \/ CancelRunning(j) \/ Retry(j)

Next ==
    \/ Tick
    \/ \E c \in Claims : Poll(c) \/ ClaimStep(c) \/ ClaimCrash(c)
    \/ \E r \in Requests : RunnerCall(r) \/ RequestStep(r)
    \/ \E j \in Jobs : Admin(j)

Spec == Init /\ [][Next]_vars

\* Runners poll for ever, a Worker that is not killed runs its handler to
\* the end, and time passes.  Nothing obliges a runner to report back.
Fairness ==
    /\ WF_vars(Tick)
    /\ WF_vars(\E c \in Claims : Poll(c))
    /\ \A c \in Claims : WF_vars(ClaimStep(c))
    /\ \A r \in Requests : WF_vars(RequestStep(r))

FairSpec == Spec /\ Fairness

-----------------------------------------------------------------------------
(***************************************************************************)
(* Safety                                                                  *)
(***************************************************************************)

\* The attempt of lease c is open and its lease has time left.
LiveAttempt(c) ==
    attempt_status[c] = "running" /\ attempt_expires_at[c] > clock

\* A live attempt's job runs under that attempt's lease, so a job never has
\* two live attempts and no job that left "running" has one: the sweep, the
\* two-step claim, its rollback and every finishing batch keep the two
\* tables in step (job-lifecycle.ts:70-106, 200-207, 286-303, 327-338).
ExclusiveLease ==
    \A c \in Claims : LiveAttempt(c) =>
        LET j == claim[c].job
        IN  status[j] = "running" /\ lease_token_hash[j] = c

\* The number a claim is about to insert is not taken by an earlier attempt
\* of the job, whatever claims were rolled back, abandoned or overtaken
\* meanwhile (job-lifecycle.ts:97-102; UNIQUE(job_id, attempt_number)).
FreshAttemptNumber ==
    \A c \in Claims : claim[c].pc = "updated" => ~NumberTaken(c)

\* Retries stay bounded, and no recorded attempt is forgotten by the count
\* that bounds them (job-lifecycle.ts:89, 100-102, 418).
AttemptsCounted ==
    /\ \A j \in Jobs : attempt_count[j] <= max_attempts[j]
    /\ \A c \in Claims : attempt_status[c] # "none" =>
          claim[c].number \in 1 .. attempt_count[claim[c].job]

\* A registered report keeps its object, a succeeded evaluation has a
\* registered report, and an unfinished one has none, however completion
\* calls of the same or of older leases overlap (job-lifecycle.ts:283-313).
ReportDurable ==
    /\ artifacts \subseteq bucket
    /\ \A j \in Jobs : JobType[j] = "evaluation" =>
          /\ status[j] = "succeeded" <=> report_artifact_id[j] # None
          /\ report_artifact_id[j] # None => report_artifact_id[j] \in artifacts

\* Once cancellation of a running job is requested, the job can only go on
\* running or be cancelled: a completion in flight cannot win, and a requeue
\* or a takeover cannot revive it (job-lifecycle.ts:73, 89, 295, 328).  Only a
\* claim whose INSERT failed may hand the job back, before its runner had it.
CancellationWins ==
    [][\A j \in Jobs : status[j] = "running" /\ cancellation_requested[j] =>
          \/ status'[j] \in {"running", "cancelled"}
          \/ status'[j] = "queued" /\ claim[lease_token_hash[j]].pc = "rollback"]_vars

\* The lease of a running job passes to another token only when it expired
\* (docs/internals-architecture.md:128-131; job-lifecycle.ts:89).
NoEarlyTakeover ==
    [][\A j \in Jobs :
          /\ status[j] = "running" /\ status'[j] = "running"
          /\ lease_token_hash'[j] # lease_token_hash[j]
          => lease_expires_at[j] <= clock]_vars

-----------------------------------------------------------------------------
(***************************************************************************)
(* Liveness, under Fairness                                                *)
(***************************************************************************)

\* Every job that is queued or running ends, even when each runner that
\* takes it disappears: expired leases are taken over until the attempts
\* are used up (docs/internals-architecture.md:137-140).
JobSettles ==
    \A j \in Jobs : status[j] \in {"queued", "running"} ~>
        status[j] \in {"succeeded", "failed", "cancelled"}

\* A cancellation request ends in a cancelled job, unless an administrator
\* retries the job (docs/internals-operations.md:22-24).
CancellationTerminates ==
    \A j \in Jobs : cancellation_requested[j] ~>
        status[j] = "cancelled" \/ ~cancellation_requested[j]

-----------------------------------------------------------------------------
(***************************************************************************)
(* What the documentation says and the code does not do                    *)
(***************************************************************************)

\* A job whose lease has expired does not succeed under it
\* (docs/internals-architecture.md:130-131: "an expired or superseded lease
\* cannot mutate the job").
ExpiredLeaseCannotComplete ==
    [][\A j \in Jobs : status[j] = "running" /\ lease_expires_at[j] <= clock
          => status'[j] # "succeeded"]_vars
=============================================================================
