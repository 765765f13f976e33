------------------------------ MODULE JobProofs ------------------------------
(***************************************************************************)
(* Proofs about JobLifecycle, its contract (JobRefinement) and the frame   *)
(* pipeline composed with it (ArtifactPipeline), for every number of jobs, *)
(* claims, requests, runners, artifacts and frame sets.                    *)
(*   1. types                              TypeInv                         *)
(*   2. leases and attempt numbers         ClaimInv                        *)
(*   3. evaluation reports                 ReportInv                       *)
(*   4. cancellations and the contract     TokenInv                        *)
(*   5. frame sets and manifest objects    OutcomeInv, ManifestsTended     *)
(*   6. the objects of a frame set         EvidenceInv                     *)
(*   7. the contract through the pipeline                                  *)
(***************************************************************************)
EXTENDS JobRefinement, PipelineInvariants, TLAPS

-----------------------------------------------------------------------------
(***************************************************************************)
(* 1. Type correctness of JobLifecycle.                                    *)
(***************************************************************************)

(***************************************************************************)
(* The records of calls and presence                                       *)
(***************************************************************************)

LEMMA IdleClaimType == IdleClaim \in Claim
  BY DEF IdleClaim, Claim, Types

LEMMA IdleRequestType == IdleRequest \in Request
  BY DEF IdleRequest, Request

LEMMA PresenceType ==
    Available \in Presence /\ \A j \in Jobs : Busy(j) \in Presence
  BY DEF Available, Busy, Presence

\* The fields of a claim that some step reads.
LEMMA ClaimFields ==
  ASSUME NEW x \in Claim
  PROVE  /\ x.runner \in Runners \cup {None} /\ x.type \in Types
         /\ x.at \in Nat /\ x.until \in Nat
         /\ x.job \in Jobs \cup {0} /\ x.number \in Nat
  BY DEF Claim

LEMMA RequestFields ==
  ASSUME NEW x \in Request
  PROVE  /\ x.lease \in Claims \cup {None} /\ x.at \in Nat /\ x.until \in Nat
         /\ x.requeue \in BOOLEAN
  BY DEF Request

LEMMA ClaimMoves ==
  ASSUME NEW x \in Claim,
         NEW p \in {"swept", "unclaimed", "rollback", "inserted", "held"},
         NEW y, y = [x EXCEPT !.pc = p]
  PROVE  y \in Claim /\ y.pc = p /\ y.job = x.job
  BY DEF Claim

LEMMA RequestMoves ==
  ASSUME NEW x \in Request, NEW p \in {"stored", "discard", "registered"},
         NEW y, y = [x EXCEPT !.pc = p]
  PROVE  y \in Request /\ y.lease = x.lease
  BY DEF Request

-----------------------------------------------------------------------------
LEMMA TypeInit == Init => TypeInv
  BY ConstantsAssumption, IdleClaimType, IdleRequestType
  DEF Init, TypeInv, TypeOK, JobStatus, AttemptStatus, Presence,
      RunningIsCounted, WinnersHaveJobs, CallsHoldLeases, Won,
      IdleClaim, IdleRequest

\* One claim call gets a new record; no call in flight depends on it.
LEMMA ClaimRecordStep ==
  ASSUME TypeInv, NEW c \in Claims, claim[c].pc # "held",
         NEW x \in Claim,
         x.pc \in {"updated", "rollback", "inserted", "held", "dead"}
            => x.job \in Jobs,
         claim' = [claim EXCEPT ![c] = x],
         request' = request
  PROVE  claim' \in [Claims -> Claim] /\ WinnersHaveJobs' /\ CallsHoldLeases'
  BY DEF TypeInv, TypeOK, WinnersHaveJobs, CallsHoldLeases, Won

\* One runner call gets a new record with a token its runner holds.
LEMMA RequestRecordStep ==
  ASSUME TypeInv, NEW r \in Requests, NEW x \in Request,
         x.pc # "idle" => x.lease \in Claims /\ claim[x.lease].pc = "held",
         request' = [request EXCEPT ![r] = x],
         claim' = claim
  PROVE  /\ claim' \in [Claims -> Claim] /\ request' \in [Requests -> Request]
         /\ WinnersHaveJobs' /\ CallsHoldLeases'
  BY DEF TypeInv, TypeOK, WinnersHaveJobs, CallsHoldLeases, Won

LEMMA CallTypes ==
  ASSUME TypeInv
  PROVE  /\ \A c \in Claims : claim[c] \in Claim
         /\ \A r \in Requests : request[r] \in Request
  BY DEF TypeInv, TypeOK

LEMMA ClaimCallType ==
  ASSUME TypeInv, NEW c \in Claims, Poll(c) PROVE TypeInv'
<1>1. PICK n \in Runners, j \in Jobs, s \in LeaseSeconds :
        ClaimCall(c, n, JobType[j], s)
  BY DEF Poll
<1>0. PICK x : x = [IdleClaim EXCEPT !.pc = "called", !.runner = n,
                   !.type = JobType[j], !.at = clock, !.until = clock + s]
  OBVIOUS
<1>2. JobType[j] \in Types /\ clock \in Nat /\ clock + s \in Nat
  BY ConstantsAssumption DEF TypeInv, TypeOK
<1>3. x \in Claim /\ x.pc = "called"
  BY <1>0, <1>2 DEF IdleClaim, Claim
<1>4. claim[c].pc = "idle" /\ claim' = [claim EXCEPT ![c] = x]
  BY <1>0, <1>1 DEF ClaimCall
<1>5. UNCHANGED <<clock, jobVars, attemptVars, request, reportVars, presence>>
  BY <1>1 DEF ClaimCall
<1>6. claim' \in [Claims -> Claim] /\ WinnersHaveJobs' /\ CallsHoldLeases'
  BY <1>3, <1>4, <1>5, ClaimRecordStep
<1>7. TypeOK' /\ RunningIsCounted'
  BY <1>5, <1>6 DEF TypeInv, TypeOK, RunningIsCounted, jobVars, attemptVars,
                    reportVars
<1>8. QED
  BY <1>6, <1>7 DEF TypeInv

LEMMA ClaimSweepType ==
  ASSUME TypeInv, NEW c \in Claims, ClaimSweep(c) PROVE TypeInv'
<1>0. PICK x : x = [claim[c] EXCEPT !.pc = "swept"]
  OBVIOUS
<1>1. x \in Claim /\ x.pc = "swept"
  BY <1>0, CallTypes, ClaimMoves
<1>2. /\ claim[c].pc = "called" /\ claim' = [claim EXCEPT ![c] = x]
      /\ request' = request
  BY <1>0 DEF ClaimSweep
<1>3. claim' \in [Claims -> Claim] /\ WinnersHaveJobs' /\ CallsHoldLeases'
  BY <1>1, <1>2, ClaimRecordStep
<1>4. TypeOK'
  BY <1>3 DEF ClaimSweep, ClearLease, TypeInv, TypeOK, JobStatus,
              AttemptStatus, reportVars
<1>5. RunningIsCounted'
  BY DEF ClaimSweep, TypeInv, RunningIsCounted, TypeOK
<1>6. QED
  BY <1>3, <1>4, <1>5 DEF TypeInv

LEMMA ClaimUpdateType ==
  ASSUME TypeInv, NEW c \in Claims, ClaimUpdate(c) PROVE TypeInv'
<1>1. PICK j \in Jobs :
        /\ status' = [status EXCEPT ![j] = "running"]
        /\ lease_token_hash' = [lease_token_hash EXCEPT ![j] = c]
        /\ lease_expires_at' = [lease_expires_at EXCEPT ![j] = claim[c].until]
        /\ attempt_count' = [attempt_count EXCEPT ![j] = @ + 1]
        /\ claim' = [claim EXCEPT ![c] =
              [IdleClaim EXCEPT !.pc = "updated", !.runner = claim[c].runner,
                                !.until = claim[c].until, !.job = j,
                                !.number = attempt_count[j] + 1]]
  BY DEF ClaimUpdate
<1>2. /\ claim[c].pc = "swept"
      /\ UNCHANGED <<clock, max_attempts, cancellation_requested, attemptVars,
                     request, reportVars, presence>>
  BY DEF ClaimUpdate
<1>0. PICK x : x = [IdleClaim EXCEPT !.pc = "updated", !.runner = claim[c].runner,
                                  !.until = claim[c].until, !.job = j,
                                  !.number = attempt_count[j] + 1]
  OBVIOUS
<1>3. /\ claim[c].runner \in Runners \cup {None} /\ claim[c].until \in Nat
      /\ attempt_count[j] + 1 \in Nat
  BY CallTypes, ClaimFields DEF TypeInv, TypeOK
<1>4. x \in Claim /\ x.pc = "updated" /\ x.job = j
  BY <1>0, <1>3 DEF IdleClaim, Claim, Types
<1>5. claim' = [claim EXCEPT ![c] = x]
  BY <1>0, <1>1
<1>6. claim' \in [Claims -> Claim] /\ WinnersHaveJobs' /\ CallsHoldLeases'
  BY <1>2, <1>4, <1>5, ClaimRecordStep
<1>7. TypeOK'
  BY <1>1, <1>2, <1>3, <1>6
  DEF TypeInv, TypeOK, JobStatus, attemptVars, reportVars
<1>8. RunningIsCounted'
  BY <1>1 DEF TypeInv, RunningIsCounted, TypeOK
<1>9. QED
  BY <1>6, <1>7, <1>8 DEF TypeInv

LEMMA ClaimNothingType ==
  ASSUME TypeInv, NEW c \in Claims, ClaimNothing(c) PROVE TypeInv'
<1>0. PICK x : x = [claim[c] EXCEPT !.pc = "unclaimed"]
  OBVIOUS
<1>1. x \in Claim /\ x.pc = "unclaimed"
  BY <1>0, CallTypes, ClaimMoves
<1>2. /\ claim[c].pc = "swept" /\ claim' = [claim EXCEPT ![c] = x]
      /\ UNCHANGED <<clock, jobVars, attemptVars, request, reportVars, presence>>
  BY <1>0 DEF ClaimNothing
<1>3. claim' \in [Claims -> Claim] /\ WinnersHaveJobs' /\ CallsHoldLeases'
  BY <1>1, <1>2, ClaimRecordStep
<1>4. QED
  BY <1>2, <1>3 DEF TypeInv, TypeOK, RunningIsCounted, jobVars, attemptVars,
                    reportVars

LEMMA ClaimIdleType ==
  ASSUME TypeInv, NEW c \in Claims, ClaimIdle(c) PROVE TypeInv'
<1>1. /\ claim[c].pc = "unclaimed"
      /\ claim' = [claim EXCEPT ![c] = IdleClaim]
      /\ UNCHANGED <<clock, jobVars, attemptVars, request, reportVars>>
  BY DEF ClaimIdle
<1>2. \E p \in Presence : presence' = [presence EXCEPT ![claim[c].runner] = p]
  BY PresenceType DEF ClaimIdle
<1>3. claim' \in [Claims -> Claim] /\ WinnersHaveJobs' /\ CallsHoldLeases'
  BY <1>1, IdleClaimType, ClaimRecordStep DEF IdleClaim
<1>4. QED
  BY <1>1, <1>2, <1>3 DEF TypeInv, TypeOK, RunningIsCounted, jobVars,
                          attemptVars, reportVars

LEMMA ClaimInsertType ==
  ASSUME TypeInv, NEW c \in Claims, ClaimInsert(c) PROVE TypeInv'
<1>1. PICK p \in {"inserted", "rollback"} :
        claim' = [claim EXCEPT ![c] = [claim[c] EXCEPT !.pc = p]]
  BY DEF ClaimInsert
<1>2. /\ claim[c].pc = "updated"
      /\ UNCHANGED <<clock, jobVars, request, reportVars, presence>>
  BY DEF ClaimInsert
<1>0. PICK x : x = [claim[c] EXCEPT !.pc = p]
  OBVIOUS
<1>3. x \in Claim /\ x.job = claim[c].job /\ claim[c].job \in Jobs
  BY <1>0, <1>2, CallTypes, ClaimMoves DEF TypeInv, WinnersHaveJobs, Won
<1>4. claim' = [claim EXCEPT ![c] = x]
  BY <1>0, <1>1
<1>5. claim' \in [Claims -> Claim] /\ WinnersHaveJobs' /\ CallsHoldLeases'
  BY <1>2, <1>3, <1>4, ClaimRecordStep
<1>6. claim[c].until \in Nat
  BY CallTypes, ClaimFields
<1>7. /\ attempt_status' \in [Claims -> AttemptStatus]
      /\ attempt_expires_at' \in [Claims -> Nat]
  BY <1>6 DEF ClaimInsert, InsertRow, TypeInv, TypeOK, AttemptStatus, attemptVars
<1>8. QED
  BY <1>2, <1>5, <1>7 DEF TypeInv, TypeOK, RunningIsCounted, jobVars, reportVars

LEMMA ClaimRollbackType ==
  ASSUME TypeInv, NEW c \in Claims, ClaimRollback(c) PROVE TypeInv'
<1>1. PICK x : /\ x \in {IdleClaim, [claim[c] EXCEPT !.pc = "dead", !.until = 0]}
               /\ claim' = [claim EXCEPT ![c] = x]
  BY DEF ClaimRollback
<1>2. /\ claim[c].pc = "rollback"
      /\ UNCHANGED <<clock, max_attempts, cancellation_requested, attemptVars,
                     request, reportVars, presence>>
  BY DEF ClaimRollback
<1>3. claim[c].job \in Jobs
  BY <1>2 DEF TypeInv, WinnersHaveJobs, Won
<1>4. x \in Claim /\ x.pc \in {"idle", "dead"} /\ (x.pc = "dead" => x.job \in Jobs)
  <2>1. CASE x = IdleClaim
    BY <2>1, IdleClaimType DEF IdleClaim
  <2>2. CASE x = [claim[c] EXCEPT !.pc = "dead", !.until = 0]
    <3>1. claim[c] \in Claim
      BY CallTypes
    <3>2. QED
      BY <1>3, <2>2, <3>1 DEF Claim
  <2>3. QED
    BY <1>1, <2>1, <2>2
<1>5. claim' \in [Claims -> Claim] /\ WinnersHaveJobs' /\ CallsHoldLeases'
  BY <1>1, <1>2, <1>4, ClaimRecordStep
<1>6. /\ status' \in [Jobs -> JobStatus] /\ attempt_count' \in [Jobs -> Nat]
      /\ RunningIsCounted'
  BY <1>3 DEF ClaimRollback, TypeInv, TypeOK, RunningIsCounted, JobStatus
<1>7. /\ lease_token_hash' \in [Jobs -> Claims \cup {None}]
      /\ lease_expires_at' \in [Jobs -> Nat]
  BY DEF ClaimRollback, ClearLease, TypeInv, TypeOK
<1>8. QED
  BY <1>2, <1>5, <1>6, <1>7 DEF TypeInv, TypeOK, attemptVars, reportVars

\* A claim leaves its call for good: announced, or dead.
LEMMA ClaimEndStep ==
  ASSUME TypeInv, NEW c \in Claims, NEW p \in {"held", "dead"},
         claim[c].pc \in {"updated", "rollback", "inserted"},
         claim' = [claim EXCEPT ![c] = [claim[c] EXCEPT !.pc = p, !.until = 0]],
         request' = request
  PROVE  claim' \in [Claims -> Claim] /\ WinnersHaveJobs' /\ CallsHoldLeases'
<1>0. PICK x : x = [claim[c] EXCEPT !.pc = p, !.until = 0]
  OBVIOUS
<1>1. x \in Claim /\ x.job \in Jobs
  <2>1. claim[c] \in Claim /\ claim[c].job \in Jobs
    BY CallTypes DEF TypeInv, WinnersHaveJobs, Won
  <2>2. QED
    BY <1>0, <2>1 DEF Claim
<1>2. claim' = [claim EXCEPT ![c] = x]
  BY <1>0
<1>3. QED
  BY <1>1, <1>2, ClaimRecordStep

LEMMA ClaimAnnounceType ==
  ASSUME TypeInv, NEW c \in Claims, ClaimAnnounce(c) PROVE TypeInv'
<1>1. /\ claim[c].pc = "inserted"
      /\ claim' = [claim EXCEPT ![c] = [claim[c] EXCEPT !.pc = "held", !.until = 0]]
      /\ UNCHANGED <<clock, jobVars, attemptVars, request, reportVars>>
  BY DEF ClaimAnnounce
<1>2. claim' \in [Claims -> Claim] /\ WinnersHaveJobs' /\ CallsHoldLeases'
  BY <1>1, ClaimEndStep
<1>3. presence' \in [Runners -> Presence]
  BY <1>1, PresenceType DEF ClaimAnnounce, TypeInv, TypeOK, WinnersHaveJobs, Won
<1>4. QED
  BY <1>1, <1>2, <1>3 DEF TypeInv, TypeOK, RunningIsCounted, jobVars,
                          attemptVars, reportVars

LEMMA ClaimCrashType ==
  ASSUME TypeInv, NEW c \in Claims, ClaimCrash(c) PROVE TypeInv'
<1>1. /\ claim[c].pc \in {"updated", "rollback", "inserted"}
      /\ claim' = [claim EXCEPT ![c] = [claim[c] EXCEPT !.pc = "dead", !.until = 0]]
      /\ UNCHANGED <<clock, jobVars, attemptVars, request, reportVars, presence>>
  BY DEF ClaimCrash
<1>2. claim' \in [Claims -> Claim] /\ WinnersHaveJobs' /\ CallsHoldLeases'
  BY <1>1, ClaimEndStep
<1>3. QED
  BY <1>1, <1>2 DEF TypeInv, TypeOK, RunningIsCounted, jobVars, attemptVars,
                    reportVars

LEMMA RunnerCallType ==
  ASSUME TypeInv, NEW r \in Requests, RunnerCall(r) PROVE TypeInv'
<1>1. PICK c \in Claims, pc \in {"heartbeat", "fail", "complete"}, u \in Nat,
           q \in BOOLEAN : Call(r, c, pc, u, q)
  <2>1. PICK c \in Claims : \/ \E s \in LeaseSeconds : HeartbeatCall(r, c, s)
                            \/ \E q \in BOOLEAN : FailCall(r, c, q)
                            \/ CompleteCall(r, c)
    BY DEF RunnerCall
  <2>2. \A s \in LeaseSeconds : clock + s \in Nat
    BY ConstantsAssumption DEF TypeInv, TypeOK
  <2>3. CASE \E s \in LeaseSeconds : HeartbeatCall(r, c, s)
    BY <2>2, <2>3 DEF HeartbeatCall
  <2>4. CASE \E q \in BOOLEAN : FailCall(r, c, q)
    BY <2>4 DEF FailCall
  <2>5. CASE CompleteCall(r, c)
    BY <2>5 DEF CompleteCall
  <2>6. QED
    BY <2>1, <2>3, <2>4, <2>5
<1>2. PICK x : x = [pc |-> pc, lease |-> c, at |-> clock, until |-> u,
                    requeue |-> q]
  OBVIOUS
<1>3. x \in Request /\ x.lease = c
  BY <1>2 DEF Request, TypeInv, TypeOK
<1>4. /\ claim[c].pc = "held" /\ request' = [request EXCEPT ![r] = x]
      /\ UNCHANGED <<clock, jobVars, attemptVars, claim, reportVars, presence>>
  BY <1>1, <1>2 DEF Call
<1>5. /\ claim' \in [Claims -> Claim] /\ request' \in [Requests -> Request]
      /\ WinnersHaveJobs' /\ CallsHoldLeases'
  BY <1>3, <1>4, RequestRecordStep
<1>6. QED
  BY <1>4, <1>5 DEF TypeInv, TypeOK, RunningIsCounted, jobVars, attemptVars,
                    reportVars

\* A call in flight knows its lease and, through it, its job.
LEMMA CallInFlight ==
  ASSUME TypeInv, NEW r \in Requests, request[r].pc # "idle"
  PROVE  /\ request[r].lease \in Claims
         /\ claim[request[r].lease].pc = "held"
         /\ claim[request[r].lease].job \in Jobs
         /\ request[r].at \in Nat /\ request[r].until \in Nat
         /\ request[r].requeue \in BOOLEAN
  BY CallTypes, RequestFields DEF TypeInv, CallsHoldLeases, WinnersHaveJobs, Won

\* The call is over.
LEMMA RequestEndStep ==
  ASSUME TypeInv, NEW r \in Requests,
         request' = [request EXCEPT ![r] = IdleRequest], claim' = claim
  PROVE  /\ claim' \in [Claims -> Claim] /\ request' \in [Requests -> Request]
         /\ WinnersHaveJobs' /\ CallsHoldLeases'
  BY IdleRequestType, RequestRecordStep DEF IdleRequest

\* The call goes on.
LEMMA RequestMoveStep ==
  ASSUME TypeInv, NEW r \in Requests, request[r].pc # "idle",
         NEW p \in {"stored", "discard", "registered"},
         request' = [request EXCEPT ![r] = [request[r] EXCEPT !.pc = p]],
         claim' = claim
  PROVE  /\ claim' \in [Claims -> Claim] /\ request' \in [Requests -> Request]
         /\ WinnersHaveJobs' /\ CallsHoldLeases'
<1>1. PICK x : x = [request[r] EXCEPT !.pc = p]
  OBVIOUS
<1>2. /\ request[r] \in Request /\ request[r].lease \in Claims
      /\ claim[request[r].lease].pc = "held"
  BY CallTypes, CallInFlight
<1>3. x \in Request /\ x.lease = request[r].lease
  BY <1>1, <1>2, RequestMoves
<1>4. request' = [request EXCEPT ![r] = x]
  BY <1>1
<1>5. QED
  BY <1>2, <1>3, <1>4, RequestRecordStep

LEMMA HeartbeatCommitType ==
  ASSUME TypeInv, NEW r \in Requests, HeartbeatCommit(r) PROVE TypeInv'
<1>1. /\ request[r].pc = "heartbeat"
      /\ request' = [request EXCEPT ![r] = IdleRequest]
      /\ UNCHANGED <<clock, status, attempt_count, max_attempts,
                     lease_token_hash, cancellation_requested,
                     attempt_status, claim, reportVars, presence>>
  BY DEF HeartbeatCommit
<1>2. request[r].until \in Nat
  BY <1>1, CallInFlight
<1>3. /\ claim' \in [Claims -> Claim] /\ request' \in [Requests -> Request]
      /\ WinnersHaveJobs' /\ CallsHoldLeases'
  BY <1>1, RequestEndStep
<1>4. /\ lease_expires_at' \in [Jobs -> Nat]
      /\ attempt_expires_at' \in [Claims -> Nat]
  BY <1>2 DEF HeartbeatCommit, TypeInv, TypeOK
<1>5. QED
  BY <1>1, <1>3, <1>4 DEF TypeInv, TypeOK, RunningIsCounted, reportVars

LEMMA AvailabilityType ==
  ASSUME TypeInv, NEW j \in Jobs, AvailabilityAfterJob(j)
  PROVE  presence' \in [Runners -> Presence]
  BY PresenceType DEF AvailabilityAfterJob, TypeInv, TypeOK

LEMMA FailCommitType ==
  ASSUME TypeInv, NEW r \in Requests, FailCommit(r) PROVE TypeInv'
<1>1. /\ request[r].pc = "fail"
      /\ request' = [request EXCEPT ![r] = IdleRequest]
      /\ AvailabilityAfterJob(claim[request[r].lease].job)
      /\ UNCHANGED <<clock, attempt_count, max_attempts,
                     cancellation_requested, attempt_expires_at, claim,
                     reportVars>>
  BY DEF FailCommit
<1>2. claim[request[r].lease].job \in Jobs /\ request[r].lease \in Claims
  BY <1>1, CallInFlight
<1>3. /\ claim' \in [Claims -> Claim] /\ request' \in [Requests -> Request]
      /\ WinnersHaveJobs' /\ CallsHoldLeases'
  BY <1>1, RequestEndStep
<1>4. presence' \in [Runners -> Presence]
  BY <1>1, <1>2, AvailabilityType
<1>5. FailStatus(r) \in {"cancelled", "queued", "failed"}
  BY DEF FailStatus
<1>6. status' \in [Jobs -> JobStatus] /\ RunningIsCounted'
  BY <1>1, <1>2, <1>5
  DEF FailCommit, TypeInv, TypeOK, JobStatus, RunningIsCounted
<1>7. attempt_status' \in [Claims -> AttemptStatus]
  BY <1>2 DEF FailCommit, TypeInv, TypeOK, AttemptAfterFail, AttemptStatus
<1>8. /\ lease_token_hash' \in [Jobs -> Claims \cup {None}]
      /\ lease_expires_at' \in [Jobs -> Nat]
  BY DEF FailCommit, ClearLease, TypeInv, TypeOK
<1>9. QED
  BY <1>1, <1>3, <1>4, <1>6, <1>7, <1>8 DEF TypeInv, TypeOK, reportVars

LEMMA CompleteStoreType ==
  ASSUME TypeInv, NEW r \in Requests, CompleteStore(r) PROVE TypeInv'
<1>1. /\ request[r].pc = "complete"
      /\ request' = [request EXCEPT ![r] = [request[r] EXCEPT !.pc = "stored"]]
      /\ bucket' = bucket \cup {r}
      /\ UNCHANGED <<clock, jobVars, attemptVars, claim, report_artifact_id,
                     artifacts, presence>>
  BY DEF CompleteStore
<1>2. /\ claim' \in [Claims -> Claim] /\ request' \in [Requests -> Request]
      /\ WinnersHaveJobs' /\ CallsHoldLeases'
  BY <1>1, RequestMoveStep
<1>3. QED
  BY <1>1, <1>2 DEF TypeInv, TypeOK, RunningIsCounted, jobVars, attemptVars

LEMMA CompleteRejectType ==
  ASSUME TypeInv, NEW r \in Requests, CompleteReject(r) PROVE TypeInv'
<1>1. /\ request' = [request EXCEPT ![r] = IdleRequest]
      /\ UNCHANGED <<clock, jobVars, attemptVars, claim, reportVars, presence>>
  BY DEF CompleteReject
<1>2. /\ claim' \in [Claims -> Claim] /\ request' \in [Requests -> Request]
      /\ WinnersHaveJobs' /\ CallsHoldLeases'
  BY <1>1, RequestEndStep
<1>3. QED
  BY <1>1, <1>2 DEF TypeInv, TypeOK, RunningIsCounted, jobVars, attemptVars,
                    reportVars

LEMMA CompleteCommitType ==
  ASSUME TypeInv, NEW r \in Requests, CompleteCommit(r) PROVE TypeInv'
<1>1. PICK p \in {"registered", "discard"} :
        request' = [request EXCEPT ![r] = [request[r] EXCEPT !.pc = p]]
  BY DEF CompleteCommit
<1>2. /\ request[r].pc = "stored"
      /\ UNCHANGED <<clock, attempt_count, max_attempts,
                     cancellation_requested, attempt_expires_at, claim, bucket>>
  BY DEF CompleteCommit
<1>3. claim[request[r].lease].job \in Jobs /\ request[r].lease \in Claims
  BY <1>2, CallInFlight
<1>4. /\ claim' \in [Claims -> Claim] /\ request' \in [Requests -> Request]
      /\ WinnersHaveJobs' /\ CallsHoldLeases'
  BY <1>1, <1>2, RequestMoveStep
<1>5. /\ presence' \in [Runners -> Presence]
      /\ status' \in [Jobs -> JobStatus] /\ RunningIsCounted'
      /\ attempt_status' \in [Claims -> AttemptStatus]
      /\ lease_token_hash' \in [Jobs -> Claims \cup {None}]
      /\ lease_expires_at' \in [Jobs -> Nat]
      /\ report_artifact_id' \in [Jobs -> Requests \cup {None}]
      /\ artifacts' \in SUBSET Requests
  <2>1. CASE CompleteBatch(r)
    <3>1. presence' \in [Runners -> Presence]
      BY <1>3, <2>1, AvailabilityType DEF CompleteBatch
    <3>2. status' \in [Jobs -> JobStatus] /\ RunningIsCounted'
      BY <1>2, <1>3, <2>1
      DEF CompleteBatch, TypeInv, TypeOK, JobStatus, RunningIsCounted
    <3>3. attempt_status' \in [Claims -> AttemptStatus]
      BY <1>3, <2>1 DEF CompleteBatch, TypeInv, TypeOK, AttemptStatus
    <3>4. /\ lease_token_hash' \in [Jobs -> Claims \cup {None}]
          /\ lease_expires_at' \in [Jobs -> Nat]
      BY <2>1 DEF CompleteBatch, ClearLease, TypeInv, TypeOK
    <3>5. /\ report_artifact_id' \in [Jobs -> Requests \cup {None}]
          /\ artifacts' \in SUBSET Requests
      BY <1>3, <2>1 DEF CompleteBatch, TypeInv, TypeOK
    <3>6. QED
      BY <3>1, <3>2, <3>3, <3>4, <3>5
  <2>2. CASE UNCHANGED <<jobVars, attempt_status, report_artifact_id,
                         artifacts, presence>>
    BY <2>2 DEF TypeInv, TypeOK, RunningIsCounted, jobVars
  <2>3. QED
    BY <2>1, <2>2 DEF CompleteCommit
<1>6. QED
  BY <1>2, <1>4, <1>5 DEF TypeInv, TypeOK

LEMMA CompleteDiscardType ==
  ASSUME TypeInv, NEW r \in Requests, CompleteDiscard(r) PROVE TypeInv'
<1>1. /\ request[r].pc = "discard" /\ bucket' = bucket \ {r}
      /\ UNCHANGED <<clock, jobVars, attemptVars, claim, report_artifact_id,
                     artifacts, presence>>
  BY DEF CompleteDiscard
<1>2. \/ request' = [request EXCEPT ![r] = IdleRequest]
      \/ request' = [request EXCEPT ![r] = [request[r] EXCEPT !.pc = "registered"]]
  BY DEF CompleteDiscard
<1>3. /\ claim' \in [Claims -> Claim] /\ request' \in [Requests -> Request]
      /\ WinnersHaveJobs' /\ CallsHoldLeases'
  BY <1>1, <1>2, RequestEndStep, RequestMoveStep
<1>4. QED
  BY <1>1, <1>3 DEF TypeInv, TypeOK, RunningIsCounted, jobVars, attemptVars

LEMMA AdminType ==
  ASSUME TypeInv, NEW j \in Jobs, Admin(j) PROVE TypeInv'
<1>1. UNCHANGED <<clock, attempt_count, lease_token_hash, lease_expires_at,
                  attemptVars, claim, request, reportVars, presence>>
  BY DEF Admin, Submit, CancelQueued, CancelRunning, Retry
<1>2. /\ status' \in [Jobs -> JobStatus]
      /\ max_attempts' \in [Jobs -> Nat \ {0}]
      /\ cancellation_requested' \in [Jobs -> BOOLEAN]
      /\ RunningIsCounted'
  <2>1. CASE Submit(j)
    BY <2>1 DEF Submit, TypeInv, TypeOK, JobStatus, RunningIsCounted
  <2>2. CASE CancelQueued(j)
    BY <2>2 DEF CancelQueued, TypeInv, TypeOK, JobStatus, RunningIsCounted
  <2>3. CASE CancelRunning(j)
    BY <2>3 DEF CancelRunning, TypeInv, TypeOK, RunningIsCounted
  <2>4. CASE Retry(j)
    BY <2>4 DEF Retry, TypeInv, TypeOK, JobStatus, RunningIsCounted
  <2>5. QED
    BY <2>1, <2>2, <2>3, <2>4 DEF Admin
<1>3. WinnersHaveJobs' /\ CallsHoldLeases'
  BY <1>1 DEF TypeInv, WinnersHaveJobs, CallsHoldLeases, Won
<1>4. QED
  BY <1>1, <1>2, <1>3 DEF TypeInv, TypeOK, attemptVars, reportVars

-----------------------------------------------------------------------------
LEMMA TypeStep == TypeInv /\ [Next]_vars => TypeInv'
<1> SUFFICES ASSUME TypeInv, [Next]_vars PROVE TypeInv'
  OBVIOUS
<1>1. CASE UNCHANGED vars
  BY <1>1 DEF vars, jobVars, attemptVars, reportVars, TypeInv, TypeOK,
              RunningIsCounted, WinnersHaveJobs, CallsHoldLeases, Won
<1>2. CASE Tick
  BY <1>2 DEF Tick, jobVars, attemptVars, reportVars, TypeInv, TypeOK,
              RunningIsCounted, WinnersHaveJobs, CallsHoldLeases, Won
<1>3. ASSUME NEW c \in Claims, Poll(c) \/ ClaimStep(c) \/ ClaimCrash(c)
      PROVE  TypeInv'
  BY <1>3, ClaimCallType, ClaimSweepType, ClaimUpdateType, ClaimNothingType,
     ClaimIdleType, ClaimInsertType, ClaimRollbackType, ClaimAnnounceType,
     ClaimCrashType
  DEF ClaimStep
<1>4. ASSUME NEW r \in Requests, RunnerCall(r) \/ RequestStep(r)
      PROVE  TypeInv'
  BY <1>4, RunnerCallType, HeartbeatCommitType, FailCommitType,
     CompleteStoreType, CompleteRejectType, CompleteCommitType,
     CompleteDiscardType
  DEF RequestStep
<1>5. ASSUME NEW j \in Jobs, Admin(j) PROVE TypeInv'
  BY <1>5, AdminType
<1>6. QED
  BY <1>1, <1>2, <1>3, <1>4, <1>5 DEF Next

\* Type correctness: in particular a rollback never takes attempt_count
\* below zero, and presence names a job exactly when it says busy.
THEOREM TypeCorrect == Spec => []TypeOK
<1>1. TypeInv => TypeOK
  BY DEF TypeInv
<1>2. QED
  BY <1>1, TypeInit, TypeStep, PTL DEF Spec

-----------------------------------------------------------------------------
(***************************************************************************)
(* 2. Leases and attempt numbers of JobLifecycle: no two live attempts of  *)
(* a job, no reused attempt number, no early takeover.                     *)
(***************************************************************************)

\* The parts of ClaimInv beyond TypeInv.
Rest == TokensAreWon /\ ClaimsArePast /\ AttemptsHaveClaims /\ ExpiriesAgree
        /\ NumbersInv

LEMMA ClaimInvParts == ClaimInv <=> TypeInv /\ Rest
  BY DEF ClaimInv, LeaseInv, Rest

LEMMA ClaimInvInit == Init => ClaimInv
<1> SUFFICES ASSUME Init PROVE ClaimInv
  OBVIOUS
<1>1. TypeInv
  BY TypeInit
<1>2. Rest
  BY ConstantsAssumption
  DEF Init, Rest, TokensAreWon, ClaimsArePast, AttemptsHaveClaims,
      ExpiriesAgree, NumbersInv, Won, IdleClaim
<1>3. QED
  BY <1>1, <1>2, ClaimInvParts

\* Steps that touch no lease, no attempt and no claim; time may pass and a
\* retry may raise a limit.
LEMMA OtherStep ==
  ASSUME ClaimInv, TypeOK', clock <= clock',
         UNCHANGED <<lease_token_hash, lease_expires_at, attempt_count,
                     attemptVars, claim>>,
         \A j \in Jobs : /\ status[j] = "running" => status'[j] = "running"
                         /\ max_attempts[j] <= max_attempts'[j]
  PROVE  Rest'
<1>1. TokensAreWon' /\ AttemptsHaveClaims'
  BY DEF ClaimInv, LeaseInv, TokensAreWon, AttemptsHaveClaims, Won, attemptVars
<1>2. ClaimsArePast'
  BY CallTypes, ClaimFields
  DEF ClaimInv, LeaseInv, TypeInv, TypeOK, ClaimsArePast
<1>3. ExpiriesAgree'
  BY CallTypes, ClaimFields
  DEF ClaimInv, LeaseInv, TypeInv, TypeOK, ExpiriesAgree, ExpiryKnown, attemptVars
<1>4. NumbersInv'
  BY DEF ClaimInv, LeaseInv, TypeInv, TypeOK, NumbersInv, Won
<1>5. QED
  BY <1>1, <1>2, <1>3, <1>4 DEF Rest

\* A claim that has won nothing goes on or ends.
LEMMA QuietClaimStep ==
  ASSUME ClaimInv, NEW c \in Claims, ~Won(c), NEW x \in Claim,
         x.pc \in {"idle", "called", "unclaimed"},
         x.pc = "called" => x.at <= clock,
         claim' = [claim EXCEPT ![c] = x],
         UNCHANGED <<clock, jobVars, attemptVars>>
  PROVE  Rest'
<1> USE DEF ClaimInv, LeaseInv, TypeInv, TypeOK, jobVars, attemptVars
<1>1. TokensAreWon' /\ AttemptsHaveClaims'
  BY DEF TokensAreWon, AttemptsHaveClaims, Won
<1>2. ClaimsArePast'
  BY DEF ClaimsArePast
<1>3. ExpiriesAgree'
  BY DEF ExpiriesAgree, ExpiryKnown, AttemptsHaveClaims, Won
<1>4. NumbersInv'
  BY DEF NumbersInv, TokensAreWon, Won
<1>5. QED
  BY <1>1, <1>2, <1>3, <1>4 DEF Rest

\* A winner goes on or dies, and keeps what it won.
LEMMA WinnerMoves ==
  ASSUME ClaimInv, NEW c \in Claims, Won(c), NEW x \in Claim,
         x.pc \in {"rollback", "held", "dead"},
         attempt_status[c] # "none" => x.pc # "rollback",
         x.job = claim[c].job, x.number = claim[c].number,
         claim' = [claim EXCEPT ![c] = x],
         UNCHANGED <<clock, jobVars, attemptVars>>
  PROVE  Rest'
<1> USE DEF ClaimInv, LeaseInv, TypeInv, TypeOK, jobVars, attemptVars
<1>1. TokensAreWon' /\ AttemptsHaveClaims'
  BY DEF TokensAreWon, AttemptsHaveClaims, Won
<1>2. ClaimsArePast'
  BY DEF ClaimsArePast
<1>3. ExpiriesAgree'
  BY DEF ExpiriesAgree, ExpiryKnown, AttemptsHaveClaims
<1>4. NumbersInv'
  BY DEF NumbersInv, TokensAreWon, Won
<1>5. QED
  BY <1>1, <1>2, <1>3, <1>4 DEF Rest

\* Some jobs lose an expired lease; attempts close, and nothing opens.
LEMMA ReleaseStep ==
  ASSUME ClaimInv, TypeOK', NEW S \in SUBSET Jobs, ClearLease(S),
         UNCHANGED <<clock, attempt_count, max_attempts, attempt_expires_at>>,
         \A j \in Jobs \ S : status'[j] = status[j],
         \A c \in Claims : attempt_status'[c] # "none" => attempt_status[c] # "none",
         \* an attempt that stays open had no unexpired lease among these
         \A c \in Claims : attempt_status'[c] = "running" =>
             /\ attempt_status[c] = "running"
             /\ \/ claim[c].job \notin S
                \/ lease_token_hash[claim[c].job] # c
                \/ attempt_expires_at[c] <= clock,
         \A c \in Claims : claim[c].pc = "updated" =>
             \/ claim[c].job \notin S
             \/ lease_token_hash[claim[c].job] # c
             \/ claim[c].until <= clock,
         NEW d \in Claims, NEW x \in Claim,
         claim' = claim \/ (/\ claim' = [claim EXCEPT ![d] = x]
                           /\ ~Won(d) /\ x.pc = "swept" /\ x.at <= clock)
  PROVE  Rest'
<1> USE DEF ClaimInv, LeaseInv, TypeInv, TypeOK, ClearLease
<1>1. TokensAreWon'
  BY ConstantsAssumption DEF TokensAreWon, Won
<1>2. AttemptsHaveClaims'
  BY DEF AttemptsHaveClaims, Won
<1>3. ClaimsArePast'
  BY DEF ClaimsArePast
<1>4. ExpiriesAgree'
  BY DEF ExpiriesAgree, ExpiryKnown, AttemptsHaveClaims, WinnersHaveJobs, Won
<1>5. NumbersInv'
  <2>1. \A c \in Claims : Won(c)' => Won(c) /\ claim'[c] = claim[c]
    BY DEF Won
  <2>2. \A j \in Jobs, c \in Claims : lease_token_hash'[j] = c =>
           lease_token_hash[j] = c /\ Won(c)
    BY ConstantsAssumption DEF TokensAreWon
  <2>3. \A c \in Claims : Won(c) => claim'[c] = claim[c]
    OBVIOUS
  <2> QED BY <2>1, <2>2, <2>3 DEF NumbersInv
<1>6. QED
  BY <1>1, <1>2, <1>3, <1>4, <1>5 DEF Rest

LEMMA ClaimSweepLease ==
  ASSUME ClaimInv, TypeInv', NEW c \in Claims, ClaimSweep(c) PROVE Rest'
<1> DEFINE S == Abandoned(claim[c].at) \cup Exhausted(claim[c].at)
<1>1. claim[c] \in Claim /\ claim[c].at \in Nat
  BY CallTypes, ClaimFields DEF ClaimInv, LeaseInv
<1>2. PICK x : x = [claim[c] EXCEPT !.pc = "swept"]
  OBVIOUS
<1>3. /\ claim[c].pc = "called" /\ claim' = [claim EXCEPT ![c] = x]
      /\ UNCHANGED <<clock, attempt_count, max_attempts, attempt_expires_at>>
      /\ ClearLease(S)
  BY <1>2 DEF ClaimSweep
<1>4. x \in Claim /\ x.pc = "swept" /\ x.at = claim[c].at
  BY <1>1, <1>2 DEF Claim
<1>5. claim[c].at <= clock
  BY <1>3 DEF ClaimInv, LeaseInv, ClaimsArePast
<1>6. S \in SUBSET Jobs /\ \A j \in S : lease_expires_at[j] <= claim[c].at
  BY DEF Abandoned, Exhausted, Lapsed
<1>7. \A j \in Jobs \ S : status'[j] = status[j]
  BY DEF ClaimSweep
<1>8. /\ \A d \in Claims : attempt_status'[d] # "none" => attempt_status[d] # "none"
      /\ \A d \in Claims : attempt_status'[d] = "running" => attempt_status[d] = "running"
  BY DEF ClaimSweep, ClaimInv, LeaseInv, TypeInv, TypeOK
<1> HIDE DEF S
<1>9. \A d \in Claims : attempt_status'[d] = "running" =>
             \/ claim[d].job \notin S
             \/ lease_token_hash[claim[d].job] # d
             \/ attempt_expires_at[d] <= clock
  BY <1>1, <1>5, <1>6, <1>8
  DEF ClaimInv, LeaseInv, TypeInv, TypeOK, ExpiriesAgree, ExpiryKnown
<1>10. \A d \in Claims : claim[d].pc = "updated" =>
             \/ claim[d].job \notin S
             \/ lease_token_hash[claim[d].job] # d
             \/ claim[d].until <= clock
  BY <1>1, <1>5, <1>6
  DEF ClaimInv, LeaseInv, TypeInv, TypeOK, ExpiriesAgree, ExpiryKnown
<1>11. QED
  BY <1>3, <1>4, <1>5, <1>6, <1>7, <1>8, <1>9, <1>10, ReleaseStep
  DEF TypeInv, Won

\* The token of a call that still owns its job is the job's only one.
LEMMA FailCommitLease ==
  ASSUME ClaimInv, TypeInv', NEW r \in Requests, FailCommit(r) PROVE Rest'
<1> DEFINE c == request[r].lease
           j == claim[c].job
<1>1. /\ request[r].pc = "fail"
      /\ UNCHANGED <<clock, attempt_count, max_attempts, attempt_expires_at, claim>>
  BY DEF FailCommit
<1>2. c \in Claims /\ j \in Jobs /\ claim[c].pc = "held"
  BY <1>1, CallInFlight DEF ClaimInv, LeaseInv
<1>3. claim[c] \in Claim
  BY <1>2, CallTypes DEF ClaimInv, LeaseInv
<1>4. CASE AttemptActive(j, c, request[r].at)
  <2>1. /\ lease_token_hash[j] = c /\ ClearLease({j})
        /\ attempt_status' = [attempt_status EXCEPT ![c] = AttemptAfterFail(FailStatus(r))]
        /\ status' = [status EXCEPT ![j] = FailStatus(r)]
        /\ attempt_status[c] = "running"
    BY <1>4 DEF FailCommit, AttemptActive, LeaseActive
  <2>2. AttemptAfterFail(FailStatus(r)) \notin {"none", "running"}
    BY DEF AttemptAfterFail
  <2> HIDE DEF c, j
  <2>3. \A k \in Jobs \ {j} : status'[k] = status[k]
    BY <2>1 DEF ClaimInv, LeaseInv, TypeInv, TypeOK
  <2>4. \A d \in Claims :
          /\ attempt_status'[d] # "none" => attempt_status[d] # "none"
          /\ attempt_status'[d] = "running" => attempt_status[d] = "running" /\ d # c
    BY <1>2, <2>1, <2>2 DEF ClaimInv, LeaseInv, TypeInv, TypeOK
  <2>5. QED
    BY <1>1, <1>2, <1>3, <2>1, <2>3, <2>4, ReleaseStep DEF TypeInv
<1>5. CASE ~AttemptActive(j, c, request[r].at)
  <2>1. UNCHANGED <<status, attempt_status, lease_token_hash, lease_expires_at>>
    BY <1>5 DEF FailCommit
  <2>2. clock <= clock' /\ \A k \in Jobs : max_attempts[k] <= max_attempts'[k]
    BY <1>1 DEF ClaimInv, LeaseInv, TypeInv, TypeOK
  <2>3. QED
    BY <1>1, <2>1, <2>2, OtherStep DEF TypeInv, attemptVars
<1>6. QED
  BY <1>4, <1>5

LEMMA CompleteCommitLease ==
  ASSUME ClaimInv, TypeInv', NEW r \in Requests, CompleteCommit(r) PROVE Rest'
<1> DEFINE c == request[r].lease
           j == claim[c].job
<1>1. /\ request[r].pc = "stored"
      /\ UNCHANGED <<clock, attempt_count, max_attempts, attempt_expires_at, claim>>
  BY DEF CompleteCommit
<1>2. c \in Claims /\ j \in Jobs /\ claim[c].pc = "held"
  BY <1>1, CallInFlight DEF ClaimInv, LeaseInv
<1>3. claim[c] \in Claim
  BY <1>2, CallTypes DEF ClaimInv, LeaseInv
<1>4. CASE CompleteBatch(r) /\ Completable(r)
  <2>1. /\ lease_token_hash[j] = c /\ ClearLease({j})
        /\ attempt_status' = [attempt_status EXCEPT ![c] =
              IF attempt_status[c] = "running" THEN "succeeded" ELSE attempt_status[c]]
        /\ status' = [status EXCEPT ![j] = "succeeded"]
    BY <1>4 DEF CompleteBatch, Completable, LeaseActive
  <2> HIDE DEF c, j
  <2>2. \A k \in Jobs \ {j} : status'[k] = status[k]
    BY <2>1 DEF ClaimInv, LeaseInv, TypeInv, TypeOK
  <2>3. \A d \in Claims :
          /\ attempt_status'[d] # "none" => attempt_status[d] # "none"
          /\ attempt_status'[d] = "running" => attempt_status[d] = "running" /\ d # c
    BY <1>2, <2>1 DEF ClaimInv, LeaseInv, TypeInv, TypeOK
  <2>4. QED
    BY <1>1, <1>2, <1>3, <2>1, <2>2, <2>3, ReleaseStep DEF TypeInv
<1>5. CASE UNCHANGED <<status, attempt_status, lease_token_hash, lease_expires_at>>
  <2>1. clock <= clock' /\ \A k \in Jobs : max_attempts[k] <= max_attempts'[k]
    BY <1>1 DEF ClaimInv, LeaseInv, TypeInv, TypeOK
  <2>2. QED
    BY <1>1, <1>5, <2>1, OtherStep DEF TypeInv, attemptVars
<1>6. QED
  BY <1>4, <1>5 DEF CompleteCommit, CompleteBatch, jobVars

LEMMA ClaimUpdateLease ==
  ASSUME ClaimInv, TypeInv', NEW c \in Claims, ClaimUpdate(c) PROVE Rest'
<1>1. PICK j \in Jobs :
        /\ Eligible(j, claim[c].type, claim[c].at)
        /\ status' = [status EXCEPT ![j] = "running"]
        /\ lease_token_hash' = [lease_token_hash EXCEPT ![j] = c]
        /\ lease_expires_at' = [lease_expires_at EXCEPT ![j] = claim[c].until]
        /\ attempt_count' = [attempt_count EXCEPT ![j] = @ + 1]
        /\ claim' = [claim EXCEPT ![c] =
              [IdleClaim EXCEPT !.pc = "updated", !.runner = claim[c].runner,
                                !.until = claim[c].until, !.job = j,
                                !.number = attempt_count[j] + 1]]
  BY DEF ClaimUpdate
<1>2. /\ claim[c].pc = "swept"
      /\ UNCHANGED <<clock, max_attempts, attemptVars>>
  BY DEF ClaimUpdate
<1>3. PICK x : x = [IdleClaim EXCEPT !.pc = "updated", !.runner = claim[c].runner,
                                     !.until = claim[c].until, !.job = j,
                                     !.number = attempt_count[j] + 1]
  OBVIOUS
<1>4. /\ x.pc = "updated" /\ x.until = claim[c].until /\ x.job = j
      /\ x.number = attempt_count[j] + 1
  BY <1>3 DEF IdleClaim
<1>5. claim' = [claim EXCEPT ![c] = x]
  BY <1>1, <1>3
<1>6. /\ attempt_count[j] < max_attempts[j]
      /\ lease_token_hash[j] # None => lease_expires_at[j] <= clock
  <2>1. claim[c].at <= clock /\ claim[c].at \in Nat
    BY <1>2, CallTypes, ClaimFields DEF ClaimInv, LeaseInv, ClaimsArePast
  <2>2. lease_token_hash[j] # None => status[j] = "running"
    BY DEF ClaimInv, LeaseInv, TypeInv, TypeOK, TokensAreWon
  <2>3. QED
    BY <1>1, <2>1, <2>2 DEF Eligible, ClaimInv, LeaseInv, TypeInv, TypeOK
<1>7. ~Won(c) /\ attempt_status[c] = "none"
  BY <1>2 DEF Won, ClaimInv, LeaseInv, AttemptsHaveClaims
<1> USE DEF ClaimInv, LeaseInv, TypeInv, TypeOK, attemptVars
<1>8. TokensAreWon'
  BY <1>1, <1>4, <1>5, <1>7 DEF TokensAreWon, Won
<1>9. AttemptsHaveClaims'
  BY <1>2, <1>5, <1>7 DEF AttemptsHaveClaims
<1>10. ClaimsArePast'
  BY <1>2, <1>4, <1>5 DEF ClaimsArePast
<1>11. ExpiriesAgree'
  <2> SUFFICES ASSUME NEW d \in Claims
               PROVE  /\ claim'[d].pc = "updated" => ExpiryKnown(d, claim[d].until)'
                      /\ attempt_status'[d] = "running"
                            => ExpiryKnown(d, attempt_expires_at[d])'
    BY DEF ExpiriesAgree
  <2>1. CASE d = c
    BY <1>1, <1>2, <1>4, <1>5, <1>7, <2>1 DEF ExpiryKnown
  <2>2. CASE d # c /\ claim[d].job # j
    BY <1>1, <1>2, <1>5, <2>2 DEF ExpiriesAgree, ExpiryKnown
  <2>3. CASE d # c /\ claim[d].job = j
    <3>1. d # None
      BY ConstantsAssumption
    <3>2. QED
      BY <1>1, <1>2, <1>5, <1>6, <2>3, <3>1 DEF ExpiriesAgree, ExpiryKnown
  <2>4. QED
    BY <2>1, <2>2, <2>3
<1>12. NumbersInv'
  <2>1. \A d \in Claims : Won(d) /\ claim[d].job = j => claim[d].number < x.number
    BY <1>4 DEF NumbersInv
  <2>2. \A d \in Claims : d # c => claim'[d] = claim[d] /\ Won(d)' = Won(d)
    BY <1>5 DEF Won
  <2>3. claim'[c] = x
    BY <1>5
  <2>4. \A d \in Claims : Won(d)' =>
           claim'[d].number \in 1 .. attempt_count'[claim'[d].job]
    BY <1>1, <1>4, <2>2, <2>3 DEF NumbersInv, WinnersHaveJobs, Won
  <2>5. \A k \in Jobs, d \in Claims :
          lease_token_hash'[k] = d => claim'[d].number = attempt_count'[k]
    BY <1>1, <1>4, <1>7, <2>2, <2>3 DEF NumbersInv, TokensAreWon
  <2>6. \A d, e \in Claims :
          Won(d)' /\ Won(e)' /\ d # e /\ claim'[d].job = claim'[e].job
             => claim'[d].number # claim'[e].number
    <3> SUFFICES ASSUME NEW d \in Claims, NEW e \in Claims, Won(d)', Won(e)',
                        d # e, claim'[d].job = claim'[e].job
                 PROVE  claim'[d].number # claim'[e].number
      OBVIOUS
    <3>1. \A f \in Claims : Won(f) => claim[f].number \in Nat
      BY DEF NumbersInv
    <3>2. CASE d # c /\ e # c
      BY <2>2, <3>2 DEF NumbersInv
    <3>3. CASE d = c
      BY <1>4, <2>1, <2>2, <2>3, <3>1, <3>3
    <3>4. CASE e = c
      BY <1>4, <2>1, <2>2, <2>3, <3>1, <3>4
    <3>5. QED
      BY <3>2, <3>3, <3>4
  <2>7. \A k \in Jobs : attempt_count'[k] <= max_attempts'[k]
    BY <1>1, <1>2, <1>6 DEF NumbersInv
  <2>8. QED
    BY <2>4, <2>5, <2>6, <2>7 DEF NumbersInv
<1>13. QED
  BY <1>8, <1>9, <1>10, <1>11, <1>12 DEF Rest

LEMMA HeartbeatCommitLease ==
  ASSUME ClaimInv, TypeInv', NEW r \in Requests, HeartbeatCommit(r) PROVE Rest'
<1> DEFINE c == request[r].lease
           j == claim[c].job
<1>1. /\ request[r].pc = "heartbeat"
      /\ UNCHANGED <<clock, status, attempt_count, max_attempts,
                     lease_token_hash, attempt_status, claim>>
  BY DEF HeartbeatCommit
<1>2. c \in Claims /\ j \in Jobs /\ claim[c].pc = "held"
  BY <1>1, CallInFlight DEF ClaimInv, LeaseInv
<1>3. \A k \in Jobs : max_attempts[k] <= max_attempts[k]
  BY DEF ClaimInv, LeaseInv, TypeInv, TypeOK
<1>4. CASE AttemptActive(j, c, request[r].at)
  <2>1. /\ lease_token_hash[j] = c
        /\ lease_expires_at' = [lease_expires_at EXCEPT ![j] = request[r].until]
        /\ attempt_expires_at' = [attempt_expires_at EXCEPT ![c] = request[r].until]
    BY <1>4 DEF HeartbeatCommit, AttemptActive, LeaseActive
  <2> HIDE DEF c, j
  <2>2. TokensAreWon' /\ AttemptsHaveClaims' /\ ClaimsArePast' /\ NumbersInv'
    BY <1>1 DEF ClaimInv, LeaseInv, TypeInv, TypeOK, TokensAreWon,
                AttemptsHaveClaims, ClaimsArePast, NumbersInv, Won
  <2>3. ExpiriesAgree'
    <3> SUFFICES ASSUME NEW d \in Claims
                 PROVE  /\ claim'[d].pc = "updated" => ExpiryKnown(d, claim[d].until)'
                        /\ attempt_status'[d] = "running"
                              => ExpiryKnown(d, attempt_expires_at[d])'
      BY DEF ExpiriesAgree
    <3>1. CASE d = c
      BY <1>1, <1>2, <2>1, <3>1
      DEF ClaimInv, LeaseInv, TypeInv, TypeOK, ExpiryKnown, TokensAreWon
    <3>2. CASE d # c
      BY <1>1, <1>2, <2>1, <3>2
      DEF ClaimInv, LeaseInv, TypeInv, TypeOK, ExpiriesAgree, ExpiryKnown
    <3>3. QED
      BY <3>1, <3>2
  <2>4. QED
    BY <2>2, <2>3 DEF Rest
<1>5. CASE ~AttemptActive(j, c, request[r].at)
  <2>1. UNCHANGED <<lease_expires_at, attempt_expires_at>>
    BY <1>5 DEF HeartbeatCommit
  <2>2. clock <= clock'
    BY <1>1 DEF ClaimInv, LeaseInv, TypeInv, TypeOK
  <2>3. QED
    BY <1>1, <1>3, <2>1, <2>2, OtherStep DEF TypeInv, attemptVars
<1>6. QED
  BY <1>4, <1>5

LEMMA ClaimInsertLease ==
  ASSUME "insert_ambiguous" \notin Faults,
         ClaimInv, TypeInv', NEW c \in Claims, ClaimInsert(c)
  PROVE  Rest'
<1>1. /\ claim[c].pc = "updated"
      /\ UNCHANGED <<clock, jobVars>>
  BY DEF ClaimInsert
<1>2. claim[c] \in Claim /\ claim[c].job \in Jobs /\ Won(c)
  BY <1>1, CallTypes DEF ClaimInv, LeaseInv, TypeInv, WinnersHaveJobs, Won
<1>3. attempt_status[c] = "none"
  BY <1>1 DEF ClaimInv, LeaseInv, AttemptsHaveClaims
<1>4. CASE InsertRow(c) /\ claim' = [claim EXCEPT ![c].pc = "inserted"]
  <2>1. PICK x : x = [claim[c] EXCEPT !.pc = "inserted"]
    OBVIOUS
  <2>2. /\ claim' = [claim EXCEPT ![c] = x] /\ x.pc = "inserted"
        /\ x.job = claim[c].job /\ x.number = claim[c].number
    BY <1>2, <1>4, <2>1 DEF Claim
  <2> USE DEF ClaimInv, LeaseInv, TypeInv, TypeOK, jobVars
  <2>3. TokensAreWon' /\ ClaimsArePast'
    BY <1>1, <1>2, <2>2 DEF TokensAreWon, ClaimsArePast, Won
  <2>4. AttemptsHaveClaims'
    BY <1>4, <2>2 DEF InsertRow, AttemptsHaveClaims
  <2>5. ExpiriesAgree'
    BY <1>1, <1>4, <2>2 DEF InsertRow, ExpiriesAgree, ExpiryKnown
  <2>6. NumbersInv'
    BY <1>1, <1>2, <2>2 DEF NumbersInv, Won
  <2>7. QED
    BY <2>3, <2>4, <2>5, <2>6 DEF Rest
<1>5. CASE claim' = [claim EXCEPT ![c].pc = "rollback"] /\ UNCHANGED attemptVars
  <2>1. PICK x : x = [claim[c] EXCEPT !.pc = "rollback"]
    OBVIOUS
  <2>2. /\ claim' = [claim EXCEPT ![c] = x] /\ x.pc = "rollback" /\ x \in Claim
        /\ x.job = claim[c].job /\ x.number = claim[c].number
    BY <1>2, <1>5, <2>1 DEF Claim
  <2>3. QED
    BY <1>1, <1>2, <1>3, <1>5, <2>2, WinnerMoves
<1>6. QED
  BY <1>4, <1>5 DEF ClaimInsert

LEMMA ClaimRollbackLease ==
  ASSUME ClaimInv, TypeInv', NEW c \in Claims, ClaimRollback(c) PROVE Rest'
<1>1. /\ claim[c].pc = "rollback"
      /\ UNCHANGED <<clock, max_attempts, attemptVars>>
  BY DEF ClaimRollback
<1>2. attempt_status[c] = "none"
  BY <1>1 DEF ClaimInv, LeaseInv, AttemptsHaveClaims
<1>3. claim' = [claim EXCEPT ![c] = IdleClaim] /\ IdleClaim.pc = "idle"
  BY <1>2 DEF ClaimRollback, IdleClaim
<1> DEFINE j == claim[c].job
<1>4. j \in Jobs /\ Won(c)
  BY <1>1 DEF ClaimInv, LeaseInv, TypeInv, WinnersHaveJobs, Won
<1> USE DEF ClaimInv, LeaseInv, TypeInv, TypeOK, attemptVars
<1>5. CASE status[j] = "running" /\ lease_token_hash[j] = c
  <2>1. /\ status' = [status EXCEPT ![j] = "queued"]
        /\ attempt_count' = [attempt_count EXCEPT ![j] = @ - 1]
        /\ ClearLease({j})
    BY <1>5 DEF ClaimRollback
  <2>2. lease_token_hash[j] = c
    BY <1>5
  <2> HIDE DEF j
  <2>3. \A k \in Jobs : k # j => lease_token_hash[k] # c
    BY <1>4, <2>2 DEF TokensAreWon
  <2>4. TokensAreWon'
    BY <1>3, <2>1, <2>3, ConstantsAssumption DEF TokensAreWon, ClearLease, Won
  <2>5. AttemptsHaveClaims' /\ ClaimsArePast'
    BY <1>1, <1>2, <1>3 DEF AttemptsHaveClaims, ClaimsArePast
  <2>6. ExpiriesAgree'
    <3> SUFFICES ASSUME NEW d \in Claims
                 PROVE  /\ claim'[d].pc = "updated" => ExpiryKnown(d, claim[d].until)'
                        /\ attempt_status'[d] = "running"
                              => ExpiryKnown(d, attempt_expires_at[d])'
      BY DEF ExpiriesAgree
    <3>1. CASE d = c
      BY <1>1, <1>2, <1>3, <3>1
    <3>2. CASE d # c
      <4>1. lease_token_hash[claim[d].job] = d => claim[d].job # j
        BY <2>2, <3>2
      <4>2. CASE lease_token_hash[claim[d].job] = d /\ claim[d].job \in Jobs
        BY <1>1, <1>3, <2>1, <3>2, <4>1, <4>2
        DEF ExpiriesAgree, ExpiryKnown, ClearLease
      <4>3. CASE lease_token_hash[claim[d].job] # d
        BY <1>1, <1>3, <3>2, <4>3 DEF ExpiriesAgree, ExpiryKnown
      <4>4. Won(d) \/ (attempt_status[d] # "running" /\ claim[d].pc # "updated")
        BY DEF AttemptsHaveClaims, Won
      <4>5. QED
        BY <1>1, <1>3, <3>2, <4>2, <4>3, <4>4 DEF WinnersHaveJobs
    <3>3. QED
      BY <3>1, <3>2
  <2>7. NumbersInv'
    <3>1. claim[c].number = attempt_count[j] /\ claim[c].job = j
      BY <1>4, <2>2, <2>3 DEF NumbersInv, TokensAreWon
    <3>2. \A d \in Claims : Won(d)' => d # c /\ Won(d) /\ claim'[d] = claim[d]
      BY <1>3 DEF Won
    <3>3. \A d \in Claims : Won(d)' /\ claim[d].job = j =>
             claim[d].number \in 1 .. (attempt_count[j] - 1)
      <4>1. attempt_count[j] \in Nat
        BY <1>4
      <4>2. \A d \in Claims : Won(d)' /\ claim[d].job = j =>
               claim[d].number \in 1 .. attempt_count[j] /\ claim[d].number # attempt_count[j]
        BY <1>4, <3>1, <3>2 DEF NumbersInv
      <4>3. \A n \in 1 .. attempt_count[j] :
               n # attempt_count[j] => n \in 1 .. (attempt_count[j] - 1)
        BY <4>1
      <4>4. QED
        BY <4>2, <4>3
    <3>4. \A d \in Claims : Won(d)' =>
             claim'[d].number \in 1 .. attempt_count'[claim'[d].job]
      BY <2>1, <3>2, <3>3 DEF NumbersInv, WinnersHaveJobs
    <3>5. \A k \in Jobs, d \in Claims :
             lease_token_hash'[k] = d => claim'[d].number = attempt_count'[k]
      BY <1>3, <2>1, <2>3, ConstantsAssumption DEF NumbersInv, ClearLease
    <3>6. \A d, e \in Claims :
            Won(d)' /\ Won(e)' /\ d # e /\ claim'[d].job = claim'[e].job
               => claim'[d].number # claim'[e].number
      BY <3>2 DEF NumbersInv
    <3>7. \A k \in Jobs : attempt_count'[k] <= max_attempts'[k]
      BY <1>1, <2>1 DEF NumbersInv
    <3>8. QED
      BY <3>4, <3>5, <3>6, <3>7 DEF NumbersInv
  <2>8. QED
    BY <2>4, <2>5, <2>6, <2>7 DEF Rest
<1>6. CASE ~(status[j] = "running" /\ lease_token_hash[j] = c)
  <2>1. UNCHANGED <<status, attempt_count, lease_token_hash, lease_expires_at>>
    BY <1>6 DEF ClaimRollback
  <2>2. \A k \in Jobs : lease_token_hash[k] # c
    BY <1>4, <1>6 DEF TokensAreWon
  <2> HIDE DEF j
  <2>3. TokensAreWon' /\ AttemptsHaveClaims' /\ ClaimsArePast'
    BY <1>1, <1>2, <1>3, <2>1, <2>2
    DEF TokensAreWon, AttemptsHaveClaims, ClaimsArePast, Won
  <2>4. ExpiriesAgree'
    BY <1>1, <1>2, <1>3, <2>1 DEF ExpiriesAgree, ExpiryKnown
  <2>5. NumbersInv'
    BY <1>1, <1>3, <2>1, <2>2 DEF NumbersInv, Won
  <2>6. QED
    BY <2>3, <2>4, <2>5 DEF Rest
<1>7. QED
  BY <1>5, <1>6

\* The other steps of a claim call leave every row as it is.
LEMMA ClaimOtherLease ==
  ASSUME ClaimInv, TypeInv', NEW c \in Claims,
         Poll(c) \/ ClaimNothing(c) \/ ClaimIdle(c) \/ ClaimAnnounce(c) \/ ClaimCrash(c)
  PROVE  Rest'
<1>1. /\ claim[c] \in Claim /\ claim'[c] \in Claim
      /\ clock \in Nat /\ clock <= clock
  BY CallTypes DEF ClaimInv, LeaseInv, TypeInv, TypeOK
<1>2. claim \in [Claims -> Claim]
  BY DEF ClaimInv, LeaseInv, TypeInv, TypeOK
<1>3. UNCHANGED <<clock, jobVars, attemptVars>>
  BY DEF Poll, ClaimCall, ClaimNothing, ClaimIdle, ClaimAnnounce, ClaimCrash
<1>4. CASE Poll(c) \/ ClaimNothing(c) \/ ClaimIdle(c)
  <2>1. claim' = [claim EXCEPT ![c] = claim'[c]] /\ ~Won(c)
    BY <1>2, <1>4 DEF Poll, ClaimCall, ClaimNothing, ClaimIdle, Won
  <2>2. /\ claim'[c].pc \in {"idle", "called", "unclaimed"}
        /\ claim'[c].pc = "called" => claim'[c].at <= clock
    <3>1. CASE Poll(c)
      BY <1>1, <1>2, <3>1 DEF Poll, ClaimCall, IdleClaim
    <3>2. CASE ClaimNothing(c)
      BY <1>1, <1>2, <3>2 DEF ClaimNothing, Claim
    <3>3. CASE ClaimIdle(c)
      BY <1>2, <3>3 DEF ClaimIdle, IdleClaim
    <3>4. QED
      BY <1>4, <3>1, <3>2, <3>3
  <2>3. QED
    BY <1>1, <1>3, <2>1, <2>2, QuietClaimStep
<1>5. CASE ClaimAnnounce(c) \/ ClaimCrash(c)
  <2>1. claim' = [claim EXCEPT ![c] = claim'[c]] /\ Won(c)
    BY <1>2, <1>5 DEF ClaimAnnounce, ClaimCrash, Won
  <2>2. /\ claim'[c].pc \in {"held", "dead"}
        /\ claim'[c].job = claim[c].job /\ claim'[c].number = claim[c].number
    BY <1>1, <1>2, <1>5 DEF ClaimAnnounce, ClaimCrash, Claim
  <2>3. QED
    BY <1>1, <1>3, <2>1, <2>2, WinnerMoves
<1>6. QED
  BY <1>4, <1>5

LEMMA AdminLease ==
  ASSUME ClaimInv, TypeInv', NEW j \in Jobs, Admin(j) PROVE Rest'
<1> USE DEF ClaimInv, LeaseInv, TypeInv, TypeOK
<1>1. UNCHANGED <<clock, lease_token_hash, lease_expires_at, attempt_count,
                  attemptVars, claim>>
  BY DEF Admin, Submit, CancelQueued, CancelRunning, Retry
<1>2. \A k \in Jobs : status[k] = "running" => status'[k] = "running"
  BY DEF Admin, Submit, CancelQueued, CancelRunning, Retry
<1>3. \A k \in Jobs : max_attempts[k] <= max_attempts'[k]
  <2>1. CASE UNCHANGED max_attempts
    BY <2>1
  <2>2. CASE Retry(j)
    BY <2>2 DEF Retry
  <2>3. QED
    BY <2>1, <2>2 DEF Admin, Submit, CancelQueued, CancelRunning
<1>4. QED
  BY <1>1, <1>2, <1>3, OtherStep

LEMMA ClaimInvStep ==
  ASSUME "insert_ambiguous" \notin Faults PROVE ClaimInv /\ [Next]_vars => ClaimInv'
<1> SUFFICES ASSUME ClaimInv, [Next]_vars PROVE ClaimInv'
  OBVIOUS
<1>1. TypeInv'
  BY TypeStep DEF ClaimInv, LeaseInv
<1>2. SUFFICES Rest'
  BY <1>1, ClaimInvParts DEF ClaimInv, LeaseInv, Rest
<1>3. /\ clock \in Nat /\ clock + 1 \in Nat /\ clock <= clock /\ clock <= clock + 1
      /\ \A k \in Jobs : max_attempts[k] <= max_attempts[k]
  BY DEF ClaimInv, LeaseInv, TypeInv, TypeOK
<1>4. CASE UNCHANGED vars \/ Tick
  BY <1>1, <1>3, <1>4, OtherStep DEF Tick, TypeInv, vars, jobVars, attemptVars
<1>5. ASSUME NEW c \in Claims, Poll(c) \/ ClaimStep(c) \/ ClaimCrash(c)
      PROVE  Rest'
  BY <1>1, <1>5, ClaimSweepLease, ClaimUpdateLease, ClaimInsertLease,
     ClaimRollbackLease, ClaimOtherLease
  DEF ClaimStep
<1>6. ASSUME NEW r \in Requests, RunnerCall(r) \/ RequestStep(r) PROVE Rest'
  <2>1. CASE RunnerCall(r) \/ CompleteStore(r) \/ CompleteReject(r) \/ CompleteDiscard(r)
    <3>1. UNCHANGED <<clock, jobVars, attemptVars, claim>>
      BY <2>1 DEF RunnerCall, HeartbeatCall, FailCall, CompleteCall, Call,
                  CompleteStore, CompleteReject, CompleteDiscard
    <3>2. QED
      BY <1>1, <1>3, <3>1, OtherStep DEF TypeInv, jobVars
  <2>2. QED
    BY <1>1, <1>6, <2>1, HeartbeatCommitLease, FailCommitLease,
       CompleteCommitLease
    DEF RequestStep
<1>7. ASSUME NEW j \in Jobs, Admin(j) PROVE Rest'
  BY <1>1, <1>7, AdminLease
<1>8. QED
  BY <1>4, <1>5, <1>6, <1>7 DEF Next

THEOREM ClaimInvariant ==
  ASSUME "insert_ambiguous" \notin Faults PROVE Spec => []ClaimInv
<1>1. ClaimInv /\ [Next]_vars => ClaimInv'
  BY ClaimInvStep
<1>2. QED
  BY <1>1, ClaimInvInit, PTL DEF Spec

-----------------------------------------------------------------------------
(***************************************************************************)
(* What the properties of JobLifecycle follow from                         *)
(***************************************************************************)

\* A live attempt's job runs under that attempt's lease, whatever claims,
\* takeovers, sweeps, failures and completions overlap
\* (job-lifecycle.ts:70-106, 200-207, 286-303, 327-338).
THEOREM LeaseIsExclusive ==
  ASSUME "insert_ambiguous" \notin Faults PROVE Spec => []ExclusiveLease
<1>1. ClaimInv => ExclusiveLease
  <2> SUFFICES ASSUME ClaimInv, NEW c \in Claims, LiveAttempt(c)
               PROVE  /\ status[claim[c].job] = "running"
                      /\ lease_token_hash[claim[c].job] = c
    BY DEF ExclusiveLease
  <2>1. clock \in Nat /\ attempt_expires_at[c] \in Nat
    BY DEF ClaimInv, LeaseInv, TypeInv, TypeOK
  <2>2. lease_token_hash[claim[c].job] = c
    BY <2>1 DEF LiveAttempt, ClaimInv, LeaseInv, ExpiriesAgree, ExpiryKnown
  <2>3. claim[c].job \in Jobs
    BY DEF LiveAttempt, ClaimInv, LeaseInv, TypeInv, AttemptsHaveClaims,
           WinnersHaveJobs, Won
  <2>4. QED
    BY <2>2, <2>3 DEF ClaimInv, LeaseInv, TokensAreWon
<1>2. QED
  BY <1>1, ClaimInvariant, PTL

\* A claim never inserts an attempt number its job has used, however many
\* claims were rolled back, abandoned or overtaken before
\* (job-lifecycle.ts:97-102).
THEOREM AttemptNumbersAreFresh ==
  ASSUME "insert_ambiguous" \notin Faults PROVE Spec => []FreshAttemptNumber
<1>1. ClaimInv => FreshAttemptNumber
  BY DEF ClaimInv, LeaseInv, AttemptsHaveClaims, NumbersInv, Won,
         FreshAttemptNumber, NumberTaken
<1>2. QED
  BY <1>1, ClaimInvariant, PTL

\* Attempts stay within the limit and every recorded attempt is counted
\* (job-lifecycle.ts:89, 100-102, 418).
THEOREM AttemptsAreCounted ==
  ASSUME "insert_ambiguous" \notin Faults PROVE Spec => []AttemptsCounted
<1>1. ClaimInv => AttemptsCounted
  BY DEF ClaimInv, LeaseInv, AttemptsHaveClaims, NumbersInv, Won, AttemptsCounted
<1>2. QED
  BY <1>1, ClaimInvariant, PTL

\* A claim takes a running job over only after its lease expired, although
\* it decides with a timestamp that is older than its UPDATE
\* (job-lifecycle.ts:80, 89).
THEOREM TakeoverAfterExpiry ==
  ASSUME "insert_ambiguous" \notin Faults PROVE Spec => NoEarlyTakeover
<1>1. ClaimInv /\ [Next]_vars =>
        \A j \in Jobs :
          /\ status[j] = "running" /\ status'[j] = "running"
          /\ lease_token_hash'[j] # lease_token_hash[j]
          => lease_expires_at[j] <= clock
  <2> SUFFICES ASSUME ClaimInv, [Next]_vars, NEW j \in Jobs,
                      status[j] = "running", status'[j] = "running",
                      lease_token_hash'[j] # lease_token_hash[j]
               PROVE  lease_expires_at[j] <= clock
    OBVIOUS
  <2> USE DEF ClaimInv, LeaseInv, TypeInv, TypeOK
  <2>1. ~UNCHANGED lease_token_hash
    OBVIOUS
  <2>2. ASSUME NEW c \in Claims, ClaimUpdate(c) PROVE lease_expires_at[j] <= clock
    <3>1. claim[c].at <= clock /\ claim[c].at \in Nat
      BY <2>2, CallTypes, ClaimFields DEF ClaimUpdate, ClaimsArePast
    <3>2. Eligible(j, claim[c].type, claim[c].at)
      BY <2>2 DEF ClaimUpdate
    <3>3. QED
      BY <3>1, <3>2 DEF Eligible
  <2>3. ASSUME NEW c \in Claims, ClaimSweep(c) PROVE FALSE
    BY <2>3 DEF ClaimSweep, ClearLease
  <2>4. ASSUME NEW c \in Claims, ClaimRollback(c) PROVE FALSE
    BY <2>4 DEF ClaimRollback, ClearLease, WinnersHaveJobs, Won
  <2>5. ASSUME NEW r \in Requests, FailCommit(r) PROVE FALSE
    <3>1. FailStatus(r) # "running" /\ claim[request[r].lease].job \in Jobs
      BY <2>5, CallInFlight DEF FailStatus, FailCommit
    <3>2. QED
      BY <2>5, <3>1 DEF FailCommit, ClearLease
  <2>6. ASSUME NEW r \in Requests, CompleteCommit(r) PROVE FALSE
    <3>1. claim[request[r].lease].job \in Jobs
      BY <2>6, CallInFlight DEF CompleteCommit
    <3>2. CASE CompleteBatch(r)
      BY <2>6, <3>1, <3>2 DEF CompleteBatch, ClearLease
    <3>3. CASE UNCHANGED jobVars
      BY <2>6, <3>3 DEF jobVars
    <3>4. QED
      BY <2>6, <3>2, <3>3 DEF CompleteCommit
  <2>7. \/ \E c \in Claims : ClaimUpdate(c) \/ ClaimSweep(c) \/ ClaimRollback(c)
        \/ \E r \in Requests : FailCommit(r) \/ CompleteCommit(r)
    <3>1. ~UNCHANGED vars /\ ~Tick
      BY <2>1 DEF vars, Tick, jobVars
    <3>2. ASSUME NEW c \in Claims
          PROVE  ~(Poll(c) \/ ClaimNothing(c) \/ ClaimIdle(c) \/ ClaimInsert(c)
                   \/ ClaimAnnounce(c) \/ ClaimCrash(c))
      BY <2>1 DEF Poll, ClaimCall, ClaimNothing, ClaimIdle, ClaimInsert,
                  ClaimAnnounce, ClaimCrash, jobVars
    <3>3. ASSUME NEW r \in Requests
          PROVE  ~(RunnerCall(r) \/ HeartbeatCommit(r) \/ CompleteStore(r)
                   \/ CompleteReject(r) \/ CompleteDiscard(r))
      BY <2>1 DEF RunnerCall, HeartbeatCall, FailCall, CompleteCall, Call,
                  HeartbeatCommit, CompleteStore, CompleteReject,
                  CompleteDiscard, jobVars
    <3>4. \A k \in Jobs : ~Admin(k)
      BY <2>1 DEF Admin, Submit, CancelQueued, CancelRunning, Retry
    <3>5. QED
      BY <3>1, <3>2, <3>3, <3>4 DEF Next, ClaimStep, RequestStep
  <2>8. QED
    BY <2>2, <2>3, <2>4, <2>5, <2>6, <2>7
<1>2. QED
  BY <1>1, ClaimInvariant, PTL DEF Spec, NoEarlyTakeover

-----------------------------------------------------------------------------
(***************************************************************************)
(* 3. Reports: what an evaluation reports is registered and stored for     *)
(* ever, whatever its completion call did.                                 *)
(***************************************************************************)

\* A claim whose token was handed out is final.
LEMMA HeldStays ==
  ASSUME TypeInv, [Next]_vars, NEW c \in Claims, claim[c].pc = "held"
  PROVE  claim'[c] = claim[c]
<1> USE DEF TypeInv, TypeOK
<1>1. CASE UNCHANGED claim
  BY <1>1
<1>2. ASSUME NEW d \in Claims, Poll(d) \/ ClaimStep(d) \/ ClaimCrash(d)
      PROVE  d # c /\ \E x : claim' = [claim EXCEPT ![d] = x]
  <2>1. CASE Poll(d)
    BY <2>1 DEF Poll, ClaimCall
  <2>2. CASE ClaimSweep(d) \/ ClaimNothing(d) \/ ClaimIdle(d) \/ ClaimRollback(d)
    BY <2>2 DEF ClaimSweep, ClaimNothing, ClaimIdle, ClaimRollback
  <2>3. CASE ClaimUpdate(d) \/ ClaimInsert(d)
    BY <2>3 DEF ClaimUpdate, ClaimInsert
  <2>4. CASE ClaimAnnounce(d) \/ ClaimCrash(d)
    BY <2>4 DEF ClaimAnnounce, ClaimCrash
  <2>5. QED
    BY <1>2, <2>1, <2>2, <2>3, <2>4 DEF ClaimStep
<1>3. \A r \in Requests : RunnerCall(r) \/ RequestStep(r) => UNCHANGED claim
  BY DEF RunnerCall, HeartbeatCall, FailCall, CompleteCall, Call, RequestStep,
         HeartbeatCommit, FailCommit, CompleteStore, CompleteReject,
         CompleteCommit, CompleteDiscard
<1>4. Tick \/ UNCHANGED vars \/ (\E j \in Jobs : Admin(j)) => UNCHANGED claim
  BY DEF Tick, vars, Admin, Submit, CancelQueued, CancelRunning, Retry
<1>5. QED
  BY <1>1, <1>2, <1>3, <1>4 DEF Next

\* The parts of ReportInv beyond TypeInv.
Reports == ReportsInFlight /\ ReportDurable

\* Steps that move no runner call and leave every outcome as it is.
LEMMA QuietReports ==
  ASSUME ReportInv, [Next]_vars, UNCHANGED <<request, reportVars>>,
         \A j \in Jobs : status'[j] = "succeeded" <=> status[j] = "succeeded"
  PROVE  Reports'
<1>1. \A r \in Requests : request[r].pc # "idle" =>
         claim'[request[r].lease] = claim[request[r].lease]
  BY CallInFlight, HeldStays DEF ReportInv
<1>2. ReportsInFlight'
  BY <1>1 DEF ReportInv, ReportsInFlight, reportVars
<1>3. ReportDurable'
  BY DEF ReportInv, ReportDurable, reportVars
<1>4. QED
  BY <1>2, <1>3 DEF Reports

\* One runner call moves; the reports stay where they are.
LEMMA CallReports ==
  ASSUME ReportInv, NEW r \in Requests, NEW x \in Request,
         request' = [request EXCEPT ![r] = x], UNCHANGED <<claim, reportVars>>,
         \A j \in Jobs : status'[j] = "succeeded" <=> status[j] = "succeeded",
         request[r].pc # "registered",
         x.pc \in {"stored", "registered"} => r \in bucket,
         x.pc \in {"complete", "stored"} => JobType[claim[x.lease].job] = "evaluation"
  PROVE  Reports'
<1>1. ReportsInFlight'
  BY DEF ReportInv, TypeInv, TypeOK, ReportsInFlight, reportVars
<1>2. ReportDurable'
  BY DEF ReportInv, ReportDurable, reportVars
<1>3. QED
  BY <1>1, <1>2 DEF Reports

LEMMA IdleEnd == IdleRequest.pc = "idle" /\ IdleRequest \in Request
  BY IdleRequestType DEF IdleRequest

LEMMA FailReports ==
  ASSUME ReportInv, NEW r \in Requests, FailCommit(r) PROVE Reports'
<1>1. request[r].pc = "fail" /\ request' = [request EXCEPT ![r] = IdleRequest]
      /\ UNCHANGED <<claim, reportVars>>
  BY DEF FailCommit
<1>2. claim[request[r].lease].job \in Jobs
  BY <1>1, CallInFlight DEF ReportInv
<1>3. FailStatus(r) # "succeeded"
  BY DEF FailStatus
<1>4. \A j \in Jobs : status'[j] = "succeeded" <=> status[j] = "succeeded"
  BY <1>2, <1>3
  DEF FailCommit, AttemptActive, LeaseActive, ReportInv, TypeInv, TypeOK
<1>5. QED
  BY <1>1, <1>4, IdleEnd, CallReports

\* The completion batch, when it commits and is known to have committed, or
\* does not commit.
LEMMA CommitReports ==
  ASSUME "batch_ambiguous" \notin Faults,
         ReportInv, NEW r \in Requests, CompleteCommit(r) PROVE Reports'
<1> DEFINE c == request[r].lease
           j == claim[c].job
<1> USE DEF ReportInv, TypeInv, TypeOK
<1>1. request[r].pc = "stored" /\ UNCHANGED <<claim, bucket>>
  BY DEF CompleteCommit
<1>2. c \in Claims /\ j \in Jobs /\ request[r] \in Request
  BY <1>1, CallInFlight, CallTypes
<1>3. r \in bucket /\ r \notin artifacts /\ JobType[j] = "evaluation"
  BY <1>1 DEF ReportsInFlight
<1> DEFINE Commits == CompleteBatch(r) /\ Completable(r) /\ request' =
                          [request EXCEPT ![r] = [request[r] EXCEPT !.pc = "registered"]]
           Fails == /\ UNCHANGED <<status, report_artifact_id, artifacts>>
                    /\ request' = [request EXCEPT ![r] =
                                      [request[r] EXCEPT !.pc = "discard"]]
<1>4. CASE Commits
  <2>1. /\ artifacts' = artifacts \cup {r}
        /\ report_artifact_id' = [report_artifact_id EXCEPT ![j] = r]
        /\ status' = [status EXCEPT ![j] = "succeeded"]
    BY <1>4 DEF CompleteBatch
  <2>2. request' = [request EXCEPT ![r] = [request[r] EXCEPT !.pc = "registered"]]
    BY <1>4
  <2> HIDE DEF c, j
  <2>3. ReportsInFlight'
    BY <1>1, <1>2, <1>3, <2>1, <2>2 DEF ReportsInFlight, Request
  <2>4. ReportDurable'
    <3>1. r # None
      BY ConstantsAssumption
    <3>2. QED
      BY <1>1, <1>2, <1>3, <2>1, <3>1 DEF ReportDurable
  <2>5. QED
    BY <2>3, <2>4 DEF Reports
<1>5. CASE Fails
  <2>3. PICK x : x = [request[r] EXCEPT !.pc = "discard"]
    OBVIOUS
  <2>4. x \in Request /\ x.pc = "discard"
    BY <1>2, <2>3 DEF Request
  <2>5. request' = [request EXCEPT ![r] = x] /\ UNCHANGED <<claim, reportVars>>
    BY <1>1, <1>5, <2>3 DEF reportVars
  <2>6. QED
    BY <1>1, <1>5, <2>4, <2>5, CallReports
<1>6. Commits \/ Fails
  BY DEF CompleteCommit, CompleteBatch, jobVars
<1>7. QED
  BY <1>4, <1>5, <1>6

\* A discarded report is not registered, so its object may go.
LEMMA DiscardReports ==
  ASSUME ReportInv, NEW r \in Requests, CompleteDiscard(r) PROVE Reports'
<1> USE DEF ReportInv, TypeInv, TypeOK
<1>1. /\ request[r].pc = "discard" /\ bucket' = bucket \ {r}
      /\ UNCHANGED <<jobVars, claim, report_artifact_id, artifacts>>
  BY DEF CompleteDiscard
<1>2. r \notin artifacts
  BY <1>1 DEF ReportsInFlight
<1>3. request' = [request EXCEPT ![r] = IdleRequest]
  BY <1>2 DEF CompleteDiscard
<1>4. ReportsInFlight'
  BY <1>1, <1>2, <1>3, IdleEnd DEF ReportsInFlight
<1>5. ReportDurable'
  BY <1>1, <1>2 DEF ReportDurable, jobVars
<1>6. QED
  BY <1>4, <1>5 DEF Reports

LEMMA StoreReports ==
  ASSUME ReportInv, NEW r \in Requests, CompleteStore(r) PROVE Reports'
<1> USE DEF ReportInv, TypeInv, TypeOK
<1>1. /\ request[r].pc = "complete" /\ bucket' = bucket \cup {r}
      /\ request' = [request EXCEPT ![r] = [request[r] EXCEPT !.pc = "stored"]]
      /\ UNCHANGED <<jobVars, claim, report_artifact_id, artifacts>>
  BY DEF CompleteStore
<1>2. ReportsInFlight'
  BY <1>1 DEF ReportsInFlight, Request
<1>3. ReportDurable'
  BY <1>1 DEF ReportDurable, jobVars
<1>4. QED
  BY <1>2, <1>3 DEF Reports

LEMMA RunnerCallReports ==
  ASSUME ReportInv, NEW r \in Requests, RunnerCall(r) PROVE Reports'
<1>1. PICK c \in Claims, pc \in {"heartbeat", "fail", "complete"},
           u \in Nat, q \in BOOLEAN :
        /\ Call(r, c, pc, u, q)
        /\ pc = "complete" => JobType[claim[c].job] = "evaluation"
  <2>1. \A s \in LeaseSeconds : clock + s \in Nat
    BY ConstantsAssumption DEF ReportInv, TypeInv, TypeOK
  <2>2. QED
    BY <2>1 DEF RunnerCall, HeartbeatCall, FailCall, CompleteCall
<1>2. PICK x : x = [pc |-> pc, lease |-> c, at |-> clock, until |-> u,
                    requeue |-> q]
  OBVIOUS
<1>3. x \in Request /\ x.pc = pc /\ x.lease = c
  BY <1>2 DEF Request, ReportInv, TypeInv, TypeOK
<1>4. /\ request[r].pc = "idle" /\ request' = [request EXCEPT ![r] = x]
      /\ UNCHANGED <<jobVars, claim, reportVars>>
  BY <1>1, <1>2 DEF Call
<1>5. QED
  BY <1>1, <1>3, <1>4, CallReports DEF jobVars

LEMMA ReportStep ==
  ASSUME "batch_ambiguous" \notin Faults PROVE ReportInv /\ [Next]_vars => ReportInv'
<1> SUFFICES ASSUME ReportInv, [Next]_vars PROVE ReportInv'
  OBVIOUS
<1> USE DEF ReportInv
<1>1. TypeInv'
  BY TypeStep
<1>2. SUFFICES Reports'
  BY <1>1 DEF Reports
<1>3. CASE UNCHANGED vars \/ Tick
  BY <1>3, QuietReports DEF vars, Tick, jobVars
<1>4. ASSUME NEW c \in Claims, Poll(c) \/ ClaimStep(c) \/ ClaimCrash(c) PROVE Reports'
  <2>1. UNCHANGED <<request, reportVars>>
    BY <1>4 DEF Poll, ClaimCall, ClaimStep, ClaimSweep, ClaimUpdate, ClaimNothing,
                ClaimIdle, ClaimInsert, ClaimRollback, ClaimAnnounce, ClaimCrash
  <2>2. \A j \in Jobs : status'[j] = "succeeded" <=> status[j] = "succeeded"
    <3> USE DEF TypeInv, TypeOK
    <3>1. CASE ClaimSweep(c)
      BY <3>1 DEF ClaimSweep, Abandoned, Exhausted, Lapsed
    <3>2. CASE ClaimUpdate(c)
      BY <3>2 DEF ClaimUpdate, Eligible
    <3>3. CASE ClaimRollback(c)
      BY <3>3 DEF ClaimRollback
    <3>4. CASE UNCHANGED status
      BY <3>4
    <3>5. QED
      BY <1>4, <3>1, <3>2, <3>3, <3>4
      DEF ClaimStep, Poll, ClaimCall, ClaimNothing, ClaimIdle, ClaimInsert,
          ClaimAnnounce, ClaimCrash, jobVars
  <2>3. QED
    BY <2>1, <2>2, QuietReports
<1>5. ASSUME NEW r \in Requests, RunnerCall(r) \/ RequestStep(r) PROVE Reports'
  <2>1. CASE HeartbeatCommit(r)
    BY <2>1, IdleEnd, CallReports DEF HeartbeatCommit
  <2>2. CASE CompleteReject(r)
    BY <2>2, IdleEnd, CallReports DEF CompleteReject, jobVars
  <2>3. QED
    BY <1>5, <2>1, <2>2, RunnerCallReports, FailReports, StoreReports,
       CommitReports, DiscardReports DEF RequestStep
<1>6. ASSUME NEW j \in Jobs, Admin(j) PROVE Reports'
  <2>1. UNCHANGED <<request, reportVars>>
    BY <1>6 DEF Admin, Submit, CancelQueued, CancelRunning, Retry
  <2>2. \A k \in Jobs : status'[k] = "succeeded" <=> status[k] = "succeeded"
    BY <1>6 DEF Admin, Submit, CancelQueued, CancelRunning, Retry, TypeInv, TypeOK
  <2>3. QED
    BY <2>1, <2>2, QuietReports
<1>7. QED
  BY <1>3, <1>4, <1>5, <1>6 DEF Next

\* A registered report keeps its object and outcomes agree with reports,
\* however completions of the same or of older leases overlap, as long as a
\* failed batch is one that did not commit (job-lifecycle.ts:283-313).
THEOREM ReportsAreDurable ==
  ASSUME "batch_ambiguous" \notin Faults PROVE Spec => []ReportDurable
<1>1. Init => ReportInv
  BY TypeInit
  DEF Init, ReportInv, ReportsInFlight, ReportDurable, IdleRequest
<1>2. ReportInv /\ [Next]_vars => ReportInv'
  BY ReportStep
<1>3. ReportInv => ReportDurable
  BY DEF ReportInv
<1>4. QED
  BY <1>1, <1>2, <1>3, PTL DEF Spec

-----------------------------------------------------------------------------
(***************************************************************************)
(* 4. Cancellations, and the contract: JobLifecycle implements             *)
(* JobContract.                                                            *)
(***************************************************************************)

\* Once a running job's cancellation is requested, nothing but its own claim's
\* rollback lets it be anything else than running or cancelled, whatever
\* completion, requeue, sweep or takeover is in flight
\* (job-lifecycle.ts:73, 89, 295, 328).
THEOREM CancellationIsFinal == Spec => CancellationWins
<1>1. TypeInv /\ [Next]_vars =>
        \A j \in Jobs : status[j] = "running" /\ cancellation_requested[j] =>
          \/ status'[j] \in {"running", "cancelled"}
          \/ status'[j] = "queued" /\ claim[lease_token_hash[j]].pc = "rollback"
  <2> SUFFICES ASSUME TypeInv, [Next]_vars, NEW j \in Jobs,
                      status[j] = "running", cancellation_requested[j],
                      status'[j] \notin {"running", "cancelled"}
               PROVE  status'[j] = "queued" /\ claim[lease_token_hash[j]].pc = "rollback"
    OBVIOUS
  <2> USE DEF TypeInv, TypeOK
  <2>1. ~UNCHANGED status
    OBVIOUS
  <2>2. ~UNCHANGED vars /\ ~Tick
    BY <2>1 DEF vars, Tick, jobVars
  <2>3. ASSUME NEW c \in Claims, Poll(c) \/ ClaimStep(c) \/ ClaimCrash(c)
        PROVE  ClaimRollback(c)
    <3>1. ~(Poll(c) \/ ClaimNothing(c) \/ ClaimIdle(c) \/ ClaimInsert(c)
            \/ ClaimAnnounce(c) \/ ClaimCrash(c))
      BY <2>1 DEF Poll, ClaimCall, ClaimNothing, ClaimIdle, ClaimInsert,
                  ClaimAnnounce, ClaimCrash, jobVars
    <3>2. ~ClaimSweep(c)
      BY DEF ClaimSweep, Abandoned, Exhausted, Lapsed
    <3>3. ~ClaimUpdate(c)
      BY DEF ClaimUpdate, Eligible
    <3>4. QED
      BY <2>3, <3>1, <3>2, <3>3 DEF ClaimStep
  <2>4. ASSUME NEW r \in Requests, RunnerCall(r) \/ RequestStep(r) PROVE FALSE
    <3>1. ~(RunnerCall(r) \/ HeartbeatCommit(r) \/ CompleteStore(r)
            \/ CompleteReject(r) \/ CompleteDiscard(r))
      BY <2>1 DEF RunnerCall, HeartbeatCall, FailCall, CompleteCall, Call,
                  HeartbeatCommit, CompleteStore, CompleteReject,
                  CompleteDiscard, jobVars
    <3>2. ~FailCommit(r)
      BY DEF FailCommit, FailStatus
    <3>3. ~CompleteCommit(r)
      BY DEF CompleteCommit, CompleteBatch, Completable, jobVars
    <3>4. QED
      BY <2>4, <3>1, <3>2, <3>3 DEF RequestStep
  <2>5. \A k \in Jobs : ~Admin(k)
    BY DEF Admin, Submit, CancelQueued, CancelRunning, Retry
  <2>6. PICK c \in Claims : ClaimRollback(c)
    BY <2>2, <2>3, <2>4, <2>5 DEF Next
  <2>7. QED
    BY <2>6, <2>1 DEF ClaimRollback
<1>2. QED
  BY <1>1, TypeInit, TypeStep, PTL DEF Spec, CancellationWins

-----------------------------------------------------------------------------
\* A claim that has won nothing names no job, so its token is unspent.
UnspentNameNone == \A c \in Claims : ~Won(c) => claim[c].job = 0

\* With TypeInv: tokens are spent by winning, and only winners hold jobs.
TokenInv == TypeInv /\ TokensAreWon /\ UnspentNameNone

WonTokens == TokensAreWon /\ UnspentNameNone

LEMMA SpentAreWon ==
  ASSUME TokenInv PROVE SpentTokens = {c \in Claims : Won(c)}
  BY ConstantsAssumption DEF TokenInv, TypeInv, WinnersHaveJobs, UnspentNameNone,
     SpentTokens

LEMMA PollRecord ==
  ASSUME TypeInv, NEW c \in Claims, Poll(c)
  PROVE  /\ claim[c].pc = "idle" /\ claim'[c].pc = "called" /\ claim'[c].job = 0
         /\ \A d \in Claims \ {c} : claim'[d] = claim[d]
<1>1. PICK n \in Runners, j \in Jobs, s \in LeaseSeconds :
        ClaimCall(c, n, JobType[j], s)
  BY DEF Poll
<1>2. PICK x : x = [IdleClaim EXCEPT !.pc = "called", !.runner = n,
                   !.type = JobType[j], !.at = clock, !.until = clock + s]
  OBVIOUS
<1>3. x.pc = "called" /\ x.job = 0
  BY <1>2 DEF IdleClaim
<1>4. claim[c].pc = "idle" /\ claim' = [claim EXCEPT ![c] = x]
  BY <1>1, <1>2 DEF ClaimCall
<1>5. QED
  BY <1>3, <1>4 DEF TypeInv, TypeOK

\* No token moves and no job with a holder stops.
LEMMA HoldersStay ==
  ASSUME TokenInv, UNCHANGED <<claim, lease_token_hash>>,
         \A j \in Jobs : status[j] = "running" => status'[j] = "running"
  PROVE  WonTokens'
  BY DEF TokenInv, TokensAreWon, UnspentNameNone, Won, WonTokens

\* Jobs lose their holders; every other job keeps status and holder.
LEMMA HoldersLeave ==
  ASSUME TokenInv, NEW S \in SUBSET Jobs, ClearLease(S), UNCHANGED claim,
         \A j \in Jobs \ S : status'[j] = status[j]
  PROVE  WonTokens'
  BY ConstantsAssumption
  DEF TokenInv, TokensAreWon, UnspentNameNone, Won, ClearLease, WonTokens

LEMMA ClaimTokens ==
  ASSUME TokenInv, TypeInv', NEW c \in Claims, Poll(c) \/ ClaimStep(c) \/ ClaimCrash(c)
  PROVE  WonTokens'
<1> USE DEF TokenInv, TypeInv, TypeOK, TokensAreWon, UnspentNameNone, Won, WonTokens
<1>0. claim[c] \in Claim
  BY CallTypes
<1>1. CASE Poll(c)
  <2>1. claim'[c].pc = "called" /\ claim'[c].job = 0
        /\ ~Won(c) /\ \A d \in Claims \ {c} : claim'[d] = claim[d]
    BY <1>1, PollRecord
  <2>2. UNCHANGED <<status, lease_token_hash>>
    BY <1>1 DEF Poll, ClaimCall, jobVars
  <2>3. QED
    BY <2>1, <2>2
<1>2. CASE ClaimSweep(c)
  <2>1. PICK x : x = [claim[c] EXCEPT !.pc = "swept"]
    OBVIOUS
  <2>2. x.pc = "swept" /\ x.job = claim[c].job
    BY <1>0, <2>1 DEF Claim
  <2>3. claim' = [claim EXCEPT ![c] = x] /\ claim[c].pc = "called"
    BY <1>2, <2>1 DEF ClaimSweep
  <2>4. \A j \in Jobs : \/ lease_token_hash'[j] = None
                        \/ lease_token_hash'[j] = lease_token_hash[j]
                           /\ status'[j] = status[j]
    BY <1>2 DEF ClaimSweep, ClearLease
  <2>5. QED
    BY <2>2, <2>3, <2>4, ConstantsAssumption
<1>3. CASE ClaimUpdate(c)
  <2>1. PICK j \in Jobs :
          /\ status' = [status EXCEPT ![j] = "running"]
          /\ lease_token_hash' = [lease_token_hash EXCEPT ![j] = c]
          /\ claim' = [claim EXCEPT ![c] =
                [IdleClaim EXCEPT !.pc = "updated", !.runner = claim[c].runner,
                                  !.until = claim[c].until, !.job = j,
                                  !.number = attempt_count[j] + 1]]
    BY <1>3 DEF ClaimUpdate
  <2>2. claim[c].pc = "swept"
    BY <1>3 DEF ClaimUpdate
  <2>3. claim'[c].pc = "updated" /\ claim'[c].job = j
        /\ \A d \in Claims \ {c} : claim'[d] = claim[d]
    BY <2>1 DEF IdleClaim
  <2>4. QED
    BY <2>1, <2>2, <2>3
<1>4. CASE ClaimNothing(c) \/ ClaimIdle(c)
  <2>1. claim'[c].pc \in {"unclaimed", "idle"} /\ claim'[c].job = 0
        /\ ~Won(c) /\ \A d \in Claims \ {c} : claim'[d] = claim[d]
    BY <1>0, <1>4 DEF ClaimNothing, ClaimIdle, IdleClaim, Claim
  <2>2. UNCHANGED <<status, lease_token_hash>>
    BY <1>4 DEF ClaimNothing, ClaimIdle, jobVars
  <2>3. QED
    BY <2>1, <2>2
<1>5. CASE ClaimInsert(c) \/ ClaimAnnounce(c) \/ ClaimCrash(c)
  <2>1. Won(c)' /\ claim'[c].job = claim[c].job
        /\ \A d \in Claims \ {c} : claim'[d] = claim[d]
    BY <1>0, <1>5 DEF ClaimInsert, ClaimAnnounce, ClaimCrash, Claim
  <2>2. UNCHANGED <<status, lease_token_hash>>
    BY <1>5 DEF ClaimInsert, ClaimAnnounce, ClaimCrash, jobVars
  <2>3. TokensAreWon'
    BY <2>1, <2>2
  <2>4. UnspentNameNone'
    BY <1>0, <1>5, <2>1 DEF ClaimInsert, ClaimAnnounce, ClaimCrash
  <2>5. QED
    BY <2>3, <2>4
<1>6. CASE ClaimRollback(c)
  <2>1. /\ claim'[c].pc \in {"idle", "dead"}
        /\ claim'[c].pc = "idle" => claim'[c].job = 0
        /\ \A d \in Claims \ {c} : claim'[d] = claim[d]
    BY <1>0, <1>6 DEF ClaimRollback, IdleClaim, Claim
  <2>2. \A j \in Jobs : /\ lease_token_hash'[j] # c
                        /\ \/ lease_token_hash'[j] = None
                           \/ lease_token_hash'[j] = lease_token_hash[j]
                              /\ status'[j] = status[j]
    BY <1>6, ConstantsAssumption DEF ClaimRollback, ClearLease, WinnersHaveJobs
  <2>3. QED
    BY <2>1, <2>2, ConstantsAssumption
<1>7. QED
  BY <1>1, <1>2, <1>3, <1>4, <1>5, <1>6 DEF ClaimStep, Poll

LEMMA TokenStep == TokenInv /\ [Next]_vars => TokenInv'
<1> SUFFICES ASSUME TokenInv, [Next]_vars PROVE TokenInv'
  OBVIOUS
<1>1. TypeInv'
  BY TypeStep DEF TokenInv
<1>2. SUFFICES WonTokens'
  BY <1>1 DEF TokenInv, WonTokens
<1>3. CASE UNCHANGED vars \/ Tick
  BY <1>3, HoldersStay DEF vars, Tick, jobVars
<1>4. ASSUME NEW c \in Claims, Poll(c) \/ ClaimStep(c) \/ ClaimCrash(c) PROVE WonTokens'
  BY <1>1, <1>4, ClaimTokens
<1>5. ASSUME NEW r \in Requests, RunnerCall(r) \/ RequestStep(r) PROVE WonTokens'
  <2> DEFINE j == claim[request[r].lease].job
  <2>1. CASE UNCHANGED <<claim, lease_token_hash, status>>
    BY <2>1, HoldersStay
  <2>2. CASE FailCommit(r) \/ CompleteCommit(r)
    <3>1. j \in Jobs /\ UNCHANGED claim
      BY <2>2, CallInFlight DEF FailCommit, CompleteCommit, TokenInv
    <3>2. CASE ClearLease({j})
      <4>1. \A k \in Jobs \ {j} : status'[k] = status[k]
        BY <2>2 DEF FailCommit, CompleteCommit, CompleteBatch, jobVars,
                    TokenInv, TypeInv, TypeOK
      <4>2. QED
        BY <3>1, <3>2, <4>1, HoldersLeave
    <3>3. QED
      BY <2>1, <2>2, <3>1, <3>2 DEF FailCommit, CompleteCommit, CompleteBatch, jobVars
  <2>3. QED
    BY <1>5, <2>1, <2>2
    DEF RunnerCall, HeartbeatCall, FailCall, CompleteCall, Call, RequestStep,
        HeartbeatCommit, CompleteStore, CompleteReject, CompleteDiscard, jobVars
<1>6. ASSUME NEW j \in Jobs, Admin(j) PROVE WonTokens'
  <2>1. UNCHANGED <<claim, lease_token_hash>>
    BY <1>6 DEF Admin, Submit, CancelQueued, CancelRunning, Retry
  <2>2. \A k \in Jobs : status[k] = "running" => status'[k] = "running"
    BY <1>6 DEF Admin, Submit, CancelQueued, CancelRunning, Retry, TokenInv,
                TypeInv, TypeOK
  <2>3. QED
    BY <2>1, <2>2, HoldersStay
<1>7. QED
  BY <1>3, <1>4, <1>5, <1>6 DEF Next

-----------------------------------------------------------------------------
(***************************************************************************)
(* Each step is a step of the contract, or changes none of its variables   *)
(***************************************************************************)

LEMMA ContractInit == Init => Contract!Init
  BY ConstantsAssumption
  DEF Init, Contract!Init, SpentTokens, Cancelling, IdleClaim

LEMMA StutterStep ==
  ASSUME UNCHANGED <<status, lease_token_hash, cancellation_requested,
                     report_artifact_id>>,
         \A c \in Claims : claim'[c].job = claim[c].job
  PROVE  UNCHANGED Contract!vars
  BY DEF Contract!vars, SpentTokens, Cancelling

LEMMA SweepContract ==
  ASSUME TokenInv, NEW c \in Claims, ClaimSweep(c) PROVE Contract!Next
<1> DEFINE A == Abandoned(claim[c].at)
           E == Exhausted(claim[c].at)
<1>1. Contract!Release(A, E, {})
  BY CallTypes
  DEF ClaimSweep, ClearLease, Abandoned, Exhausted, Lapsed, Contract!Release,
      SpentTokens, Cancelling, reportVars, TokenInv, TypeInv, TypeOK, Claim
<1>2. A \in SUBSET Jobs /\ E \in SUBSET Jobs /\ {} \in SUBSET Jobs
  BY DEF Abandoned, Exhausted
<1>3. QED
  BY <1>1, <1>2 DEF Contract!Next

LEMMA UpdateContract ==
  ASSUME TokenInv, NEW c \in Claims, ClaimUpdate(c) PROVE Contract!Next
<1>1. PICK j \in Jobs :
        /\ Eligible(j, claim[c].type, claim[c].at)
        /\ status' = [status EXCEPT ![j] = "running"]
        /\ lease_token_hash' = [lease_token_hash EXCEPT ![j] = c]
        /\ claim' = [claim EXCEPT ![c] =
              [IdleClaim EXCEPT !.pc = "updated", !.runner = claim[c].runner,
                                !.until = claim[c].until, !.job = j,
                                !.number = attempt_count[j] + 1]]
  BY DEF ClaimUpdate
<1>2. claim[c].pc = "swept" /\ UNCHANGED <<cancellation_requested, reportVars>>
  BY DEF ClaimUpdate
<1>3. claim'[c].job = j /\ \A d \in Claims \ {c} : claim'[d] = claim[d]
  BY <1>1 DEF IdleClaim, TokenInv, TypeInv, TypeOK
<1>4. c \notin SpentTokens /\ SpentTokens' = SpentTokens \cup {c}
  BY <1>2, <1>3, ConstantsAssumption DEF SpentTokens, TokenInv, UnspentNameNone, Won
<1>5. Contract!Take(j, c)
  BY <1>1, <1>2, <1>4 DEF Contract!Take, Eligible, Cancelling, reportVars
<1>6. QED
  BY <1>5 DEF Contract!Next

LEMMA RollbackContract ==
  ASSUME TokenInv, NEW c \in Claims, ClaimRollback(c) PROVE Contract!Next
<1> USE DEF TokenInv, TypeInv, TypeOK
<1>1. claim[c].pc = "rollback" /\ UNCHANGED <<cancellation_requested, reportVars>>
  BY DEF ClaimRollback
<1>2. claim[c].job \in Jobs /\ claim[c] \in Claim
  BY <1>1, CallTypes DEF WinnersHaveJobs, Won
<1>3. c \in SpentTokens
  BY <1>2, ConstantsAssumption DEF SpentTokens
<1>4. \A j \in Jobs : lease_token_hash[j] = c => j = claim[c].job /\ status[j] = "running"
  BY DEF TokensAreWon
<1>5. /\ status' = [j \in Jobs |-> IF lease_token_hash[j] = c THEN "queued" ELSE status[j]]
      /\ lease_token_hash' = [j \in Jobs |-> IF lease_token_hash[j] = c THEN None
                                             ELSE lease_token_hash[j]]
  BY <1>2, <1>4 DEF ClaimRollback, ClearLease
<1>6. SpentTokens' \in {SpentTokens, SpentTokens \ {c}}
  <2>1. \A d \in Claims \ {c} : claim'[d] = claim[d]
    BY DEF ClaimRollback
  <2>2. \A d \in Claims \ {c} : claim'[d].job = claim[d].job
    BY <2>1
  <2>3. CASE claim'[c].job = 0
    BY <2>2, <2>3 DEF SpentTokens
  <2>4. CASE claim'[c].job # 0
    <3>1. claim[c].job # 0
      BY <1>3 DEF SpentTokens
    <3>2. QED
      BY <2>2, <2>4, <3>1 DEF SpentTokens
  <2>5. QED
    BY <2>3, <2>4
<1>7. Contract!Withdraw(c)
  BY <1>1, <1>3, <1>5, <1>6 DEF Contract!Withdraw, Cancelling, reportVars
<1>8. QED
  BY <1>7 DEF Contract!Next

LEMMA ClaimContract ==
  ASSUME TokenInv, NEW c \in Claims, Poll(c) \/ ClaimStep(c) \/ ClaimCrash(c)
  PROVE  [Contract!Next]_(Contract!vars)
<1>1. CASE Poll(c) \/ ClaimNothing(c) \/ ClaimIdle(c) \/ ClaimInsert(c)
           \/ ClaimAnnounce(c) \/ ClaimCrash(c)
  <2>1. UNCHANGED <<status, lease_token_hash, cancellation_requested,
                    report_artifact_id>>
    BY <1>1 DEF Poll, ClaimCall, ClaimNothing, ClaimIdle, ClaimInsert,
                ClaimAnnounce, ClaimCrash, jobVars, reportVars
  <2>2. claim[c] \in Claim /\ (~Won(c) => claim[c].job = 0)
    BY CallTypes DEF TokenInv, UnspentNameNone
  <2>3. \A d \in Claims : claim'[d].job = claim[d].job
    <3> USE DEF TokenInv, TypeInv, TypeOK
    <3>1. CASE Poll(c)
      BY <2>2, <3>1, PollRecord DEF Won
    <3>2. CASE ClaimIdle(c)
      BY <2>2, <3>2 DEF ClaimIdle, IdleClaim, Won
    <3>3. CASE ~(Poll(c) \/ ClaimIdle(c))
      BY <1>1, <2>2, <3>3 DEF ClaimNothing, ClaimInsert, ClaimAnnounce, ClaimCrash, Claim
    <3>4. QED
      BY <3>1, <3>2, <3>3
  <2>4. QED
    BY <2>1, <2>3, StutterStep
<1>2. QED
  BY <1>1, SweepContract, UpdateContract, RollbackContract DEF ClaimStep

LEMMA FailContract ==
  ASSUME TokenInv, NEW r \in Requests, FailCommit(r)
  PROVE  [Contract!Next]_(Contract!vars)
<1> DEFINE c == request[r].lease
           j == claim[c].job
           s == FailStatus(r)
<1>1. /\ request[r].pc = "fail"
      /\ UNCHANGED <<cancellation_requested, claim, reportVars>>
  BY DEF FailCommit
<1>2. j \in Jobs /\ c \in Claims
  BY <1>1, CallInFlight DEF TokenInv
<1>3. CASE AttemptActive(j, c, request[r].at)
  <2>1. /\ status[j] = "running" /\ ClearLease({j})
        /\ status' = [status EXCEPT ![j] = s]
    BY <1>3 DEF FailCommit, AttemptActive, LeaseActive
  <2>2. \/ s = "cancelled" /\ cancellation_requested[j]
        \/ s \in {"queued", "failed"} /\ ~cancellation_requested[j]
    BY DEF FailStatus
  <2>3. UNCHANGED <<SpentTokens, Cancelling, report_artifact_id>>
    BY <1>1 DEF SpentTokens, Cancelling, reportVars
  <2> HIDE DEF c, j, s
  <2>4. lease_token_hash' = [k \in Jobs |-> IF k \in {j} THEN None ELSE lease_token_hash[k]]
    BY <2>1 DEF ClearLease
  <2>5. CASE s = "cancelled"
    <3>1. Contract!Release({j}, {}, {})
      BY <1>2, <2>1, <2>2, <2>3, <2>4, <2>5
      DEF Contract!Release, Cancelling, TokenInv, TypeInv, TypeOK
    <3>2. QED
      BY <1>2, <3>1 DEF Contract!Next
  <2>6. CASE s = "failed"
    <3>1. Contract!Release({}, {j}, {})
      BY <1>2, <2>1, <2>2, <2>3, <2>4, <2>6
      DEF Contract!Release, Cancelling, TokenInv, TypeInv, TypeOK
    <3>2. QED
      BY <1>2, <3>1 DEF Contract!Next
  <2>7. CASE s = "queued"
    <3>1. Contract!Release({}, {}, {j})
      BY <1>2, <2>1, <2>2, <2>3, <2>4, <2>7
      DEF Contract!Release, Cancelling, TokenInv, TypeInv, TypeOK
    <3>2. QED
      BY <1>2, <3>1 DEF Contract!Next
  <2>8. QED
    BY <2>2, <2>5, <2>6, <2>7
<1>4. CASE ~AttemptActive(j, c, request[r].at)
  BY <1>1, <1>4, StutterStep DEF FailCommit, reportVars
<1>5. QED
  BY <1>3, <1>4

LEMMA CompleteContract ==
  ASSUME TokenInv, NEW r \in Requests, CompleteCommit(r)
  PROVE  [Contract!Next]_(Contract!vars)
<1> DEFINE c == request[r].lease
           j == claim[c].job
<1>1. /\ request[r].pc = "stored"
      /\ UNCHANGED <<cancellation_requested, claim>>
  BY DEF CompleteCommit
<1>2. j \in Jobs /\ c \in Claims
  BY <1>1, CallInFlight DEF TokenInv
<1>3. CASE CompleteBatch(r) /\ Completable(r)
  <2>1. /\ status[j] = "running" /\ ~cancellation_requested[j] /\ ClearLease({j})
        /\ status' = [status EXCEPT ![j] = "succeeded"]
        /\ report_artifact_id' = [report_artifact_id EXCEPT ![j] = r]
    BY <1>3 DEF CompleteBatch, Completable, LeaseActive
  <2>2. UNCHANGED <<SpentTokens, Cancelling>>
    BY <1>1 DEF SpentTokens, Cancelling
  <2> HIDE DEF c, j
  <2>3. lease_token_hash' = [lease_token_hash EXCEPT ![j] = None]
    BY <1>2, <2>1 DEF ClearLease, TokenInv, TypeInv, TypeOK
  <2>4. Contract!Succeed(j, r)
    BY <2>1, <2>2, <2>3 DEF Contract!Succeed, Cancelling
  <2>5. QED
    BY <1>2, <2>4 DEF Contract!Next
<1>4. CASE ~(CompleteBatch(r) /\ Completable(r))
  BY <1>1, <1>4, StutterStep DEF CompleteCommit, CompleteBatch, jobVars
<1>5. QED
  BY <1>3, <1>4

LEMMA AdminContract ==
  ASSUME TokenInv, NEW j \in Jobs, Admin(j) PROVE Contract!Next
<1> USE DEF TokenInv, TypeInv, TypeOK, SpentTokens, Cancelling, reportVars
<1>1. CASE Submit(j)
  BY <1>1 DEF Submit, Contract!Create, Contract!Next
<1>2. CASE CancelQueued(j)
  BY <1>2 DEF CancelQueued, Contract!Cancel, Contract!Next
<1>3. CASE CancelRunning(j)
  BY <1>3 DEF CancelRunning, Contract!Cancel, Contract!Next
<1>4. CASE Retry(j)
  BY <1>4 DEF Retry, Contract!Retry, Contract!Next
<1>5. QED
  BY <1>1, <1>2, <1>3, <1>4 DEF Admin

LEMMA ContractStep ==
  TokenInv /\ [Next]_vars => [Contract!Next]_(Contract!vars)
<1> SUFFICES ASSUME TokenInv, [Next]_vars PROVE [Contract!Next]_(Contract!vars)
  OBVIOUS
<1>1. CASE UNCHANGED vars \/ Tick
  BY <1>1, StutterStep DEF vars, Tick, jobVars, reportVars
<1>2. ASSUME NEW r \in Requests, RunnerCall(r) \/ RequestStep(r)
      PROVE  [Contract!Next]_(Contract!vars)
  <2>1. CASE ~(FailCommit(r) \/ CompleteCommit(r))
    BY <1>2, <2>1, StutterStep
    DEF RunnerCall, HeartbeatCall, FailCall, CompleteCall, Call, RequestStep,
        HeartbeatCommit, CompleteStore, CompleteReject, CompleteDiscard, jobVars,
        reportVars
  <2>2. QED
    BY <2>1, FailContract, CompleteContract
<1>3. QED
  BY <1>1, <1>2, ClaimContract, AdminContract DEF Next

\* Every handler step, with its leases, timestamps and calls in flight, is a
\* step of the abstract contract or changes no job, whatever faults occur
\* (job-lifecycle.ts:70-106, 191-343, 393-423).
THEOREM LifecycleKeepsContract == Spec => KeepsContract
<1>1. Init => TokenInv
  BY TypeInit, ConstantsAssumption
  DEF Init, TokenInv, TokensAreWon, UnspentNameNone, IdleClaim
<1>2. QED
  BY <1>1, ContractInit, TokenStep, ContractStep, PTL
  DEF Spec, KeepsContract, Contract!Spec

-----------------------------------------------------------------------------
(***************************************************************************)
(* 5. The frame pipeline over the job lifecycle.                           *)
(***************************************************************************)

(***************************************************************************)
(* Steps of the job lifecycle, as frame artifacts see them                 *)
(***************************************************************************)

\* Only an evaluation's completion makes a job or an attempt succeed.
LEMMA LifecycleOutcomes ==
  ASSUME TypeInv, ReportsAreEvaluations, [Next]_vars
  PROVE  /\ \A j \in Jobs : JobType[j] = "sampling" =>
               (status'[j] = "succeeded" <=> status[j] = "succeeded")
         /\ \A c \in Claims : attempt_status'[c] = "succeeded" =>
               \/ attempt_status[c] = "succeeded"
               \/ claim[c].pc = "held" /\ JobType[claim[c].job] = "evaluation"
         /\ ReportsAreEvaluations'
<1> DEFINE Kept == /\ \A j \in Jobs : JobType[j] = "sampling" =>
                         (status'[j] = "succeeded" <=> status[j] = "succeeded")
                   /\ \A c \in Claims : attempt_status'[c] = "succeeded" =>
                         \/ attempt_status[c] = "succeeded"
                         \/ claim[c].pc = "held" /\ JobType[claim[c].job] = "evaluation"
<1> USE DEF TypeInv, TypeOK
<1>1. \A c \in Claims : claim[c].pc = "held" => claim'[c] = claim[c]
  BY HeldStays
<1>2. ASSUME UNCHANGED request PROVE ReportsAreEvaluations'
  <2>1. \A r \in Requests : request[r].pc # "idle" =>
           claim'[request[r].lease] = claim[request[r].lease]
    BY <1>1, CallInFlight
  <2>2. QED
    BY <1>2, <2>1 DEF ReportsAreEvaluations
<1>3. ASSUME NEW r \in Requests, NEW x \in Request, UNCHANGED claim,
             request' = [request EXCEPT ![r] = x],
             x.pc \in {"complete", "stored"} => JobType[claim[x.lease].job] = "evaluation"
      PROVE  ReportsAreEvaluations'
  BY <1>3 DEF ReportsAreEvaluations
<1>4. CASE UNCHANGED vars \/ Tick
  <2>1. UNCHANGED <<status, attempt_status, request>>
    BY <1>4 DEF vars, Tick, jobVars, attemptVars
  <2>2. QED
    BY <1>2, <2>1
<1>5. ASSUME NEW c \in Claims, Poll(c) \/ ClaimStep(c) \/ ClaimCrash(c)
      PROVE  Kept /\ ReportsAreEvaluations'
  <2>1. UNCHANGED request
    BY <1>5 DEF Poll, ClaimCall, ClaimStep, ClaimSweep, ClaimUpdate, ClaimNothing,
                ClaimIdle, ClaimInsert, ClaimRollback, ClaimAnnounce, ClaimCrash
  <2>2. CASE ClaimSweep(c)
    BY <2>2, <2>1, <1>2 DEF ClaimSweep, Abandoned, Exhausted, Lapsed
  <2>3. CASE ClaimUpdate(c)
    BY <2>3, <2>1, <1>2 DEF ClaimUpdate, Eligible, attemptVars
  <2>4. CASE ClaimRollback(c)
    BY <2>4, <2>1, <1>2 DEF ClaimRollback, attemptVars
  <2>5. CASE ClaimInsert(c)
    BY <2>5, <2>1, <1>2 DEF ClaimInsert, InsertRow, jobVars, attemptVars
  <2>6. CASE UNCHANGED <<status, attempt_status>>
    BY <2>6, <2>1, <1>2
  <2>7. QED
    BY <1>5, <2>2, <2>3, <2>4, <2>5, <2>6
    DEF ClaimStep, Poll, ClaimCall, ClaimNothing, ClaimIdle, ClaimAnnounce,
        ClaimCrash, jobVars, attemptVars
<1>6. ASSUME NEW r \in Requests, RunnerCall(r) PROVE Kept /\ ReportsAreEvaluations'
  <2>1. PICK c \in Claims, pc \in {"heartbeat", "fail", "complete"},
             u \in Nat, q \in BOOLEAN :
          /\ Call(r, c, pc, u, q)
          /\ pc = "complete" => JobType[claim[c].job] = "evaluation"
    <3>1. \A s \in LeaseSeconds : clock + s \in Nat
      BY ConstantsAssumption
    <3>2. PICK c \in Claims :
            \/ \E seconds \in LeaseSeconds : HeartbeatCall(r, c, seconds)
            \/ \E requeue \in BOOLEAN : FailCall(r, c, requeue)
            \/ CompleteCall(r, c)
      BY <1>6 DEF RunnerCall
    <3>3. CASE \E seconds \in LeaseSeconds : HeartbeatCall(r, c, seconds)
      <4>1. PICK seconds \in LeaseSeconds : Call(r, c, "heartbeat", clock + seconds, FALSE)
        BY <3>3 DEF HeartbeatCall
      <4>2. clock + seconds \in Nat
        BY <3>1
      <4>3. "heartbeat" # "complete"
        OBVIOUS
      <4>4. QED
        BY <4>1, <4>2, <4>3
    <3>4. CASE \E requeue \in BOOLEAN : FailCall(r, c, requeue)
      <4>1. PICK requeue \in BOOLEAN : Call(r, c, "fail", 0, requeue)
        BY <3>4 DEF FailCall
      <4>2. "fail" # "complete"
        OBVIOUS
      <4>3. QED
        BY <4>1, <4>2
    <3>5. CASE CompleteCall(r, c)
      <4>1. Call(r, c, "complete", 0, FALSE) /\ JobType[claim[c].job] = "evaluation"
        BY <3>5 DEF CompleteCall
      <4>2. QED
        BY <4>1
    <3>6. QED
      BY <3>2, <3>3, <3>4, <3>5
  <2>2. PICK x : x = [pc |-> pc, lease |-> c, at |-> clock, until |-> u,
                      requeue |-> q]
    OBVIOUS
  <2>3. x \in Request /\ x.pc = pc /\ x.lease = c
    BY <2>2 DEF Request
  <2>4. /\ request' = [request EXCEPT ![r] = x]
        /\ UNCHANGED <<status, attempt_status, claim>>
    BY <2>1, <2>2 DEF Call, jobVars, attemptVars
  <2>5. QED
    BY <1>3, <2>1, <2>3, <2>4
<1>7. ASSUME NEW r \in Requests, RequestStep(r) PROVE Kept /\ ReportsAreEvaluations'
  <2>0. request[r] \in Request /\ UNCHANGED claim
    BY <1>7, CallTypes DEF RequestStep, HeartbeatCommit, FailCommit, CompleteStore,
                CompleteReject, CompleteCommit, CompleteDiscard
  <2>1. ReportsAreEvaluations'
    <3>1. CASE request' = [request EXCEPT ![r] = IdleRequest]
      BY <1>3, <2>0, <3>1, IdleEnd
    <3>2. CASE CompleteStore(r) \/ CompleteCommit(r) \/ CompleteDiscard(r)
      <4>1. PICK s \in {"stored", "registered", "discard"} :
              request' = [request EXCEPT ![r] = [request[r] EXCEPT !.pc = s]]
              \/ request' = [request EXCEPT ![r] = IdleRequest]
        BY <3>2 DEF CompleteStore, CompleteCommit, CompleteDiscard
      <4>2. PICK x : x = [request[r] EXCEPT !.pc = s]
        OBVIOUS
      <4>3. x \in Request /\ x.pc = s /\ x.lease = request[r].lease
        BY <2>0, <4>2 DEF Request
      <4>4. s = "stored" /\ request' = [request EXCEPT ![r] = x]
               => request[r].pc \in {"complete", "stored"}
        <5>1. CASE CompleteStore(r)
          BY <5>1 DEF CompleteStore
        <5>2. CASE CompleteCommit(r)
          BY <5>2 DEF CompleteCommit
        <5>3. CASE CompleteDiscard(r)
          <6>1. request'[r].pc # "stored"
            BY <2>0, <5>3 DEF CompleteDiscard, IdleRequest, Request
          <6>2. QED
            BY <4>3, <6>1
        <5>4. QED
          BY <3>2, <5>1, <5>2, <5>3
      <4>5. QED
        BY <1>3, <2>0, <3>1, <4>1, <4>2, <4>3, <4>4 DEF ReportsAreEvaluations
    <3>3. QED
      BY <1>7, <3>1, <3>2 DEF RequestStep, HeartbeatCommit, FailCommit, CompleteReject
  <2>2. Kept
    <3> DEFINE c == request[r].lease
               j == claim[c].job
    <3>1. CASE FailCommit(r)
      <4>1. FailStatus(r) # "succeeded"
            /\ AttemptAfterFail(FailStatus(r)) # "succeeded"
        BY DEF FailStatus, AttemptAfterFail
      <4>2. QED
        BY <3>1, <4>1 DEF FailCommit, AttemptActive, LeaseActive
    <3>2. CASE CompleteCommit(r)
      <4>1. c \in Claims /\ j \in Jobs /\ claim[c].pc = "held"
            /\ JobType[j] = "evaluation" /\ claim[c].job = j
        BY <3>2, CallInFlight DEF CompleteCommit, ReportsAreEvaluations
      <4>2. CASE UNCHANGED <<status, attempt_status>>
        BY <4>2
      <4>3. CASE ~UNCHANGED <<status, attempt_status>>
        <5>0. CompleteBatch(r) /\ Completable(r)
          BY <3>2, <4>3 DEF CompleteCommit, CompleteBatch, jobVars
        <5>1. /\ status' = [status EXCEPT ![j] = "succeeded"]
              /\ \A d \in Claims \ {c} : attempt_status'[d] = attempt_status[d]
          BY <5>0 DEF CompleteBatch
        <5> HIDE DEF c, j
        <5>2. QED
          BY <4>1, <5>1
      <4>4. QED
        BY <4>2, <4>3
    <3>3. CASE UNCHANGED <<status, attempt_status>>
      BY <3>3
    <3>4. QED
      BY <1>7, <3>1, <3>2, <3>3
      DEF RequestStep, HeartbeatCommit, CompleteStore, CompleteReject,
          CompleteDiscard, jobVars, attemptVars
  <2>3. QED
    BY <2>1, <2>2
<1>8. ASSUME NEW j \in Jobs, Admin(j) PROVE Kept /\ ReportsAreEvaluations'
  <2>1. UNCHANGED <<request, attempt_status>>
    BY <1>8 DEF Admin, Submit, CancelQueued, CancelRunning, Retry, attemptVars
  <2>2. \A k \in Jobs : status'[k] = "succeeded" <=> status[k] = "succeeded"
    BY <1>8 DEF Admin, Submit, CancelQueued, CancelRunning, Retry
  <2>3. QED
    BY <2>1, <2>2, <1>2
<1>9. QED
  BY <1>4, <1>5, <1>6, <1>7, <1>8 DEF Next

-----------------------------------------------------------------------------
(***************************************************************************)
(* Outcomes of pipeline steps                                              *)
(***************************************************************************)

UploadPcs == {"put", "confirm", "undo"}
FinalizePcs == {"check", "store", "commit", "recover", "discard"}

\* What CallsLeased and ManifestsChecked say of one call record.
Fine(x) ==
    /\ x.pc # "idle" => x.lease \in Claims /\ claim[x.lease].pc = "held"
    /\ x.pc \in UploadPcs => /\ x.artifact \in Artifacts
                            /\ upload[x.artifact].lease = x.lease
    /\ x.pc \in FinalizePcs =>
          /\ x.manifest \in Manifests
          /\ JobType[claim[x.lease].job] = "sampling"
          /\ \A a \in x.manifest \ x.unchecked :
                /\ upload[a].status \in {"uploaded", "finalized"}
                /\ upload[a].lease = x.lease
          /\ x.pc # "check" => x.unchecked = {}
    /\ x.pc \notin UploadPcs => x.artifact = None
    /\ x.pc \notin FinalizePcs => x.manifest = {}

LEMMA FineCalls ==
  CallsLeased /\ ManifestsChecked <=> \A p \in Calls : Fine(call[p])
  BY DEF CallsLeased, ManifestsChecked, Fine, Uploading, Finalizing, UploadPcs,
         FinalizePcs

LEMMA IdleCallType ==
  IdleCall \in CallRecord /\ IdleCall.pc = "idle" /\ IdleCall.artifact = None
  /\ IdleCall.manifest = {}
  BY DEF IdleCall, CallRecord

LEMMA IdleFine == Fine(IdleCall)
  BY DEF IdleCall, Fine, UploadPcs, FinalizePcs

\* The lifecycle's part of the invariant does not notice steps that leave
\* its variables alone.
LEMMA SameLifecycle ==
  ASSUME OutcomeInv, UNCHANGED vars PROVE TypeInv' /\ ReportsAreEvaluations'
<1>1. TypeInv'
  BY TypeStep DEF OutcomeInv, PipelineTypeInv
<1>2. ReportsAreEvaluations'
  BY DEF OutcomeInv, ReportsAreEvaluations, vars
<1>3. QED
  BY <1>1, <1>2

LEMMA LifecycleStep ==
  ASSUME OutcomeInv, [Next]_vars, UNCHANGED pipelineVars PROVE OutcomeInv'
<1> USE DEF OutcomeInv, PipelineTypeInv
<1>1. TypeInv' /\ PipelineTypeOK'
  BY TypeStep DEF PipelineTypeOK, pipelineVars
<1>2. \A c \in Claims : claim[c].pc = "held" => claim'[c] = claim[c]
  BY HeldStays
<1>3. /\ \A j \in Jobs : JobType[j] = "sampling" =>
               (status'[j] = "succeeded" <=> status[j] = "succeeded")
      /\ \A c \in Claims : attempt_status'[c] = "succeeded" =>
               \/ attempt_status[c] = "succeeded"
               \/ claim[c].pc = "held" /\ JobType[claim[c].job] = "evaluation"
      /\ ReportsAreEvaluations'
  BY LifecycleOutcomes
<1>4. /\ \A a \in Artifacts : upload[a].status # "none" => upload[a].lease \in Claims
      /\ \A j \in Jobs : frame_set[j] # None => frame_set[j].lease \in Claims
  BY DEF PipelineTypeOK, Upload, FrameSet
<1>5. \A p \in Calls : Fine(call[p])'
  <2>1. \A p \in Calls : Fine(call[p])
    BY FineCalls
  <2>2. \A x : Fine(x) => Fine(x)'
    BY <1>2 DEF Fine, pipelineVars, UploadPcs, FinalizePcs
  <2>3. QED
    BY <2>1, <2>2 DEF pipelineVars, Fine
<1>6. CallsLeased' /\ ManifestsChecked'
  BY <1>5 DEF CallsLeased, ManifestsChecked, Fine, Uploading, Finalizing, UploadPcs,
         FinalizePcs
<1>7. OwnersHeld'
  BY <1>2, <1>3, <1>4 DEF OwnersHeld, pipelineVars
<1>8. FinalizedRegistered'
  BY <1>2, <1>4 DEF FinalizedRegistered, OwnersHeld, pipelineVars
<1>9. FrameSetIsOutcome'
  <2>1. \A j \in Jobs : JobType[j] = "sampling" =>
          (status'[j] = "succeeded" <=> frame_set'[j] # None)
    BY <1>3 DEF FrameSetIsOutcome, pipelineVars
  <2>2. \A j \in Jobs : frame_set'[j] # None =>
          \A a \in frame_set'[j].manifest :
             upload'[a] = [status |-> "finalized", lease |-> frame_set'[j].lease]
    BY DEF FrameSetIsOutcome, pipelineVars
  <2>3. \A c \in Claims :
          attempt_status'[c] = "succeeded" /\ JobType[claim'[c].job] = "sampling" =>
             frame_set'[claim'[c].job] # None /\ frame_set'[claim'[c].job].lease = c
    BY <1>2, <1>3 DEF FrameSetIsOutcome, OwnersHeld, pipelineVars
  <2>4. QED
    BY <2>1, <2>2, <2>3 DEF FrameSetIsOutcome
<1>10. QED
  BY <1>1, <1>3, <1>6, <1>7, <1>8, <1>9

\* One call gets a new record; rows stay as they are.
LEMMA CallStep ==
  ASSUME OutcomeInv, UNCHANGED <<vars, upload, frame_set>>,
         NEW p \in Calls, NEW x \in CallRecord, call' = [call EXCEPT ![p] = x],
         Fine(x), frames' \in SUBSET Artifacts, manifests' \in SUBSET Manifests
  PROVE  OutcomeInv'
<1> USE DEF OutcomeInv, PipelineTypeInv
<1>1. PipelineTypeOK'
  BY DEF PipelineTypeOK
<1>2. \A q \in Calls : Fine(call[q])'
  <2>1. \A q \in Calls : Fine(call[q])
    BY FineCalls
  <2>2. \A y : Fine(y) => Fine(y)'
    BY DEF Fine, vars
  <2>3. \A q \in Calls : call'[q] = x \/ call'[q] = call[q]
    BY DEF PipelineTypeOK
  <2>4. QED
    BY <2>1, <2>2, <2>3 DEF Fine
<1>3. CallsLeased' /\ ManifestsChecked'
  BY <1>2 DEF CallsLeased, ManifestsChecked, Fine, Uploading, Finalizing, UploadPcs,
         FinalizePcs
<1>4. OwnersHeld' /\ FinalizedRegistered' /\ FrameSetIsOutcome'
  BY SMTT(20) DEF OwnersHeld, FinalizedRegistered, FrameSetIsOutcome, vars, jobVars, attemptVars
<1>5. QED
  BY <1>1, <1>3, <1>4, SameLifecycle

LEMMA FineCall ==
  ASSUME OutcomeInv, NEW p \in Calls
  PROVE  call[p] \in CallRecord /\ Fine(call[p])
<1>1. call[p] \in CallRecord
  BY DEF OutcomeInv, PipelineTypeInv, PipelineTypeOK
<1>2. QED
  BY <1>1, FineCalls DEF OutcomeInv, PipelineTypeInv

\* A call ends; objects may have been deleted.
LEMMA EndStep ==
  ASSUME OutcomeInv, UNCHANGED <<vars, upload, frame_set>>, NEW p \in Calls,
         call' = [call EXCEPT ![p] = IdleCall], frames' \subseteq frames,
         manifests' \subseteq manifests
  PROVE  OutcomeInv'
<1>1. frames' \in SUBSET Artifacts /\ manifests' \in SUBSET Manifests
  BY DEF OutcomeInv, PipelineTypeInv, PipelineTypeOK
<1>2. QED
  BY <1>1, IdleCallType, IdleFine, CallStep

\* The calls that start.
LEMMA StartStep ==
  ASSUME OutcomeInv, NEW p \in Calls, PipelineCall(p) PROVE OutcomeInv'
<1> USE DEF OutcomeInv, PipelineTypeInv
<1>1. ASSUME NEW c \in Claims, NEW a \in Artifacts, UploadCall(p, a, c)
      PROVE  OutcomeInv'
  <2>1. PICK x : x = [IdleCall EXCEPT !.pc = "put", !.lease = c, !.artifact = a]
    OBVIOUS
  <2>2. /\ x \in CallRecord /\ x.pc = "put" /\ x.lease = c /\ x.artifact = a
        /\ x.manifest = {}
    BY <2>1 DEF IdleCall, CallRecord
  <2>3. Fine(x)
    BY <1>1, <2>2 DEF UploadCall, Fine, UploadPcs, FinalizePcs
  <2>4. call' = [call EXCEPT ![p] = x]
        /\ UNCHANGED <<vars, upload, frame_set, frames, manifests>>
    BY <1>1, <2>1 DEF UploadCall
  <2>5. QED
    BY <2>2, <2>3, <2>4, CallStep DEF PipelineTypeOK
<1>2. ASSUME NEW c \in Claims, NEW m \in Manifests, FinalizeCall(p, c, m)
      PROVE  OutcomeInv'
  <2>1. PICK x : x = [IdleCall EXCEPT !.pc = "check", !.lease = c, !.manifest = m,
                                      !.unchecked = m]
    OBVIOUS
  <2>2. /\ x \in CallRecord /\ x.pc = "check" /\ x.lease = c /\ x.artifact = None
        /\ x.manifest = m /\ x.unchecked = m
    BY <2>1 DEF IdleCall, CallRecord, Manifests
  <2>3. Fine(x)
    BY <1>2, <2>2 DEF FinalizeCall, ActiveLease, Fine, UploadPcs, FinalizePcs
  <2>4. call' = [call EXCEPT ![p] = x]
        /\ UNCHANGED <<vars, upload, frame_set, frames, manifests>>
    BY <1>2, <2>1 DEF FinalizeCall
  <2>5. QED
    BY <2>2, <2>3, <2>4, CallStep DEF PipelineTypeOK
<1>3. QED
  BY <1>1, <1>2 DEF PipelineCall

\* The steps in which a call goes on and no row changes.
LEMMA AdvanceStep ==
  ASSUME OutcomeInv, NEW p \in Calls,
         NEW x \in CallRecord, call' = [call EXCEPT ![p] = x],
         UNCHANGED <<vars, upload, frame_set>>,
         frames' \in SUBSET Artifacts, manifests' \in SUBSET Manifests,
         x.lease = call[p].lease, x.artifact = call[p].artifact,
         x.manifest = call[p].manifest, call[p].pc # "idle",
         x.pc \in UploadPcs <=> call[p].pc \in UploadPcs,
         x.pc \in FinalizePcs <=> call[p].pc \in FinalizePcs,
         x.unchecked = call[p].unchecked, call[p].pc # "check"
  PROVE  OutcomeInv'
<1>1. Fine(call[p])
  BY FineCall
<1>2. Fine(x)
  BY <1>1 DEF Fine
<1>3. QED
  BY <1>2, CallStep

LEMMA UploadStep ==
  ASSUME OutcomeInv, NEW p \in Calls,
         UploadReject(p) \/ UploadPut(p) \/ UploadUndo(p)
  PROVE  OutcomeInv'
<1>1. call[p] \in CallRecord /\ Fine(call[p])
  BY FineCall
<1>2. CASE UploadReject(p) \/ UploadUndo(p)
  BY <1>2, EndStep DEF UploadReject, UploadUndo
<1>3. CASE UploadPut(p)
  <2>1. PICK x : x = [call[p] EXCEPT !.pc = "confirm", !.at = clock]
    OBVIOUS
  <2>2. /\ x \in CallRecord /\ x.pc = "confirm" /\ x.lease = call[p].lease
        /\ x.artifact = call[p].artifact /\ x.manifest = call[p].manifest
        /\ x.unchecked = call[p].unchecked
    BY <1>1, <2>1 DEF CallRecord, OutcomeInv, PipelineTypeInv, TypeInv, TypeOK
  <2>3. call' = [call EXCEPT ![p] = x] /\ call[p].pc = "put"
        /\ UNCHANGED <<vars, upload, frame_set>>
    BY <1>3, <2>1 DEF UploadPut
  <2>4. frames' \in SUBSET Artifacts /\ manifests' \in SUBSET Manifests
    BY <1>1, <1>3 DEF UploadPut, Fine, UploadPcs, OutcomeInv, PipelineTypeInv, PipelineTypeOK
  <2>5. QED
    BY <2>2, <2>3, <2>4, AdvanceStep DEF UploadPcs, FinalizePcs
<1>4. QED
  BY <1>2, <1>3

LEMMA CheckStep ==
  ASSUME OutcomeInv, NEW p \in Calls, FinalizeCheck(p) PROVE OutcomeInv'
<1>1. call[p] \in CallRecord /\ Fine(call[p]) /\ call[p].pc = "check"
  BY FineCall DEF FinalizeCheck
<1>2. PICK a \in call[p].unchecked :
        /\ Verified(a, call[p].lease)
        /\ call' = [call EXCEPT ![p].unchecked = @ \ {a},
                                ![p].pc = IF call[p].unchecked = {a}
                                          THEN "store" ELSE @]
  BY DEF FinalizeCheck
<1>3. PICK x : x = [call[p] EXCEPT !.unchecked = @ \ {a},
                                   !.pc = IF call[p].unchecked = {a}
                                          THEN "store" ELSE @]
  OBVIOUS
<1>4. /\ x \in CallRecord /\ x.lease = call[p].lease /\ x.artifact = call[p].artifact
      /\ x.manifest = call[p].manifest /\ x.unchecked = call[p].unchecked \ {a}
      /\ x.pc = (IF call[p].unchecked = {a} THEN "store" ELSE "check")
  BY <1>1, <1>3 DEF CallRecord
<1>5. call' = [call EXCEPT ![p] = x]
  BY <1>2, <1>3 DEF OutcomeInv, PipelineTypeInv, PipelineTypeOK
<1>6. upload[a].status = "uploaded" /\ upload[a].lease = call[p].lease
  BY <1>2 DEF Verified
<1>7. Fine(x)
  BY <1>1, <1>4, <1>6 DEF Fine, UploadPcs, FinalizePcs
<1>8. UNCHANGED <<vars, upload, frame_set, frames, manifests>>
  BY DEF FinalizeCheck
<1>9. QED
  BY <1>4, <1>5, <1>7, <1>8, CallStep DEF OutcomeInv, PipelineTypeInv, PipelineTypeOK

LEMMA FinalizeStep ==
  ASSUME OutcomeInv, NEW p \in Calls,
         \/ FinalizeReject(p) \/ FinalizeStore(p)
         \/ FinalizeRecover(p) \/ FinalizeDiscard(p)
  PROVE  OutcomeInv'
<1>1. call[p] \in CallRecord /\ Fine(call[p])
  BY FineCall
<1>2. manifests \in SUBSET Manifests /\ frames \in SUBSET Artifacts
  BY DEF OutcomeInv, PipelineTypeInv, PipelineTypeOK
<1>3. CASE call' = [call EXCEPT ![p] = IdleCall] /\ ~FinalizeStore(p)
  BY <1>3, EndStep DEF FinalizeReject, FinalizeRecover, FinalizeDiscard
<1>4. CASE FinalizeStore(p)
  <2>1. PICK x : x = [call[p] EXCEPT !.pc = "commit", !.at = clock]
    OBVIOUS
  <2>2. /\ x \in CallRecord /\ x.pc = "commit" /\ x.lease = call[p].lease
        /\ x.artifact = call[p].artifact /\ x.manifest = call[p].manifest
        /\ x.unchecked = call[p].unchecked
    BY <1>1, <2>1 DEF CallRecord, OutcomeInv, PipelineTypeInv, TypeInv, TypeOK
  <2>3. call' = [call EXCEPT ![p] = x] /\ call[p].pc = "store"
        /\ UNCHANGED <<vars, upload, frame_set, frames>>
    BY <1>4, <2>1 DEF FinalizeStore
  <2>4. manifests' \in SUBSET Manifests
    BY <1>1, <1>2, <1>4 DEF FinalizeStore, Fine, FinalizePcs
  <2>5. QED
    BY <1>2, <2>2, <2>3, <2>4, AdvanceStep DEF UploadPcs, FinalizePcs
<1>5. CASE FinalizeRecover(p) /\ MustDiscard(p)
  <2>1. PICK x : x = [call[p] EXCEPT !.pc = "discard"]
    OBVIOUS
  <2>2. /\ x \in CallRecord /\ x.pc = "discard" /\ x.lease = call[p].lease
        /\ x.artifact = call[p].artifact /\ x.manifest = call[p].manifest
        /\ x.unchecked = call[p].unchecked
    BY <1>1, <2>1 DEF CallRecord
  <2>3. call' = [call EXCEPT ![p] = x] /\ call[p].pc = "recover"
        /\ UNCHANGED <<vars, upload, frame_set, frames, manifests>>
    BY <1>5, <2>1 DEF FinalizeRecover
  <2>5. QED
    BY <1>2, <2>2, <2>3, AdvanceStep DEF UploadPcs, FinalizePcs
<1>6. QED
  BY <1>3, <1>4, <1>5 DEF FinalizeReject, FinalizeRecover, FinalizeDiscard

\* An upload row keeps its lease, unless it had none.
LEMMA FineUploads ==
  ASSUME NEW x, Fine(x), UNCHANGED claim,
         \A a \in Artifacts :
            /\ upload[a].lease \in Claims => upload'[a].lease = upload[a].lease
            /\ upload[a].status \in {"uploaded", "finalized"} =>
                  /\ upload'[a].status \in {"uploaded", "finalized"}
                  /\ upload'[a].lease = upload[a].lease
  PROVE  Fine(x)'
  BY DEF Fine, UploadPcs, FinalizePcs, Manifests

LEMMA ReserveStep ==
  ASSUME OutcomeInv, NEW a \in Artifacts, NEW c \in Claims, Reserve(a, c)
  PROVE  OutcomeInv'
<1> USE DEF OutcomeInv, PipelineTypeInv
<1>1. /\ upload[a].status = "none" /\ claim[c].pc = "held"
      /\ UNCHANGED <<vars, frame_set, frames, manifests, call>>
  BY DEF Reserve
<1>2. PICK x : x = [status |-> "reserved", lease |-> c]
  OBVIOUS
<1>3. x \in Upload /\ x.status = "reserved" /\ x.lease = c
  BY <1>2 DEF Upload
<1>4. upload' = [upload EXCEPT ![a] = x] /\ upload \in [Artifacts -> Upload]
  BY <1>2 DEF Reserve, PipelineTypeOK
<1>5. upload[a].lease \notin Claims
  BY <1>1, <1>4, ConstantsAssumption DEF Upload
<1>6. PipelineTypeOK'
  BY <1>1, <1>3, <1>4 DEF PipelineTypeOK
<1>7. \A p \in Calls : Fine(call[p])'
  <2>1. \A p \in Calls : Fine(call[p])'
    BY <1>1, <1>3, <1>4, <1>5, FineCall, FineUploads DEF vars, Fine
  <2>2. QED
    BY <2>1
<1>8. CallsLeased' /\ ManifestsChecked'
  BY <1>7 DEF CallsLeased, ManifestsChecked, Fine, Uploading, Finalizing, UploadPcs,
              FinalizePcs
<1>9. OwnersHeld' /\ FinalizedRegistered'
  BY <1>1, <1>3, <1>4 DEF OwnersHeld, FinalizedRegistered, vars, attemptVars
<1>10. FrameSetIsOutcome'
  <2>1. \A b \in Artifacts : upload[b].status = "finalized" => upload'[b] = upload[b]
    BY <1>1, <1>4
  <2>2. \A j \in Jobs : frame_set[j] # None => frame_set[j].manifest \subseteq Artifacts
    BY DEF PipelineTypeOK, FrameSet, Manifests
  <2>3. QED
    BY <1>1, <2>1, <2>2 DEF FrameSetIsOutcome, vars, jobVars, attemptVars
<1>11. QED
  BY <1>1, <1>6, <1>8, <1>9, <1>10, SameLifecycle

LEMMA ConfirmStep ==
  ASSUME OutcomeInv, NEW p \in Calls, UploadConfirm(p) PROVE OutcomeInv'
<1> DEFINE a == call[p].artifact
<1> USE DEF OutcomeInv, PipelineTypeInv
<1>1. /\ call[p] \in CallRecord /\ Fine(call[p]) /\ call[p].pc = "confirm"
      /\ UNCHANGED <<vars, frame_set, frames, manifests>>
  BY FineCall DEF UploadConfirm
<1>2. a \in Artifacts /\ upload[a].lease = call[p].lease /\ call[p].lease \in Claims
  BY <1>1 DEF Fine, UploadPcs
<1>3. CASE UNCHANGED upload /\ call' = [call EXCEPT ![p].pc = "undo"]
  <2>1. PICK x : x = [call[p] EXCEPT !.pc = "undo"]
    OBVIOUS
  <2>2. /\ x \in CallRecord /\ x.pc = "undo" /\ x.lease = call[p].lease
        /\ x.artifact = call[p].artifact /\ x.manifest = call[p].manifest
        /\ x.unchecked = call[p].unchecked
    BY <1>1, <2>1 DEF CallRecord
  <2>3. call' = [call EXCEPT ![p] = x]
    BY <1>3, <2>1
  <2>4. frames' \in SUBSET Artifacts /\ manifests' \in SUBSET Manifests
    BY <1>1 DEF PipelineTypeOK
  <2>5. QED
    BY <1>1, <1>3, <2>2, <2>3, <2>4, AdvanceStep DEF UploadPcs, FinalizePcs
<1>4. CASE /\ upload[a].status \in {"reserved", "uploaded"}
           /\ upload' = [upload EXCEPT ![a].status = "uploaded"]
           /\ call' = [call EXCEPT ![p] = IdleCall]
  <2>1. PICK x : x = [upload[a] EXCEPT !.status = "uploaded"]
    OBVIOUS
  <2>2. upload \in [Artifacts -> Upload] /\ upload[a] \in Upload
    BY <1>2 DEF PipelineTypeOK
  <2>3. x \in Upload /\ x.status = "uploaded" /\ x.lease = upload[a].lease
    BY <1>2, <1>4, <2>1, <2>2 DEF Upload
  <2>4. upload' = [upload EXCEPT ![a] = x]
    BY <1>4, <2>1
  <2> HIDE DEF a
  <2>5. PipelineTypeOK'
    BY <1>1, <1>2, <1>4, <2>3, <2>4, IdleCallType DEF PipelineTypeOK
  <2>6. \A q \in Calls : Fine(call[q])'
    <3>1. \A y : Fine(y) => Fine(y)'
      BY <1>1, <1>2, <1>4, <2>2, <2>3, <2>4, FineUploads DEF vars
    <3>2. \A q \in Calls : call'[q] = IdleCall \/ call'[q] = call[q]
      BY <1>4 DEF PipelineTypeOK
    <3>3. QED
      BY <3>1, <3>2, FineCall, IdleFine DEF Fine
  <2>7. CallsLeased' /\ ManifestsChecked'
    BY <2>6 DEF CallsLeased, ManifestsChecked, Fine, Uploading, Finalizing, UploadPcs,
                FinalizePcs
  <2>8. OwnersHeld' /\ FinalizedRegistered'
    BY <1>1, <1>2, <1>4, <2>2, <2>3, <2>4, SMTT(20)
    DEF OwnersHeld, FinalizedRegistered, vars, attemptVars
  <2>9. FrameSetIsOutcome'
    <3>1. \A b \in Artifacts : upload[b].status = "finalized" => upload'[b] = upload[b]
      BY <1>4, <2>2, <2>4
    <3>2. \A j \in Jobs : frame_set[j] # None => frame_set[j].manifest \subseteq Artifacts
      BY DEF PipelineTypeOK, FrameSet, Manifests
    <3>3. QED
      BY <1>1, <3>1, <3>2 DEF FrameSetIsOutcome, vars, jobVars, attemptVars
  <2>10. QED
    BY <1>1, <2>5, <2>7, <2>8, <2>9, SameLifecycle
<1>5. QED
  BY <1>3, <1>4 DEF UploadConfirm

\* What a committing batch finds: everything its manifest names is uploaded
\* under its lease, and not yet finalized.
LEMMA BatchFinds ==
  ASSUME OutcomeInv, NEW p \in Calls, call[p].pc = "commit", FinalizeBatch(p),
         NEW c, c = call[p].lease, NEW j, j = claim[c].job
  PROVE  /\ c \in Claims /\ j \in Jobs /\ claim[c].pc = "held"
         /\ JobType[j] = "sampling" /\ call[p].manifest \in Manifests
         /\ status[j] = "running" /\ ~cancellation_requested[j]
         /\ frame_set[j] = None
         /\ \A a \in call[p].manifest :
               a \in Artifacts /\ upload[a] = [status |-> "uploaded", lease |-> c]
<1> USE DEF OutcomeInv, PipelineTypeInv
<1>1. /\ c \in Claims /\ claim[c].pc = "held" /\ JobType[j] = "sampling"
      /\ call[p].manifest \in Manifests
      /\ \A a \in call[p].manifest :
            upload[a].status \in {"uploaded", "finalized"} /\ upload[a].lease = c
  BY FineCall DEF Fine, FinalizePcs
<1>2. j \in Jobs
  BY <1>1 DEF TypeInv, WinnersHaveJobs, Won
<1>3. status[j] = "running" /\ ~cancellation_requested[j] /\ frame_set[j] = None
  BY DEF FinalizeBatch, Finalizable, Accepting, LeaseActive
<1>4. ASSUME NEW a \in call[p].manifest
      PROVE  a \in Artifacts /\ upload[a] = [status |-> "uploaded", lease |-> c]
  <2>1. a \in Artifacts /\ upload[a] \in Upload
    BY <1>1 DEF Manifests, PipelineTypeOK
  <2>2. upload[a].status # "finalized"
    BY <1>1, <1>3, <2>1 DEF FinalizedRegistered
  <2>3. QED
    BY <1>1, <2>1, <2>2 DEF Upload
<1>5. QED
  BY <1>1, <1>2, <1>3, <1>4

LEMMA BatchType ==
  ASSUME OutcomeInv, NEW p \in Calls, call[p].pc = "commit", FinalizeBatch(p)
  PROVE  TypeInv' /\ ReportsAreEvaluations'
<1> DEFINE c == call[p].lease
           j == claim[c].job
<1> USE DEF OutcomeInv, PipelineTypeInv, TypeInv, TypeOK
<1>1. c \in Claims /\ j \in Jobs
  BY BatchFinds
<1>2. /\ status' = [status EXCEPT ![j] = "succeeded"]
      /\ ClearLease({j}) /\ AvailabilityAfterJob(j)
      /\ attempt_status' = [attempt_status EXCEPT ![c] =
              IF @ = "running" THEN "succeeded" ELSE @]
      /\ UNCHANGED <<clock, attempt_count, max_attempts, cancellation_requested,
                     attempt_expires_at, claim, request, reportVars>>
  BY DEF FinalizeBatch
<1> HIDE DEF c, j
<1>3. presence' \in [Runners -> Presence]
  BY <1>1, <1>2, AvailabilityType
<1>4. status' \in [Jobs -> JobStatus] /\ RunningIsCounted'
  BY <1>1, <1>2 DEF JobStatus, RunningIsCounted
<1>5. attempt_status' \in [Claims -> AttemptStatus]
  BY <1>1, <1>2 DEF AttemptStatus
<1>6. /\ lease_token_hash' \in [Jobs -> Claims \cup {None}]
      /\ lease_expires_at' \in [Jobs -> Nat]
  BY <1>2 DEF ClearLease
<1>7. WinnersHaveJobs' /\ CallsHoldLeases' /\ ReportsAreEvaluations'
  BY <1>2 DEF WinnersHaveJobs, CallsHoldLeases, Won, ReportsAreEvaluations
<1>8. QED
  BY <1>2, <1>3, <1>4, <1>5, <1>6, <1>7 DEF reportVars

LEMMA BatchStep ==
  ASSUME OutcomeInv, NEW p \in Calls, call[p].pc = "commit", FinalizeBatch(p),
         NEW x \in CallRecord, Fine(x), call' = [call EXCEPT ![p] = x],
         UNCHANGED <<frames, manifests>>
  PROVE  OutcomeInv'
<1> DEFINE c == call[p].lease
           j == claim[c].job
<1> USE DEF OutcomeInv, PipelineTypeInv
<1>1. /\ c \in Claims /\ j \in Jobs /\ claim[c].pc = "held" /\ claim[c].job = j
      /\ JobType[j] = "sampling" /\ call[p].manifest \in Manifests
      /\ frame_set[j] = None
      /\ \A a \in call[p].manifest :
            a \in Artifacts /\ upload[a] = [status |-> "uploaded", lease |-> c]
  BY BatchFinds
<1>2. PICK f : f = [manifest |-> call[p].manifest, lease |-> c]
  OBVIOUS
<1>3. f \in FrameSet /\ f # None /\ f.manifest = call[p].manifest /\ f.lease = c
  BY <1>1, <1>2, FrameSetAssumption DEF FrameSet
<1>4. /\ frame_set' = [frame_set EXCEPT ![j] = f]
      /\ status' = [status EXCEPT ![j] = "succeeded"]
      /\ UNCHANGED claim
  BY <1>2 DEF FinalizeBatch
<1>5. /\ attempt_status' \in [Claims -> AttemptStatus]
      /\ \A d \in Claims \ {c} : attempt_status'[d] = attempt_status[d]
  BY BatchType DEF FinalizeBatch, TypeInv, TypeOK
<1>6. \A a \in Artifacts :
        \/ /\ upload'[a] = [status |-> "finalized", lease |-> c]
           /\ upload[a].lease = c /\ upload[a].status = "uploaded"
        \/ upload'[a] = upload[a] /\ upload[a] # [status |-> "uploaded", lease |-> c]
  <2>1. upload' = [a \in Artifacts |->
            IF upload[a] = [status |-> "uploaded", lease |-> c]
              THEN [upload[a] EXCEPT !.status = "finalized"] ELSE upload[a]]
    BY DEF FinalizeBatch
  <2> HIDE DEF c, j
  <2>2. [[status |-> "uploaded", lease |-> c] EXCEPT !.status = "finalized"]
           = [status |-> "finalized", lease |-> c]
    OBVIOUS
  <2>3. \A a \in Artifacts : upload'[a] =
            IF upload[a] = [status |-> "uploaded", lease |-> c]
              THEN [[status |-> "uploaded", lease |-> c] EXCEPT !.status = "finalized"]
              ELSE upload[a]
    BY <2>1
  <2>4. \A a \in Artifacts : upload[a] = [status |-> "uploaded", lease |-> c]
           => upload[a].lease = c /\ upload[a].status = "uploaded"
    OBVIOUS
  <2>5. QED
    BY <2>2, <2>3, <2>4
<1>7. upload' \in [Artifacts -> Upload]
  <2>1. upload' = [a \in Artifacts |-> upload'[a]]
    BY DEF FinalizeBatch
  <2> HIDE DEF c, j
  <2>2. \A a \in Artifacts : upload'[a] \in Upload
    BY <1>1, <1>6 DEF PipelineTypeOK, Upload
  <2>3. QED
    BY <2>1, <2>2
<1> HIDE DEF c, j
<1>8. PipelineTypeOK'
  BY <1>1, <1>3, <1>4, <1>7 DEF PipelineTypeOK
<1>9. \A q \in Calls : Fine(call[q])'
  <2>1. \A y : Fine(y) => Fine(y)'
    BY <1>4, <1>6, FineUploads
  <2>2. \A q \in Calls : call'[q] = x \/ call'[q] = call[q]
    BY DEF PipelineTypeOK
  <2>3. QED
    BY <2>1, <2>2, FineCall DEF Fine
<1>10. CallsLeased' /\ ManifestsChecked'
  BY <1>9 DEF CallsLeased, ManifestsChecked, Fine, Uploading, Finalizing, UploadPcs,
              FinalizePcs
<1>11. OwnersHeld'
  <2>1. \A a \in Artifacts : upload'[a].status # "none" =>
          claim'[upload'[a].lease].pc = "held"
    BY <1>1, <1>4, <1>6 DEF OwnersHeld
  <2>2. \A k \in Jobs : frame_set'[k] # None =>
          claim'[frame_set'[k].lease].pc = "held" /\ claim'[frame_set'[k].lease].job = k
    BY <1>1, <1>3, <1>4 DEF OwnersHeld, PipelineTypeOK
  <2>3. \A d \in Claims : attempt_status'[d] = "succeeded" => claim'[d].pc = "held"
    BY <1>1, <1>4, <1>5 DEF OwnersHeld
  <2>4. QED
    BY <2>1, <2>2, <2>3 DEF OwnersHeld
<1>12. FinalizedRegistered'
  BY <1>1, <1>3, <1>4, <1>6 DEF FinalizedRegistered, PipelineTypeOK
<1>13. FrameSetIsOutcome'
  <2>1. \A k \in Jobs : JobType[k] = "sampling" =>
          (status'[k] = "succeeded" <=> frame_set'[k] # None)
    BY <1>1, <1>3, <1>4 DEF FrameSetIsOutcome, PipelineTypeOK, TypeInv, TypeOK
  <2>2. ASSUME NEW k \in Jobs, frame_set'[k] # None, NEW a \in frame_set'[k].manifest
        PROVE  upload'[a] = [status |-> "finalized", lease |-> frame_set'[k].lease]
    <3>1. CASE k = j
      <4>1. a \in call[p].manifest /\ frame_set'[k].lease = c
        BY <1>1, <1>3, <1>4, <2>2, <3>1 DEF PipelineTypeOK
      <4>2. QED
        BY <1>1, <1>6, <4>1
    <3>2. CASE k # j
      <4>1. frame_set'[k] = frame_set[k] /\ frame_set[k] # None
            /\ a \in frame_set[k].manifest
        BY <1>1, <1>4, <2>2, <3>2 DEF PipelineTypeOK
      <4>2. a \in Artifacts
        BY <4>1 DEF PipelineTypeOK, FrameSet, Manifests
      <4>3. upload[a] = [status |-> "finalized", lease |-> frame_set[k].lease]
        BY <4>1 DEF FrameSetIsOutcome
      <4>4. QED
        BY <1>6, <4>1, <4>2, <4>3
    <3>3. QED
      BY <3>1, <3>2
  <2>3. \A d \in Claims :
          attempt_status'[d] = "succeeded" /\ JobType[claim'[d].job] = "sampling" =>
             frame_set'[claim'[d].job] # None /\ frame_set'[claim'[d].job].lease = d
    <3>1. SUFFICES ASSUME NEW d \in Claims, attempt_status'[d] = "succeeded",
                          JobType[claim[d].job] = "sampling"
                   PROVE  frame_set'[claim[d].job] # None
                          /\ frame_set'[claim[d].job].lease = d
      BY <1>4
    <3>2. CASE d = c
      BY <1>1, <1>3, <1>4, <3>2 DEF PipelineTypeOK
    <3>3. CASE d # c
      <4>1. attempt_status[d] = "succeeded"
        BY <1>5, <3>1, <3>3
      <4>2. frame_set[claim[d].job] # None /\ frame_set[claim[d].job].lease = d
        BY <3>1, <4>1 DEF FrameSetIsOutcome
      <4>3. claim[d].job # j
        BY <1>1, <4>2
      <4>4. QED
        BY <1>4, <4>2, <4>3 DEF PipelineTypeOK
    <3>4. QED
      BY <3>2, <3>3
  <2>4. QED
    BY <2>1, <2>2, <2>3 DEF FrameSetIsOutcome
<1>14. QED
  BY <1>8, <1>10, <1>11, <1>12, <1>13, BatchType

\* The call's record after a batch that did not end it.
LEMMA RecoverRecord ==
  ASSUME OutcomeInv, NEW p \in Calls, call[p].pc = "commit"
  PROVE  \E x \in CallRecord :
            /\ x = [call[p] EXCEPT !.pc = "recover"] /\ Fine(x)
            /\ x.pc = "recover" /\ x.lease = call[p].lease
            /\ x.artifact = call[p].artifact /\ x.manifest = call[p].manifest
            /\ x.unchecked = call[p].unchecked
<1>1. call[p] \in CallRecord /\ Fine(call[p])
  BY FineCall
<1>2. PICK x : x = [call[p] EXCEPT !.pc = "recover"]
  OBVIOUS
<1>3. /\ x \in CallRecord /\ x.pc = "recover" /\ x.lease = call[p].lease
      /\ x.artifact = call[p].artifact /\ x.manifest = call[p].manifest
      /\ x.unchecked = call[p].unchecked
  BY <1>1, <1>2 DEF CallRecord
<1>4. Fine(x)
  BY <1>1, <1>3 DEF Fine, UploadPcs, FinalizePcs
<1>5. QED
  BY <1>2, <1>3, <1>4

LEMMA CommitStep ==
  ASSUME OutcomeInv, NEW p \in Calls, FinalizeCommit(p) PROVE OutcomeInv'
<1>1. call[p].pc = "commit" /\ UNCHANGED <<frames, manifests>>
  BY DEF FinalizeCommit
<1>2. PICK x \in CallRecord :
            /\ x = [call[p] EXCEPT !.pc = "recover"] /\ Fine(x)
            /\ x.pc = "recover" /\ x.lease = call[p].lease
            /\ x.artifact = call[p].artifact /\ x.manifest = call[p].manifest
            /\ x.unchecked = call[p].unchecked
  BY <1>1, RecoverRecord
<1>3. CASE FinalizeBatch(p) /\ call' = [call EXCEPT ![p] = IdleCall]
  BY <1>1, <1>3, BatchStep, IdleCallType, IdleFine
<1>4. CASE FinalizeBatch(p) /\ call' = [call EXCEPT ![p].pc = "recover"]
  <2>1. call' = [call EXCEPT ![p] = x]
    BY <1>2, <1>4
  <2>2. QED
    BY <1>1, <1>2, <1>4, <2>1, BatchStep
<1>5. CASE call' = [call EXCEPT ![p].pc = "recover"] /\ UNCHANGED <<vars, upload, frame_set>>
  <2>1. call' = [call EXCEPT ![p] = x]
    BY <1>2, <1>5
  <2>2. frames' \in SUBSET Artifacts /\ manifests' \in SUBSET Manifests
    BY <1>1 DEF OutcomeInv, PipelineTypeInv, PipelineTypeOK
  <2>3. QED
    BY <1>2, <1>5, <2>1, <2>2, CallStep
<1>6. QED
  BY <1>3, <1>4, <1>5 DEF FinalizeCommit

LEMMA OutcomeInit == PipelineInit => OutcomeInv
<1> SUFFICES ASSUME PipelineInit PROVE OutcomeInv
  OBVIOUS
<1>1. TypeInv
  BY TypeInit DEF PipelineInit
<1>2. PipelineTypeOK
  BY IdleCallType DEF PipelineInit, PipelineTypeOK, Upload
<1>3. CallsLeased /\ ManifestsChecked
  <2>1. \A p \in Calls : Fine(call[p])
    BY IdleFine DEF PipelineInit
  <2>2. QED
    BY <2>1, FineCalls
<1>4. OwnersHeld /\ FinalizedRegistered /\ ReportsAreEvaluations /\ FrameSetIsOutcome
  BY DEF PipelineInit, Init, IdleRequest, OwnersHeld, FinalizedRegistered,
         ReportsAreEvaluations, FrameSetIsOutcome
<1>5. QED
  BY <1>1, <1>2, <1>3, <1>4 DEF OutcomeInv, PipelineTypeInv

LEMMA OutcomeStep == OutcomeInv /\ [PipelineNext]_allVars => OutcomeInv'
<1> SUFFICES ASSUME OutcomeInv, [PipelineNext]_allVars PROVE OutcomeInv'
  OBVIOUS
<1>1. CASE [Next]_vars /\ UNCHANGED pipelineVars
  BY <1>1, LifecycleStep
<1>2. ASSUME NEW a \in Artifacts, NEW c \in Claims, Reserve(a, c) PROVE OutcomeInv'
  BY <1>2, ReserveStep
<1>3. ASSUME NEW p \in Calls, PipelineCall(p) \/ PipelineStep(p) PROVE OutcomeInv'
  BY <1>3, StartStep, UploadStep, ConfirmStep, CheckStep, FinalizeStep, CommitStep
  DEF PipelineStep
<1>4. QED
  BY <1>1, <1>2, <1>3 DEF PipelineNext, allVars

\* A sampling job succeeds exactly when its frame set is registered, with the
\* frames its lease uploaded and no other successful attempt, whatever a
\* client repeats and whatever fails (artifact-pipeline.ts:147-157, 175-187).
THEOREM FrameSetsAreOutcomes == PipelineSpec => []FrameSetIsOutcome
  BY OutcomeInit, OutcomeStep, PTL DEF PipelineSpec, OutcomeInv

-----------------------------------------------------------------------------
(***************************************************************************)
(* Manifest objects                                                        *)
(***************************************************************************)

\* A registered frame set stays.
LEMMA FrameSetsStay ==
  ASSUME OutcomeInv, [PipelineNext]_allVars, NEW j \in Jobs, frame_set[j] # None
  PROVE  frame_set'[j] = frame_set[j]
<1>1. ASSUME NEW p \in Calls, FinalizeBatch(p) PROVE frame_set'[j] = frame_set[j]
  BY <1>1 DEF FinalizeBatch, Finalizable, OutcomeInv, PipelineTypeInv, PipelineTypeOK
<1>2. CASE UNCHANGED frame_set
  BY <1>2
<1>3. QED
  BY <1>1, <1>2
  DEF PipelineNext, allVars, pipelineVars, Reserve, PipelineCall, UploadCall,
      FinalizeCall, PipelineStep, UploadReject, UploadPut, UploadConfirm,
      UploadUndo, FinalizeCheck, FinalizeReject, FinalizeStore, FinalizeCommit,
      FinalizeRecover, FinalizeDiscard

\* The states in which a call answers for the manifest object it stored.
Tending(p) == call[p].pc \in {"commit", "recover", "discard"}

\* A call that stops tending a manifest has registered it, finds it
\* registered, or deletes it.
LEMMA TendingEnds ==
  ASSUME OutcomeInv, [PipelineNext]_allVars, NEW p \in Calls, Tending(p),
         call[p].manifest \in manifests'
  PROVE  \/ Tending(p)' /\ call'[p].manifest = call[p].manifest
         \/ \E j \in Jobs : frame_set'[j] # None /\ frame_set'[j].manifest = call[p].manifest
<1> DEFINE m == call[p].manifest
           j == claim[call[p].lease].job
<1> USE DEF Tending
<1>1. /\ call[p] \in CallRecord /\ Fine(call[p]) /\ call \in [Calls -> CallRecord]
  BY FineCall DEF OutcomeInv, PipelineTypeInv, PipelineTypeOK
<1>2. j \in Jobs
  BY <1>1 DEF Fine, OutcomeInv, PipelineTypeInv, TypeInv, WinnersHaveJobs, Won
<1>3. CASE call'[p] = call[p]
  BY <1>3
<1>4. CASE FinalizeCommit(p)
  <2>1. CASE FinalizeBatch(p)
    <3>1. PICK f : f = [manifest |-> m, lease |-> call[p].lease]
      OBVIOUS
    <3>2. f \in FrameSet /\ f.manifest = m
      BY <1>1, <3>1 DEF Fine, FrameSet, FinalizePcs
    <3>3. frame_set'[j] = f
      BY <1>2, <2>1, <3>1 DEF FinalizeBatch, OutcomeInv, PipelineTypeInv, PipelineTypeOK
    <3>4. QED
      BY <1>2, <3>2, <3>3, FrameSetAssumption
  <2>2. CASE call' = [call EXCEPT ![p].pc = "recover"]
    BY <1>1, <2>2 DEF CallRecord
  <2>3. QED
    BY <1>4, <2>1, <2>2 DEF FinalizeCommit
<1>5. CASE FinalizeRecover(p)
  <2>1. UNCHANGED frame_set
    BY <1>5 DEF FinalizeRecover
  <2>2. CASE MustDiscard(p)
    BY <1>1, <1>5, <2>2 DEF FinalizeRecover, CallRecord
  <2>3. CASE ~MustDiscard(p)
    BY <1>2, <2>1, <2>3 DEF MustDiscard
  <2>4. QED
    BY <2>2, <2>3
<1>6. CASE FinalizeDiscard(p)
  BY <1>6 DEF FinalizeDiscard
<1>7. ASSUME NEW q \in Calls, q # p, PipelineCall(q) \/ PipelineStep(q)
      PROVE  call'[p] = call[p]
  BY <1>1, <1>7
  DEF PipelineCall, UploadCall, FinalizeCall, PipelineStep, UploadReject, UploadPut,
      UploadConfirm, UploadUndo, FinalizeCheck, FinalizeReject, FinalizeStore,
      FinalizeCommit, FinalizeRecover, FinalizeDiscard
<1>8. CASE PipelineCall(p) \/ PipelineStep(p)
  BY <1>4, <1>5, <1>6, <1>8
  DEF PipelineCall, UploadCall, FinalizeCall, PipelineStep, UploadReject, UploadPut,
      UploadConfirm, UploadUndo, FinalizeCheck, FinalizeReject, FinalizeStore
<1>9. QED
  BY <1>3, <1>7, <1>8 DEF PipelineNext, allVars, pipelineVars, Reserve

LEMMA TendedStep ==
  OutcomeInv /\ ManifestsTended /\ [PipelineNext]_allVars => ManifestsTended'
<1> SUFFICES ASSUME OutcomeInv, ManifestsTended, [PipelineNext]_allVars,
                    NEW m \in manifests'
             PROVE  \/ \E j \in Jobs : frame_set'[j] # None /\ frame_set'[j].manifest = m
                    \/ \E p \in Calls : Tending(p)' /\ call'[p].manifest = m
  BY DEF ManifestsTended, Tending
<1>1. CASE m \in manifests
  <2>1. CASE \E j \in Jobs : frame_set[j] # None /\ frame_set[j].manifest = m
    BY <2>1, FrameSetsStay
  <2>2. CASE \E p \in Calls : Tending(p) /\ call[p].manifest = m
    BY <2>2, TendingEnds
  <2>3. QED
    BY <1>1, <2>1, <2>2 DEF ManifestsTended, Tending
<1>2. CASE m \notin manifests
  <2>1. PICK p \in Calls : FinalizeStore(p)
    BY <1>2 DEF PipelineNext, allVars, pipelineVars, Reserve, PipelineCall, UploadCall,
       FinalizeCall, PipelineStep, UploadReject, UploadPut, UploadConfirm,
       UploadUndo, FinalizeCheck, FinalizeReject, FinalizeCommit,
       FinalizeRecover, FinalizeDiscard
  <2>2. call \in [Calls -> CallRecord]
    BY DEF OutcomeInv, PipelineTypeInv, PipelineTypeOK
  <2>3. PICK x : x = [call[p] EXCEPT !.pc = "commit", !.at = clock]
    OBVIOUS
  <2>4. x.pc = "commit" /\ x.manifest = call[p].manifest
    BY <2>2, <2>3 DEF CallRecord
  <2>5. call'[p] = x /\ m = call[p].manifest
    BY <1>2, <2>1, <2>2, <2>3 DEF FinalizeStore
  <2>6. QED
    BY <2>4, <2>5 DEF Tending
<1>3. QED
  BY <1>1, <1>2

\* No finalization leaves a manifest object that neither a frame set nor a
\* call in flight accounts for, whatever a client repeats and whatever fails
\* (artifact-pipeline.ts:191-200).
THEOREM ManifestsAreTended == PipelineSpec => []NoStrayManifest
<1>1. PipelineInit => ManifestsTended
  BY DEF PipelineInit, ManifestsTended
<1>2. ManifestsTended => NoStrayManifest
  BY DEF ManifestsTended, NoStrayManifest
<1>3. QED
  BY <1>1, <1>2, OutcomeInit, OutcomeStep, TendedStep, PTL DEF PipelineSpec

-----------------------------------------------------------------------------
(***************************************************************************)
(* The objects of a frame set, for clients that repeat nothing             *)
(***************************************************************************)

\* The parts of EvidenceInv beyond OutcomeInv.
Evidence == CallsAlone /\ ObjectsThere /\ DiscardsUnregistered /\ EvidenceKept

LEMMA CallsNamed ==
  ASSUME OutcomeInv, NEW q \in Calls
  PROVE  /\ Uploading(q) => call[q].artifact \in Artifacts /\ call[q].artifact # None
         /\ Finalizing(q) => call[q].manifest # {}
  BY PipelineAssumption
  DEF OutcomeInv, PipelineTypeInv, CallsLeased, Manifests

\* A call goes on with what it was sent for, or ends.
LEMMA AloneStep ==
  ASSUME EvidenceInv, NEW p \in Calls, NEW x, call' = [call EXCEPT ![p] = x],
         UNCHANGED upload,
         \/ x = IdleCall
         \/ /\ x.pc \in UploadPcs <=> call[p].pc \in UploadPcs
            /\ x.pc \in FinalizePcs <=> call[p].pc \in FinalizePcs
            /\ x.artifact = call[p].artifact /\ x.manifest = call[p].manifest
  PROVE  CallsAlone'
<1> USE DEF EvidenceInv, OutcomeInv, PipelineTypeInv, Uploading, Finalizing,
            UploadPcs, FinalizePcs
<1>1. \A q \in Calls : call'[q] = IF q = p THEN x ELSE call[q]
  BY DEF PipelineTypeOK
<1>2. CASE x = IdleCall
  <2>1. \A q \in Calls :
           /\ Uploading(q) => call[q].artifact \in Artifacts
           /\ Finalizing(q) => call[q].manifest # {}
    BY CallsNamed
  <2>2. QED
    BY <1>1, <1>2, <2>1, IdleCallType, PipelineAssumption DEF CallsAlone
<1>3. CASE x # IdleCall
  BY <1>1, <1>3 DEF CallsAlone
<1>4. QED
  BY <1>2, <1>3

\* No row changes and no object goes.
LEMMA EvidenceMove ==
  ASSUME EvidenceInv, NEW p \in Calls, NEW x, call' = [call EXCEPT ![p] = x],
         UNCHANGED <<upload, frame_set>>, CallsAlone',
         frames \subseteq frames', manifests \subseteq manifests',
         x.pc = "confirm" => x.artifact \in frames',
         x.pc \in {"commit", "recover", "discard"} => x.manifest \in manifests',
         x.pc = "discard" => \A j \in Jobs : frame_set[j] # None =>
                                 frame_set[j].manifest # x.manifest
  PROVE  Evidence'
<1>1. \A q \in Calls : call'[q] = IF q = p THEN x ELSE call[q]
  BY DEF EvidenceInv, OutcomeInv, PipelineTypeInv, PipelineTypeOK
<1>2. ObjectsThere'
  BY <1>1 DEF EvidenceInv, ObjectsThere
<1>3. DiscardsUnregistered'
  BY <1>1 DEF EvidenceInv, DiscardsUnregistered
<1>4. EvidenceKept'
  BY DEF EvidenceInv, EvidenceKept
<1>5. QED
  BY <1>2, <1>3, <1>4 DEF Evidence

LEMMA StartEvidence ==
  ASSUME Repeats = {}, EvidenceInv, NEW p \in Calls, PipelineCall(p)
  PROVE  Evidence'
<1> USE DEF EvidenceInv, OutcomeInv, PipelineTypeInv, Uploading, Finalizing,
            UploadPcs, FinalizePcs
<1>0. UNCHANGED <<upload, frame_set, frames, manifests>> /\ call[p].pc = "idle"
  BY DEF PipelineCall, UploadCall, FinalizeCall
<1>1. ASSUME NEW c \in Claims, NEW a \in Artifacts, UploadCall(p, a, c)
      PROVE  Evidence'
  <2>1. PICK x : x = [IdleCall EXCEPT !.pc = "put", !.lease = c, !.artifact = a]
    OBVIOUS
  <2>2. x.pc = "put" /\ x.artifact = a /\ x.manifest = {}
    BY <2>1 DEF IdleCall
  <2>3. /\ call' = [call EXCEPT ![p] = x] /\ upload[a].status = "reserved"
        /\ \A q \in Calls : call[q].artifact # a
    BY <1>1, <2>1 DEF UploadCall
  <2>4. \A q \in Calls : call'[q] = IF q = p THEN x ELSE call[q]
    BY <2>3 DEF PipelineTypeOK
  <2>5. \A q \in Calls : Finalizing(q) => call[q].manifest # {}
    BY CallsNamed
  <2>6. CallsAlone'
    BY <1>0, <2>2, <2>3, <2>4, <2>5 DEF CallsAlone
  <2>7. QED
    BY <1>0, <2>2, <2>3, <2>6, EvidenceMove
<1>2. ASSUME NEW c \in Claims, NEW m \in Manifests, FinalizeCall(p, c, m)
      PROVE  Evidence'
  <2>1. PICK x : x = [IdleCall EXCEPT !.pc = "check", !.lease = c, !.manifest = m,
                                      !.unchecked = m]
    OBVIOUS
  <2>2. x.pc = "check" /\ x.artifact = None /\ x.manifest = m
    BY <2>1 DEF IdleCall
  <2>3. /\ call' = [call EXCEPT ![p] = x]
        /\ \A q \in Calls : call[q].manifest # m
    BY <1>2, <2>1 DEF FinalizeCall
  <2>4. \A q \in Calls : call'[q] = IF q = p THEN x ELSE call[q]
    BY <2>3 DEF PipelineTypeOK
  <2>5. \A q \in Calls : Uploading(q) => call[q].artifact # None
    BY CallsNamed
  <2>6. CallsAlone'
    BY <1>0, <2>2, <2>3, <2>4, <2>5 DEF CallsAlone
  <2>7. QED
    BY <1>0, <2>2, <2>3, <2>6, EvidenceMove
<1>3. QED
  BY <1>1, <1>2 DEF PipelineCall

LEMMA ReserveEvidence ==
  ASSUME EvidenceInv, NEW a \in Artifacts, NEW c \in Claims, Reserve(a, c)
  PROVE  Evidence'
<1> USE DEF EvidenceInv, OutcomeInv, PipelineTypeInv
<1>1. PICK x : x = [status |-> "reserved", lease |-> c]
  OBVIOUS
<1>2. /\ upload' = [upload EXCEPT ![a] = x] /\ x.status = "reserved"
      /\ upload \in [Artifacts -> Upload]
      /\ UNCHANGED <<frame_set, frames, manifests, call>>
  BY <1>1 DEF Reserve, PipelineTypeOK
<1>3. CallsAlone'
  BY <1>2 DEF CallsAlone, CallsLeased, Uploading, Finalizing
<1>4. ObjectsThere' /\ DiscardsUnregistered' /\ EvidenceKept'
  BY <1>2 DEF ObjectsThere, DiscardsUnregistered, EvidenceKept
<1>5. QED
  BY <1>3, <1>4 DEF Evidence

LEMMA UploadEvidence ==
  ASSUME EvidenceInv, NEW p \in Calls,
         UploadReject(p) \/ UploadPut(p) \/ UploadConfirm(p) \/ UploadUndo(p)
  PROVE  Evidence'
<1> DEFINE a == call[p].artifact
<1> USE DEF EvidenceInv, OutcomeInv, PipelineTypeInv
<1>1. /\ call[p] \in CallRecord /\ Fine(call[p]) /\ Uploading(p)
      /\ UNCHANGED <<frame_set, manifests>>
  BY FineCall DEF UploadReject, UploadPut, UploadConfirm, UploadUndo, Uploading
<1>2. /\ a \in Artifacts /\ upload[a].status = "reserved"
      /\ \A q \in Calls : call[q].artifact = a => q = p
  BY <1>1 DEF CallsAlone, CallsLeased
<1>3. CASE UploadReject(p)
  BY <1>1, <1>3, AloneStep, EvidenceMove, IdleCallType DEF UploadReject
<1>4. CASE UploadPut(p)
  <2>1. PICK x : x = [call[p] EXCEPT !.pc = "confirm", !.at = clock]
    OBVIOUS
  <2>2. x.pc = "confirm" /\ x.artifact = a /\ x.manifest = call[p].manifest
    BY <1>1, <2>1 DEF CallRecord
  <2>3. /\ call' = [call EXCEPT ![p] = x] /\ call[p].pc = "put"
        /\ frames' = frames \cup {a} /\ UNCHANGED upload
    BY <1>4, <2>1 DEF UploadPut
  <2>4. CallsAlone'
    BY <2>2, <2>3, AloneStep DEF UploadPcs, FinalizePcs
  <2>5. QED
    BY <1>1, <2>2, <2>3, <2>4, EvidenceMove
<1>5. CASE UploadConfirm(p) /\ call' = [call EXCEPT ![p].pc = "undo"] /\ UNCHANGED upload
  <2>1. PICK x : x = [call[p] EXCEPT !.pc = "undo"]
    OBVIOUS
  <2>2. x.pc = "undo" /\ x.artifact = a /\ x.manifest = call[p].manifest
    BY <1>1, <2>1 DEF CallRecord
  <2>3. /\ call' = [call EXCEPT ![p] = x] /\ call[p].pc = "confirm"
        /\ UNCHANGED <<upload, frames>>
    BY <1>5, <2>1 DEF UploadConfirm
  <2>4. CallsAlone'
    BY <2>2, <2>3, AloneStep DEF UploadPcs, FinalizePcs
  <2>5. QED
    BY <1>1, <2>2, <2>3, <2>4, EvidenceMove
<1>6. CASE /\ UploadConfirm(p) /\ call' = [call EXCEPT ![p] = IdleCall]
           /\ upload' = [upload EXCEPT ![a].status = "uploaded"]
  <2>1. PICK x : x = [upload[a] EXCEPT !.status = "uploaded"]
    OBVIOUS
  <2>2. upload \in [Artifacts -> Upload] /\ call \in [Calls -> CallRecord]
    BY DEF PipelineTypeOK
  <2>3. upload' = [upload EXCEPT ![a] = x] /\ UNCHANGED frames /\ call[p].pc = "confirm"
    BY <1>6, <2>1 DEF UploadConfirm
  <2>4. \A q \in Calls : call'[q] = IF q = p THEN IdleCall ELSE call[q]
    BY <1>6, <2>2
  <2>5. a \in frames
    BY <2>3 DEF ObjectsThere
  <2> HIDE DEF a
  <2>6. CallsAlone'
    <3>1. \A q \in Calls :
             /\ Uploading(q) => call[q].artifact \in Artifacts
             /\ Finalizing(q) => call[q].manifest # {}
      BY CallsNamed
    <3>2. \A q \in Calls \ {p} : Uploading(q) => upload'[call[q].artifact].status = "reserved"
      BY <1>2, <2>2, <2>3, <3>1 DEF CallsAlone
    <3>3. QED
      BY <2>4, <3>1, <3>2, IdleCallType, PipelineAssumption
      DEF CallsAlone, Uploading, Finalizing
  <2>7. ObjectsThere' /\ DiscardsUnregistered' /\ EvidenceKept'
    BY <1>1, <1>2, <2>2, <2>3, <2>4, <2>5, IdleCallType
    DEF ObjectsThere, DiscardsUnregistered, EvidenceKept
  <2>8. QED
    BY <2>6, <2>7 DEF Evidence
<1>7. CASE UploadUndo(p)
  <2>1. /\ call' = [call EXCEPT ![p] = IdleCall] /\ frames' = frames \ {a}
        /\ UNCHANGED upload
    BY <1>7 DEF UploadUndo
  <2>2. CallsAlone'
    BY <2>1, AloneStep
  <2>3. \A q \in Calls : call'[q] = IF q = p THEN IdleCall ELSE call[q]
    BY <2>1 DEF PipelineTypeOK
  <2>4. ObjectsThere' /\ DiscardsUnregistered'
    BY <1>1, <1>2, <2>1, <2>3, IdleCallType DEF ObjectsThere, DiscardsUnregistered
  <2>5. EvidenceKept'
    <3>1. \A j \in Jobs : frame_set[j] # None => a \notin frame_set[j].manifest
      <4>1. ASSUME NEW j \in Jobs, frame_set[j] # None, a \in frame_set[j].manifest
            PROVE  FALSE
        <5>1. upload[a] = [status |-> "finalized", lease |-> frame_set[j].lease]
          BY <4>1 DEF FrameSetIsOutcome
        <5>2. upload[a].status = "finalized"
          BY <5>1
        <5>3. QED
          BY <1>2, <5>2
      <4>2. QED
        BY <4>1
    <3>2. QED
      BY <1>1, <2>1, <3>1 DEF EvidenceKept
  <2>6. QED
    BY <2>2, <2>4, <2>5 DEF Evidence
<1>8. QED
  BY <1>3, <1>4, <1>5, <1>6, <1>7 DEF UploadConfirm

\* A manifest that its call may delete is no frame set's: its frames were
\* uploaded under the lease of the call, so a frame set that names them is
\* the one MustDiscard looked at.
LEMMA DiscardIsSafe ==
  ASSUME EvidenceInv, NEW p \in Calls, call[p].pc = "recover", MustDiscard(p),
         NEW j \in Jobs, frame_set[j] # None
  PROVE  frame_set[j].manifest # call[p].manifest
<1> USE DEF EvidenceInv, OutcomeInv, PipelineTypeInv
<1>1. SUFFICES ASSUME frame_set[j].manifest = call[p].manifest PROVE FALSE
  OBVIOUS
<1>2. PICK a : a \in call[p].manifest
  BY CallsNamed DEF Finalizing
<1>3. upload[a].lease = call[p].lease
  BY <1>2, FineCall DEF Fine, FinalizePcs
<1>4. upload[a] = [status |-> "finalized", lease |-> frame_set[j].lease]
  BY <1>1, <1>2 DEF FrameSetIsOutcome
<1>5. frame_set[j].lease = call[p].lease
  BY <1>3, <1>4
<1>6. claim[call[p].lease].job = j
  BY <1>5 DEF OwnersHeld
<1>7. QED
  BY <1>1, <1>5, <1>6 DEF MustDiscard

LEMMA CommitEvidence ==
  ASSUME EvidenceInv, NEW p \in Calls, FinalizeCommit(p) PROVE Evidence'
<1> DEFINE c == call[p].lease
           j == claim[c].job
           m == call[p].manifest
<1> USE DEF EvidenceInv, OutcomeInv, PipelineTypeInv
<1>1. call[p].pc = "commit" /\ UNCHANGED <<frames, manifests>>
  BY DEF FinalizeCommit
<1>2. PICK x \in CallRecord :
            /\ x = [call[p] EXCEPT !.pc = "recover"] /\ Fine(x)
            /\ x.pc = "recover" /\ x.lease = call[p].lease
            /\ x.artifact = call[p].artifact /\ x.manifest = call[p].manifest
            /\ x.unchecked = call[p].unchecked
  BY <1>1, RecoverRecord
<1>3. CASE call' = [call EXCEPT ![p].pc = "recover"] /\ UNCHANGED <<upload, frame_set>>
  <2>1. call' = [call EXCEPT ![p] = x]
    BY <1>2, <1>3
  <2>2. CallsAlone'
    BY <1>1, <1>2, <1>3, <2>1, AloneStep DEF UploadPcs, FinalizePcs
  <2>3. m \in manifests
    BY <1>1 DEF ObjectsThere
  <2>4. /\ frames' = frames /\ manifests' = manifests
        /\ x.pc = "recover" /\ x.manifest \in manifests
    BY <1>1, <1>2, <2>3
  <2> HIDE DEF EvidenceInv
  <2>5. QED
    BY <1>3, <2>1, <2>2, <2>4, EvidenceMove
<1>4. ASSUME NEW y \in {IdleCall, x}, FinalizeBatch(p), call' = [call EXCEPT ![p] = y]
      PROVE  Evidence'
  <2>1. /\ c \in Claims /\ j \in Jobs /\ m \in Manifests /\ frame_set[j] = None
        /\ \A a \in m : a \in Artifacts /\ upload[a] = [status |-> "uploaded", lease |-> c]
    BY <1>1, <1>4, BatchFinds
  <2>2. PICK f : f = [manifest |-> m, lease |-> c]
    OBVIOUS
  <2>3. f.manifest = m /\ frame_set' = [frame_set EXCEPT ![j] = f]
    BY <1>4, <2>2 DEF FinalizeBatch
  <2>4. \A a \in Artifacts :
          /\ upload[a].status = "reserved" => upload'[a] = upload[a]
          /\ upload'[a].status \in {"uploaded", "finalized"} =>
                upload[a].status \in {"uploaded", "finalized"}
    <3>1. \A a \in Artifacts : upload'[a] =
              IF upload[a] = [status |-> "uploaded", lease |-> c]
                THEN [upload[a] EXCEPT !.status = "finalized"] ELSE upload[a]
      BY <1>4 DEF FinalizeBatch
    <3> HIDE DEF c, j, m
    <3>2. \A a \in Artifacts : upload[a] = [status |-> "uploaded", lease |-> c]
             => upload[a].status = "uploaded"
      OBVIOUS
    <3>3. QED
      BY <3>1, <3>2
  <2>5. m \in manifests /\ m \subseteq frames
    <3>1. \A a \in m : upload[a].status = "uploaded"
      BY <2>1
    <3>2. QED
      BY <1>1, <2>1, <3>1 DEF ObjectsThere
  <2>6. \A q \in Calls : call'[q] = IF q = p THEN y ELSE call[q]
    BY <1>4 DEF PipelineTypeOK
  <2>7. y = IdleCall \/ (y.pc = "recover" /\ y.artifact = None /\ y.manifest = m)
    BY <1>1, <1>2, FineCall DEF Fine, UploadPcs
  <2>8. \A q \in Calls : q # p /\ Finalizing(q) => call[q].manifest # m
    BY <1>1 DEF CallsAlone, Finalizing
  <2> HIDE DEF c, j, m
  <2>9. CallsAlone'
    <3>1. \A q \in Calls : /\ Uploading(q) => upload'[call[q].artifact].status = "reserved"
                           /\ Uploading(q) => call[q].artifact # None
                           /\ Finalizing(q) => call[q].manifest # {}
      BY <2>4, CallsNamed DEF CallsAlone
    <3>2. Finalizing(p) /\ call[p].manifest = m
      BY <1>1 DEF Finalizing, m
    <3>3. QED
      BY <2>6, <2>7, <3>1, <3>2, IdleCallType DEF CallsAlone, Uploading, Finalizing
  <2>10. ObjectsThere'
    BY <1>1, <2>4, <2>5, <2>6, <2>7, IdleCallType DEF ObjectsThere
  <2>11. DiscardsUnregistered'
    BY <2>1, <2>3, <2>6, <2>7, <2>8, IdleCallType
    DEF DiscardsUnregistered, Finalizing, PipelineTypeOK
  <2>12. EvidenceKept'
    BY <1>1, <2>1, <2>3, <2>5 DEF EvidenceKept, PipelineTypeOK
  <2>13. QED
    BY <2>9, <2>10, <2>11, <2>12 DEF Evidence
<1>5. CASE FinalizeBatch(p) /\ call' = [call EXCEPT ![p].pc = "recover"]
  <2>1. call' = [call EXCEPT ![p] = x]
    BY <1>2, <1>5
  <2>2. x \in {IdleCall, x}
    OBVIOUS
  <2>3. QED
    BY <1>4, <1>5, <2>1, <2>2
<1>6. CASE FinalizeBatch(p) /\ call' = [call EXCEPT ![p] = IdleCall]
  BY <1>4, <1>6
<1>7. QED
  BY <1>3, <1>5, <1>6 DEF FinalizeCommit

LEMMA FinalizeEvidence ==
  ASSUME EvidenceInv, NEW p \in Calls,
         \/ FinalizeCheck(p) \/ FinalizeReject(p) \/ FinalizeStore(p)
         \/ FinalizeRecover(p) \/ FinalizeDiscard(p)
  PROVE  Evidence'
<1> DEFINE m == call[p].manifest
<1> USE DEF EvidenceInv, OutcomeInv, PipelineTypeInv
<1>1. /\ call[p] \in CallRecord /\ Finalizing(p) /\ UNCHANGED <<upload, frame_set, frames>>
  BY FineCall DEF FinalizeCheck, FinalizeReject, FinalizeStore, FinalizeRecover,
                  FinalizeDiscard, Finalizing
<1>2. CASE call' = [call EXCEPT ![p] = IdleCall] /\ manifests \subseteq manifests'
  BY <1>1, <1>2, AloneStep, EvidenceMove, IdleCallType
<1>3. ASSUME NEW x \in CallRecord, call' = [call EXCEPT ![p] = x],
             x.artifact = call[p].artifact, x.manifest = call[p].manifest,
             manifests \subseteq manifests', x.pc \in FinalizePcs,
             x.pc \in {"commit", "recover", "discard"} => m \in manifests',
             x.pc = "discard" => \A j \in Jobs : frame_set[j] # None =>
                                     frame_set[j].manifest # m
      PROVE  Evidence'
  <2>1. CallsAlone'
    BY <1>1, <1>3, AloneStep DEF Finalizing, UploadPcs, FinalizePcs
  <2>2. QED
    BY <1>1, <1>3, <2>1, EvidenceMove DEF FinalizePcs
<1>4. CASE FinalizeCheck(p)
  <2>1. PICK u \in SUBSET Artifacts, s \in {"check", "store"} :
          call' = [call EXCEPT ![p].unchecked = u, ![p].pc = s]
    <3>1. PICK a : call' = [call EXCEPT ![p].unchecked = @ \ {a},
                                        ![p].pc = IF call[p].unchecked = {a}
                                                  THEN "store" ELSE @]
      BY <1>4 DEF FinalizeCheck
    <3>2. call[p].unchecked \ {a} \in SUBSET Artifacts /\ call[p].pc = "check"
      BY <1>1, <1>4 DEF CallRecord, FinalizeCheck
    <3>3. QED
      BY <3>1, <3>2
  <2>2. PICK x : x = [call[p] EXCEPT !.unchecked = u, !.pc = s]
    OBVIOUS
  <2>3. /\ x \in CallRecord /\ x.artifact = call[p].artifact
        /\ x.manifest = call[p].manifest /\ x.pc = s
    BY <1>1, <2>2 DEF CallRecord
  <2>4. call' = [call EXCEPT ![p] = x] /\ UNCHANGED manifests
    BY <1>4, <2>1, <2>2 DEF FinalizeCheck, PipelineTypeOK
  <2>5. QED
    BY <1>3, <2>3, <2>4 DEF FinalizePcs
<1>5. CASE FinalizeStore(p)
  <2>1. PICK x : x = [call[p] EXCEPT !.pc = "commit", !.at = clock]
    OBVIOUS
  <2>2. /\ x \in CallRecord /\ x.artifact = call[p].artifact
        /\ x.manifest = call[p].manifest /\ x.pc = "commit"
    BY <1>1, <2>1 DEF CallRecord, TypeInv, TypeOK
  <2>3. call' = [call EXCEPT ![p] = x] /\ manifests' = manifests \cup {m}
    BY <1>5, <2>1 DEF FinalizeStore
  <2>4. QED
    BY <1>3, <2>2, <2>3 DEF FinalizePcs
<1>6. CASE FinalizeRecover(p) /\ MustDiscard(p)
  <2>1. PICK x : x = [call[p] EXCEPT !.pc = "discard"]
    OBVIOUS
  <2>2. /\ x \in CallRecord /\ x.artifact = call[p].artifact
        /\ x.manifest = call[p].manifest /\ x.pc = "discard"
    BY <1>1, <2>1 DEF CallRecord
  <2>3. call' = [call EXCEPT ![p] = x] /\ UNCHANGED manifests /\ call[p].pc = "recover"
    BY <1>6, <2>1 DEF FinalizeRecover
  <2>4. m \in manifests
    BY <2>3 DEF ObjectsThere
  <2>5. QED
    BY <1>3, <1>6, <2>2, <2>3, <2>4, DiscardIsSafe DEF FinalizePcs
<1>7. CASE FinalizeDiscard(p)
  <2>1. /\ call' = [call EXCEPT ![p] = IdleCall] /\ manifests' = manifests \ {m}
        /\ call[p].pc = "discard"
    BY <1>7 DEF FinalizeDiscard
  <2>2. CallsAlone'
    BY <1>1, <2>1, AloneStep
  <2>3. \A q \in Calls : call'[q] = IF q = p THEN IdleCall ELSE call[q]
    BY <2>1 DEF PipelineTypeOK
  <2>4. \A q \in Calls : Finalizing(q) /\ call[q].manifest = m => q = p
    BY <1>1 DEF CallsAlone
  <2>5. ObjectsThere'
    BY <1>1, <2>1, <2>3, <2>4, IdleCallType DEF ObjectsThere, Finalizing
  <2>6. DiscardsUnregistered'
    BY <1>1, <2>3, IdleCallType DEF DiscardsUnregistered
  <2>7. EvidenceKept'
    BY <1>1, <2>1 DEF EvidenceKept, DiscardsUnregistered
  <2>8. QED
    BY <2>2, <2>5, <2>6, <2>7 DEF Evidence
<1>8. QED
  BY <1>2, <1>4, <1>5, <1>6, <1>7 DEF FinalizeReject, FinalizeRecover

LEMMA EvidenceStep ==
  ASSUME Repeats = {} PROVE EvidenceInv /\ [PipelineNext]_allVars => EvidenceInv'
<1> SUFFICES ASSUME EvidenceInv, [PipelineNext]_allVars PROVE EvidenceInv'
  OBVIOUS
<1>1. SUFFICES Evidence'
  BY OutcomeStep DEF EvidenceInv, Evidence
<1>2. CASE UNCHANGED pipelineVars
  BY <1>2
  DEF EvidenceInv, Evidence, CallsAlone, ObjectsThere, DiscardsUnregistered,
      EvidenceKept, Uploading, Finalizing, pipelineVars
<1>3. QED
  BY <1>2, ReserveEvidence, StartEvidence, UploadEvidence, CommitEvidence,
     FinalizeEvidence
  DEF PipelineNext, PipelineStep, allVars

\* If a client sends no upload of an artifact and no finalization of a
\* manifest again while one is in flight, the manifest and the frames of a
\* registered frame set stay in the bucket, whatever other attempts do and
\* whatever fails (artifact-pipeline.ts:113-124, 158-200).
THEOREM EvidenceIsKept ==
  ASSUME Repeats = {} PROVE PipelineSpec => []EvidenceKept
<1>1. PipelineInit => EvidenceInv
  BY OutcomeInit
  DEF PipelineInit, EvidenceInv, CallsAlone, ObjectsThere, DiscardsUnregistered,
      EvidenceKept, Uploading, Finalizing, IdleCall
<1>2. QED
  BY <1>1, EvidenceStep, PTL DEF PipelineSpec, EvidenceInv

-----------------------------------------------------------------------------
(***************************************************************************)
(* Sampling jobs keep the contract of durable jobs                         *)
(***************************************************************************)

\* A lifecycle step that makes no job succeed is the same step of the
\* contract whatever the results are.
LEMMA SameContractStep ==
  ASSUME TypeInv, [Contract!Next]_(Contract!vars), UNCHANGED frame_set,
         \A j \in Jobs : status'[j] = "succeeded" => status[j] = "succeeded"
  PROVE  [PipelineContract!Next]_(PipelineContract!vars)
<1> USE DEF SpentTokens, Cancelling
<1>1. CASE UNCHANGED Contract!vars
  BY <1>1 DEF Contract!vars, PipelineContract!vars
<1>2. ASSUME NEW t \in Claims, Contract!Withdraw(t) PROVE PipelineContract!Next
  BY <1>2 DEF Contract!Withdraw, PipelineContract!Withdraw, PipelineContract!Next
<1>3. ASSUME NEW j \in Jobs, Contract!Create(j) \/ Contract!Cancel(j) \/ Contract!Retry(j)
      PROVE  PipelineContract!Next
  BY <1>3
  DEF Contract!Create, Contract!Cancel, Contract!Retry, PipelineContract!Create,
      PipelineContract!Cancel, PipelineContract!Retry, PipelineContract!Next
<1>4. ASSUME NEW j \in Jobs, NEW t \in Claims, Contract!Take(j, t)
      PROVE  PipelineContract!Next
  BY <1>4 DEF Contract!Take, PipelineContract!Take, PipelineContract!Next
<1>5. ASSUME NEW C \in SUBSET Jobs, NEW F \in SUBSET Jobs, NEW Q \in SUBSET Jobs,
             Contract!Release(C, F, Q)
      PROVE  PipelineContract!Next
  BY <1>5 DEF Contract!Release, PipelineContract!Release, PipelineContract!Next
<1>6. ASSUME NEW j \in Jobs, NEW x, Contract!Succeed(j, x) PROVE FALSE
  BY <1>6 DEF Contract!Succeed, TypeInv, TypeOK
<1>7. QED
  BY <1>1, <1>2, <1>3, <1>4, <1>5, <1>6 DEF Contract!Next

\* The contract's part of the lifecycle's invariant.
LEMMA PipelineTokens ==
  OutcomeInv /\ TokenInv /\ [PipelineNext]_allVars => TokenInv'
<1> SUFFICES ASSUME OutcomeInv, TokenInv, [PipelineNext]_allVars PROVE TokenInv'
  OBVIOUS
<1>1. CASE [Next]_vars
  BY <1>1, TokenStep
<1>2. ASSUME NEW p \in Calls, FinalizeCommit(p), FinalizeBatch(p) PROVE TokenInv'
  <2>1. PICK j : j = claim[call[p].lease].job
    OBVIOUS
  <2>2. j \in Jobs /\ call[p].pc = "commit"
    BY <1>2, <2>1, BatchFinds DEF FinalizeCommit
  <2>3. /\ ClearLease({j}) /\ UNCHANGED claim
        /\ status' = [status EXCEPT ![j] = "succeeded"]
    BY <1>2, <2>1 DEF FinalizeBatch
  <2>4. \A k \in Jobs \ {j} : status'[k] = status[k]
    BY <2>3 DEF TokenInv, TypeInv, TypeOK
  <2>5. TypeInv'
    BY <1>2, <2>2, BatchType
  <2>6. QED
    BY <2>2, <2>3, <2>4, <2>5, HoldersLeave DEF TokenInv, WonTokens
<1>3. ASSUME NEW p \in Calls, ~FinalizeBatch(p), PipelineCall(p) \/ PipelineStep(p)
      PROVE  UNCHANGED vars
  BY <1>3 DEF PipelineCall, UploadCall, FinalizeCall, PipelineStep, UploadReject,
       UploadPut, UploadConfirm, UploadUndo, FinalizeCheck, FinalizeReject,
       FinalizeStore, FinalizeCommit, FinalizeRecover, FinalizeDiscard
<1>4. ASSUME NEW p \in Calls, FinalizeBatch(p), PipelineCall(p) \/ PipelineStep(p)
      PROVE  UNCHANGED vars \/ FinalizeCommit(p)
  BY <1>4 DEF PipelineCall, UploadCall, FinalizeCall, PipelineStep, UploadReject,
       UploadPut, UploadConfirm, UploadUndo, FinalizeCheck, FinalizeReject,
       FinalizeStore, FinalizeRecover, FinalizeDiscard
<1>5. QED
  BY <1>1, <1>2, <1>3, <1>4 DEF PipelineNext, allVars, Reserve

LEMMA PipelineContractStep ==
  ASSUME \A j \in Jobs : JobType[j] = "sampling"
  PROVE  OutcomeInv /\ TokenInv /\ [PipelineNext]_allVars
            => [PipelineContract!Next]_(PipelineContract!vars)
<1> SUFFICES ASSUME OutcomeInv, TokenInv, [PipelineNext]_allVars
             PROVE  [PipelineContract!Next]_(PipelineContract!vars)
  OBVIOUS
<1>1. CASE [Next]_vars /\ UNCHANGED frame_set
  <2>1. \A j \in Jobs : status'[j] = "succeeded" => status[j] = "succeeded"
    BY <1>1, LifecycleOutcomes DEF OutcomeInv, PipelineTypeInv
  <2>2. [Contract!Next]_(Contract!vars)
    BY <1>1, ContractStep
  <2>3. QED
    BY <1>1, <2>1, <2>2, SameContractStep DEF TokenInv
<1>2. ASSUME NEW p \in Calls, FinalizeCommit(p), FinalizeBatch(p)
      PROVE  PipelineContract!Next
  <2> DEFINE c == call[p].lease
             j == claim[c].job
  <2>1. PICK f : f = [manifest |-> call[p].manifest, lease |-> c]
    OBVIOUS
  <2>2. /\ c \in Claims /\ j \in Jobs /\ call[p].manifest \in Manifests
        /\ status[j] = "running" /\ ~cancellation_requested[j]
    <3>1. call[p].pc = "commit"
      BY <1>2 DEF FinalizeCommit
    <3>2. /\ c \in Claims /\ j \in Jobs /\ claim[c].pc = "held"
          /\ JobType[j] = "sampling" /\ call[p].manifest \in Manifests
          /\ status[j] = "running" /\ ~cancellation_requested[j]
          /\ frame_set[j] = None
          /\ \A a \in call[p].manifest :
                a \in Artifacts /\ upload[a] = [status |-> "uploaded", lease |-> c]
      BY <1>2, <3>1, BatchFinds
    <3>3. QED
      BY <3>2
  <2>3. f \in FrameSet
    BY <2>1, <2>2 DEF FrameSet
  <2>4. /\ ClearLease({j}) /\ UNCHANGED <<claim, cancellation_requested>>
        /\ status' = [status EXCEPT ![j] = "succeeded"]
        /\ frame_set' = [frame_set EXCEPT ![j] = f]
    BY <1>2, <2>1 DEF FinalizeBatch
  <2> HIDE DEF c, j
  <2>5. lease_token_hash' = [lease_token_hash EXCEPT ![j] = None]
    BY <2>2, <2>4 DEF ClearLease, TokenInv, TypeInv, TypeOK
  <2>6. PipelineContract!Succeed(j, f)
    BY <2>2, <2>4, <2>5 DEF PipelineContract!Succeed
  <2>7. QED
    BY <2>2, <2>3, <2>6 DEF PipelineContract!Next
<1>3. ASSUME NEW p \in Calls, ~(FinalizeCommit(p) /\ FinalizeBatch(p)),
             PipelineCall(p) \/ PipelineStep(p)
      PROVE  UNCHANGED <<vars, frame_set>>
  BY <1>3 DEF PipelineCall, UploadCall, FinalizeCall, PipelineStep, UploadReject,
       UploadPut, UploadConfirm, UploadUndo, FinalizeCheck, FinalizeReject,
       FinalizeStore, FinalizeCommit, FinalizeRecover, FinalizeDiscard
<1>4. QED
  BY <1>1, <1>2, <1>3 DEF PipelineNext, allVars, pipelineVars, Reserve

\* With finalization as the way to succeed, every step of sampling jobs and of
\* their artifact calls is a step of the durable jobs' contract or changes no
\* job: a frame set is set once, by the holder of the token, and never after a
\* cancellation request (artifact-pipeline.ts:174-187).
THEOREM PipelineKeepsTheContract ==
  ASSUME \A j \in Jobs : JobType[j] = "sampling"
  PROVE  PipelineSpec => PipelineKeepsContract
<1>1. PipelineInit => TokenInv
  BY TypeInit, ConstantsAssumption
  DEF PipelineInit, Init, TokenInv, TokensAreWon, UnspentNameNone, IdleClaim
<1>2. PipelineInit => PipelineContract!Init
  BY ConstantsAssumption DEF PipelineInit, Init, PipelineContract!Init, IdleClaim
<1>3. QED
  BY <1>1, <1>2, OutcomeInit, OutcomeStep, PipelineTokens, PipelineContractStep, PTL
  DEF PipelineSpec, PipelineKeepsContract, PipelineContract!Spec
=============================================================================
