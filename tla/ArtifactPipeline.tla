--------------------------- MODULE ArtifactPipeline --------------------------
(***************************************************************************)
(* Frame artifacts of sampling jobs: workers/control-plane/src/            *)
(* artifact-pipeline.ts over the tables artifact_uploads, artifacts,       *)
(* frame_sets and frame_set_frames and the R2 bucket of frame images and   *)
(* manifests, on top of the job lifecycle whose leases fence it.           *)
(*                                                                         *)
(* A reservation mints an artifact id, which is also its storage key.  A   *)
(* manifest is the set of artifacts it names; its key is its checksum, so  *)
(* equal manifests of a job share one object.                              *)
(***************************************************************************)
EXTENDS JobLifecycle

CONSTANTS
    Artifacts,     \* ids that reservations may mint
    Calls,         \* upload and finalize calls in flight
    Repeats        \* what a client may send twice: the "upload" of an
                   \* artifact, the "finalize" of a manifest

ASSUME PipelineAssumption ==
    /\ None \notin Artifacts
    /\ Repeats \subseteq {"upload", "finalize"}

VARIABLES
    upload,        \* artifact_uploads
    frame_set,     \* frame_sets, by sampling_job_id (UNIQUE)
    frames,        \* frame image objects in the bucket
    manifests,     \* manifest objects in the bucket
    call           \* calls in flight

pipelineVars == <<upload, frame_set, frames, manifests, call>>
allVars == <<vars, pipelineVars>>

\* What validateFrameSetManifest lets through, by the artifacts it lists:
\* at least one, none of them twice, and no other part of the document
\* outlives the check.
Manifests == (SUBSET Artifacts) \ {{}}

Upload == [status : {"none"}, lease : {None}]
          \cup [status : {"reserved", "uploaded", "finalized"}, lease : Claims]

FrameSet == [manifest : Manifests, lease : Claims]

ASSUME FrameSetAssumption == None \notin FrameSet

CallRecord == [pc : {"idle", "put", "confirm", "undo",
                "check", "store", "commit", "recover", "discard"},
          lease : Claims \cup {None},
          artifact : Artifacts \cup {None},      \* of an upload
          manifest : SUBSET Artifacts,           \* of a finalization
          unchecked : SUBSET Artifacts,          \* frames left to verify
          at : Nat]                              \* uploadedAt, timestamp

IdleCall == [pc |-> "idle", lease |-> None, artifact |-> None,
             manifest |-> {}, unchecked |-> {}, at |-> 0]

PipelineTypeOK ==
    /\ upload \in [Artifacts -> Upload]
    /\ frame_set \in [Jobs -> FrameSet \cup {None}]
    /\ frames \in SUBSET Artifacts
    /\ manifests \in SUBSET Manifests
    /\ call \in [Calls -> CallRecord]

PipelineInit ==
    /\ Init
    /\ upload = [a \in Artifacts |-> [status |-> "none", lease |-> None]]
    /\ frame_set = [j \in Jobs |-> None]
    /\ frames = {}
    /\ manifests = {}
    /\ call = [p \in Calls |-> IdleCall]

-----------------------------------------------------------------------------
\* The job of lease c still accepts its results, as a call dated ts sees it.
Accepting(c, ts) ==
    /\ LeaseActive(claim[c].job, c, ts)
    /\ ~cancellation_requested[claim[c].job]

\* activeLease: ... and the attempt of the lease is open.
ActiveLease(c, ts) ==
    /\ JobType[claim[c].job] = "sampling"
    /\ Accepting(c, ts)
    /\ attempt_status[c] = "running"

\* reserveArtifact: one conditional INSERT.
Reserve(a, c) ==
    /\ claim[c].pc = "held"
    /\ upload[a].status = "none"
    /\ ActiveLease(c, clock)
    /\ upload' = [upload EXCEPT ![a] = [status |-> "reserved", lease |-> c]]
    /\ UNCHANGED <<vars, frame_set, frames, manifests, call>>

-----------------------------------------------------------------------------
(***************************************************************************)
(* uploadArtifact                                                          *)
(***************************************************************************)

\* The call finds its reservation and a live lease; it then reads and
\* verifies the body.
UploadCall(p, a, c) ==
    /\ call[p].pc = "idle"
    /\ claim[c].pc = "held"
    /\ upload[a].lease = c /\ upload[a].status \in {"reserved", "uploaded"}
    /\ ActiveLease(c, clock)
    /\ \/ "upload" \in Repeats
       \/ /\ upload[a].status = "reserved"
          /\ \A q \in Calls : call[q].artifact # a
    /\ call' = [call EXCEPT ![p] =
          [IdleCall EXCEPT !.pc = "put", !.lease = c, !.artifact = a]]
    /\ UNCHANGED <<vars, upload, frame_set, frames, manifests>>

\* Size or checksum differ from the reservation.
UploadReject(p) ==
    /\ call[p].pc = "put"
    /\ call' = [call EXCEPT ![p] = IdleCall]
    /\ UNCHANGED <<vars, upload, frame_set, frames, manifests>>

\* The object is written, then uploadedAt is taken.
UploadPut(p) ==
    /\ call[p].pc = "put"
    /\ frames' = frames \cup {call[p].artifact}
    /\ call' = [call EXCEPT ![p].pc = "confirm", ![p].at = clock]
    /\ UNCHANGED <<vars, upload, frame_set, manifests>>

\* The conditional UPDATE of the reservation.
UploadConfirm(p) ==
    LET a == call[p].artifact
    IN  /\ call[p].pc = "confirm"
        /\ IF /\ upload[a].status \in {"reserved", "uploaded"}
              /\ Accepting(call[p].lease, call[p].at)
             THEN /\ upload' = [upload EXCEPT ![a].status = "uploaded"]
                  /\ call' = [call EXCEPT ![p] = IdleCall]
             ELSE /\ call' = [call EXCEPT ![p].pc = "undo"]
                  /\ UNCHANGED upload
        /\ UNCHANGED <<vars, frame_set, frames, manifests>>

\* The UPDATE matched no row: the call deletes the object at its key.
UploadUndo(p) ==
    /\ call[p].pc = "undo"
    /\ frames' = frames \ {call[p].artifact}
    /\ call' = [call EXCEPT ![p] = IdleCall]
    /\ UNCHANGED <<vars, upload, frame_set, manifests>>

-----------------------------------------------------------------------------
(***************************************************************************)
(* finalize                                                                *)
(***************************************************************************)

\* No frame set of this lease exists, and the lease is active.
FinalizeCall(p, c, m) ==
    /\ call[p].pc = "idle"
    /\ claim[c].pc = "held"
    /\ \A a \in m : upload[a].status # "none"
    /\ ActiveLease(c, clock)
    /\ \/ "finalize" \in Repeats
       \/ \A q \in Calls : call[q].manifest # m
    /\ call' = [call EXCEPT ![p] =
          [IdleCall EXCEPT !.pc = "check", !.lease = c, !.manifest = m,
                           !.unchecked = m]]
    /\ UNCHANGED <<vars, upload, frame_set, frames, manifests>>

\* Mutant: the status of the reservation is not asked for.
VerifiedAnyStatus(a, c) == upload[a].lease = c /\ a \in frames
\* The frame was uploaded under this lease and its object is there.
Verified(a, c) ==
    upload[a] = [status |-> "uploaded", lease |-> c] /\ a \in frames

\* The frames are verified one at a time, each with two awaits.
FinalizeCheck(p) ==
    /\ call[p].pc = "check"
    /\ \E a \in call[p].unchecked :
          /\ Verified(a, call[p].lease)
          /\ call' = [call EXCEPT ![p].unchecked = @ \ {a},
                                  ![p].pc = IF call[p].unchecked = {a}
                                            THEN "store" ELSE @]
    /\ UNCHANGED <<vars, upload, frame_set, frames, manifests>>

\* The manifest is invalid, or a frame is missing or does not match it.
FinalizeReject(p) ==
    /\ call[p].pc = "check"
    /\ call' = [call EXCEPT ![p] = IdleCall]
    /\ UNCHANGED <<vars, upload, frame_set, frames, manifests>>

\* The manifest object is written, then the batch's timestamp is taken.
FinalizeStore(p) ==
    /\ call[p].pc = "store"
    /\ manifests' = manifests \cup {call[p].manifest}
    /\ call' = [call EXCEPT ![p].pc = "commit", ![p].at = clock]
    /\ UNCHANGED <<vars, upload, frame_set, frames>>

\* Mutant: the batch ignores a cancellation request.
FinalizableCancelled(p) ==
    /\ LeaseActive(claim[call[p].lease].job, call[p].lease, call[p].at)
    /\ frame_set[claim[call[p].lease].job] = None

\* The batch's INSERT into frame_sets finds the lease active and violates
\* no UNIQUE constraint.  Otherwise the rows that reference the frame set
\* violate their foreign key, and the whole batch is rolled back.
Finalizable(p) ==
    /\ Accepting(call[p].lease, call[p].at)
    /\ frame_set[claim[call[p].lease].job] = None

\* The transaction: register the frame set and its artifacts, close the
\* uploads of the lease, the attempt and the job.
FinalizeBatch(p) ==
    LET c == call[p].lease
        j == claim[c].job
    IN  /\ Finalizable(p)
        /\ frame_set' = [frame_set EXCEPT ![j] =
              [manifest |-> call[p].manifest, lease |-> c]]
        /\ upload' = [a \in Artifacts |->
              IF upload[a] = [status |-> "uploaded", lease |-> c]
                THEN [upload[a] EXCEPT !.status = "finalized"] ELSE upload[a]]
        /\ status' = [status EXCEPT ![j] = "succeeded"]
        /\ ClearLease({j})
        /\ attempt_status' = [attempt_status EXCEPT ![c] =
              IF @ = "running" THEN "succeeded" ELSE @]
        /\ AvailabilityAfterJob(j)
        /\ UNCHANGED <<clock, attempt_count, max_attempts,
                       cancellation_requested, attempt_expires_at, claim,
                       request, reportVars>>

FinalizeCommit(p) ==
    /\ call[p].pc = "commit"
    /\ \/ FinalizeBatch(p) /\ call' = [call EXCEPT ![p] = IdleCall]
       \/ /\ "batch_ambiguous" \in Faults
          /\ FinalizeBatch(p) /\ call' = [call EXCEPT ![p].pc = "recover"]
       \/ /\ ~Finalizable(p) \/ "batch_rejected" \in Faults
          /\ call' = [call EXCEPT ![p].pc = "recover"]
          /\ UNCHANGED <<vars, upload, frame_set>>
    /\ UNCHANGED <<frames, manifests>>

\* Mutants: the catch forgets that the batch may have committed, or that
\* the finalized manifest may be another one.
MustDiscardAlways(p) == TRUE
MustDiscardUnregistered(p) ==
    LET f == frame_set[claim[call[p].lease].job]
    IN  f = None \/ f.lease # call[p].lease

\* The catch looks for a frame set of this lease; the manifest object is
\* not needed if there is none, or one with another checksum.
MustDiscard(p) ==
    LET f == frame_set[claim[call[p].lease].job]
    IN  \/ f = None
        \/ f.lease # call[p].lease
        \/ f.manifest # call[p].manifest

FinalizeRecover(p) ==
    /\ call[p].pc = "recover"
    /\ call' = [call EXCEPT ![p] =
          IF MustDiscard(p) THEN [@ EXCEPT !.pc = "discard"] ELSE IdleCall]
    /\ UNCHANGED <<vars, upload, frame_set, frames, manifests>>

FinalizeDiscard(p) ==
    /\ call[p].pc = "discard"
    /\ manifests' = manifests \ {call[p].manifest}
    /\ call' = [call EXCEPT ![p] = IdleCall]
    /\ UNCHANGED <<vars, upload, frame_set, frames>>

-----------------------------------------------------------------------------
PipelineCall(p) ==
    \E c \in Claims :
        \/ \E a \in Artifacts : UploadCall(p, a, c)
        \/ \E m \in Manifests : FinalizeCall(p, c, m)

PipelineStep(p) ==
    \/ UploadReject(p) \/ UploadPut(p) \/ UploadConfirm(p) \/ UploadUndo(p)
    \/ FinalizeCheck(p) \/ FinalizeReject(p) \/ FinalizeStore(p)
    \/ FinalizeCommit(p) \/ FinalizeRecover(p) \/ FinalizeDiscard(p)

PipelineNext ==
    \/ Next /\ UNCHANGED pipelineVars
    \/ \E a \in Artifacts, c \in Claims : Reserve(a, c)
    \/ \E p \in Calls : PipelineCall(p) \/ PipelineStep(p)

PipelineSpec == PipelineInit /\ [][PipelineNext]_allVars

-----------------------------------------------------------------------------
(***************************************************************************)
(* Properties                                                              *)
(***************************************************************************)

\* The objects of a frame set, its manifest and every frame the manifest
\* names, stay in the bucket, whatever a losing, late or failed call of the
\* same or another attempt deletes (docs/internals-operations.md:14-18).
EvidenceKept ==
    \A j \in Jobs : frame_set[j] # None =>
        /\ frame_set[j].manifest \in manifests
        /\ frame_set[j].manifest \subseteq frames

\* A sampling job succeeds exactly when its frame set is registered, the
\* frames are those its lease uploaded, and no other attempt of the job
\* counts as successful (artifact-pipeline.ts:147-157, 175-187).
FrameSetIsOutcome ==
    /\ \A j \in Jobs : JobType[j] = "sampling" =>
          (status[j] = "succeeded" <=> frame_set[j] # None)
    /\ \A j \in Jobs : frame_set[j] # None =>
          \A a \in frame_set[j].manifest :
             upload[a] = [status |-> "finalized", lease |-> frame_set[j].lease]
    /\ \A c \in Claims :
          attempt_status[c] = "succeeded" /\ JobType[claim[c].job] = "sampling" =>
             frame_set[claim[c].job] # None /\ frame_set[claim[c].job].lease = c

\* A finalization that did not win leaves no manifest object behind
\* (artifact-pipeline.ts:191-200).
NoStrayManifest ==
    \A m \in manifests :
        \/ \E j \in Jobs : frame_set[j] # None /\ frame_set[j].manifest = m
        \/ \E p \in Calls : call[p].pc # "idle" /\ call[p].manifest = m

PipelineContract == INSTANCE JobContract WITH
    Tokens <- Claims,
    Results <- FrameSet,
    phase <- status,
    holder <- lease_token_hash,
    spent <- {c \in Claims : claim[c].job # 0},
    cancelling <- {j \in Jobs : cancellation_requested[j]},
    result <- frame_set

\* With finalization as the way to succeed, sampling jobs keep the contract
\* of durable jobs: a frame set is set once, by the holder of the job's
\* token, and never after a cancellation request
\* (docs/internals-operations.md:24-25; artifact-pipeline.ts:174-187).
PipelineKeepsContract == PipelineContract!Spec
=============================================================================
