------------------------------ MODULE Retention -----------------------------
(***************************************************************************)
(* Retirement of frame sets and model versions:                            *)
(* workers/control-plane/src/resource-retention.ts with the triggers of    *)
(* migrations/control/0015_resource_archival.sql, against the reviews,     *)
(* ground truth, evaluations, releases and pins that may still need them.  *)
(*                                                                         *)
(* An archive is verified, stored and then scheduled by one transaction;   *)
(* after a grace period leased sweeps delete the payload objects one by    *)
(* one; until then it may be cancelled.  Every await is a step boundary.   *)
(* Time shows as events: a resource becomes stale, a grace period ends, a  *)
(* purge lease lapses.                                                     *)
(***************************************************************************)
EXTENDS Naturals, FiniteSets

CONSTANTS
    FrameSets, Models,  \* the resources
    Artifacts, Payload, \* [Resources -> SUBSET Artifacts], artifacts by id
    Runs,               \* evaluation runs
    Archives,           \* archive calls; also the archive ids they mint
    Cancels,            \* cancel calls
    Sweeps,             \* purge sweeps
    Mortal, Slow,       \* those that may die, or outlive their lease
    Limit,              \* payloads one sweep deletes at most
    None,               \* SQL NULL
    Faults              \* the failures D1 may produce, see AllFaults

Resources == FrameSets \cup Models

AllFaults == {"archive_ambiguous",  \* the archive batch commits, but fails
              "purge_errors"}       \* any request of a sweep may fail

ASSUME RetentionAssumption ==
    /\ FrameSets \cap Models = {}
    /\ Artifacts \subseteq Nat
    /\ Payload \in [Resources -> SUBSET Artifacts]
    /\ \A m \in Models : \A r \in Resources \ {m} :  \* minted per upload
          Payload[m] \cap Payload[r] = {}
    /\ None \notin Archives \cup Sweeps \cup Resources
    /\ Mortal \subseteq Sweeps /\ Slow \subseteq Sweeps
    /\ Limit \in Nat \ {0}
    /\ Faults \subseteq AllFaults

VARIABLES
    \* who may need a resource
    review,        \* review_campaigns.status, per frame set
    engaged,       \* frame sets whose review is recent or still assigned
    withdrawn,     \* reviews a coordinator cancelled ("campaign.cancel")
    truth,         \* ground_truth_versions.approval_status, per frame set
    run,           \* evaluation_runs with the status of their jobs
    usable,        \* model versions neither rejected nor retired
    released,      \* model versions of releases that are not over
    pins,          \* retention_pins
    fresh,         \* resources with activity after the staleness cutoff
    \* retirement
    frame_set,     \* frame_sets.status
    archive,       \* resource_archives
    retirement,    \* artifact_retirements.archive_id
    deleted_at,    \* artifact_retirements with a deleted_at
    deletions,     \* "artifact.payload_deleted" audit events
    due, lapsed,   \* archives past their grace, purge leases past their end
    \* objects and calls in flight
    bucket, records,
    call, cancel, sweep

consumers == <<review, engaged, withdrawn, truth, run, usable, released,
               pins, fresh>>
ledger == <<frame_set, archive, retirement, deleted_at, deletions, due, lapsed>>
objects == <<bucket, records>>
calls == <<call, cancel, sweep>>
vars == <<consumers, ledger, objects, calls>>

Review == {"none", "open", "completed", "cancelled"}
Truth == {"none", "pending", "approved", "rejected", "superseded"}
Run == [status : {"none"}, frames : {None}, model : {None}]
       \cup [status : {"queued", "succeeded", "failed"},
             frames : FrameSets, model : Models]
Archive == [state : {"none", "scheduled", "deleting", "deleted", "cancelled"},
            resource : Resources \cup {None},
            review : Review,                 \* the lineage in the snapshot
            holder : Sweeps \cup {None}]     \* purge_lease_token
Call == [pc : {"idle", "lineage", "store", "commit", "undo", "done"},
         resource : Resources \cup {None}, review : Review]
Cancel == [pc : {"idle", "commit"}, archive : Archives \cup {None}]
Sweep == [pc : {"idle", "load", "check", "delete", "mark", "close", "release",
                "dead"},
          archive : Archives \cup {None}, todo : SUBSET Artifacts]

IdleSweep == [pc |-> "idle", archive |-> None, todo |-> {}]

RetentionTypeOK ==
    /\ review \in [FrameSets -> Review]
    /\ engaged \subseteq FrameSets /\ withdrawn \subseteq FrameSets
    /\ truth \in [FrameSets -> Truth]
    /\ run \in [Runs -> Run]
    /\ usable \subseteq Models /\ released \subseteq Models
    /\ pins \subseteq Resources /\ fresh \subseteq Resources
    /\ frame_set \in [FrameSets -> {"ready", "archived"}]
    /\ archive \in [Archives -> Archive]
    /\ retirement \in [Artifacts -> Archives \cup {None}]
    /\ deleted_at \subseteq Artifacts
    /\ deletions \in [Artifacts -> Nat]
    /\ due \subseteq Archives /\ lapsed \subseteq Archives
    /\ bucket \subseteq Artifacts /\ records \subseteq Archives
    /\ call \in [Archives -> Call]
    /\ cancel \in [Cancels -> Cancel]
    /\ sweep \in [Sweeps -> Sweep]

\* Finalized frame sets and registered models, stored and recent.
Init ==
    /\ review = [f \in FrameSets |-> "none"]
    /\ engaged = {} /\ withdrawn = {}
    /\ truth = [f \in FrameSets |-> "none"]
    /\ run = [e \in Runs |-> [status |-> "none", frames |-> None, model |-> None]]
    /\ usable = Models /\ released = {}
    /\ pins = {} /\ fresh = Resources
    /\ frame_set = [f \in FrameSets |-> "ready"]
    /\ archive = [k \in Archives |->
          [state |-> "none", resource |-> None, review |-> "none",
           holder |-> None]]
    /\ retirement = [a \in Artifacts |-> None]
    /\ deleted_at = {}
    /\ deletions = [a \in Artifacts |-> 0]
    /\ due = {} /\ lapsed = {}
    /\ bucket = Artifacts /\ records = {}
    /\ call = [k \in Archives |->
          [pc |-> "idle", resource |-> None, review |-> "none"]]
    /\ cancel = [x \in Cancels |-> [pc |-> "idle", archive |-> None]]
    /\ sweep = [s \in Sweeps |-> IdleSweep]

-----------------------------------------------------------------------------
\* activeArchive, and the WHEN of the triggers: r is retiring or retired.
Archived(r) ==
    \E k \in Archives : /\ archive[k].resource = r
                        /\ archive[k].state \in {"scheduled", "deleting", "deleted"}

\* A run that is under way or succeeded keeps its inputs.
RunOn(r) ==
    \E e \in Runs : /\ run[e].status \in {"queued", "succeeded"}
                    /\ r \in {run[e].frames, run[e].model}

Shared(f) == \E g \in FrameSets \ {f} : Payload[f] \cap Payload[g] # {}

\* eligible: nothing recent, pinned, under way or retained needs r.
Eligible(r) ==
    /\ r \notin pins
    /\ r \notin fresh
    /\ ~RunOn(r)
    /\ r \in FrameSets => /\ ~Shared(r)
                          /\ truth[r] \notin {"pending", "approved"}
                          /\ ~(review[r] = "open" /\ r \in engaged)
    /\ r \in Models => r \notin usable \cup released

-----------------------------------------------------------------------------
(***************************************************************************)
(* archiveResource                                                         *)
(***************************************************************************)

ArchiveCall(k, r) ==
    /\ call[k].pc = "idle"
    /\ ~Archived(r) /\ Eligible(r)
    /\ call' = [call EXCEPT ![k] =
          [pc |-> "lineage", resource |-> r, review |-> "none"]]
    /\ UNCHANGED <<consumers, ledger, objects, cancel, sweep>>

\* Every payload is read and verified, then the lineage is read.
ArchiveLineage(k) ==
    LET r == call[k].resource
    IN  /\ call[k].pc = "lineage"
        /\ call' = [call EXCEPT ![k] =
              [pc |-> IF Payload[r] \subseteq bucket THEN "store" ELSE "done",
               resource |-> r,
               review |-> IF r \in FrameSets THEN review[r] ELSE "none"]]
        /\ UNCHANGED <<consumers, ledger, objects, cancel, sweep>>

\* The snapshot is stored under the id of the archive and read back.
ArchiveStore(k) ==
    /\ call[k].pc = "store"
    /\ records' = records \cup {k}
    /\ call' = [call EXCEPT ![k].pc = "commit"]
    /\ UNCHANGED <<consumers, ledger, bucket, cancel, sweep>>

\* Mutant: the transaction relies on the check made before the upload.
SchedulableChecked(k) == ~Archived(call[k].resource)

\* The conditional INSERT, whose outcome the assertion turns into an abort.
Schedulable(k) == ~Archived(call[k].resource) /\ Eligible(call[k].resource)

ArchiveBatch(k) ==
    LET r == call[k].resource
    IN  /\ \A a \in Payload[r] : retirement[a] = None  \* its primary key
        /\ archive' = [archive EXCEPT ![k] =
              [state |-> "scheduled", resource |-> r,
               review |-> call[k].review, holder |-> None]]
        /\ retirement' = [a \in Artifacts |->
              IF a \in Payload[r] THEN k ELSE retirement[a]]
        /\ frame_set' = [f \in FrameSets |->
              IF f = r THEN "archived" ELSE frame_set[f]]
        /\ review' = [f \in FrameSets |->
              IF f = r /\ review[f] = "open" THEN "cancelled" ELSE review[f]]
        /\ fresh' = fresh \cup (Models \cap {r})  \* the audit event of a model

ArchiveCommit(k) ==
    /\ call[k].pc = "commit"
    /\ \/ /\ Schedulable(k) /\ ArchiveBatch(k)
          /\ \E pc \in {"done"} \cup {p \in {"undo"} : "archive_ambiguous" \in Faults} :
                call' = [call EXCEPT ![k].pc = pc]
       \/ /\ ~(Schedulable(k) /\ \A a \in Payload[call[k].resource] : retirement[a] = None)
          /\ call' = [call EXCEPT ![k].pc = "undo"]
          /\ UNCHANGED <<archive, retirement, frame_set, review, fresh>>
    /\ UNCHANGED <<engaged, withdrawn, truth, run, usable, released, pins,
                   deleted_at, deletions, due, lapsed, objects, cancel, sweep>>

\* The catch removes the record.
ArchiveUndo(k) ==
    /\ call[k].pc = "undo"
    /\ records' = records \ {k}
    /\ call' = [call EXCEPT ![k].pc = "done"]
    /\ UNCHANGED <<consumers, ledger, bucket, cancel, sweep>>

-----------------------------------------------------------------------------
(***************************************************************************)
(* handleRetention: cancelling an archive                                  *)
(***************************************************************************)

CancelCall(x, k) ==
    /\ cancel[x].pc = "idle"
    /\ archive[k].state = "scheduled"
    /\ cancel' = [cancel EXCEPT ![x] = [pc |-> "commit", archive |-> k]]
    /\ UNCHANGED <<consumers, ledger, objects, call, sweep>>

\* Mutant: any archive that is not closed yet.
CancellableLate(k) == archive[k].state \in {"scheduled", "deleting", "cancelled"}

\* The assertion also holds when the archive had been cancelled already.
Cancellable(k) == archive[k].state \in {"scheduled", "cancelled"}

\* no_reactivate_retiring_frames: a later archive of the frame set aborts it.
Reactivates(k) ==
    archive[k].resource \in FrameSets =>
        \A j \in Archives \ {k} :
            archive[j].resource = archive[k].resource =>
                archive[j].state \in {"none", "cancelled"}

\* original.status: only ready frame sets occur here.
SnapshotStatus(k) == "ready"

CancelBatch(k) ==
    LET r == archive[k].resource
    IN  /\ archive' = [archive EXCEPT ![k].state = "cancelled"]
        /\ retirement' = [a \in Artifacts |->
              IF retirement[a] = k THEN None ELSE retirement[a]]
        /\ frame_set' = [f \in FrameSets |->
              IF f = r THEN SnapshotStatus(k) ELSE frame_set[f]]
        /\ review' = [f \in FrameSets |->
              IF f = r /\ review[f] = "cancelled" /\ archive[k].review # "none"
              THEN archive[k].review ELSE review[f]]
        /\ fresh' = fresh \cup (Models \cap {r})

CancelCommit(x) ==
    LET k == cancel[x].archive
    IN  /\ cancel[x].pc = "commit"
        /\ \/ Cancellable(k) /\ Reactivates(k) /\ CancelBatch(k)
           \/ /\ ~(Cancellable(k) /\ Reactivates(k))
              /\ UNCHANGED <<archive, retirement, frame_set, review, fresh>>
        /\ cancel' = [cancel EXCEPT ![x] = [pc |-> "idle", archive |-> None]]
        /\ UNCHANGED <<engaged, withdrawn, truth, run, usable, released, pins,
                       deleted_at, deletions, due, lapsed, objects, call, sweep>>

-----------------------------------------------------------------------------
(***************************************************************************)
(* purgeArchives: one entry of a sweep at a time                           *)
(***************************************************************************)

Undeleted(k) == {a \in Artifacts : retirement[a] = k /\ a \notin deleted_at}

\* ORDER BY a.id LIMIT ?
Listed(k) == {a \in Undeleted(k) :
                 Cardinality({b \in Undeleted(k) : b < a}) < Limit}

At(s, pc) == sweep[s].pc = pc
Goto(s, pc) == sweep' = [sweep EXCEPT ![s].pc = pc]

\* Mutant: a lease is never taken over.
ClaimableFree(k) ==
    /\ k \in due
    /\ archive[k].state \in {"scheduled", "deleting"}
    /\ archive[k].holder = None

Claimable(k) ==
    /\ k \in due
    /\ archive[k].state \in {"scheduled", "deleting"}
    /\ archive[k].holder = None \/ k \in lapsed

SweepClaim(s, k) ==
    /\ At(s, "idle") /\ Claimable(k)
    /\ archive' = [archive EXCEPT ![k] =
          [state |-> "deleting", resource |-> @.resource,
           review |-> @.review, holder |-> s]]
    /\ lapsed' = lapsed \ {k}
    /\ sweep' = [sweep EXCEPT ![s] = [pc |-> "load", archive |-> k, todo |-> {}]]
    /\ UNCHANGED <<consumers, frame_set, retirement, deleted_at, deletions, due,
                   objects, call, cancel>>

\* The record is read and verified, then at most Limit payloads are listed.
SweepLoad(s) ==
    LET k == sweep[s].archive
    IN  /\ At(s, "load")
        /\ \/ /\ k \notin records
              /\ Goto(s, "release")
           \/ /\ k \in records
              /\ sweep' = [sweep EXCEPT ![s] =
                    [pc |-> IF Undeleted(k) = {} THEN "close" ELSE "check",
                     archive |-> k, todo |-> Listed(k)]]
        /\ UNCHANGED <<consumers, ledger, objects, call, cancel>>

\* stillOwned
SweepCheck(s) ==
    LET k == sweep[s].archive
    IN  /\ At(s, "check")
        /\ Goto(s, IF archive[k].holder = s /\ k \notin lapsed THEN "delete"
                                                               ELSE "release")
        /\ UNCHANGED <<consumers, ledger, objects, call, cancel>>

\* The payload in hand; the others of todo follow, one turn of the loop each.
InHand(s, a) == a \in sweep[s].todo /\ \A b \in sweep[s].todo : a <= b

SweepDelete(s) ==
    /\ At(s, "delete")
    /\ \E a \in Artifacts : InHand(s, a) /\ bucket' = bucket \ {a}
    /\ Goto(s, "mark")
    /\ UNCHANGED <<consumers, ledger, records, call, cancel>>

\* Mutant: the deletion is audited whenever it is repeated.
AuditAlways(a) == deletions' = [deletions EXCEPT ![a] = @ + 1]

Audit(a) ==
    deletions' = [deletions EXCEPT ![a] = IF a \in deleted_at THEN @ ELSE @ + 1]

MarkBatch(s) ==
    \E a \in Artifacts :
        /\ InHand(s, a)
        /\ Audit(a) /\ deleted_at' = deleted_at \cup {a}
        /\ \/ sweep' = [sweep EXCEPT ![s] =
                 [pc |-> IF @.todo = {a} THEN "close" ELSE "check",
                  archive |-> @.archive, todo |-> @.todo \ {a}]]
           \/ /\ "purge_errors" \in Faults   \* committed, and failed
              /\ Goto(s, "release")

SweepMark(s) ==
    /\ At(s, "mark") /\ MarkBatch(s)
    /\ UNCHANGED <<consumers, frame_set, archive, retirement, due, lapsed,
                   objects, call, cancel>>

\* Mutant: the entry is closed after its last listed payload.
ClosableListed(k) == TRUE

Closable(k) == Undeleted(k) = {}

SweepClose(s) ==
    LET k == sweep[s].archive
    IN  /\ At(s, "close")
        /\ archive' = IF Closable(k)
                      THEN [archive EXCEPT ![k].state = "deleted"] ELSE archive
        /\ Goto(s, "release")
        /\ UNCHANGED <<consumers, frame_set, retirement, deleted_at, deletions,
                       due, lapsed, objects, call, cancel>>

\* The last UPDATE of the loop, and the one of its catch: only its own lease.
SweepRelease(s) ==
    LET k == sweep[s].archive
    IN  /\ At(s, "release")
        /\ archive' = IF archive[k].holder = s
                      THEN [archive EXCEPT ![k].holder = None] ELSE archive
        /\ lapsed' = IF archive[k].holder = s THEN lapsed \ {k} ELSE lapsed
        /\ sweep' = [sweep EXCEPT ![s] = IdleSweep]
        /\ UNCHANGED <<consumers, frame_set, retirement, deleted_at, deletions,
                       due, objects, call, cancel>>

SweepFail(s) ==
    /\ "purge_errors" \in Faults
    /\ sweep[s].pc \in {"load", "check", "delete", "mark", "close"}
    /\ Goto(s, "release")
    /\ UNCHANGED <<consumers, ledger, objects, call, cancel>>

SweepDie(s) ==
    /\ s \in Mortal /\ sweep[s].pc \notin {"idle", "dead"}
    /\ sweep' = [sweep EXCEPT ![s] = [IdleSweep EXCEPT !.pc = "dead"]]
    /\ UNCHANGED <<consumers, ledger, objects, call, cancel>>

-----------------------------------------------------------------------------
\* Time: the grace period of an archive, and five minutes of a purge lease.

GraceEnds(k) ==
    /\ archive[k].state = "scheduled" /\ k \notin due
    /\ due' = due \cup {k}
    /\ UNCHANGED <<consumers, frame_set, archive, retirement, deleted_at,
                   deletions, lapsed, objects, calls>>

Lapse(k) ==
    /\ k \notin lapsed
    /\ archive[k].holder \in Slow \cup {s \in Sweeps : At(s, "dead")}
    /\ lapsed' = lapsed \cup {k}
    /\ UNCHANGED <<consumers, frame_set, archive, retirement, deleted_at,
                   deletions, due, objects, calls>>

-----------------------------------------------------------------------------
(***************************************************************************)
(* What may come to need a resource.  The handlers check long before they  *)
(* write; the triggers fence the write: ~Archived(r).                      *)
(***************************************************************************)

Age(r) ==
    /\ r \in fresh
    /\ fresh' = fresh \ {r}
    /\ UNCHANGED <<review, engaged, withdrawn, truth, run, usable, released,
                   pins, ledger, objects, calls>>

Pin(r) ==
    /\ r \notin pins /\ ~Archived(r)
    /\ pins' = pins \cup {r}
    /\ fresh' = fresh \cup (Models \cap {r})
    /\ UNCHANGED <<review, engaged, withdrawn, truth, run, usable, released,
                   ledger, objects, calls>>

Unpin(r) ==
    /\ r \in pins
    /\ pins' = pins \ {r}
    /\ fresh' = fresh \cup (Models \cap {r})
    /\ UNCHANGED <<review, engaged, withdrawn, truth, run, usable, released,
                   ledger, objects, calls>>

\* One campaign per frame set, on a template it already has.
OpenReview(f) ==
    /\ review[f] = "none" /\ ~Archived(f)
    /\ review' = [review EXCEPT ![f] = "open"]
    /\ engaged' = engaged \cup {f}
    /\ UNCHANGED <<withdrawn, truth, run, usable, released, pins, fresh,
                   ledger, objects, calls>>

\* A job token is issued or a pass is saved; assignments end or expire.
Engage(f) ==
    /\ review[f] = "open"
    /\ engaged' = engaged \cup {f}
    /\ UNCHANGED <<review, withdrawn, truth, run, usable, released, pins,
                   fresh, ledger, objects, calls>>

Disengage(f) ==
    /\ engaged' = engaged \ {f}
    /\ UNCHANGED <<review, withdrawn, truth, run, usable, released, pins,
                   fresh, ledger, objects, calls>>

\* The completed adjudication registers a ground-truth candidate.
CompleteReview(f) ==
    /\ review[f] = "open" /\ f \in engaged
    /\ review' = [review EXCEPT ![f] = "completed"]
    /\ truth' = [truth EXCEPT ![f] = "pending"]
    /\ UNCHANGED <<engaged, withdrawn, run, usable, released, pins, fresh,
                   ledger, objects, calls>>

\* A coordinator cancels the campaign.
WithdrawReview(f) ==
    /\ review[f] = "open"
    /\ review' = [review EXCEPT ![f] = "cancelled"]
    /\ withdrawn' = withdrawn \cup {f} /\ engaged' = engaged \cup {f}
    /\ UNCHANGED <<truth, run, usable, released, pins, fresh, ledger, objects,
                   calls>>

Decide(f, decision) ==
    /\ <<truth[f], decision>> \in {<<"pending", "approved">>,
          <<"pending", "rejected">>, <<"approved", "superseded">>}
    /\ truth' = [truth EXCEPT ![f] = decision]
    /\ fresh' = fresh \cup {f}
    /\ UNCHANGED <<review, engaged, withdrawn, run, usable, released, pins,
                   ledger, objects, calls>>

\* Its inputs were eligible when it looked, a decision ago at most.
CreateRun(e, f, m) ==
    /\ run[e].status = "none" /\ ~Archived(f) /\ ~Archived(m)
    /\ truth[f] = "approved" \/ (truth[f] = "superseded" /\ f \in fresh)
    /\ m \in usable \cup fresh
    /\ run' = [run EXCEPT ![e] = [status |-> "queued", frames |-> f, model |-> m]]
    /\ UNCHANGED <<review, engaged, withdrawn, truth, usable, released, pins,
                   fresh, ledger, objects, calls>>

FinishRun(e, status) ==
    /\ run[e].status = "queued"
    /\ run' = [run EXCEPT ![e].status = status]
    /\ UNCHANGED <<review, engaged, withdrawn, truth, usable, released, pins,
                   fresh, ledger, objects, calls>>

RetryRun(e) ==
    /\ run[e].status = "failed"
    /\ ~Archived(run[e].frames) /\ ~Archived(run[e].model)
    /\ run' = [run EXCEPT ![e].status = "queued"]
    /\ UNCHANGED <<review, engaged, withdrawn, truth, usable, released, pins,
                   fresh, ledger, objects, calls>>

\* A candidate is rejected, or an approved model retired.
Retire(m) ==
    /\ m \in usable
    /\ usable' = usable \ {m} /\ fresh' = fresh \cup {m}
    /\ UNCHANGED <<review, engaged, withdrawn, truth, run, released, pins,
                   ledger, objects, calls>>

\* A release of the model is created, or rolled back to; or it is over.  The
\* model was approved when it looked, and a request outlives no staleness.
Release(m) ==
    /\ m \in usable \/ (m \in fresh /\ ~Archived(m))
    /\ released' = released \cup {m}
    /\ UNCHANGED <<review, engaged, withdrawn, truth, run, usable, pins, fresh,
                   ledger, objects, calls>>

EndRelease(m) ==
    /\ released' = released \ {m}
    /\ UNCHANGED <<review, engaged, withdrawn, truth, run, usable, pins, fresh,
                   ledger, objects, calls>>

-----------------------------------------------------------------------------
Archiving(k) ==
    \/ \E r \in Resources : ArchiveCall(k, r)
    \/ ArchiveLineage(k) \/ ArchiveStore(k) \/ ArchiveCommit(k) \/ ArchiveUndo(k)

Cancelling(x) == CancelCommit(x) \/ \E k \in Archives : CancelCall(x, k)

SweepStep(s) ==
    \/ SweepLoad(s) \/ SweepCheck(s) \/ SweepDelete(s)
    \/ SweepMark(s) \/ SweepClose(s) \/ SweepRelease(s)

Purging(s) ==
    \/ \E k \in Archives : SweepClaim(s, k)
    \/ SweepStep(s) \/ SweepFail(s) \/ SweepDie(s)

Reviewing(f) ==
    \/ OpenReview(f) \/ Engage(f) \/ Disengage(f)
    \/ CompleteReview(f) \/ WithdrawReview(f)
    \/ \E decision \in Truth : Decide(f, decision)

Evaluating(e) ==
    \/ \E f \in FrameSets, m \in Models : CreateRun(e, f, m)
    \/ \E status \in {"succeeded", "failed"} : FinishRun(e, status)
    \/ RetryRun(e)

Governing(m) == Retire(m) \/ Release(m) \/ EndRelease(m)

Consuming ==
    \/ \E r \in Resources : Age(r) \/ Pin(r) \/ Unpin(r)
    \/ \E f \in FrameSets : Reviewing(f)
    \/ \E e \in Runs : Evaluating(e)
    \/ \E m \in Models : Governing(m)

Next ==
    \/ \E k \in Archives : Archiving(k) \/ GraceEnds(k) \/ Lapse(k)
    \/ \E x \in Cancels : Cancelling(x)
    \/ \E s \in Sweeps : Purging(s)
    \/ Consuming

Spec == Init /\ [][Next]_vars

\* The sweep is scheduled every six hours; leases run out by themselves.
Fairness ==
    /\ \A s \in Sweeps : WF_vars(SweepStep(s))
    /\ \A s \in Sweeps, k \in Archives : WF_vars(SweepClaim(s, k))
    /\ \A k \in Archives : WF_vars(Lapse(k))

LiveSpec == Spec /\ Fairness

-----------------------------------------------------------------------------
(***************************************************************************)
(* Properties                                                              *)
(***************************************************************************)

Needed(r) ==
    \/ r \in pins \/ RunOn(r)
    \/ r \in FrameSets /\ (review[r] = "open" \/ truth[r] \in {"pending", "approved"})
    \/ r \in Models /\ r \in usable \cup released

(***************************************************************************)
(* Whatever order checks, uploads, transactions, cancellations and sweeps  *)
(* come in, a pinned resource, one under review or with undecided or       *)
(* approved ground truth, an input of a run under way or succeeded, and a  *)
(* model that is usable or released keep every payload object: eligible's  *)
(* second evaluation inside the transaction, and the triggers of           *)
(* migration 0015.                                                         *)
(***************************************************************************)
NeededPayloadKept == \A r \in Resources : Needed(r) => Payload[r] \subseteq bucket

(***************************************************************************)
(* However many sweeps repeat a deletion after a failure or a lost lease,  *)
(* the audit log holds one "artifact.payload_deleted" event per payload,   *)
(* and only for payloads that are gone (purgeArchives, lines 114-118).     *)
(***************************************************************************)
DeletedOnce ==
    \A a \in Artifacts : deletions[a] <= 1 /\ (deletions[a] = 1 => a \notin bucket)

(***************************************************************************)
(* An archive is "deleted" only when all its payloads are gone and         *)
(* accounted for, though a sweep removes at most Limit of them and may     *)
(* close the entry after it lost its lease (lines 108 and 122).            *)
(***************************************************************************)
ClosedMeansGone ==
    \A k \in Archives : archive[k].state = "deleted" =>
        \A a \in Payload[archive[k].resource] : a \notin bucket /\ deletions[a] = 1

(***************************************************************************)
(* A cancelled archive gives its frame set back whole, ready and free to   *)
(* be archived again, even when the cancellation races a sweep, another    *)
(* cancellation or another archive (lines 192-204).                        *)
(***************************************************************************)
CancelRestores ==
    \A k \in Archives :
        LET r == archive[k].resource
        IN  archive[k].state = "cancelled" /\ ~Archived(r) =>
                /\ Payload[r] \subseteq bucket
                /\ \A a \in Payload[r] : retirement[a] = None
                /\ r \in FrameSets => frame_set[r] = "ready"

(***************************************************************************)
(* An archive past its grace is deleted in the end, though a sweep may die *)
(* in the middle of it: its lease lapses and another sweep resumes.        *)
(***************************************************************************)
DueIsReclaimed ==
    \A k \in Archives :
        k \in due ~> archive[k].state \in {"deleted", "cancelled"}

(***************************************************************************)
(* "Cancel a nonterminal campaign and revoke all assignments"              *)
(* (docs/managed-review-campaigns.md:43) and "campaign is already          *)
(* terminal" (managed-campaigns.ts:162): a campaign a coordinator          *)
(* cancelled stays cancelled.                                              *)
(***************************************************************************)
CampaignCancelIsFinal == \A f \in withdrawn : review[f] = "cancelled"
=============================================================================
