--------------------------- MODULE RetentionProofs --------------------------
(***************************************************************************)
(* Proofs about Retention, for every set of resources, archives, sweeps    *)
(* and calls, every limit and every choice of Faults, Mortal and Slow.     *)
(***************************************************************************)
EXTENDS RetentionInvariants, TLAPS

USE DEF Resources

-----------------------------------------------------------------------------
(***************************************************************************)
(* Type correctness, one group of actions at a time                        *)
(***************************************************************************)

LEMMA ConsumingTypes ==
    ASSUME RetentionTypeOK, Consuming
    PROVE  RetentionTypeOK'
<1> USE DEF ledger, objects, calls
<1>1. ASSUME NEW r \in Resources, Age(r) \/ Pin(r) \/ Unpin(r)
      PROVE  RetentionTypeOK'
  BY <1>1 DEF RetentionTypeOK, Age, Pin, Unpin
<1>2. ASSUME NEW f \in FrameSets, Reviewing(f)
      PROVE  RetentionTypeOK'
  <2>1. CASE OpenReview(f) \/ Engage(f) \/ Disengage(f)
    BY <2>1 DEF RetentionTypeOK, OpenReview, Engage, Disengage, Review
  <2>2. CASE CompleteReview(f) \/ WithdrawReview(f)
    BY <2>2 DEF RetentionTypeOK, CompleteReview, WithdrawReview, Review, Truth
  <2>3. ASSUME NEW decision \in Truth, Decide(f, decision)
        PROVE  RetentionTypeOK'
    BY <2>3 DEF RetentionTypeOK, Decide
  <2> QED BY <1>2, <2>1, <2>2, <2>3 DEF Reviewing
<1>3. ASSUME NEW e \in Runs, Evaluating(e)
      PROVE  RetentionTypeOK'
  <2>1. ASSUME NEW f \in FrameSets, NEW m \in Models, CreateRun(e, f, m)
        PROVE  RetentionTypeOK'
    BY <2>1 DEF RetentionTypeOK, CreateRun, Run
  <2>2. ASSUME NEW status \in {"succeeded", "failed"}, FinishRun(e, status)
        PROVE  RetentionTypeOK'
    <3>1. run[e] \in Run
      BY DEF RetentionTypeOK
    <3>2. [run[e] EXCEPT !.status = status] \in Run
      BY <2>2, <3>1 DEF FinishRun, Run
    <3> QED BY <2>2, <3>2 DEF RetentionTypeOK, FinishRun
  <2>3. CASE RetryRun(e)
    <3>1. run[e] \in Run
      BY DEF RetentionTypeOK
    <3>2. [run[e] EXCEPT !.status = "queued"] \in Run
      BY <2>3, <3>1 DEF RetryRun, Run
    <3> QED BY <2>3, <3>2 DEF RetentionTypeOK, RetryRun
  <2> QED BY <1>3, <2>1, <2>2, <2>3 DEF Evaluating
<1>4. ASSUME NEW m \in Models, Governing(m)
      PROVE  RetentionTypeOK'
  BY <1>4 DEF RetentionTypeOK, Governing, Retire, Release, EndRelease
<1> QED BY <1>1, <1>2, <1>3, <1>4 DEF Consuming

\* Records of the four kinds that some step writes.
LEMMA CallMoves ==
    ASSUME NEW x \in Call,
           NEW p \in {"idle", "lineage", "store", "commit", "undo", "done"}
    PROVE  [x EXCEPT !.pc = p] \in Call
  BY DEF Call

LEMMA SweepMoves ==
    ASSUME NEW x \in Sweep,
           NEW p \in {"idle", "load", "check", "delete", "mark", "close",
                      "release", "dead"}
    PROVE  /\ [x EXCEPT !.pc = p] \in Sweep
           /\ IdleSweep \in Sweep /\ [IdleSweep EXCEPT !.pc = "dead"] \in Sweep
  BY DEF Sweep, IdleSweep

LEMMA ArchiveMoves ==
    ASSUME NEW x \in Archive,
           NEW p \in {"scheduled", "deleting", "deleted", "cancelled"},
           NEW h \in Sweeps \cup {None}
    PROVE  /\ [x EXCEPT !.state = p] \in Archive
           /\ [x EXCEPT !.holder = h] \in Archive
           /\ [state |-> p, resource |-> x.resource, review |-> x.review,
               holder |-> h] \in Archive
  BY DEF Archive

LEMMA ArchivingTypes ==
    ASSUME RetentionTypeOK, NEW k \in Archives, Archiving(k)
    PROVE  RetentionTypeOK'
<1> USE DEF consumers, ledger, objects
<1>0. call[k] \in Call
  BY DEF RetentionTypeOK
<1>1. ASSUME NEW r \in Resources, ArchiveCall(k, r)
      PROVE  RetentionTypeOK'
  <2>1. [pc |-> "lineage", resource |-> r, review |-> "none"] \in Call
    BY DEF Call, Review
  <2> QED BY <1>1, <2>1 DEF RetentionTypeOK, ArchiveCall
<1>2. CASE ArchiveLineage(k)
  <2> DEFINE r == call[k].resource
             new == [pc |-> IF Payload[r] \subseteq bucket THEN "store" ELSE "done",
                     resource |-> r,
                     review |-> IF r \in FrameSets THEN review[r] ELSE "none"]
  <2>1. r \in Resources \cup {None}
    BY <1>0 DEF Call
  <2>2. new.review \in Review
    BY DEF RetentionTypeOK, Review
  <2>3. new \in Call
    BY <2>1, <2>2 DEF Call
  <2> QED BY <1>2, <2>3 DEF RetentionTypeOK, ArchiveLineage
<1>3. CASE ArchiveStore(k) \/ ArchiveUndo(k)
  BY <1>0, <1>3, CallMoves DEF RetentionTypeOK, ArchiveStore, ArchiveUndo
<1>4. CASE ArchiveCommit(k)
  <2>1. call' \in [Archives -> Call]
    <3>1. PICK p \in {"done", "undo"} : call' = [call EXCEPT ![k].pc = p]
      BY <1>4 DEF ArchiveCommit
    <3> QED BY <1>0, <3>1, CallMoves DEF RetentionTypeOK
  <2>2. CASE ArchiveBatch(k)
    <3>1. [state |-> "scheduled", resource |-> call[k].resource,
           review |-> call[k].review, holder |-> None] \in Archive
      BY <1>0 DEF Call, Archive
    <3>2. archive' \in [Archives -> Archive]
      BY <2>2, <3>1 DEF ArchiveBatch, RetentionTypeOK
    <3>3. /\ retirement' \in [Artifacts -> Archives \cup {None}]
          /\ frame_set' \in [FrameSets -> {"ready", "archived"}]
          /\ review' \in [FrameSets -> Review]
          /\ fresh' \subseteq Resources
      BY <2>2 DEF ArchiveBatch, RetentionTypeOK, Review
    <3> QED BY <1>4, <2>1, <3>2, <3>3 DEF ArchiveCommit, RetentionTypeOK
  <2>3. CASE UNCHANGED <<archive, retirement, frame_set, review, fresh>>
    BY <1>4, <2>1, <2>3 DEF ArchiveCommit, RetentionTypeOK
  <2> QED BY <1>4, <2>2, <2>3 DEF ArchiveCommit
<1> QED BY <1>1, <1>2, <1>3, <1>4 DEF Archiving

LEMMA CancellingTypes ==
    ASSUME RetentionTypeOK, CallsKnow, NEW x \in Cancels, Cancelling(x)
    PROVE  RetentionTypeOK'
<1> USE DEF consumers, ledger, objects
<1>1. ASSUME NEW k \in Archives, CancelCall(x, k)
      PROVE  RetentionTypeOK'
  BY <1>1 DEF RetentionTypeOK, CancelCall, Cancel
<1>2. CASE CancelCommit(x)
  <2>1. PICK k \in Archives : k = cancel[x].archive
    BY <1>2 DEF CancelCommit, CallsKnow
  <2>2. cancel' \in [Cancels -> Cancel]
    BY <1>2 DEF CancelCommit, RetentionTypeOK, Cancel
  <2>3. CASE CancelBatch(k)
    <3>1. archive[k] \in Archive
      BY DEF RetentionTypeOK
    <3>2. archive[k].review \in Review
      BY <3>1 DEF Archive
    <3>3. archive' \in [Archives -> Archive]
      BY <2>3, <3>1, ArchiveMoves DEF CancelBatch, SnapshotStatus, RetentionTypeOK
    <3>4. /\ retirement' \in [Artifacts -> Archives \cup {None}]
          /\ frame_set' \in [FrameSets -> {"ready", "archived"}]
          /\ review' \in [FrameSets -> Review]
          /\ fresh' \subseteq Resources
      BY <2>3, <3>2 DEF CancelBatch, SnapshotStatus, RetentionTypeOK
    <3> QED BY <1>2, <2>2, <3>3, <3>4 DEF CancelCommit, RetentionTypeOK
  <2>4. CASE UNCHANGED <<archive, retirement, frame_set, review, fresh>>
    BY <1>2, <2>2, <2>4 DEF CancelCommit, RetentionTypeOK
  <2> QED BY <1>2, <2>1, <2>3, <2>4 DEF CancelCommit
<1> QED BY <1>1, <1>2 DEF Cancelling

LEMMA PurgingTypes ==
    ASSUME RetentionTypeOK, SweepsPurge, NEW s \in Sweeps, Purging(s)
    PROVE  RetentionTypeOK'
<1> USE DEF consumers, ledger, objects
<1>0. /\ sweep[s] \in Sweep
      /\ \A j \in Archives : archive[j] \in Archive
  BY DEF RetentionTypeOK
<1>1. ASSUME NEW k \in Archives, SweepClaim(s, k)
      PROVE  RetentionTypeOK'
  <2>1. [pc |-> "load", archive |-> k, todo |-> {}] \in Sweep
    BY DEF Sweep
  <2> QED BY <1>0, <1>1, <2>1, ArchiveMoves DEF SweepClaim, RetentionTypeOK
<1>2. CASE SweepLoad(s)
  <2>1. PICK k \in Archives : k = sweep[s].archive
    BY <1>2 DEF SweepsPurge, Busy, At, SweepLoad
  <2>2. Listed(k) \in SUBSET Artifacts
    BY DEF Listed, Undeleted
  <2>3. PICK p \in {"close", "check"} :
           \/ Goto(s, "release")
           \/ sweep' = [sweep EXCEPT ![s] =
                 [pc |-> p, archive |-> k, todo |-> Listed(k)]]
    BY <1>2, <2>1 DEF SweepLoad
  <2>4. [pc |-> p, archive |-> k, todo |-> Listed(k)] \in Sweep
    BY <2>2 DEF Sweep
  <2>5. sweep' \in [Sweeps -> Sweep]
    BY <1>0, <2>1, <2>2, <2>3, <2>4, SweepMoves DEF Goto, RetentionTypeOK
  <2> QED BY <1>2, <2>5 DEF SweepLoad, RetentionTypeOK
<1>3. CASE SweepCheck(s) \/ SweepFail(s)
  BY <1>0, <1>3, SweepMoves DEF SweepCheck, SweepFail, Goto, RetentionTypeOK
<1>4. CASE SweepDelete(s)
  BY <1>0, <1>4, SweepMoves DEF SweepDelete, Goto, RetentionTypeOK
<1>5. CASE SweepMark(s)
  <2>1. PICK k \in Archives : k = sweep[s].archive
    BY <1>5 DEF SweepsPurge, Busy, At, SweepMark
  <2>2. PICK a \in Artifacts, p \in {"close", "check"} :
           /\ Audit(a) /\ deleted_at' = deleted_at \cup {a}
           /\ \/ sweep' = [sweep EXCEPT ![s] =
                    [pc |-> p, archive |-> k, todo |-> sweep[s].todo \ {a}]]
              \/ Goto(s, "release")
    BY <1>5, <2>1 DEF SweepMark, MarkBatch
  <2>3. sweep' \in [Sweeps -> Sweep]
    <3>1. sweep[s].todo \ {a} \in SUBSET Artifacts
      BY <1>0 DEF Sweep
    <3>2. [pc |-> p, archive |-> k, todo |-> sweep[s].todo \ {a}] \in Sweep
      BY <3>1 DEF Sweep
    <3> QED BY <1>0, <2>1, <2>2, <3>2, SweepMoves DEF Goto, RetentionTypeOK
  <2>4. deletions' \in [Artifacts -> Nat]
    BY <2>2 DEF Audit, RetentionTypeOK
  <2> QED BY <1>5, <2>2, <2>3, <2>4 DEF SweepMark, RetentionTypeOK
<1>6. CASE SweepClose(s) \/ SweepRelease(s) \/ SweepDie(s)
  <2>1. At(s, "close") \/ At(s, "release") => sweep[s].archive \in Archives
    BY DEF SweepsPurge, Busy, At
  <2>2. CASE SweepClose(s)
    <3>1. PICK k \in Archives : k = sweep[s].archive
      BY <2>1, <2>2 DEF SweepClose
    <3> QED BY <1>0, <2>2, <3>1, SweepMoves, ArchiveMoves
            DEF SweepClose, Goto, RetentionTypeOK
  <2>3. CASE SweepRelease(s)
    <3>1. PICK k \in Archives : k = sweep[s].archive
      BY <2>1, <2>3 DEF SweepRelease
    <3> QED BY <1>0, <2>3, <3>1, SweepMoves, ArchiveMoves
            DEF SweepRelease, RetentionTypeOK
  <2>4. CASE SweepDie(s)
    BY <1>0, <2>4, SweepMoves DEF SweepDie, RetentionTypeOK
  <2> QED BY <1>6, <2>2, <2>3, <2>4
<1> QED BY <1>1, <1>2, <1>3, <1>4, <1>5, <1>6 DEF Purging, SweepStep

LEMMA TimeTypes ==
    ASSUME RetentionTypeOK, NEW k \in Archives, GraceEnds(k) \/ Lapse(k)
    PROVE  RetentionTypeOK'
  BY DEF RetentionTypeOK, GraceEnds, Lapse, consumers, objects, calls

-----------------------------------------------------------------------------
(***************************************************************************)
(* The initial states                                                      *)
(***************************************************************************)

LEMMA RetentionInit == Init => RetentionInv
<1> SUFFICES ASSUME Init PROVE RetentionInv
  OBVIOUS
<1> USE RetentionAssumption
<1>1. RetentionTypeOK
  BY DEF Init, RetentionTypeOK, Review, Truth, Run, Archive, Call, Cancel,
         Sweep, IdleSweep
<1>2. \A r : ~Archived(r)
  BY DEF Init, Archived
<1>3. Fenced
  BY <1>2 DEF Fenced
<1>4. CallsKnow /\ SweepsPurge
  BY DEF Init, CallsKnow, SweepsPurge, Busy, IdleSweep
<1>5. ArchivedAlone /\ RetirementsMatch /\ ClosedComplete
  BY DEF Init, ArchivedAlone, RetirementsMatch, ClosedComplete, Active
<1>6. GonePurged /\ ArchivedFrameSets
  BY DEF Init, GonePurged, ArchivedFrameSets, IdleSweep
<1> QED BY <1>1, <1>3, <1>4, <1>5, <1>6 DEF RetentionInv, LedgerInv

-----------------------------------------------------------------------------
(***************************************************************************)
(* The consumers: the ledger stays, the triggers keep the fence            *)
(***************************************************************************)

LEMMA SameLedger ==
    ASSUME LedgerInv, CallsKnow',
           UNCHANGED <<frame_set, archive, retirement, deleted_at, deletions,
                       bucket, sweep>>
    PROVE  LedgerInv'
<1>1. ArchivedAlone' /\ RetirementsMatch'
  BY DEF LedgerInv, ArchivedAlone, RetirementsMatch, Active
<1>2. SweepsPurge' /\ GonePurged'
  BY DEF LedgerInv, SweepsPurge, GonePurged, Busy, Purged, InHand
<1>3. ClosedComplete' /\ ArchivedFrameSets'
  BY DEF LedgerInv, ClosedComplete, ArchivedFrameSets, Undeleted, Archived
<1> QED BY <1>1, <1>2, <1>3 DEF LedgerInv

LEMMA SameFence ==
    ASSUME Fenced,
           UNCHANGED <<review, truth, run, usable, released, pins>>,
           \A r \in Resources : Archived(r)' => Archived(r)
    PROVE  Fenced'
  BY DEF Fenced, Needed, RunOn

\* A consumer that appears finds the resource free; the others only go.
LEMMA ConsumingFence ==
    ASSUME RetentionTypeOK, Fenced, Consuming
    PROVE  Fenced'
<1> USE RetentionAssumption
<1>1. SUFFICES ASSUME NEW r \in Resources, Archived(r)'
               PROVE  ~Needed(r)'
  BY DEF Fenced
<1>2. archive' = archive
  BY DEF Consuming, Age, Pin, Unpin, Reviewing, OpenReview, Engage, Disengage,
         CompleteReview, WithdrawReview, Decide, Evaluating, CreateRun,
         FinishRun, RetryRun, Governing, Retire, Release, EndRelease, ledger
<1>3. Archived(r) /\ ~Needed(r)
  BY <1>1, <1>2 DEF Archived, Fenced
<1>4. ASSUME NEW q \in Resources, Age(q) \/ Pin(q) \/ Unpin(q)
      PROVE  ~Needed(r)'
  BY <1>3, <1>4 DEF Age, Pin, Unpin, Needed, RunOn
<1>5. ASSUME NEW f \in FrameSets, Reviewing(f)
      PROVE  ~Needed(r)'
  <2>1. CASE OpenReview(f)
    BY <1>3, <2>1 DEF OpenReview, Needed, RunOn, RetentionTypeOK
  <2>2. CASE Engage(f) \/ Disengage(f)
    BY <1>3, <2>2 DEF Engage, Disengage, Needed, RunOn
  <2>3. CASE CompleteReview(f) \/ WithdrawReview(f)
    BY <1>3, <2>3 DEF CompleteReview, WithdrawReview, Needed, RunOn, RetentionTypeOK
  <2>4. ASSUME NEW decision \in Truth, Decide(f, decision)
        PROVE  ~Needed(r)'
    BY <1>3, <2>4 DEF Decide, Needed, RunOn, RetentionTypeOK
  <2> QED BY <1>5, <2>1, <2>2, <2>3, <2>4 DEF Reviewing
<1>6. ASSUME NEW e \in Runs, Evaluating(e)
      PROVE  ~Needed(r)'
  <2>1. ASSUME NEW f \in FrameSets, NEW m \in Models, CreateRun(e, f, m)
        PROVE  ~Needed(r)'
    <3>1. r # f /\ r # m
      BY <1>3, <2>1 DEF CreateRun
    <3>2. ~RunOn(r)'
      BY <1>3, <2>1, <3>1 DEF CreateRun, Needed, RunOn, RetentionTypeOK
    <3> QED BY <1>3, <2>1, <3>2 DEF CreateRun, Needed
  <2>2. ASSUME NEW status \in {"succeeded", "failed"}, FinishRun(e, status)
        PROVE  ~Needed(r)'
    <3>1. run[e] \in Run /\ run[e].status = "queued"
      BY <2>2 DEF FinishRun, RetentionTypeOK
    <3>2. ~RunOn(r)'
      BY <1>3, <2>2, <3>1 DEF FinishRun, Needed, RunOn, RetentionTypeOK, Run
    <3> QED BY <1>3, <2>2, <3>2 DEF FinishRun, Needed
  <2>3. CASE RetryRun(e)
    <3>1. r # run[e].frames /\ r # run[e].model
      BY <1>3, <2>3 DEF RetryRun
    <3>2. ~RunOn(r)'
      BY <1>3, <2>3, <3>1 DEF RetryRun, Needed, RunOn, RetentionTypeOK
    <3> QED BY <1>3, <2>3, <3>2 DEF RetryRun, Needed
  <2> QED BY <1>6, <2>1, <2>2, <2>3 DEF Evaluating
<1>7. ASSUME NEW m \in Models, Governing(m)
      PROVE  ~Needed(r)'
  BY <1>3, <1>7 DEF Governing, Retire, Release, EndRelease, Needed, RunOn
<1> QED BY <1>4, <1>5, <1>6, <1>7 DEF Consuming

LEMMA ConsumingStep ==
    ASSUME RetentionInv, Consuming
    PROVE  RetentionInv'
<1>1. UNCHANGED <<ledger, objects, calls>>
  BY DEF Consuming, Age, Pin, Unpin, Reviewing, OpenReview, Engage, Disengage,
         CompleteReview, WithdrawReview, Decide, Evaluating, CreateRun,
         FinishRun, RetryRun, Governing, Retire, Release, EndRelease
<1>2. CallsKnow'
  BY <1>1 DEF RetentionInv, LedgerInv, CallsKnow, ledger, calls
<1> QED BY <1>1, <1>2, ConsumingTypes, ConsumingFence, SameLedger
        DEF RetentionInv, ledger, objects, calls

-----------------------------------------------------------------------------
(***************************************************************************)
(* Archiving                                                               *)
(***************************************************************************)

\* What Eligible says inside the transaction.
LEMMA EligibleFree ==
    ASSUME NEW r \in Resources, Eligible(r)
    PROVE  /\ r \notin pins /\ ~RunOn(r)
           /\ r \in FrameSets => truth[r] \notin {"pending", "approved"}
           /\ r \in Models => r \notin usable \cup released
           /\ \A q \in Resources \ {r} : Payload[q] \cap Payload[r] = {}
<1> USE RetentionAssumption
<1>1. \A q \in Resources \ {r} : Payload[q] \cap Payload[r] = {}
  <2>1. CASE r \in Models
    BY <2>1
  <2>2. CASE r \in FrameSets
    BY <2>2 DEF Eligible, Shared
  <2> QED BY <2>1, <2>2
<1> QED BY <1>1 DEF Eligible

LEMMA CommitStep ==
    ASSUME RetentionInv, NEW k \in Archives, call[k].pc = "commit",
           Schedulable(k), ArchiveBatch(k), CallsKnow',
           UNCHANGED <<truth, run, usable, released, pins, deleted_at,
                       deletions, bucket, sweep>>
    PROVE  Fenced' /\ LedgerInv'
<1> USE RetentionAssumption DEF RetentionInv, LedgerInv
<1>1. PICK r \in Resources : r = call[k].resource
  BY DEF CallsKnow
<1>2. ~Archived(r) /\ Eligible(r)
  BY <1>1 DEF Schedulable
<1>3. /\ r \notin pins /\ ~RunOn(r)
      /\ r \in FrameSets => truth[r] \notin {"pending", "approved"}
      /\ r \in Models => r \notin usable \cup released
      /\ \A q \in Resources \ {r} : Payload[q] \cap Payload[r] = {}
  BY <1>2, EligibleFree
<1>4. archive[k].state = "none"
  BY DEF CallsKnow
<1>5. /\ archive'[k].state = "scheduled" /\ archive'[k].resource = r
      /\ \A j \in Archives \ {k} : archive'[j] = archive[j]
  BY <1>1 DEF ArchiveBatch, RetentionTypeOK
<1>6. /\ \A a \in Payload[r] : retirement[a] = None /\ retirement'[a] = k
      /\ \A a \in Artifacts \ Payload[r] : retirement'[a] = retirement[a]
  BY <1>1 DEF ArchiveBatch
<1>7. \A j \in Archives \ {k} : (Active(j)' <=> Active(j)) /\ (Purged(j)' <=> Purged(j))
  BY <1>5 DEF Active, Purged
<1>8. /\ ~Active(k) /\ ~Purged(k) /\ Active(k)' /\ ~Purged(k)'
  BY <1>4, <1>5 DEF Active, Purged
<1>9. \A q \in Resources : Archived(q)' <=> (Archived(q) \/ q = r)
  BY <1>4, <1>5 DEF Archived
<1>10. Fenced'
  <2>1. SUFFICES ASSUME NEW q \in Resources, Archived(q)'
                 PROVE  ~Needed(q)'
    BY DEF Fenced
  <2>2. CASE q = r
    <3>1. r \in FrameSets => review'[r] # "open"
      BY <1>1 DEF ArchiveBatch
    <3> QED BY <1>3, <2>2, <3>1 DEF Needed, RunOn
  <2>3. CASE q # r
    <3>1. ~Needed(q)
      BY <1>9, <2>1, <2>3 DEF Fenced
    <3>2. q \in FrameSets => review'[q] = review[q]
      BY <1>1, <2>3 DEF ArchiveBatch
    <3> QED BY <3>1, <3>2 DEF Needed, RunOn
  <2> QED BY <2>2, <2>3
<1>11. ArchivedAlone'
  BY <1>3, <1>5, <1>7 DEF ArchivedAlone
<1>12. RetirementsMatch'
  <2>1. \A j \in Archives : Active(j)' =>
           \A a \in Payload[archive'[j].resource] : retirement'[a] = j
    <3>1. SUFFICES ASSUME NEW j \in Archives \ {k}, Active(j),
                          NEW a \in Payload[archive[j].resource]
                   PROVE  retirement'[a] = j
      BY <1>5, <1>6, <1>7
    <3>2. retirement[a] = j /\ archive[j].resource \in Resources
      BY <3>1 DEF RetirementsMatch, CallsKnow, Active
    <3>3. a \in Artifacts /\ a \notin Payload[r]
      BY <1>6, <3>1, <3>2
    <3> QED BY <1>6, <3>2, <3>3
  <2>2. ASSUME NEW a \in Artifacts, retirement'[a] # None
        PROVE  \E j \in Archives : /\ retirement'[a] = j /\ Active(j)'
                                   /\ a \in Payload[archive'[j].resource]
    <3>1. CASE a \in Payload[r]
      BY <1>5, <1>6, <1>8, <3>1
    <3>2. CASE a \notin Payload[r]
      <4>1. retirement'[a] = retirement[a]
        BY <1>6, <3>2
      <4>2. PICK j \in Archives : j = retirement[a]
        BY <2>2, <4>1 DEF RetentionTypeOK
      <4>3. Active(j) /\ a \in Payload[archive[j].resource]
        BY <2>2, <4>1, <4>2 DEF RetirementsMatch
      <4>4. j # k
        BY <1>8, <4>3
      <4> QED BY <1>5, <1>7, <4>1, <4>2, <4>3, <4>4
    <3> QED BY <3>1, <3>2
  <2> QED BY <2>1, <2>2 DEF RetirementsMatch, Active
<1>13. SweepsPurge'
  BY <1>5, <1>7, <1>8 DEF SweepsPurge, Busy
<1>14. GonePurged'
  BY <1>5, <1>7, <1>8 DEF GonePurged, InHand
<1>15. ClosedComplete'
  <2>1. ASSUME NEW j \in Archives \ {k}
        PROVE  Undeleted(j)' \subseteq Undeleted(j)
    BY <1>6 DEF Undeleted
  <2> QED BY <1>5, <2>1 DEF ClosedComplete
<1>16. ArchivedFrameSets'
  BY <1>1, <1>9 DEF ArchivedFrameSets, ArchiveBatch
<1> QED BY <1>10, <1>11, <1>12, <1>13, <1>14, <1>15, <1>16

LEMMA ArchivingStep ==
    ASSUME RetentionInv, NEW k \in Archives, Archiving(k)
    PROVE  RetentionInv'
<1> USE DEF consumers, ledger, objects
<1>1. RetentionTypeOK'
  BY ArchivingTypes DEF RetentionInv
<1>2. CASE ~ArchiveCommit(k)
  <2>1. /\ UNCHANGED <<consumers, ledger, bucket, cancel, sweep>>
        /\ \A j \in Archives \ {k} : call'[j] = call[j]
    BY <1>2 DEF Archiving, ArchiveCall, ArchiveLineage, ArchiveStore,
                ArchiveUndo, RetentionInv, RetentionTypeOK
  <2>2. /\ call[k].pc \notin {"done", "undo"} \/ call'[k].pc \in {"done", "undo"}
        /\ call'[k].pc \in {"lineage", "store", "commit"} =>
              call'[k].resource \in Resources
    <3>1. call[k] \in Call
      BY DEF RetentionInv, RetentionTypeOK
    <3> QED BY <1>2, <3>1 DEF Archiving, ArchiveCall, ArchiveLineage,
               ArchiveStore, ArchiveUndo, RetentionInv, RetentionTypeOK,
               LedgerInv, CallsKnow, Call
  <2>3. CallsKnow'
    BY <2>1, <2>2 DEF RetentionInv, LedgerInv, CallsKnow
  <2>4. Fenced'
    BY <2>1, SameFence DEF RetentionInv, Archived
  <2> QED BY <1>1, <2>1, <2>3, <2>4, SameLedger DEF RetentionInv
<1>3. CASE ArchiveCommit(k)
  <2>1. /\ call[k].pc = "commit"
        /\ UNCHANGED <<truth, run, usable, released, pins, deleted_at,
                       deletions, bucket, cancel, sweep>>
    BY <1>3 DEF ArchiveCommit
  <2>2. /\ call'[k].pc \in {"done", "undo"}
        /\ \A j \in Archives \ {k} : call'[j] = call[j]
    <3>1. PICK p \in {"done", "undo"} : call' = [call EXCEPT ![k].pc = p]
      BY <1>3 DEF ArchiveCommit
    <3>2. call[k] \in Call
      BY DEF RetentionInv, RetentionTypeOK
    <3> QED BY <3>1, <3>2 DEF RetentionInv, RetentionTypeOK, Call
  <2>3. CASE Schedulable(k) /\ ArchiveBatch(k)
    <3>1. call[k].resource \in Resources
      BY <2>1 DEF RetentionInv, LedgerInv, CallsKnow
    <3>2. /\ archive'[k].state # "none" /\ archive'[k].resource \in Resources
          /\ \A j \in Archives \ {k} : archive'[j] = archive[j]
      BY <2>3, <3>1 DEF ArchiveBatch, RetentionInv, RetentionTypeOK
    <3>3. CallsKnow'
      BY <2>1, <2>2, <3>2 DEF RetentionInv, LedgerInv, CallsKnow
    <3> QED BY <1>1, <2>1, <2>3, <3>3, CommitStep DEF RetentionInv
  <2>4. CASE UNCHANGED <<archive, retirement, frame_set, review, fresh>>
    <3>1. CallsKnow'
      BY <2>1, <2>2, <2>4 DEF RetentionInv, LedgerInv, CallsKnow
    <3>2. Fenced'
      BY <2>1, <2>4, SameFence DEF RetentionInv, Archived
    <3> QED BY <1>1, <2>1, <2>4, <3>1, <3>2, SameLedger DEF RetentionInv
  <2> QED BY <1>3, <2>3, <2>4 DEF ArchiveCommit
<1> QED BY <1>2, <1>3

-----------------------------------------------------------------------------
(***************************************************************************)
(* Cancelling                                                              *)
(***************************************************************************)

LEMMA RestoreStep ==
    ASSUME RetentionInv, NEW k \in Archives, archive[k].state # "none",
           Cancellable(k), Reactivates(k), CancelBatch(k), CallsKnow',
           UNCHANGED <<truth, run, usable, released, pins, deleted_at,
                       deletions, bucket, sweep>>
    PROVE  Fenced' /\ LedgerInv'
<1> USE RetentionAssumption DEF RetentionInv, LedgerInv
<1>1. PICK r \in Resources : r = archive[k].resource
  BY DEF CallsKnow
<1>2. /\ archive'[k].state = "cancelled" /\ archive'[k].resource = r
      /\ \A j \in Archives \ {k} : archive'[j] = archive[j]
  <2>1. archive[k] \in Archive
    BY DEF RetentionTypeOK
  <2> QED BY <1>1, <2>1 DEF CancelBatch, SnapshotStatus, RetentionTypeOK, Archive
<1>3. ~Purged(k) /\ ~Active(k)' /\ ~Purged(k)'
  BY <1>2 DEF Cancellable, Purged, Active
<1>4. \A j \in Archives \ {k} : (Active(j)' <=> Active(j)) /\ (Purged(j)' <=> Purged(j))
  BY <1>2 DEF Active, Purged
<1>5. r \in FrameSets => \A j \in Archives : archive'[j].resource = r => ~Active(j)'
  BY <1>1, <1>2, <1>3 DEF Reactivates, Active
<1>6. \A q \in Resources : Archived(q)' => Archived(q)
  BY <1>2 DEF Archived
<1>7. r \in FrameSets => ~Archived(r)'
  BY <1>5 DEF Archived, Active
<1>8. Fenced'
  <2>1. SUFFICES ASSUME NEW q \in Resources, Archived(q)'
                 PROVE  ~Needed(q)'
    BY DEF Fenced
  <2>2. ~Needed(q)
    BY <1>6, <2>1 DEF Fenced
  <2>3. q \in FrameSets => review'[q] = review[q]
    BY <1>1, <1>7, <2>1 DEF CancelBatch, SnapshotStatus, RetentionTypeOK
  <2> QED BY <2>2, <2>3 DEF Needed, RunOn
<1>9. ArchivedAlone'
  BY <1>2, <1>3, <1>4 DEF ArchivedAlone
<1>10. RetirementsMatch'
  <2>1. \A a \in Artifacts :
           retirement'[a] = IF retirement[a] = k THEN None ELSE retirement[a]
    BY DEF CancelBatch, SnapshotStatus
  <2>2. ASSUME NEW j \in Archives, Active(j)', NEW a \in Payload[archive'[j].resource]
        PROVE  retirement'[a] = j
    <3>1. j # k /\ Active(j) /\ a \in Payload[archive[j].resource]
      BY <1>2, <1>3, <1>4, <2>2
    <3>2. retirement[a] = j /\ archive[j].resource \in Resources
      BY <3>1 DEF RetirementsMatch, CallsKnow, Active
    <3> QED BY <2>1, <3>1, <3>2
  <2>3. ASSUME NEW a \in Artifacts, retirement'[a] # None
        PROVE  \E j \in Archives : /\ retirement'[a] = j /\ Active(j)'
                                   /\ a \in Payload[archive'[j].resource]
    <3>1. PICK j \in Archives \ {k} : retirement[a] = j /\ retirement'[a] = j
      BY <2>1, <2>3 DEF RetentionTypeOK
    <3>2. Active(j) /\ a \in Payload[archive[j].resource]
      BY <2>3, <3>1 DEF RetirementsMatch, RetentionTypeOK
    <3> QED BY <1>2, <1>4, <3>1, <3>2
  <2> QED BY <2>2, <2>3 DEF RetirementsMatch, Active
<1>11. SweepsPurge'
  BY <1>2, <1>3, <1>4 DEF SweepsPurge, Busy
<1>12. GonePurged'
  BY <1>2, <1>3, <1>4 DEF GonePurged, InHand
<1>13. ClosedComplete'
  <2>1. ASSUME NEW j \in Archives \ {k}
        PROVE  Undeleted(j)' \subseteq Undeleted(j)
    BY DEF Undeleted, CancelBatch
  <2> QED BY <1>2, <2>1 DEF ClosedComplete
<1>14. ArchivedFrameSets'
  <2>1. ASSUME NEW f \in FrameSets, frame_set'[f] = "archived"
        PROVE  Archived(f)'
    <3>1. f # r /\ frame_set[f] = "archived"
      BY <1>1, <2>1 DEF CancelBatch, SnapshotStatus
    <3>2. PICK j \in Archives : archive[j].resource = f /\ Active(j)
      BY <3>1 DEF ArchivedFrameSets, Archived, Active
    <3> QED BY <1>1, <1>2, <3>1, <3>2 DEF Archived, Active
  <2> QED BY <2>1 DEF ArchivedFrameSets
<1> QED BY <1>8, <1>9, <1>10, <1>11, <1>12, <1>13, <1>14

LEMMA CancellingStep ==
    ASSUME RetentionInv, NEW x \in Cancels, Cancelling(x)
    PROVE  RetentionInv'
<1> USE DEF consumers, ledger, objects
<1>1. RetentionTypeOK'
  BY CancellingTypes DEF RetentionInv, LedgerInv
<1>2. ASSUME NEW k \in Archives, CancelCall(x, k)
      PROVE  RetentionInv'
  <2>1. CallsKnow'
    BY <1>2 DEF CancelCall, RetentionInv, RetentionTypeOK, LedgerInv, CallsKnow
  <2>2. Fenced'
    BY <1>2, SameFence DEF CancelCall, RetentionInv, Archived
  <2> QED BY <1>1, <1>2, <2>1, <2>2, SameLedger DEF CancelCall, RetentionInv
<1>3. CASE CancelCommit(x)
  <2>1. PICK k \in Archives : k = cancel[x].archive /\ archive[k].state # "none"
    BY <1>3 DEF CancelCommit, RetentionInv, LedgerInv, CallsKnow
  <2>2. /\ UNCHANGED <<truth, run, usable, released, pins, deleted_at,
                       deletions, bucket, call, sweep>>
        /\ cancel'[x].pc = "idle"
        /\ \A y \in Cancels \ {x} : cancel'[y] = cancel[y]
    BY <1>3 DEF CancelCommit, RetentionInv, RetentionTypeOK
  <2>3. CASE Cancellable(k) /\ Reactivates(k) /\ CancelBatch(k)
    <3>1. archive[k] \in Archive
      BY DEF RetentionInv, RetentionTypeOK
    <3>2. /\ archive'[k].state = "cancelled"
          /\ archive'[k].resource = archive[k].resource
          /\ \A j \in Archives \ {k} : archive'[j] = archive[j]
      BY <2>3, <3>1 DEF CancelBatch, SnapshotStatus, RetentionInv, RetentionTypeOK, Archive
    <3>3. CallsKnow'
      BY <2>1, <2>2, <3>2 DEF RetentionInv, LedgerInv, CallsKnow
    <3> QED BY <1>1, <2>1, <2>2, <2>3, <3>3, RestoreStep DEF RetentionInv
  <2>4. CASE UNCHANGED <<archive, retirement, frame_set, review, fresh>>
    <3>1. CallsKnow'
      BY <2>2, <2>4 DEF RetentionInv, LedgerInv, CallsKnow
    <3>2. Fenced'
      BY <2>2, <2>4, SameFence DEF RetentionInv, Archived
    <3> QED BY <1>1, <2>2, <2>4, <3>1, <3>2, SameLedger DEF RetentionInv
  <2> QED BY <1>3, <2>1, <2>3, <2>4 DEF CancelCommit
<1> QED BY <1>2, <1>3 DEF Cancelling

-----------------------------------------------------------------------------
(***************************************************************************)
(* Purging                                                                 *)
(***************************************************************************)

\* What a sweep may do to archive j.
Advances(j) ==
    /\ archive'[j].resource = archive[j].resource
    /\ archive'[j].state = "none" <=> archive[j].state = "none"
    /\ Active(j)' <=> Active(j)
    /\ Purged(j) => Purged(j)'
    /\ archive'[j].state = "deleted" => Undeleted(j) = {}

LEMMA AdvanceStep ==
    ASSUME RetentionInv, \A j \in Archives : Advances(j),
           UNCHANGED <<consumers, frame_set, retirement, call, cancel>>,
           deleted_at \subseteq deleted_at'
    PROVE  /\ Fenced' /\ CallsKnow' /\ ArchivedAlone' /\ RetirementsMatch'
           /\ ClosedComplete' /\ ArchivedFrameSets'
<1> USE RetentionAssumption DEF LedgerInv, RetentionInv
<1>1. \A r \in Resources : Archived(r)' <=> Archived(r)
  BY DEF Archived, Advances, Active
<1>2. Fenced'
  BY <1>1, SameFence DEF consumers
<1>3. CallsKnow'
  BY DEF CallsKnow, Advances
<1>4. ArchivedAlone' /\ RetirementsMatch'
  <2>1. ArchivedAlone'
    BY DEF ArchivedAlone, Advances
  <2>2. \A k \in Archives : Active(k)' =>
           \A a \in Payload[archive'[k].resource] : retirement'[a] = k
    BY DEF RetirementsMatch, Advances
  <2>3. ASSUME NEW a \in Artifacts, retirement[a] # None
        PROVE  Active(retirement[a])' /\ a \in Payload[archive'[retirement[a]].resource]
    <3>1. Active(retirement[a]) /\ a \in Payload[archive[retirement[a]].resource]
      BY <2>3 DEF RetirementsMatch
    <3>2. Advances(retirement[a])
      BY <2>3 DEF RetentionTypeOK
    <3> QED BY <2>3, <3>1, <3>2 DEF Advances, Active
  <2> QED BY <2>1, <2>2, <2>3 DEF RetirementsMatch
<1>5. ClosedComplete'
  BY DEF ClosedComplete, Advances, Undeleted
<1>6. ArchivedFrameSets'
  BY <1>1 DEF ArchivedFrameSets
<1> QED BY <1>2, <1>3, <1>4, <1>5, <1>6

LEMMA PurgingStep ==
    ASSUME RetentionInv, NEW s \in Sweeps, Purging(s)
    PROVE  RetentionInv'
<1> USE RetentionAssumption DEF consumers, ledger, objects
<1>0. RetentionTypeOK' /\ RetentionTypeOK
  BY PurgingTypes DEF RetentionInv, LedgerInv
<1>1. /\ sweep[s] \in Sweep
      /\ \A j \in Archives : archive[j] \in Archive
  BY <1>0 DEF RetentionTypeOK
<1>2. ASSUME NEW k \in Archives, SweepClaim(s, k)
      PROVE  RetentionInv'
  <2>1. /\ archive'[k].state = "deleting"
        /\ archive'[k].resource = archive[k].resource
        /\ \A j \in Archives \ {k} : archive'[j] = archive[j]
        /\ archive[k].state \in {"scheduled", "deleting"}
    BY <1>0, <1>1, <1>2 DEF SweepClaim, Claimable, RetentionTypeOK, Archive
  <2>2. \A j \in Archives : Advances(j)
    BY <2>1 DEF Advances, Active, Purged, RetentionInv, LedgerInv, ClosedComplete
  <2>3. /\ sweep'[s].pc = "load" /\ sweep'[s].archive = k /\ sweep'[s].todo = {}
        /\ \A t \in Sweeps \ {s} : sweep'[t] = sweep[t]
    BY <1>0, <1>2 DEF SweepClaim, RetentionTypeOK
  <2>4. SweepsPurge'
    BY <2>1, <2>2, <2>3 DEF SweepsPurge, Busy, Purged, Advances, RetentionInv, LedgerInv
  <2>5. GonePurged'
    BY <1>2, <2>1, <2>2, <2>3 DEF GonePurged, InHand, Advances, SweepClaim,
                                  RetentionInv, LedgerInv
  <2> QED BY <1>0, <1>2, <2>2, <2>4, <2>5, AdvanceStep
          DEF SweepClaim, RetentionInv, LedgerInv
\* Steps that only move the sweep.
<1>3. ASSUME UNCHANGED <<consumers, ledger, bucket, call, cancel>>,
             NEW p \in {"check", "close", "delete", "release", "dead"},
             sweep'[s].pc = p,
             \A t \in Sweeps \ {s} : sweep'[t] = sweep[t],
             p # "dead" => /\ Busy(s) /\ sweep'[s].archive = sweep[s].archive
                           /\ sweep'[s].todo \subseteq
                                 Payload[archive[sweep[s].archive].resource]
      PROVE  RetentionInv'
  <2>1. SweepsPurge'
    BY <1>3 DEF SweepsPurge, Busy, Purged, RetentionInv, LedgerInv
  <2>2. GonePurged'
    BY <1>3 DEF GonePurged, InHand, Purged, RetentionInv, LedgerInv
  <2>3. \A j \in Archives : Advances(j)
    BY <1>3 DEF Advances, Active, Purged, ClosedComplete, RetentionInv, LedgerInv
  <2> QED BY <1>0, <1>3, <2>1, <2>2, <2>3, AdvanceStep DEF RetentionInv, LedgerInv
<1>4. CASE SweepLoad(s)
  <2>1. PICK k \in Archives : k = sweep[s].archive /\ Busy(s)
    BY <1>4 DEF SweepLoad, At, SweepsPurge, Busy, RetentionInv, LedgerInv
  <2>2. CASE Goto(s, "release")
    <3>1. /\ sweep'[s].pc = "release" /\ sweep'[s].archive = sweep[s].archive
          /\ sweep'[s].todo = sweep[s].todo
          /\ \A t \in Sweeps \ {s} : sweep'[t] = sweep[t]
      BY <1>0, <1>1, <2>2 DEF Goto, RetentionTypeOK, Sweep
    <3> QED BY <1>3, <1>4, <2>1, <3>1 DEF SweepLoad, SweepsPurge, RetentionInv, LedgerInv
  <2>3. ASSUME NEW p \in {"close", "check"},
               sweep' = [sweep EXCEPT ![s] = [pc |-> p, archive |-> k, todo |-> Listed(k)]]
        PROVE  RetentionInv'
    <3>1. Listed(k) \subseteq Payload[archive[k].resource]
      <4>1. Listed(k) \subseteq {a \in Artifacts : retirement[a] = k}
        BY DEF Listed, Undeleted
      <4>2. \A a \in Artifacts : retirement[a] = k =>
               a \in Payload[archive[k].resource]
        <5>1. RetirementsMatch
          BY DEF RetentionInv, LedgerInv
        <5>2. k # None
          BY RetentionAssumption
        <5> QED BY ONLY <5>1, <5>2 DEF RetirementsMatch
      <4> QED BY <4>1, <4>2
    <3>2. /\ sweep'[s].pc = p /\ sweep'[s].archive = k /\ sweep'[s].todo = Listed(k)
          /\ \A t \in Sweeps \ {s} : sweep'[t] = sweep[t]
      BY <1>0, <2>3 DEF RetentionTypeOK
    <3> QED BY <1>3, <1>4, <2>1, <3>1, <3>2 DEF SweepLoad
  <2> QED BY <1>4, <2>1, <2>2, <2>3 DEF SweepLoad
<1>5. CASE SweepCheck(s) \/ SweepFail(s)
  <2>1. Busy(s) /\ UNCHANGED <<consumers, ledger, bucket, call, cancel>>
    BY <1>5 DEF SweepCheck, SweepFail, At, Busy
  <2>2. PICK p \in {"delete", "release"} : Goto(s, p)
    BY <1>5 DEF SweepCheck, SweepFail
  <2>3. /\ sweep'[s].pc = p /\ sweep'[s].archive = sweep[s].archive
        /\ sweep'[s].todo = sweep[s].todo
        /\ \A t \in Sweeps \ {s} : sweep'[t] = sweep[t]
    BY <1>0, <1>1, <2>2 DEF Goto, RetentionTypeOK, Sweep
  <2> QED BY <1>3, <2>1, <2>3 DEF SweepsPurge, RetentionInv, LedgerInv
<1>6. CASE SweepDie(s)
  <2>1. /\ sweep'[s].pc = "dead"
        /\ \A t \in Sweeps \ {s} : sweep'[t] = sweep[t]
    BY <1>0, <1>6 DEF SweepDie, IdleSweep, RetentionTypeOK
  <2> QED BY <1>3, <1>6, <2>1 DEF SweepDie
<1>7. CASE SweepDelete(s)
  <2>1. PICK a \in Artifacts : InHand(s, a) /\ bucket' = bucket \ {a}
    BY <1>7 DEF SweepDelete
  <2>2. PICK k \in Archives : /\ k = sweep[s].archive /\ Busy(s) /\ Purged(k)
                              /\ sweep[s].todo \subseteq Payload[archive[k].resource]
    BY <1>7 DEF SweepDelete, At, SweepsPurge, Busy, RetentionInv, LedgerInv
  <2>3. /\ sweep'[s].pc = "mark" /\ sweep'[s].archive = k
        /\ sweep'[s].todo = sweep[s].todo
        /\ \A t \in Sweeps \ {s} : sweep'[t] = sweep[t]
    BY <1>0, <1>1, <1>7, <2>2 DEF SweepDelete, Goto, RetentionTypeOK, Sweep
  <2>4. UNCHANGED <<consumers, ledger, call, cancel>>
    BY <1>7 DEF SweepDelete
  <2>5. SweepsPurge'
    BY <2>2, <2>3, <2>4 DEF SweepsPurge, Busy, Purged, RetentionInv, LedgerInv
  <2>6. ASSUME NEW b \in Artifacts, InHand(s, b)
        PROVE  b = a
    <3>1. a \in Nat /\ b \in Nat
      OBVIOUS
    <3>2. a <= b /\ b <= a
      BY <2>1, <2>6 DEF InHand
    <3> QED BY <3>1, <3>2
  <2>7. GonePurged'
    <3>1. \A b \in Artifacts \ bucket' :
             \E j \in Archives : Purged(j)' /\ b \in Payload[archive'[j].resource]
      <4>1. a \in Payload[archive[k].resource]
        BY <2>1, <2>2 DEF InHand
      <4> QED BY <2>1, <2>2, <2>4, <4>1 DEF GonePurged, Purged, RetentionInv, LedgerInv
    <3>2. \A t \in Sweeps : sweep'[t].pc = "mark" =>
             \A b \in Artifacts : InHand(t, b)' => b \notin bucket'
      BY <2>1, <2>3, <2>6 DEF GonePurged, InHand, RetentionInv, LedgerInv
    <3>3. /\ deleted_at' \cap bucket' = {}
          /\ \A b \in Artifacts : deletions'[b] = IF b \in deleted_at' THEN 1 ELSE 0
      BY <2>1, <2>4 DEF GonePurged, RetentionInv, LedgerInv
    <3> QED BY <3>1, <3>2, <3>3 DEF GonePurged
  <2>8. \A j \in Archives : Advances(j)
    BY <2>4 DEF Advances, Active, Purged, ClosedComplete, RetentionInv, LedgerInv
  <2> QED BY <1>0, <2>4, <2>5, <2>7, <2>8, AdvanceStep DEF RetentionInv, LedgerInv
<1>8. CASE SweepMark(s)
  <2>1. PICK a \in Artifacts : /\ InHand(s, a) /\ Audit(a)
                               /\ deleted_at' = deleted_at \cup {a}
                               /\ sweep'[s].pc \in {"close", "check", "release"}
                               /\ sweep'[s].archive = sweep[s].archive
                               /\ sweep'[s].todo \subseteq sweep[s].todo
    BY <1>0, <1>1, <1>8 DEF SweepMark, MarkBatch, Goto, RetentionTypeOK, Sweep
  <2>2. /\ UNCHANGED <<consumers, frame_set, archive, retirement, bucket, call, cancel>>
        /\ \A t \in Sweeps \ {s} : sweep'[t] = sweep[t]
        /\ sweep[s].pc = "mark" /\ Busy(s)
    BY <1>0, <1>8 DEF SweepMark, MarkBatch, Goto, RetentionTypeOK, At, Busy
  <2>3. SweepsPurge'
    BY <2>1, <2>2 DEF SweepsPurge, Busy, Purged, RetentionInv, LedgerInv
  <2>4. a \notin bucket
    BY <2>1, <2>2 DEF GonePurged, RetentionInv, LedgerInv
  <2>5. GonePurged'
    <3>1. \A b \in Artifacts : deletions'[b] = IF b \in deleted_at' THEN 1 ELSE 0
      BY <1>0, <2>1 DEF GonePurged, Audit, RetentionTypeOK, RetentionInv, LedgerInv
    <3> QED BY <2>1, <2>2, <2>4, <3>1 DEF GonePurged, Purged, InHand, RetentionInv, LedgerInv
  <2>6. \A j \in Archives : Advances(j)
    BY <2>2 DEF Advances, Active, Purged, ClosedComplete, RetentionInv, LedgerInv
  <2> QED BY <1>0, <2>1, <2>2, <2>3, <2>5, <2>6, AdvanceStep DEF RetentionInv, LedgerInv
<1>9. CASE SweepClose(s) \/ SweepRelease(s)
  <2>1. PICK k \in Archives : k = sweep[s].archive /\ Purged(k) /\ Busy(s)
    BY <1>9 DEF SweepClose, SweepRelease, At, SweepsPurge, Busy, RetentionInv, LedgerInv
  <2>2. /\ UNCHANGED <<consumers, frame_set, retirement, deleted_at, deletions,
                       bucket, call, cancel>>
        /\ \A t \in Sweeps \ {s} : sweep'[t] = sweep[t]
        /\ sweep'[s].pc \in {"release", "idle"}
        /\ Busy(s)' => /\ sweep'[s].archive = k
                       /\ sweep'[s].todo = sweep[s].todo
    BY <1>0, <1>1, <1>9, <2>1
    DEF SweepClose, SweepRelease, Goto, IdleSweep, Busy, RetentionTypeOK, Sweep
  <2>3. \A j \in Archives : /\ archive'[j].resource = archive[j].resource
                            /\ \/ archive'[j].state = archive[j].state
                               \/ /\ j = k /\ archive'[j].state = "deleted"
                                  /\ Undeleted(k) = {}
    BY <1>0, <1>1, <1>9, <2>1
    DEF SweepClose, SweepRelease, Closable, RetentionTypeOK, Archive
  <2>4. \A j \in Archives : Advances(j)
    BY <2>1, <2>3 DEF Advances, Active, Purged, ClosedComplete, RetentionInv, LedgerInv
  <2>5. SweepsPurge'
    BY <2>1, <2>2, <2>3, <2>4 DEF SweepsPurge, Advances, Busy, RetentionInv, LedgerInv
  <2>6. GonePurged'
    BY <2>2, <2>4 DEF GonePurged, Advances, InHand, RetentionInv, LedgerInv
  <2> QED BY <1>0, <2>2, <2>4, <2>5, <2>6, AdvanceStep DEF RetentionInv, LedgerInv
<1> QED BY <1>2, <1>4, <1>5, <1>6, <1>7, <1>8, <1>9 DEF Purging, SweepStep

-----------------------------------------------------------------------------
(***************************************************************************)
(* The theorems                                                            *)
(***************************************************************************)

LEMMA RetentionStep == RetentionInv /\ [Next]_vars => RetentionInv'
<1> SUFFICES ASSUME RetentionInv, [Next]_vars PROVE RetentionInv'
  OBVIOUS
<1>1. ASSUME NEW k \in Archives, GraceEnds(k) \/ Lapse(k)
      PROVE  RetentionInv'
  <2>1. UNCHANGED <<consumers, frame_set, archive, retirement, deleted_at,
                    deletions, objects, calls>>
    BY <1>1 DEF GraceEnds, Lapse
  <2>2. CallsKnow'
    BY <2>1 DEF RetentionInv, LedgerInv, CallsKnow, calls
  <2>3. Fenced'
    BY <2>1, SameFence DEF RetentionInv, Archived, consumers
  <2> QED BY <1>1, <2>1, <2>2, <2>3, TimeTypes, SameLedger
          DEF RetentionInv, objects, calls
<1>2. CASE UNCHANGED vars
  <2>1. RetentionTypeOK'
    BY <1>2 DEF RetentionInv, RetentionTypeOK, vars, consumers, ledger, objects, calls
  <2>2. CallsKnow'
    BY <1>2 DEF RetentionInv, LedgerInv, CallsKnow, vars, ledger, calls
  <2>3. Fenced'
    BY <1>2, SameFence DEF RetentionInv, Archived, vars, consumers, ledger
  <2> QED BY <1>2, <2>1, <2>2, <2>3, SameLedger
          DEF RetentionInv, vars, ledger, objects, calls
<1> QED BY <1>1, <1>2, ArchivingStep, CancellingStep, PurgingStep, ConsumingStep
        DEF Next

\* What is proved of every reachable state: the inductive invariant, of which
\* the types (the records of archives, calls and sweeps) are a part.
THEOREM RetentionInvariant == Spec => [](RetentionInv /\ RetentionTypeOK)
<1>1. RetentionInv => RetentionTypeOK
  BY DEF RetentionInv
<1> QED BY <1>1, RetentionInit, RetentionStep, PTL DEF Spec

\* A payload gone belongs to an archive in force, which shares it with no other
\* resource and whose resource is fenced: needed payloads are kept, whatever
\* the order of eligible's checks, the triggers and the sweeps.
THEOREM NeededPayloadIsKept == Spec => []NeededPayloadKept
<1>1. RetentionInv => NeededPayloadKept
  <2> SUFFICES ASSUME RetentionInv, NEW r \in Resources, Needed(r),
                      NEW a \in Payload[r], a \notin bucket
               PROVE  FALSE
    BY DEF NeededPayloadKept
  <2> USE RetentionAssumption DEF RetentionInv, LedgerInv
  <2>1. PICK k \in Archives : Purged(k) /\ a \in Payload[archive[k].resource]
    BY DEF GonePurged
  <2>2. r = archive[k].resource
    BY <2>1 DEF ArchivedAlone, Active, Purged
  <2>3. Archived(r)
    BY <2>1, <2>2 DEF Archived, Purged
  <2> QED BY <2>3 DEF Fenced
<1> QED BY <1>1, RetentionInit, RetentionStep, PTL DEF Spec

\* Each deletion is audited once, and only after the object is gone, however
\* many sweeps repeat it (the batch at lines 115-118 of purgeArchives).
THEOREM PayloadDeletedOnce == Spec => []DeletedOnce
<1>1. RetentionInv => DeletedOnce
  BY DEF RetentionInv, LedgerInv, GonePurged, DeletedOnce
<1> QED BY <1>1, RetentionInit, RetentionStep, PTL DEF Spec

\* A closed archive still retires its payloads, and none is undeleted: all are
\* gone and audited (the guarded UPDATE at line 122 of purgeArchives).
THEOREM ClosedArchiveIsComplete == Spec => []ClosedMeansGone
<1>1. RetentionInv => ClosedMeansGone
  <2> SUFFICES ASSUME RetentionInv, NEW k \in Archives,
                      archive[k].state = "deleted",
                      NEW a \in Payload[archive[k].resource]
               PROVE  a \notin bucket /\ deletions[a] = 1
    BY DEF ClosedMeansGone
  <2> USE RetentionAssumption DEF RetentionInv, LedgerInv
  <2>1. retirement[a] = k /\ a \in Artifacts
    BY DEF RetirementsMatch, Active, CallsKnow
  <2>2. a \in deleted_at
    BY <2>1 DEF ClosedComplete, Undeleted
  <2> QED BY <2>1, <2>2 DEF GonePurged
<1> QED BY <1>1, RetentionInit, RetentionStep, PTL DEF Spec

\* A cancelled archive gives its resource back whole: no sweep had claimed it,
\* and no retirement is left in force (the batch at lines 197-204).
THEOREM CancelledIsRestored == Spec => []CancelRestores
<1>1. RetentionInv => CancelRestores
  <2> SUFFICES ASSUME RetentionInv, NEW k \in Archives, NEW r \in Resources,
                      archive[k].state = "cancelled", ~Archived(r)
               PROVE  /\ Payload[r] \subseteq bucket
                      /\ \A a \in Payload[r] : retirement[a] = None
                      /\ r \in FrameSets => frame_set[r] = "ready"
    BY DEF CancelRestores, RetentionInv, LedgerInv, CallsKnow
  <2> USE RetentionAssumption DEF RetentionInv, LedgerInv
  <2>1. ASSUME NEW j \in Archives, Active(j), NEW a \in Payload[r],
               a \in Payload[archive[j].resource]
        PROVE  FALSE
    <3>1. r = archive[j].resource
      BY <2>1 DEF ArchivedAlone
    <3> QED BY <2>1, <3>1 DEF Archived, Active
  <2>2. Payload[r] \subseteq bucket
    BY <2>1 DEF GonePurged, Active, Purged
  <2>3. \A a \in Payload[r] : retirement[a] = None
    BY <2>1 DEF RetirementsMatch, RetentionTypeOK
  <2>4. r \in FrameSets => frame_set[r] = "ready"
    BY DEF ArchivedFrameSets, RetentionTypeOK
  <2> QED BY <2>2, <2>3, <2>4
<1> QED BY <1>1, RetentionInit, RetentionStep, PTL DEF Spec
=============================================================================
