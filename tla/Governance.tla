----------------------------- MODULE Governance -----------------------------
(***************************************************************************)
(* Models, pipeline releases and the evaluations that are their evidence:  *)
(* release-governance.ts and evaluations.ts of workers/control-plane/src,  *)
(* composed with the ground truth the evaluations are run against.         *)
(*                                                                         *)
(* A decision reads its row, gathers evidence over several awaits and ends *)
(* in one D1 batch that opens with assertions: a failing assertion, like a *)
(* rejected batch, leaves everything as it was.                            *)
(***************************************************************************)
EXTENDS GroundTruth

CONSTANTS
    Models, Releases, Runs,
    Approved,     \* models that were approved before the behaviour starts
    Pins,         \* [Releases -> Models], the model a release is created with
    Asks,         \* the inputs each run is created with, see Ask
    Deciders      \* requests about models, releases and runs in flight

\* `key` names an idempotency key; the thresholds asked for are the release's.
Ask == [truth : Versions, model : Models, release : Releases \cup {None},
        key : {"k1", None}]

ASSUME GovernanceAssumption ==
    /\ Approved \subseteq Models
    /\ Pins \in [Releases -> Models] /\ Asks \in [Runs -> Ask]
    /\ None \notin Models \cup Releases \cup Runs
    /\ Models \cap Releases = {} /\ (Models \cup Releases) \cap Runs = {}

VARIABLES
    model,        \* model_versions: status and revision
    release,      \* pipeline_releases with their linked evaluation
    run,          \* evaluation_runs: the status of their jobs
    dcall         \* requests in flight

releaseVars == <<model, release, run, dcall>>
vars == <<truthVars, releaseVars>>

\* A run that succeeded is "good" or "poor" by its metrics.
Model == [status : {"candidate", "approved", "rejected", "retired"}, revision : Nat]
Release == [status : {"none", "candidate", "approved", "draft", "active",
                      "superseded", "rolled_back"},
            revision : Nat, evidence : Runs \cup {None}]
RunStatus == {"none", "queued", "good", "poor", "failed"}
Decision == {"approve", "reject", "retire", "create", "activate", "rollback", "run"}
DecisionCall ==
    [pc : {"idle", "unused", "target", "model", "evidence", "truth", "insert",
           "release", "lookup", "commit"},
     action : Decision, id : Models \cup Releases \cup Runs \cup {None},
     revision : Nat, target : Releases \cup {None}, expected : Nat,
     evidence : Runs \cup {None}]

\* A request about id, a row it read at this revision
DecisionOn(id, action, pc, revision, target) ==
    [pc |-> pc, action |-> action, id |-> id, revision |-> revision,
     target |-> target, expected |-> 0, evidence |-> None]

Free == DecisionOn(None, "run", "idle", 0, None)

GovernanceTypeOK ==
    /\ TruthTypeOK
    /\ model \in [Models -> Model]
    /\ release \in [Releases -> Release]
    /\ run \in [Runs -> RunStatus]
    /\ dcall \in [Deciders -> DecisionCall]

Init ==
    /\ TruthInit
    /\ model = [m \in Models |->
          IF m \in Approved THEN [status |-> "approved", revision |-> 1]
                            ELSE [status |-> "candidate", revision |-> 0]]
    /\ release = [r \in Releases |->
          [status |-> "none", revision |-> 0, evidence |-> None]]
    /\ run = [e \in Runs |-> "none"]
    /\ dcall = [d \in Deciders |-> Free]

InState(d, pc) == dcall[d].pc = pc
Continue(d, pc) == dcall' = [dcall EXCEPT ![d].pc = pc]
Answer(d) == dcall' = [dcall EXCEPT ![d] = Free]
OnlyCalls == UNCHANGED <<truthVars, model, release, run>>
ReleaseIs(status) == {r \in Releases : release[r].status = status}
ModelIs(m, status) == model[m].status = status

-----------------------------------------------------------------------------
(***************************************************************************)
(* Evaluation runs: createRun                                              *)
(***************************************************************************)

CreateRun(d, e) ==
    /\ InState(d, "idle") /\ run[e] = "none"
    /\ \A x \in Deciders : dcall[x].id # e
    /\ dcall' = [dcall EXCEPT ![d] = DecisionOn(e, "run", "truth", 0, None)]
    /\ OnlyCalls

\* verifyModel: the model is a candidate or approved.
Evaluable(m) == ModelIs(m, "candidate") \/ ModelIs(m, "approved")

VerifyModel(d) ==
    /\ InState(d, "model") /\ dcall[d].action = "run"
    /\ IF ~Evaluable(Asks[dcall[d].id].model) THEN Answer(d)
       ELSE Continue(d, IF Asks[dcall[d].id].release # None THEN "release"
                        ELSE IF Asks[dcall[d].id].key # None THEN "lookup"
                        ELSE "commit")
    /\ OnlyCalls

ReadRelease(d) ==
    LET ask == Asks[dcall[d].id]
    IN  /\ InState(d, "release")
        /\ IF /\ release[ask.release].status \in {"candidate", "approved", "active"}
              /\ Pins[ask.release] = ask.model
           THEN Continue(d, IF ask.key # None THEN "lookup" ELSE "commit")
           ELSE Answer(d)
        /\ OnlyCalls

\* A run with the same key answers the call, or refuses it for its inputs.
KeyTaken(d) ==
    LET key == Asks[dcall[d].id].key
    IN  key # None /\ \E e \in Runs : run[e] # "none" /\ Asks[e].key = key

LookUpKey(d) ==
    /\ InState(d, "lookup")
    /\ IF KeyTaken(d) THEN Answer(d) ELSE Continue(d, "commit")
    /\ OnlyCalls

\* The batch fails on the unique key; the catch then finds the other run.
InsertRun(d) ==
    /\ InState(d, "commit") /\ dcall[d].action = "run"
    /\ \/ ~KeyTaken(d) /\ run' = [run EXCEPT ![dcall[d].id] = "queued"]
       \/ (KeyTaken(d) \/ "batch_rejected" \in Faults) /\ UNCHANGED run
    /\ Answer(d)
    /\ UNCHANGED <<truthVars, model, release>>

\* The job of the run settles (JobLifecycle).
FinishRun(e, status) ==
    /\ run[e] = "queued"
    /\ run' = [run EXCEPT ![e] = status]
    /\ UNCHANGED <<truthVars, model, release, dcall>>

-----------------------------------------------------------------------------
(***************************************************************************)
(* evidence: what a decision rests on                                      *)
(***************************************************************************)

Succeeded(e) == run[e] \in {"good", "poor"}

\* The model a decision is about.
ModelOf(d) ==
    IF dcall[d].id \in Models THEN dcall[d].id
    ELSE Pins[IF dcall[d].target # None THEN dcall[d].target ELSE dcall[d].id]

\* Acceptance is enforced on everything but a rejection; a release wants a
\* run that pins it, with its thresholds.
Supports(e, d) ==
    /\ Succeeded(e) /\ Asks[e].model = ModelOf(d)
    /\ dcall[d].action # "reject" => run[e] = "good"
    /\ dcall[d].id \in Releases =>
          Asks[e].release = (IF dcall[d].target # None THEN dcall[d].target
                                                       ELSE dcall[d].id)

\* The request names the run, or the release is linked to it already.
Named(e, d) ==
    dcall[d].action \in {"activate", "rollback"} =>
        e = release[dcall[d].target].evidence

ReadEvidence(d, e) ==
    /\ InState(d, "evidence") /\ Named(e, d)
    /\ IF Supports(e, d)
       THEN dcall' = [dcall EXCEPT ![d] = [@ EXCEPT !.pc = "truth", !.evidence = e]]
       ELSE Answer(d)
    /\ OnlyCalls

\* The ground truth a call asks about
TruthOf(d) == Asks[IF dcall[d].action = "run" THEN dcall[d].id
                                              ELSE dcall[d].evidence].truth

CheckTruth(d) ==
    /\ InState(d, "truth")
    /\ IF Eligible(TruthOf(d))
       THEN Continue(d, IF dcall[d].action = "run" THEN "model" ELSE "commit")
       ELSE Answer(d)
    /\ OnlyCalls

\* Mutant: the evidence was looked at, that must do.
EvidenceSeen(d) == TRUE

\* The assertion about the run and its ground truth
EvidenceHolds(d) ==
    LET e == dcall[d].evidence
    IN  e # None => Succeeded(e) /\ truth[Asks[e].truth].status = "approved"

-----------------------------------------------------------------------------
(***************************************************************************)
(* Decisions about models                                                  *)
(***************************************************************************)

DecideModel(d, m, action) ==
    /\ InState(d, "idle") /\ ModelIs(m, "candidate")
    /\ dcall' = [dcall EXCEPT ![d] =
          DecisionOn(m, action, "evidence", model[m].revision, None)]
    /\ OnlyCalls

RetireModel(d, m) ==
    /\ InState(d, "idle") /\ ModelIs(m, "approved")
    /\ dcall' = [dcall EXCEPT ![d] =
          DecisionOn(m, "retire", "unused", model[m].revision, None)]
    /\ OnlyCalls

InUse(m) == \E r \in ReleaseIs("active") : Pins[r] = m

CheckUnused(d) ==
    /\ InState(d, "unused")
    /\ IF InUse(dcall[d].id) THEN Answer(d) ELSE Continue(d, "commit")
    /\ OnlyCalls

\* Mutant: no assertion that the model is still unused.
ModelDecidableRead(d) ==
    model[dcall[d].id].revision = dcall[d].revision /\ EvidenceHolds(d)

\* The assertions of the batch
ModelDecidable(d) ==
    /\ model[dcall[d].id].revision = dcall[d].revision
    /\ EvidenceHolds(d)
    /\ dcall[d].action = "retire" => ~InUse(dcall[d].id)

ModelStatus(action) == CASE action = "approve" -> "approved"
                         [] action = "reject" -> "rejected"
                         [] OTHER -> "retired"

CommitModel(d) ==
    LET m == dcall[d].id
    IN  /\ InState(d, "commit") /\ m \in Models
        /\ \/ /\ ModelDecidable(d)
              /\ model' = [model EXCEPT ![m] =
                    [status |-> ModelStatus(dcall[d].action),
                     revision |-> @.revision + 1]]
           \/ /\ ~ModelDecidable(d) \/ "batch_rejected" \in Faults
              /\ UNCHANGED model
        /\ Answer(d)
        /\ UNCHANGED <<truthVars, release, run>>

-----------------------------------------------------------------------------
(***************************************************************************)
(* Decisions about releases                                                *)
(***************************************************************************)

\* createRelease: the model is approved when it looks; the INSERT is blind.
CreateRelease(d, r) ==
    /\ InState(d, "idle") /\ release[r].status = "none"
    /\ \A x \in Deciders : dcall[x].id # r
    /\ ModelIs(Pins[r], "approved")
    /\ dcall' = [dcall EXCEPT ![d] = DecisionOn(r, "create", "insert", 0, None)]
    /\ OnlyCalls

InsertRelease(d) ==
    /\ InState(d, "insert")
    /\ \/ release' = [release EXCEPT ![dcall[d].id].status = "candidate"]
       \/ "batch_rejected" \in Faults /\ UNCHANGED release
    /\ Answer(d)
    /\ UNCHANGED <<truthVars, model, run>>

DecideRelease(d, r, action) ==
    /\ InState(d, "idle") /\ release[r].status = "candidate"
    /\ dcall' = [dcall EXCEPT ![d] =
          DecisionOn(r, action, "evidence", release[r].revision, None)]
    /\ OnlyCalls

Activate(d, r) ==
    /\ InState(d, "idle") /\ release[r].status = "approved"
    /\ dcall' = [dcall EXCEPT ![d] =
          DecisionOn(r, "activate", "model", release[r].revision, r)]
    /\ OnlyCalls

Rollback(d, r, target) ==
    /\ InState(d, "idle") /\ release[r].status = "active"
    /\ dcall' = [dcall EXCEPT ![d] =
          DecisionOn(r, "rollback", "target", release[r].revision, target)]
    /\ OnlyCalls

\* Only an approved release is ever activated, and so superseded.
ReadTarget(d) ==
    /\ InState(d, "target")
    /\ IF release[dcall[d].target].status = "superseded"
       THEN dcall' = [dcall EXCEPT ![d] = [@ EXCEPT !.pc = "model",
                         !.expected = release[dcall[d].target].revision]]
       ELSE Answer(d)
    /\ OnlyCalls

ReadModel(d) ==
    /\ InState(d, "model") /\ dcall[d].action # "run"
    /\ IF ModelIs(ModelOf(d), "approved") THEN Continue(d, "evidence") ELSE Answer(d)
    /\ OnlyCalls

\* Mutant: the release is activated in whatever state it is by now.
RowHoldsAny(d) == TRUE

\* The revision, and with it the status that was read
RowHolds(d) == release[dcall[d].id].revision = dcall[d].revision

\* The assertions of an activation or a rollback
Switchable(d) ==
    /\ EvidenceHolds(d) /\ RowHolds(d)
    /\ ModelIs(ModelOf(d), "approved")
    /\ dcall[d].target # dcall[d].id =>
          /\ release[dcall[d].target].revision = dcall[d].expected
          /\ release[dcall[d].target].status = "superseded"

\* An UPDATE of a release's status, that many times
Moved(r, status, times) ==
    [release[r] EXCEPT !.status = status, !.revision = @ + times]

\* Every active release steps down, then the target becomes active.
Switch(d) ==
    release' = [r \in Releases |->
       IF r = dcall[d].target
       THEN Moved(r, "active", IF r \in ReleaseIs("active") THEN 2 ELSE 1)
       ELSE IF r \in ReleaseIs("active")
       THEN Moved(r, IF dcall[d].action = "rollback" THEN "rolled_back"
                                                     ELSE "superseded", 1)
       ELSE release[r]]

CommitSwitch(d) ==
    /\ InState(d, "commit") /\ dcall[d].action \in {"activate", "rollback"}
    /\ \/ Switchable(d) /\ Switch(d)
       \/ /\ ~Switchable(d) \/ "batch_rejected" \in Faults
          /\ UNCHANGED release
    /\ Answer(d)
    /\ UNCHANGED <<truthVars, model, run>>

ReleaseDecidable(d) == RowHolds(d) /\ EvidenceHolds(d)

CommitRelease(d) ==
    LET r == dcall[d].id
    IN  /\ InState(d, "commit") /\ r \in Releases
        /\ dcall[d].action \in {"approve", "reject"}
        /\ \/ /\ ReleaseDecidable(d)
              /\ release' = [release EXCEPT ![r] =
                    [status |-> IF dcall[d].action = "approve" THEN "approved"
                                                               ELSE "draft",
                     revision |-> @.revision + 1, evidence |-> dcall[d].evidence]]
           \/ /\ ~ReleaseDecidable(d) \/ "batch_rejected" \in Faults
              /\ UNCHANGED release
        /\ Answer(d)
        /\ UNCHANGED <<truthVars, model, run>>

-----------------------------------------------------------------------------
Evaluating(d) ==
    \/ \E e \in Runs : CreateRun(d, e)
    \/ VerifyModel(d) \/ ReadRelease(d) \/ LookUpKey(d) \/ InsertRun(d)

Governing(d) ==
    \/ \E m \in Models, action \in {"approve", "reject"} : DecideModel(d, m, action)
    \/ \E m \in Models : RetireModel(d, m)
    \/ CheckUnused(d) \/ CommitModel(d)
    \/ \E e \in Runs : ReadEvidence(d, e)
    \/ CheckTruth(d)

Releasing(d) ==
    \/ \E r \in Releases : CreateRelease(d, r)
    \/ \E r \in Releases, action \in {"approve", "reject"} :
          DecideRelease(d, r, action)
    \/ \E r \in Releases : Activate(d, r)
    \/ \E r, target \in Releases : Rollback(d, r, target)
    \/ InsertRelease(d) \/ ReadTarget(d) \/ ReadModel(d)
    \/ CommitRelease(d) \/ CommitSwitch(d)

Next ==
    \/ TruthNext /\ UNCHANGED releaseVars
    \/ \E d \in Deciders : Evaluating(d) \/ Governing(d) \/ Releasing(d)
    \/ \E e \in Runs, status \in {"good", "poor", "failed"} : FinishRun(e, status)

Spec == Init /\ [][Next]_vars

-----------------------------------------------------------------------------
(***************************************************************************)
(* Properties                                                              *)
(***************************************************************************)

\* The active release never pins a model that was retired: a retirement and
\* an activation in flight cannot both commit (the assertions of lines 182
\* and 214).
ActiveModelApproved ==
    \A r \in ReleaseIs("active") : ModelIs(Pins[r], "approved")

\* Once a release has gone live one always is, whatever activations and
\* rollbacks race, and a release that was rolled back never returns (the
\* assertion of line 216, with the updates of lines 219 and 220).
ReleaseSuccession ==
    [][/\ ReleaseIs("active") # {} => ReleaseIs("active")' # {}
       /\ ReleaseIs("rolled_back") \subseteq ReleaseIs("rolled_back")']_vars

\* A good run of the model, against ground truth that is approved.
Evidences(e, m) == /\ run[e] = "good" /\ Asks[e].model = m
                   /\ truth[Asks[e].truth].status = "approved"

\* A model is only approved, and a release approved or put live, on a good
\* run of that very model against ground truth that is approved at that
\* moment: not on evidence superseded while the decision was in flight
\* (evidence, and the assertion of lines 223-228).
DecidedOnEvidence ==
    [][/\ \A m \in Models : (ModelIs(m, "candidate") /\ ModelIs(m, "approved")') =>
             \E e \in Runs : Evidences(e, m)
       /\ \A r \in Releases :
             (/\ release[r].status # release'[r].status
              /\ release'[r].status \in {"approved", "active"}) =>
             \E e \in Runs : release'[r].evidence = e /\ Evidences(e, Pins[r])]_vars
=============================================================================
