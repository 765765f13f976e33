----------------------------- MODULE GroundTruth ----------------------------
(***************************************************************************)
(* Ground-truth versions: workers/control-plane/src/ground-truth.ts.       *)
(*                                                                         *)
(* A completed campaign registers a candidate.  It is validated, any       *)
(* number of times, then approved or rejected; an approved version may be  *)
(* superseded by another.  Every await is a step boundary and a D1 batch   *)
(* is one step.  Pinned hashes cannot change (migration 0013), so the      *)
(* PIN_GUARD of the updates always holds and is left out.                  *)
(***************************************************************************)
EXTENDS Naturals, FiniteSets

CONSTANTS
    Versions, Validations,  \* identifiers of ground truth and of its reports
    Template,     \* [Versions -> the frozen template of each]
    Content,      \* [Versions -> what is counted in the annotations of each]
    Settled,      \* versions that were approved before the behaviour starts
    Calls,        \* validations and decisions in flight
    None,         \* SQL NULL
    Faults        \* see below

\* "batch_rejected"   a D1 batch fails and commits nothing
\* "batch_ambiguous"  a D1 batch commits and reports a failure all the same
\* "evidence_lost"    storage loses or changes an object a version rests on
\* `valid`: well formed, covered, reviewed twice and adjudicated; `profile`: the
\* sources are those of a frozen profile; `most`: objects of the richest source.
Counts == [valid : BOOLEAN, profile : BOOLEAN, objects : Nat, most : Nat,
           non_person : Nat, classes : Nat, live : Nat, screen : Nat,
           composited : Nat, small : Nat, large : Nat]

\* validateGroundTruthContent: the corpus gates
Adequate(g) ==
    LET n == Content[g]
    IN  /\ n.valid /\ n.profile
        /\ n.non_person >= 50 /\ n.classes >= 5
        /\ n.live >= 20 /\ n.screen >= 20 /\ n.composited >= 10
        /\ n.small >= 15 /\ n.large >= 15
        /\ n.objects > 0 /\ 10 * n.most <= 6 * n.objects

ASSUME GroundTruthAssumption ==
    /\ Content \in [Versions -> Counts]
    /\ Settled \subseteq Versions /\ \A g \in Settled : Adequate(g)
    /\ DOMAIN Template = Versions /\ IsFiniteSet(Versions)
    /\ Versions \cap Validations = {} /\ None \notin Versions \cup Validations
    /\ Faults \subseteq {"batch_rejected", "batch_ambiguous", "evidence_lost"}

VARIABLES
    truth,        \* ground_truth_versions
    validation,   \* ground_truth_validations
    reports,      \* the validation reports in the bucket
    intact,       \* versions whose artifacts, submissions and frames check out
    tcall         \* the requests in flight

truthVars == <<truth, validation, reports, intact, tcall>>

\* status and approval_status as one: the first three are pending, and
\* "rejected" is an invalid version whose rejection was decided.
Pending == {"candidate", "valid", "invalid"}
Version == [status : Pending \cup {"approved", "rejected", "superseded"},
            revision : Nat, latest : Validations \cup Settled \cup {None},
            by : Versions \cup {None}]
Validation == [of : Versions \cup {None}, passed : BOOLEAN]
TruthCall == [pc : {"idle", "context", "put", "batch", "catch", "discard",
                    "verify", "replacement", "eligible", "decide"},
              action : {"validate", "approve", "reject", "supersede"},
              id : Versions \cup {None}, revision : Nat,
              latest : Validations \cup Settled \cup {None},
              run : Validations \cup {None}, passed : BOOLEAN,
              replacement : Versions \cup {None}, expected : Nat]

Idle == [pc |-> "idle", action |-> "validate", id |-> None, revision |-> 0,
         latest |-> None, run |-> None, passed |-> FALSE,
         replacement |-> None, expected |-> 0]

\* The validation of a settled version bears the version's name.
ValidationIds == Validations \cup Settled

TruthTypeOK ==
    /\ truth \in [Versions -> Version]
    /\ validation \in [ValidationIds -> Validation]
    /\ reports \subseteq ValidationIds
    /\ intact \subseteq Versions
    /\ tcall \in [Calls -> TruthCall]

TruthInit ==
    /\ truth = [g \in Versions |->
          IF g \in Settled
          THEN [status |-> "approved", revision |-> 2, latest |-> g, by |-> None]
          ELSE [status |-> "candidate", revision |-> 0, latest |-> None, by |-> None]]
    /\ validation = [v \in ValidationIds |->
          IF v \in Settled THEN [of |-> v, passed |-> TRUE]
                           ELSE [of |-> None, passed |-> FALSE]]
    /\ reports = Settled
    /\ intact = Versions
    /\ tcall = [c \in Calls |-> Idle]

\* A request about g that has read its row
Request(g, action, pc, h) ==
    [pc |-> pc, action |-> action, id |-> g, revision |-> truth[g].revision,
     latest |-> truth[g].latest, run |-> None, passed |-> FALSE,
     replacement |-> h, expected |-> 0]

At(c, pc) == tcall[c].pc = pc
Goto(c, pc) == tcall' = [tcall EXCEPT ![c].pc = pc]
Return(c) == tcall' = [tcall EXCEPT ![c] = Idle]

-----------------------------------------------------------------------------
(***************************************************************************)
(* What a version rests on                                                 *)
(***************************************************************************)

\* context: bytes, lineage, submissions, comparison and frame evidence.
Context(g) == g \in intact

EvidenceLost(g) ==
    /\ "evidence_lost" \in Faults
    /\ intact' = intact \ {g}
    /\ UNCHANGED <<truth, validation, reports, tcall>>

\* verifiedReport, for a version whose row named `latest`
VerifiedReport(g, latest) ==
    /\ latest # None
    /\ validation[latest].passed /\ latest \in reports
    /\ Context(g)

\* getEligibleGroundTruth; the decision's row was written with the approval.
Eligible(g) == truth[g].status = "approved" /\ VerifiedReport(g, truth[g].latest)

-----------------------------------------------------------------------------
(***************************************************************************)
(* validate                                                                *)
(***************************************************************************)

\* The row and its revision are read, and the version must be pending.
Validate(c, g) ==
    /\ At(c, "idle") /\ truth[g].status \in Pending
    /\ tcall' = [tcall EXCEPT ![c] =
          Request(g, "validate", "context", None)]
    /\ UNCHANGED <<truth, validation, reports, intact>>

\* Whether the content is adequate is a matter of fixed bytes.
Analyse(c) ==
    LET g == tcall[c].id
    IN  /\ At(c, "context")
        /\ tcall' = [tcall EXCEPT ![c] =
              [@ EXCEPT !.pc = "put", !.passed = Context(g) /\ Adequate(g)]]
        /\ UNCHANGED <<truth, validation, reports, intact>>

\* v is a fresh identifier: nothing knows it.
Unused(v) == v \notin reports /\ validation[v].of = None

PutReport(c, v) ==
    /\ At(c, "put") /\ Unused(v)
    /\ reports' = reports \cup {v}
    /\ tcall' = [tcall EXCEPT ![c] = [@ EXCEPT !.pc = "batch", !.run = v]]
    /\ UNCHANGED <<truth, validation, intact>>

\* WHERE revision = ? AND approval_status = 'pending' AND ...
Validatable(c) == /\ truth[tcall[c].id].revision = tcall[c].revision
                  /\ truth[tcall[c].id].status \in Pending

ValidateBatch(c) ==
    LET g == tcall[c].id  v == tcall[c].run
    IN  IF Validatable(c)
        THEN /\ truth' = [truth EXCEPT ![g] =
                   [status |-> IF tcall[c].passed THEN "valid" ELSE "invalid",
                    revision |-> @.revision + 1, latest |-> v, by |-> @.by]]
             /\ validation' = [validation EXCEPT ![v] =
                   [of |-> g, passed |-> tcall[c].passed]]
        ELSE UNCHANGED <<truth, validation>>

ValidateCommit(c) ==
    /\ At(c, "batch")
    /\ \/ ValidateBatch(c)
          /\ IF Validatable(c) THEN Return(c) ELSE Goto(c, "discard")
       \/ "batch_ambiguous" \in Faults /\ ValidateBatch(c) /\ Goto(c, "catch")
       \/ /\ "batch_rejected" \in Faults /\ Goto(c, "catch")
          /\ UNCHANGED <<truth, validation>>
    /\ UNCHANGED <<reports, intact>>

\* Mutant: a failed batch is taken at its word.
CommittedNever(c) == FALSE

\* SELECT id FROM ground_truth_validations WHERE id = ?
Committed(c) == validation[tcall[c].run].of # None

ValidateCatch(c) ==
    /\ At(c, "catch")
    /\ IF Committed(c) THEN Return(c) ELSE Goto(c, "discard")
    /\ UNCHANGED <<truth, validation, reports, intact>>

DiscardReport(c) ==
    /\ At(c, "discard")
    /\ reports' = reports \ {tcall[c].run}
    /\ Return(c)
    /\ UNCHANGED <<truth, validation, intact>>

-----------------------------------------------------------------------------
(***************************************************************************)
(* decide                                                                  *)
(***************************************************************************)

Approve(c, g) ==
    /\ At(c, "idle") /\ truth[g].status = "valid"
    /\ tcall' = [tcall EXCEPT ![c] = Request(g, "approve", "verify", None)]
    /\ UNCHANGED <<truth, validation, reports, intact>>

Reject(c, g) ==
    /\ At(c, "idle") /\ truth[g].status \in Pending
    /\ tcall' = [tcall EXCEPT ![c] = Request(g, "reject", "decide", None)]
    /\ UNCHANGED <<truth, validation, reports, intact>>

Supersede(c, g, h) ==
    /\ At(c, "idle") /\ truth[g].status = "approved" /\ h # g
    /\ tcall' = [tcall EXCEPT ![c] = Request(g, "supersede", "replacement", h)]
    /\ UNCHANGED <<truth, validation, reports, intact>>

VerifyReport(c) ==
    /\ At(c, "verify")
    /\ IF VerifiedReport(tcall[c].id, tcall[c].latest)
       THEN Goto(c, "decide") ELSE Return(c)
    /\ UNCHANGED <<truth, validation, reports, intact>>

Replaceable(c) == Template[tcall[c].replacement] = Template[tcall[c].id]

ReadReplacement(c) ==
    /\ At(c, "replacement")
    /\ IF Replaceable(c)
       THEN tcall' = [tcall EXCEPT ![c] = [@ EXCEPT !.pc = "eligible",
                         !.expected = truth[tcall[c].replacement].revision]]
       ELSE Return(c)
    /\ UNCHANGED <<truth, validation, reports, intact>>

CheckReplacement(c) ==
    /\ At(c, "eligible")
    /\ IF Eligible(tcall[c].replacement) THEN Goto(c, "decide") ELSE Return(c)
    /\ UNCHANGED <<truth, validation, reports, intact>>

\* Mutant: the replacement was eligible when it was looked at.
ReplacementRead(c) == TRUE

\* replacementGuard
ReplacementHolds(c) ==
    LET h == tcall[c].replacement
    IN  h # None => /\ truth[h].revision = tcall[c].expected
                    /\ truth[h].status = "approved"

\* WHERE revision = ? AND approval_status = ? AND latest_validation_id IS ?
Decidable(c) ==
    LET t == truth[tcall[c].id]
    IN  /\ t.revision = tcall[c].revision
        /\ IF tcall[c].action = "supersede" THEN t.status = "approved"
                                            ELSE t.status \in Pending
        /\ t.latest = tcall[c].latest
        /\ ReplacementHolds(c)

Outcome(action) == CASE action = "approve" -> "approved"
                     [] action = "reject" -> "rejected"
                     [] OTHER -> "superseded"

DecideBatch(c) ==
    IF Decidable(c)
    THEN truth' = [truth EXCEPT ![tcall[c].id] =
            [status |-> Outcome(tcall[c].action), revision |-> @.revision + 1,
             latest |-> @.latest, by |-> tcall[c].replacement]]
    ELSE UNCHANGED truth

\* Nothing follows the batch: a caller learns the outcome, or does not.
DecideCommit(c) ==
    /\ At(c, "decide")
    /\ DecideBatch(c) \/ ("batch_rejected" \in Faults /\ UNCHANGED truth)
    /\ Return(c)
    /\ UNCHANGED <<validation, reports, intact>>

-----------------------------------------------------------------------------
Validating(c) ==
    \/ \E g \in Versions : Validate(c, g)
    \/ Analyse(c) \/ ValidateCommit(c) \/ ValidateCatch(c) \/ DiscardReport(c)
    \/ \E v \in Validations : PutReport(c, v)

Deciding(c) ==
    \/ \E g \in Versions : Approve(c, g) \/ Reject(c, g)
    \/ \E g, h \in Versions : Supersede(c, g, h)
    \/ VerifyReport(c) \/ ReadReplacement(c) \/ CheckReplacement(c)
    \/ DecideCommit(c)

TruthNext ==
    \/ \E c \in Calls : Validating(c) \/ Deciding(c)
    \/ \E g \in Versions : EvidenceLost(g)

TruthSpec == TruthInit /\ [][TruthNext]_truthVars

-----------------------------------------------------------------------------
(***************************************************************************)
(* Properties                                                              *)
(***************************************************************************)

\* An approved or superseded version still names the validation it was
\* approved on: its own, passed, with the report in the bucket, whatever
\* other validations of it were under way or failed (validate's batch and
\* catch against decide's batch).
ApprovedOnReport ==
    \A g \in Versions : truth[g].status \in {"approved", "superseded"} =>
        LET v == truth[g].latest
        IN  v # None /\ validation[v] = [of |-> g, passed |-> TRUE] /\ v \in reports

Superseded == {g \in Versions : truth[g].status = "superseded"}

\* Whoever follows the replacements of a superseded version stays among
\* versions of its template that were approved, and arrives at one that still
\* is: supersessions in flight close no circle, and end in no version that is
\* gone itself (decide's replacementGuard).
SupersessionEnds ==
    /\ \A g \in Superseded :
          /\ truth[g].by \in Versions
          /\ truth[truth[g].by].status \in {"approved", "superseded"}
          /\ Template[truth[g].by] = Template[g]
    /\ \A S \in SUBSET Superseded : S # {} => \E g \in S : truth[g].by \notin S
=============================================================================
