-------------------------- MODULE GovernanceProofs --------------------------
(***************************************************************************)
(* Proofs about GroundTruth and Governance, for any number of versions,    *)
(* validations, models, releases, runs and calls, and all faults: approved *)
(* ground truth keeps the report it was approved on, decisions rest on     *)
(* evidence that holds when they are taken, and the active release pins an *)
(* approved model.                                                         *)
(***************************************************************************)
EXTENDS Governance, TLAPS

-----------------------------------------------------------------------------
(***************************************************************************)
(* Ground truth                                                            *)
(***************************************************************************)

\* A validation that holds a report, and a decision that has read its row
Writing == {"batch", "catch", "discard"}
Decisive == {"verify", "replacement", "eligible", "decide"}

\* The version was approved, or may be, on a report that is still there.
Rested(g) ==
    truth[g].status \in {"valid", "approved", "superseded"} =>
        /\ truth[g].latest \in reports
        /\ validation[truth[g].latest].of = g
        /\ validation[truth[g].latest].passed = TRUE

\* What a call in flight may rely on; an approval whose revision is current
\* is about a valid version.
TruthCallOK(c) ==
    /\ tcall[c].pc # "idle" =>
          /\ tcall[c].id \in Versions
          /\ tcall[c].revision <= truth[tcall[c].id].revision
    /\ tcall[c].pc \in Writing =>
          tcall[c].run \in reports /\ tcall[c].run \in Validations
    /\ tcall[c].pc \in {"batch", "discard"} => validation[tcall[c].run].of = None
    /\ tcall[c].pc \in Decisive => tcall[c].action # "validate"
    /\ tcall[c].pc \in {"replacement", "eligible"} =>
          tcall[c].action = "supersede" /\ tcall[c].replacement \in Versions
    /\ /\ tcall[c].pc \in Decisive /\ tcall[c].action = "approve"
       /\ tcall[c].revision = truth[tcall[c].id].revision
       => truth[tcall[c].id].status = "valid"

TruthShape ==
    /\ truth \in [Versions -> Version]
    /\ validation \in [ValidationIds -> Validation]
    /\ reports \subseteq ValidationIds
    /\ tcall \in [Calls -> TruthCall]

\* No two calls write the same report.
OwnReports ==
    \A c, d \in Calls :
        c # d /\ tcall[c].pc \in Writing /\ tcall[d].pc \in Writing
            => tcall[c].run # tcall[d].run

TruthInv ==
    /\ TruthShape /\ OwnReports
    /\ \A g \in Versions : Rested(g)
    /\ \A c \in Calls : TruthCallOK(c)

LEMMA IdleTruthCall == Idle \in TruthCall /\ Idle.pc = "idle"
  BY DEF Idle, TruthCall

LEMMA TruthStarts == TruthInit => TruthInv
<1> SUFFICES ASSUME TruthInit PROVE TruthInv
  OBVIOUS
<1>1. truth \in [Versions -> Version]
  BY DEF TruthInit, Version, Pending
<1>2. validation \in [ValidationIds -> Validation] /\ reports \subseteq ValidationIds
  BY GroundTruthAssumption DEF TruthInit, Validation, ValidationIds
<1>3. tcall \in [Calls -> TruthCall] /\ \A c \in Calls : tcall[c].pc = "idle"
  BY IdleTruthCall DEF TruthInit
<1>4. ASSUME NEW g \in Versions PROVE Rested(g)
  <2>1. CASE g \in Settled
    <3>1. g \in ValidationIds
      BY <2>1 DEF ValidationIds
    <3> QED
      BY <2>1, <3>1 DEF TruthInit, Rested
  <2>2. CASE g \notin Settled
    BY <2>2 DEF TruthInit, Rested
  <2> QED
    BY <2>1, <2>2
<1>5. \A c \in Calls : TruthCallOK(c)
  BY <1>3 DEF TruthCallOK, Writing, Decisive
<1>6. OwnReports
  BY <1>3 DEF OwnReports, Writing
<1> QED
  BY <1>1, <1>2, <1>3, <1>4, <1>5, <1>6 DEF TruthInv, TruthShape

LEMMA TruthStutters ==
    ASSUME TruthInv, UNCHANGED <<truth, validation, reports, tcall>>
    PROVE  TruthInv'
<1>1. TruthShape' /\ OwnReports'
  BY DEF TruthInv, TruthShape, OwnReports
<1>2. \A g \in Versions : Rested(g)'
  BY DEF TruthInv, Rested
<1>3. \A c \in Calls : TruthCallOK(c)'
  BY DEF TruthInv, TruthCallOK
<1> QED
  BY <1>1, <1>2, <1>3 DEF TruthInv

\* Steps that only move one call on, without giving it a report.
LEMMA TruthCallMoves ==
    ASSUME TruthInv, UNCHANGED <<truth, validation, reports>>,
           NEW c \in Calls, NEW x \in TruthCall, tcall' = [tcall EXCEPT ![c] = x],
           TruthCallOK(c)',
           x.pc \in Writing => tcall[c].pc \in Writing /\ x.run = tcall[c].run
    PROVE  TruthInv'
<1>1. /\ tcall' \in [Calls -> TruthCall] /\ tcall'[c] = x
      /\ \A d \in Calls : d # c => tcall'[d] = tcall[d]
  BY DEF TruthInv, TruthShape
<1>2. TruthShape'
  BY <1>1 DEF TruthInv, TruthShape
<1>3. OwnReports'
  BY <1>1 DEF TruthInv, OwnReports
<1>4. \A g \in Versions : Rested(g)'
  BY DEF TruthInv, Rested
<1>5. ASSUME NEW d \in Calls, d # c PROVE TruthCallOK(d)'
  BY <1>1, <1>5 DEF TruthInv, TruthCallOK
<1> QED
  BY <1>2, <1>3, <1>4, <1>5 DEF TruthInv

LEMMA TruthReturns ==
    ASSUME TruthInv, UNCHANGED <<truth, validation, reports>>,
           NEW c \in Calls, Return(c)
    PROVE  TruthInv'
<1>1. tcall' = [tcall EXCEPT ![c] = Idle] /\ tcall'[c] = Idle
  BY DEF Return, TruthInv, TruthShape
<1>2. TruthCallOK(c)'
  BY <1>1, IdleTruthCall DEF TruthCallOK, Writing, Decisive
<1> QED
  BY <1>1, <1>2, IdleTruthCall, TruthCallMoves DEF Writing

\* A call goes on to an await that presumes no more than it has.
LEMMA TruthGoes ==
    ASSUME TruthInv, UNCHANGED <<truth, validation, reports>>, NEW c \in Calls,
           NEW pc \in {"catch", "discard", "eligible", "decide"}, Goto(c, pc),
           \/ /\ pc = "catch" /\ tcall[c].pc = "batch"
           \/ /\ pc = "discard" /\ tcall[c].pc \in {"batch", "catch"}
              /\ validation[tcall[c].run].of = None
           \/ pc = "decide" /\ tcall[c].pc \in {"verify", "eligible"}
    PROVE  TruthInv'
<1> DEFINE x == [tcall[c] EXCEPT !.pc = pc]
<1>1. tcall[c] \in TruthCall /\ TruthCallOK(c)
  BY DEF TruthInv, TruthShape
<1>2. /\ x \in TruthCall /\ x.pc = pc /\ x.id = tcall[c].id
      /\ x.revision = tcall[c].revision /\ x.run = tcall[c].run
      /\ x.action = tcall[c].action
  BY <1>1 DEF TruthCall
<1>3. tcall' = [tcall EXCEPT ![c] = x] /\ tcall'[c] = x
  BY DEF Goto, TruthInv, TruthShape
<1> HIDE DEF x
<1>4. TruthCallOK(c)'
  BY <1>1, <1>2, <1>3 DEF TruthCallOK, Writing, Decisive
<1> QED
  BY <1>2, <1>3, <1>4, TruthCallMoves DEF Writing

\* A call starts from the row it has just read.
LEMMA RequestStarts ==
    ASSUME TruthInv, UNCHANGED <<truth, validation, reports>>, NEW c \in Calls,
           NEW g \in Versions, NEW h \in Versions \cup {None},
           NEW action \in {"validate", "approve", "reject", "supersede"},
           NEW pc \in {"context", "verify", "decide", "replacement"},
           tcall' = [tcall EXCEPT ![c] = Request(g, action, pc, h)],
           pc \in Decisive => action # "validate",
           pc = "replacement" => action = "supersede" /\ h \in Versions,
           action = "approve" => truth[g].status = "valid"
    PROVE  TruthInv'
<1> DEFINE x == Request(g, action, pc, h)
<1>1. truth[g].revision \in Nat /\ truth[g].latest \in Validations \cup Settled \cup {None}
  BY DEF TruthInv, TruthShape, Version
<1>2. /\ x \in TruthCall /\ x.pc = pc /\ x.id = g /\ x.action = action
      /\ x.revision = truth[g].revision /\ x.replacement = h
  BY <1>1 DEF Request, TruthCall
<1>3. tcall' = [tcall EXCEPT ![c] = x] /\ tcall'[c] = x
  BY DEF TruthInv, TruthShape
<1> HIDE DEF x
<1>4. TruthCallOK(c)'
  BY <1>1, <1>2, <1>3 DEF TruthCallOK, Writing, Decisive
<1> QED
  BY <1>2, <1>3, <1>4, TruthCallMoves DEF Writing

\* The batch of a validation, and what becomes of the call that sent it
LEMMA BatchKeeps ==
    ASSUME TruthInv, NEW c \in Calls, tcall[c].pc = "batch",
           Validatable(c), ValidateBatch(c), reports' = reports,
           NEW y \in TruthCall, tcall' = [tcall EXCEPT ![c] = y],
           \/ y.pc = "idle"
           \/ /\ y.pc = "catch" /\ y.run = tcall[c].run /\ y.id = tcall[c].id
              /\ y.revision = tcall[c].revision
    PROVE  TruthInv'
<1> DEFINE g == tcall[c].id
           v == tcall[c].run
           row == [status |-> IF tcall[c].passed THEN "valid" ELSE "invalid",
                   revision |-> truth[g].revision + 1, latest |-> v,
                   by |-> truth[g].by]
           verdict == [of |-> g, passed |-> tcall[c].passed]
<1>1. /\ tcall[c] \in TruthCall /\ g \in Versions /\ v \in reports
      /\ v \in Validations /\ v \in ValidationIds /\ validation[v].of = None
      /\ tcall[c].revision <= truth[g].revision /\ truth[g] \in Version
  BY DEF TruthInv, TruthShape, TruthCallOK, Writing, ValidationIds
<1>2. truth' = [truth EXCEPT ![g] = row] /\ validation' = [validation EXCEPT ![v] = verdict]
  BY DEF ValidateBatch
<1>3. row \in Version /\ verdict \in Validation
  BY <1>1 DEF Version, Validation, TruthCall, Pending
<1>4. /\ row.revision = truth[g].revision + 1 /\ row.latest = v
      /\ row.status \in {"valid", "invalid"}
      /\ row.status = "valid" => verdict.passed = TRUE
      /\ verdict.of = g
  BY <1>1 DEF TruthCall
<1> HIDE DEF row, verdict
<1>5. /\ truth' \in [Versions -> Version] /\ truth'[g] = row
      /\ \A h \in Versions : h # g => truth'[h] = truth[h]
  BY <1>1, <1>2, <1>3 DEF TruthInv, TruthShape
<1>6. /\ validation' \in [ValidationIds -> Validation] /\ validation'[v] = verdict
      /\ \A w \in ValidationIds : w # v => validation'[w] = validation[w]
  BY <1>1, <1>2, <1>3 DEF TruthInv, TruthShape
<1>7. /\ tcall' \in [Calls -> TruthCall] /\ tcall'[c] = y
      /\ \A d \in Calls : d # c => tcall'[d] = tcall[d]
  BY DEF TruthInv, TruthShape
<1>8. TruthShape'
  BY <1>5, <1>6, <1>7 DEF TruthInv, TruthShape
<1>9. OwnReports'
  BY <1>7 DEF TruthInv, OwnReports, Writing
<1>10. ASSUME NEW h \in Versions PROVE Rested(h)'
  <2>1. CASE h = g
    BY <1>1, <1>4, <1>5, <1>6, <2>1 DEF Rested
  <2>2. CASE h # g
    <3>1. Rested(h) /\ truth'[h] = truth[h]
      BY <1>5, <2>2 DEF TruthInv
    <3>2. truth[h].status \in {"valid", "approved", "superseded"} =>
              truth[h].latest # v /\ truth[h].latest \in ValidationIds
      BY <1>1, <3>1, GroundTruthAssumption DEF Rested, TruthInv, TruthShape
    <3> QED
      BY <1>6, <3>1, <3>2 DEF Rested
  <2> QED
    BY <2>1, <2>2
<1>11. ASSUME NEW d \in Calls PROVE TruthCallOK(d)'
  <2>1. CASE d = c
    <3>1. truth[g].revision \in Nat /\ tcall[c].revision \in Nat
      BY <1>1 DEF Version, TruthCall
    <3>2. y.pc # "idle" => y.id = g /\ y.revision <= truth'[g].revision
      BY <1>1, <1>4, <1>5, <3>1
    <3>3. y.pc \in Writing => y.pc = "catch" /\ y.run = v
      BY DEF Writing
    <3>4. y.pc \notin Decisive /\ y.pc \notin {"batch", "discard"}
      BY DEF Decisive
    <3> HIDE DEF g, v
    <3> QED
      BY <1>1, <1>7, <2>1, <3>2, <3>3, <3>4 DEF TruthCallOK, Decisive
  <2>2. CASE d # c
    <3>1. TruthCallOK(d) /\ tcall'[d] = tcall[d] /\ tcall[d] \in TruthCall
      BY <1>7, <2>2 DEF TruthInv, TruthShape
    <3>2. tcall[d].pc \in {"batch", "discard"} =>
              tcall[d].run # v /\ tcall[d].run \in ValidationIds
      BY <2>2, <3>1 DEF TruthInv, OwnReports, Writing, TruthCallOK, ValidationIds
    <3>3. tcall[d].pc # "idle" => /\ tcall[d].id \in Versions
                                  /\ tcall[d].revision <= truth'[tcall[d].id].revision
      BY <1>1, <1>4, <1>5, <3>1 DEF TruthCallOK, Version, TruthCall
    <3>4. tcall[d].pc \in Decisive /\ tcall[d].id = g =>
              tcall[d].revision # truth'[g].revision
      BY <1>1, <1>4, <1>5, <3>1 DEF TruthCallOK, Version, TruthCall, Decisive
    <3> QED
      BY <1>5, <1>6, <3>1, <3>2, <3>3, <3>4 DEF TruthCallOK, Decisive
  <2> QED
    BY <2>1, <2>2
<1> QED
  BY <1>8, <1>9, <1>10, <1>11 DEF TruthInv

LEMMA ValidatingKeeps ==
    ASSUME TruthInv, NEW c \in Calls, Validating(c)
    PROVE  TruthInv'
<1>0. tcall[c] \in TruthCall /\ TruthCallOK(c)
  BY DEF TruthInv, TruthShape
<1>1. ASSUME NEW g \in Versions, Validate(c, g) PROVE TruthInv'
  <2>1. /\ tcall' = [tcall EXCEPT ![c] = Request(g, "validate", "context", None)]
        /\ UNCHANGED <<truth, validation, reports>>
    BY <1>1 DEF Validate
  <2> QED
    BY <2>1, RequestStarts DEF Decisive
<1>2. CASE Analyse(c)
  <2> DEFINE b == Context(tcall[c].id) /\ Adequate(tcall[c].id)
             x == [tcall[c] EXCEPT !.pc = "put", !.passed = b]
  <2>1. b \in BOOLEAN
    OBVIOUS
  <2>2. /\ tcall' = [tcall EXCEPT ![c] = x] /\ tcall[c].pc = "context"
        /\ UNCHANGED <<truth, validation, reports>>
    BY <1>2 DEF Analyse, At
  <2> HIDE DEF b
  <2>3. /\ x \in TruthCall /\ x.pc = "put" /\ x.id = tcall[c].id
        /\ x.revision = tcall[c].revision
    BY <1>0, <2>1 DEF TruthCall
  <2> HIDE DEF x
  <2>4. tcall'[c] = x
    BY <2>2 DEF TruthInv, TruthShape
  <2>5. TruthCallOK(c)'
    BY <1>0, <2>2, <2>3, <2>4 DEF TruthCallOK, Writing, Decisive
  <2> QED
    BY <2>2, <2>3, <2>5, TruthCallMoves DEF Writing
<1>3. ASSUME NEW v \in Validations, PutReport(c, v) PROVE TruthInv'
  <2> DEFINE x == [tcall[c] EXCEPT !.pc = "batch", !.run = v]
  <2>1. /\ tcall' = [tcall EXCEPT ![c] = x] /\ tcall[c].pc = "put"
        /\ UNCHANGED <<truth, validation>> /\ reports' = reports \cup {v}
        /\ v \notin reports /\ validation[v].of = None
    BY <1>3 DEF PutReport, At, Unused
  <2>2. /\ x \in TruthCall /\ x.pc = "batch" /\ x.id = tcall[c].id
        /\ x.revision = tcall[c].revision /\ x.run = v
    BY <1>0 DEF TruthCall
  <2> HIDE DEF x
  <2>3. /\ tcall' \in [Calls -> TruthCall] /\ tcall'[c] = x
        /\ \A d \in Calls : d # c => tcall'[d] = tcall[d]
    BY <2>1, <2>2 DEF TruthInv, TruthShape
  <2>4. TruthShape'
    BY <2>1, <2>3 DEF TruthInv, TruthShape, ValidationIds
  <2>5. OwnReports'
    BY <2>1, <2>2, <2>3 DEF TruthInv, OwnReports, TruthCallOK
  <2>6. \A g \in Versions : Rested(g)'
    BY <2>1 DEF TruthInv, Rested
  <2>7. ASSUME NEW d \in Calls PROVE TruthCallOK(d)'
    <3>1. CASE d = c
      BY <1>0, <2>1, <2>2, <2>3, <3>1 DEF TruthCallOK, Writing, Decisive
    <3>2. CASE d # c
      BY <2>1, <2>3, <3>2 DEF TruthInv, TruthCallOK
    <3> QED
      BY <3>1, <3>2
  <2> QED
    BY <2>4, <2>5, <2>6, <2>7 DEF TruthInv
<1>4. CASE ValidateCommit(c)
  <2>1. tcall[c].pc = "batch" /\ reports' = reports
    BY <1>4 DEF ValidateCommit, At
  <2> DEFINE x == [tcall[c] EXCEPT !.pc = "catch"]
  <2>2. /\ x \in TruthCall /\ x.pc = "catch" /\ x.id = tcall[c].id
        /\ x.revision = tcall[c].revision /\ x.run = tcall[c].run
    BY <1>0 DEF TruthCall
  <2>3. CASE ValidateBatch(c) /\ Validatable(c)
    <3>1. Return(c) \/ Goto(c, "catch")
      BY <1>4, <2>3 DEF ValidateCommit
    <3>2. CASE Return(c)
      BY <2>1, <2>3, <3>2, IdleTruthCall, BatchKeeps DEF Return
    <3>3. CASE Goto(c, "catch")
      <4>1. tcall' = [tcall EXCEPT ![c] = x]
        BY <3>3 DEF Goto
      <4> HIDE DEF x
      <4> QED
        BY <2>1, <2>2, <2>3, <4>1, BatchKeeps
    <3> QED
      BY <3>1, <3>2, <3>3
  <2>4. CASE ~(ValidateBatch(c) /\ Validatable(c))
    <3>1. UNCHANGED <<truth, validation>>
      BY <1>4, <2>4 DEF ValidateCommit, ValidateBatch
    <3>2. Goto(c, "discard") \/ Goto(c, "catch")
      BY <1>4, <2>4 DEF ValidateCommit
    <3>3. validation[tcall[c].run].of = None
      BY <1>0, <2>1 DEF TruthCallOK
    <3> QED
      BY <2>1, <3>1, <3>2, <3>3, TruthGoes
  <2> QED
    BY <2>3, <2>4
<1>5. CASE ValidateCatch(c)
  <2>1. /\ tcall[c].pc = "catch" /\ UNCHANGED <<truth, validation, reports>>
        /\ \/ Return(c)
           \/ Goto(c, "discard") /\ validation[tcall[c].run].of = None
    BY <1>5 DEF ValidateCatch, At, Committed
  <2> QED
    BY <2>1, TruthReturns, TruthGoes
<1>6. CASE DiscardReport(c)
  <2> DEFINE v == tcall[c].run
  <2>1. /\ tcall[c].pc = "discard" /\ reports' = reports \ {v}
        /\ UNCHANGED <<truth, validation>> /\ tcall' = [tcall EXCEPT ![c] = Idle]
    BY <1>6 DEF DiscardReport, At, Return
  <2>2. validation[v].of = None /\ v \in reports
    BY <1>0, <2>1 DEF TruthCallOK, Writing
  <2>3. /\ tcall' \in [Calls -> TruthCall] /\ tcall'[c] = Idle
        /\ \A d \in Calls : d # c => tcall'[d] = tcall[d]
    BY <2>1, IdleTruthCall DEF TruthInv, TruthShape
  <2>4. TruthShape'
    BY <2>1, <2>3 DEF TruthInv, TruthShape
  <2>5. OwnReports'
    BY <2>3, IdleTruthCall DEF TruthInv, OwnReports, Writing
  <2>6. \A g \in Versions : Rested(g)'
    BY <2>1, <2>2, GroundTruthAssumption DEF TruthInv, Rested
  <2>7. ASSUME NEW d \in Calls PROVE TruthCallOK(d)'
    <3>1. CASE d = c
      BY <2>3, <3>1, IdleTruthCall DEF TruthCallOK, Writing, Decisive
    <3>2. CASE d # c
      <4>1. tcall[d].pc \in Writing => tcall[d].run # v
        BY <2>1, <3>2 DEF TruthInv, OwnReports, Writing
      <4> QED
        BY <2>1, <2>3, <3>2, <4>1 DEF TruthInv, TruthCallOK
    <3> QED
      BY <3>1, <3>2
  <2> QED
    BY <2>4, <2>5, <2>6, <2>7 DEF TruthInv
<1> QED
  BY <1>1, <1>2, <1>3, <1>4, <1>5, <1>6 DEF Validating

\* A decision moves one row on, from what it read of it.
LEMMA DecideKeeps ==
    ASSUME TruthInv, NEW c \in Calls, tcall[c].pc = "decide", Decidable(c),
           DecideBatch(c), UNCHANGED <<validation, reports>>, Return(c)
    PROVE  TruthInv'
<1> DEFINE g == tcall[c].id
           row == [status |-> Outcome(tcall[c].action),
                   revision |-> truth[g].revision + 1,
                   latest |-> truth[g].latest, by |-> tcall[c].replacement]
<1>1. /\ tcall[c] \in TruthCall /\ g \in Versions /\ truth[g] \in Version
      /\ tcall[c].action \in {"approve", "reject", "supersede"}
      /\ tcall[c].revision = truth[g].revision
      /\ tcall[c].action = "approve" => truth[g].status = "valid"
      /\ tcall[c].action = "supersede" => truth[g].status = "approved"
  BY DEF TruthInv, TruthShape, TruthCallOK, Decisive, Decidable, TruthCall
<1>2. truth' = [truth EXCEPT ![g] = row]
  BY DEF DecideBatch
<1>3. Outcome(tcall[c].action) =
          IF tcall[c].action = "approve" THEN "approved"
          ELSE IF tcall[c].action = "reject" THEN "rejected" ELSE "superseded"
  BY <1>1 DEF Outcome
<1>4. /\ row \in Version /\ row.revision = truth[g].revision + 1
      /\ row.latest = truth[g].latest
      /\ row.status \in {"approved", "superseded"} =>
            truth[g].status \in {"valid", "approved"}
      /\ row.status # "valid"
  BY <1>1, <1>3 DEF Version, TruthCall
<1> HIDE DEF row
<1>5. /\ truth' \in [Versions -> Version] /\ truth'[g] = row
      /\ \A h \in Versions : h # g => truth'[h] = truth[h]
  BY <1>1, <1>2, <1>4 DEF TruthInv, TruthShape
<1>6. /\ tcall' \in [Calls -> TruthCall] /\ tcall'[c] = Idle
      /\ \A d \in Calls : d # c => tcall'[d] = tcall[d]
  BY IdleTruthCall DEF Return, TruthInv, TruthShape
<1>7. TruthShape'
  BY <1>5, <1>6 DEF TruthInv, TruthShape
<1>8. OwnReports'
  BY <1>6, IdleTruthCall DEF TruthInv, OwnReports, Writing
<1>9. ASSUME NEW h \in Versions PROVE Rested(h)'
  <2>1. CASE h = g
    BY <1>4, <1>5, <2>1 DEF TruthInv, Rested
  <2>2. CASE h # g
    BY <1>5, <2>2 DEF TruthInv, Rested
  <2> QED
    BY <2>1, <2>2
<1>10. ASSUME NEW d \in Calls PROVE TruthCallOK(d)'
  <2>1. CASE d = c
    BY <1>6, <2>1, IdleTruthCall DEF TruthCallOK, Writing, Decisive
  <2>2. CASE d # c
    <3>1. TruthCallOK(d) /\ tcall'[d] = tcall[d] /\ tcall[d] \in TruthCall
      BY <1>6, <2>2 DEF TruthInv, TruthShape
    <3>2. tcall[d].pc # "idle" => /\ tcall[d].id \in Versions
                                  /\ tcall[d].revision <= truth'[tcall[d].id].revision
      BY <1>1, <1>4, <1>5, <3>1 DEF TruthCallOK, Version, TruthCall
    <3>3. tcall[d].pc \in Decisive /\ tcall[d].id = g =>
              tcall[d].revision # truth'[g].revision
      BY <1>1, <1>4, <1>5, <3>1 DEF TruthCallOK, Version, TruthCall, Decisive
    <3> QED
      BY <1>5, <3>1, <3>2, <3>3 DEF TruthCallOK, Decisive
  <2> QED
    BY <2>1, <2>2
<1> QED
  BY <1>7, <1>8, <1>9, <1>10 DEF TruthInv

LEMMA DecidingKeeps ==
    ASSUME TruthInv, NEW c \in Calls, Deciding(c)
    PROVE  TruthInv'
<1>0. tcall[c] \in TruthCall /\ TruthCallOK(c)
  BY DEF TruthInv, TruthShape
<1>1. ASSUME NEW g \in Versions, Approve(c, g) PROVE TruthInv'
  <2>1. /\ tcall' = [tcall EXCEPT ![c] = Request(g, "approve", "verify", None)]
        /\ UNCHANGED <<truth, validation, reports>> /\ truth[g].status = "valid"
    BY <1>1 DEF Approve
  <2> QED
    BY <2>1, RequestStarts
<1>2. ASSUME NEW g \in Versions, Reject(c, g) PROVE TruthInv'
  <2>1. /\ tcall' = [tcall EXCEPT ![c] = Request(g, "reject", "decide", None)]
        /\ UNCHANGED <<truth, validation, reports>>
    BY <1>2 DEF Reject
  <2> QED
    BY <2>1, RequestStarts
<1>3. ASSUME NEW g \in Versions, NEW h \in Versions, Supersede(c, g, h)
      PROVE  TruthInv'
  <2>1. /\ tcall' = [tcall EXCEPT ![c] = Request(g, "supersede", "replacement", h)]
        /\ UNCHANGED <<truth, validation, reports>>
    BY <1>3 DEF Supersede
  <2> QED
    BY <2>1, RequestStarts
<1>4. CASE VerifyReport(c) \/ CheckReplacement(c)
  <2>1. /\ UNCHANGED <<truth, validation, reports>>
        /\ tcall[c].pc \in {"verify", "eligible"}
        /\ Return(c) \/ Goto(c, "decide")
    BY <1>4 DEF VerifyReport, CheckReplacement, At
  <2> QED
    BY <2>1, TruthReturns, TruthGoes
<1>5. CASE ReadReplacement(c)
  <2> DEFINE h == tcall[c].replacement
             x == [tcall[c] EXCEPT !.pc = "eligible", !.expected = truth[h].revision]
  <2>1. UNCHANGED <<truth, validation, reports>> /\ tcall[c].pc = "replacement"
    BY <1>5 DEF ReadReplacement, At
  <2>2. CASE Return(c)
    BY <2>1, <2>2, TruthReturns
  <2>3. CASE tcall' = [tcall EXCEPT ![c] = x] /\ h \in Versions
    <3>1. truth[h].revision \in Nat
      BY <2>3 DEF TruthInv, TruthShape, Version
    <3>2. /\ x \in TruthCall /\ x.pc = "eligible" /\ x.id = tcall[c].id
          /\ x.revision = tcall[c].revision /\ x.action = tcall[c].action
          /\ x.replacement = h
      BY <1>0, <3>1 DEF TruthCall
    <3> HIDE DEF x
    <3>3. tcall'[c] = x
      BY <2>3 DEF TruthInv, TruthShape
    <3>4. TruthCallOK(c)'
      BY <1>0, <2>1, <3>2, <3>3 DEF TruthCallOK, Writing, Decisive
    <3> QED
      BY <2>1, <2>3, <3>2, <3>4, TruthCallMoves DEF Writing
  <2>4. h \in Versions
    BY <1>0, <2>1 DEF TruthCallOK
  <2> QED
    BY <1>5, <2>2, <2>3, <2>4 DEF ReadReplacement
<1>6. CASE DecideCommit(c)
  <2>1. /\ tcall[c].pc = "decide" /\ UNCHANGED <<validation, reports>> /\ Return(c)
        /\ truth' = truth \/ (Decidable(c) /\ DecideBatch(c))
    BY <1>6 DEF DecideCommit, At, DecideBatch
  <2> QED
    BY <2>1, TruthReturns, DecideKeeps
<1> QED
  BY <1>1, <1>2, <1>3, <1>4, <1>5, <1>6 DEF Deciding

LEMMA TruthStep == TruthInv /\ [TruthNext]_truthVars => TruthInv'
<1> SUFFICES ASSUME TruthInv, [TruthNext]_truthVars PROVE TruthInv'
  OBVIOUS
<1>1. CASE UNCHANGED truthVars \/ \E g \in Versions : EvidenceLost(g)
  BY <1>1, TruthStutters DEF truthVars, EvidenceLost
<1>2. CASE \E c \in Calls : Validating(c) \/ Deciding(c)
  BY <1>2, ValidatingKeeps, DecidingKeeps
<1> QED
  BY <1>1, <1>2 DEF TruthNext

\* An approved version keeps the report it was approved on, whatever
\* validations and decisions overlap (validate, decide).
THEOREM ApprovalKeepsReport == TruthSpec => []ApprovedOnReport
<1>1. TruthInv => ApprovedOnReport
  <2> SUFFICES ASSUME TruthInv, NEW g \in Versions,
                      truth[g].status \in {"approved", "superseded"}
               PROVE  LET v == truth[g].latest
                      IN  /\ v # None
                          /\ validation[v] = [of |-> g, passed |-> TRUE]
                          /\ v \in reports
    BY DEF ApprovedOnReport
  <2>1. Rested(g) /\ reports \subseteq ValidationIds
        /\ validation \in [ValidationIds -> Validation]
    BY DEF TruthInv, TruthShape
  <2>2. truth[g].latest \in ValidationIds /\ truth[g].latest # None
    BY <2>1, GroundTruthAssumption DEF Rested, ValidationIds
  <2>3. validation[truth[g].latest] \in Validation
    BY <2>1, <2>2
  <2> QED
    BY <2>1, <2>2, <2>3 DEF Rested, Validation
<1> QED
  BY <1>1, TruthStarts, TruthStep, PTL DEF TruthSpec

-----------------------------------------------------------------------------
(***************************************************************************)
(* Replacements                                                            *)
(***************************************************************************)

\* A supersession in flight names another version, of the same template once
\* it has read it.
ReplacementFound(x) ==
    /\ x.pc = "verify" => x.action # "supersede"
    /\ x.pc \in Decisive /\ x.action = "supersede" =>
          /\ x.replacement \in Versions /\ x.replacement # x.id
          /\ x.pc \in {"eligible", "decide"} => Template[x.replacement] = Template[x.id]

ReplacementOK(c) == ReplacementFound(tcall[c])

ReplacementInv ==
    TruthInv /\ SupersessionEnds /\ \A c \in Calls : ReplacementOK(c)

LEMMA ReplacementStarts == TruthInit => ReplacementInv
<1> SUFFICES ASSUME TruthInit PROVE ReplacementInv
  OBVIOUS
<1>1. TruthInv
  BY TruthStarts
<1>2. \A g \in Versions : truth[g].status # "superseded"
  BY DEF TruthInit
<1>3. \A c \in Calls : tcall[c].pc = "idle"
  BY IdleTruthCall DEF TruthInit
<1> QED
  BY <1>1, <1>2, <1>3 DEF ReplacementInv, SupersessionEnds, Superseded, ReplacementOK,
     ReplacementFound, Decisive

\* One call moves, to a record of which the same holds.
LEMMA OneReplacement ==
    ASSUME TruthInv, \A d \in Calls : ReplacementOK(d), NEW c \in Calls, NEW x,
           tcall' = [tcall EXCEPT ![c] = x],
           ReplacementFound(x)
    PROVE  \A d \in Calls : ReplacementOK(d)'
<1>1. tcall'[c] = x /\ \A d \in Calls \ {c} : tcall'[d] = tcall[d]
  BY DEF TruthInv, TruthShape
<1> QED
  BY <1>1 DEF ReplacementOK

LEMMA ReplacementsStay ==
    ASSUME TruthInv, \A d \in Calls : ReplacementOK(d), NEW c \in Calls,
           Validating(c) \/ Deciding(c)
    PROVE  \A d \in Calls : ReplacementOK(d)'
<1>0. /\ tcall[c] \in TruthCall /\ TruthCallOK(c) /\ ReplacementOK(c)
      /\ Idle.pc \notin Decisive
  BY IdleTruthCall DEF TruthInv, TruthShape, Decisive
<1>1. CASE Return(c)
  BY <1>0, <1>1, OneReplacement DEF Return, ReplacementFound, Decisive
<1>2. ASSUME NEW pc \in {"catch", "discard", "decide"}, Goto(c, pc),
             pc = "decide" => tcall[c].pc \in {"verify", "eligible"}
      PROVE  \A d \in Calls : ReplacementOK(d)'
  <2>1. PICK x : x = [tcall[c] EXCEPT !.pc = pc]
    OBVIOUS
  <2>2. /\ x.pc = pc /\ x.action = tcall[c].action /\ x.id = tcall[c].id
        /\ x.replacement = tcall[c].replacement
    BY <1>0, <2>1 DEF TruthCall
  <2>3. tcall' = [tcall EXCEPT ![c] = x]
    BY <1>2, <2>1 DEF Goto
  <2>4. tcall[c].pc = "verify" => tcall[c].action # "supersede"
    BY <1>0 DEF ReplacementOK, ReplacementFound
  <2>5. ReplacementFound(x)
    BY <1>0, <1>2, <2>2, <2>4 DEF ReplacementOK, ReplacementFound, Decisive
  <2> QED
    BY <2>3, <2>5, OneReplacement
<1>3. ASSUME NEW g \in Versions, NEW action, NEW pc, NEW h,
             tcall' = [tcall EXCEPT ![c] = Request(g, action, pc, h)],
             action = "supersede" => pc = "replacement" /\ h \in Versions /\ h # g
      PROVE  \A d \in Calls : ReplacementOK(d)'
  <2>1. PICK x : x = Request(g, action, pc, h)
    OBVIOUS
  <2>2. x.pc = pc /\ x.action = action /\ x.id = g /\ x.replacement = h
    BY <2>1 DEF Request
  <2> QED
    BY <1>3, <2>1, <2>2, OneReplacement DEF ReplacementFound
<1>4. ASSUME NEW x, tcall' = [tcall EXCEPT ![c] = x], x.pc \in {"put", "batch"}
      PROVE  \A d \in Calls : ReplacementOK(d)'
  BY <1>4, OneReplacement DEF ReplacementFound, Decisive
<1>5. CASE Validating(c)
  <2>1. ASSUME NEW g \in Versions, Validate(c, g)
        PROVE  \A d \in Calls : ReplacementOK(d)'
    <3>1. tcall' = [tcall EXCEPT ![c] = Request(g, "validate", "context", None)]
      BY <2>1 DEF Validate
    <3> QED
      BY <1>3, <3>1
  <2>2. CASE Analyse(c)
    <3>1. PICK x : x = [tcall[c] EXCEPT !.pc = "put",
                          !.passed = Context(tcall[c].id) /\ Adequate(tcall[c].id)]
      OBVIOUS
    <3>2. x.pc = "put"
      BY <1>0, <3>1 DEF TruthCall
    <3> QED
      BY <1>4, <2>2, <3>1, <3>2 DEF Analyse
  <2>3. ASSUME NEW v \in Validations, PutReport(c, v)
        PROVE  \A d \in Calls : ReplacementOK(d)'
    <3>1. PICK x : x = [tcall[c] EXCEPT !.pc = "batch", !.run = v]
      OBVIOUS
    <3>2. x.pc = "batch"
      BY <1>0, <3>1 DEF TruthCall
    <3> QED
      BY <1>4, <2>3, <3>1, <3>2 DEF PutReport
  <2>4. CASE ValidateCommit(c) \/ ValidateCatch(c) \/ DiscardReport(c)
    <3>1. Return(c) \/ Goto(c, "catch") \/ Goto(c, "discard")
      BY <2>4 DEF ValidateCommit, ValidateCatch, DiscardReport
    <3> QED
      BY <1>1, <1>2, <3>1
  <2> QED
    BY <1>5, <2>1, <2>2, <2>3, <2>4 DEF Validating
<1>6. CASE Deciding(c)
  <2>1. ASSUME NEW g \in Versions, Approve(c, g) \/ Reject(c, g)
        PROVE  \A d \in Calls : ReplacementOK(d)'
    <3>1. \/ tcall' = [tcall EXCEPT ![c] = Request(g, "approve", "verify", None)]
          \/ tcall' = [tcall EXCEPT ![c] = Request(g, "reject", "decide", None)]
      BY <2>1 DEF Approve, Reject
    <3> QED
      BY <1>3, <3>1
  <2>2. ASSUME NEW g \in Versions, NEW h \in Versions, Supersede(c, g, h)
        PROVE  \A d \in Calls : ReplacementOK(d)'
    <3>1. tcall' = [tcall EXCEPT ![c] = Request(g, "supersede", "replacement", h)]
          /\ h # g
      BY <2>2 DEF Supersede
    <3> QED
      BY <1>3, <3>1
  <2>3. CASE VerifyReport(c) \/ CheckReplacement(c)
    <3>1. (Return(c) \/ Goto(c, "decide")) /\ tcall[c].pc \in {"verify", "eligible"}
      BY <2>3 DEF VerifyReport, CheckReplacement, At
    <3> QED
      BY <1>1, <1>2, <3>1
  <2>4. CASE ReadReplacement(c)
    <3>1. CASE Return(c)
      BY <1>1, <3>1
    <3>2. CASE Replaceable(c)
      <4>1. PICK x : x = [tcall[c] EXCEPT !.pc = "eligible",
                            !.expected = truth[tcall[c].replacement].revision]
        OBVIOUS
      <4>2. /\ x.pc = "eligible" /\ x.action = tcall[c].action /\ x.id = tcall[c].id
            /\ x.replacement = tcall[c].replacement
        BY <1>0, <4>1 DEF TruthCall
      <4>3. tcall' = [tcall EXCEPT ![c] = x] /\ tcall[c].pc = "replacement"
        BY <2>4, <3>2, <4>1 DEF ReadReplacement, At
      <4> QED
        BY <1>0, <3>2, <4>2, <4>3, OneReplacement
        DEF ReplacementOK, ReplacementFound, Replaceable, Decisive, TruthCallOK
    <3> QED
      BY <2>4, <3>1, <3>2 DEF ReadReplacement
  <2>5. CASE DecideCommit(c)
    BY <1>1, <2>5 DEF DecideCommit
  <2> QED
    BY <1>6, <2>1, <2>2, <2>3, <2>4, <2>5 DEF Deciding
<1> QED
  BY <1>5, <1>6

\* Either no version is superseded, and pending ones at most change; or one
\* approved version is, by another approved one.
LEMMA RowsMove ==
    ASSUME TruthInv, \A d \in Calls : ReplacementOK(d), NEW c \in Calls,
           Validating(c) \/ Deciding(c)
    PROVE  \/ \A g \in Versions :
                 \/ truth'[g] = truth[g]
                 \/ /\ truth[g].status \in Pending
                    /\ truth'[g].status # "superseded"
           \/ \E g \in Versions, h \in Versions :
                 /\ g # h /\ Template[h] = Template[g]
                 /\ truth[g].status = "approved" /\ truth[h].status = "approved"
                 /\ truth'[g].status = "superseded" /\ truth'[g].by = h
                 /\ \A v \in Versions \ {g} : truth'[v] = truth[v]
<1> DEFINE g == tcall[c].id
<1>0. /\ tcall[c] \in TruthCall /\ TruthCallOK(c) /\ ReplacementOK(c)
      /\ truth \in [Versions -> Version]
  BY DEF TruthInv, TruthShape
<1>1. CASE UNCHANGED truth
  BY <1>1
<1>2. CASE ValidateCommit(c) /\ truth' # truth
  <2>1. ValidateBatch(c) /\ Validatable(c) /\ tcall[c].pc = "batch"
    BY <1>2 DEF ValidateCommit, ValidateBatch, At
  <2>2. g \in Versions /\ truth[g].status \in Pending
    BY <1>0, <2>1 DEF TruthCallOK, Validatable
  <2>3. PICK x : /\ truth' = [truth EXCEPT ![g] = x] /\ x.status # "superseded"
    BY <2>1 DEF ValidateBatch
  <2> QED
    BY <1>0, <2>2, <2>3
<1>3. CASE DecideCommit(c) /\ truth' # truth
  <2>1. DecideBatch(c) /\ Decidable(c) /\ tcall[c].pc = "decide"
    BY <1>3 DEF DecideCommit, DecideBatch, At
  <2>2. PICK x : /\ truth' = [truth EXCEPT ![g] = x]
                 /\ x.status = Outcome(tcall[c].action)
                 /\ x.by = tcall[c].replacement
    BY <2>1 DEF DecideBatch
  <2>3. g \in Versions /\ tcall[c].action \in {"approve", "reject", "supersede"}
    BY <1>0, <2>1 DEF TruthCallOK, Decisive, TruthCall
  <2>4. CASE tcall[c].action # "supersede"
    <3>1. truth[g].status \in Pending /\ x.status # "superseded"
      BY <2>1, <2>2, <2>3, <2>4 DEF Decidable, Outcome
    <3> QED
      BY <1>0, <2>2, <2>3, <3>1
  <2>5. CASE tcall[c].action = "supersede"
    <3>1. x.status = "superseded" /\ truth[g].status = "approved"
      BY <2>1, <2>2, <2>5 DEF Decidable, Outcome
    <3>2. /\ x.by \in Versions /\ x.by # g /\ Template[x.by] = Template[g]
      BY <1>0, <2>1, <2>2, <2>5 DEF ReplacementOK, ReplacementFound, Decisive
    <3>3. truth[x.by].status = "approved"
      BY <2>1, <2>2, <3>2, GroundTruthAssumption DEF Decidable, ReplacementHolds
    <3> HIDE DEF g
    <3> QED
      BY <1>0, <2>2, <2>3, <3>1, <3>2, <3>3
  <2> QED
    BY <2>4, <2>5
<1> QED
  BY <1>1, <1>2, <1>3 DEF Validating, Deciding, Validate, Analyse, ValidateCatch,
     DiscardReport, PutReport, Approve, Reject, Supersede, VerifyReport,
     ReadReplacement, CheckReplacement

LEMMA ReplacementStep == ReplacementInv /\ [TruthNext]_truthVars => ReplacementInv'
<1> SUFFICES ASSUME ReplacementInv, [TruthNext]_truthVars PROVE ReplacementInv'
  OBVIOUS
<1>1. TruthInv /\ TruthInv' /\ SupersessionEnds /\ \A c \in Calls : ReplacementOK(c)
  BY TruthStep DEF ReplacementInv
<1>2. CASE UNCHANGED <<truth, tcall>>
  BY <1>1, <1>2 DEF ReplacementInv, SupersessionEnds, Superseded, ReplacementOK
<1>3. ASSUME NEW c \in Calls, Validating(c) \/ Deciding(c) PROVE ReplacementInv'
  <2>1. \A d \in Calls : ReplacementOK(d)'
    BY <1>1, <1>3, ReplacementsStay
  <2>2. CASE \A g \in Versions : \/ truth'[g] = truth[g]
                                 \/ /\ truth[g].status \in Pending
                                    /\ truth'[g].status # "superseded"
    <3>1. Superseded' = Superseded /\ \A g \in Superseded : truth'[g] = truth[g]
      BY <2>2 DEF Superseded, Pending
    <3>2. \A g \in Versions : truth[g].status \in {"approved", "superseded"} =>
             truth'[g] = truth[g]
      BY <2>2 DEF Pending
    <3>3. SupersessionEnds'
      BY <1>1, <3>1, <3>2 DEF SupersessionEnds
    <3> QED
      BY <1>1, <2>1, <3>3 DEF ReplacementInv
  <2>3. ASSUME NEW g \in Versions, NEW h \in Versions,
               g # h, Template[h] = Template[g],
               truth[g].status = "approved", truth[h].status = "approved",
               truth'[g].status = "superseded", truth'[g].by = h,
               \A v \in Versions \ {g} : truth'[v] = truth[v]
        PROVE  SupersessionEnds'
    <3>1. Superseded' = Superseded \cup {g} /\ g \notin Superseded /\ h \notin Superseded'
      BY <2>3 DEF Superseded
    <3>2. \A v \in Superseded : truth'[v] = truth[v] /\ v \in Versions
      BY <2>3, <3>1 DEF Superseded
    <3>3. \A v \in Superseded' :
            /\ truth'[v].by \in Versions
            /\ truth'[truth'[v].by].status \in {"approved", "superseded"}
            /\ Template[truth'[v].by] = Template[v]
      <4>1. ASSUME NEW v \in Versions, truth[v].status \in {"approved", "superseded"}
            PROVE  truth'[v].status \in {"approved", "superseded"}
        BY <2>3, <4>1
      <4> QED
        BY <1>1, <2>3, <3>1, <3>2, <4>1 DEF SupersessionEnds
    <3>4. ASSUME NEW S \in SUBSET Superseded', S # {}
          PROVE  \E v \in S : truth'[v].by \notin S
      <4>1. CASE g \in S
        BY <2>3, <3>1, <4>1
      <4>2. CASE g \notin S
        <5>1. S \in SUBSET Superseded
          BY <3>1, <4>2
        <5>2. PICK v \in S : truth[v].by \notin S
          BY <1>1, <3>4, <5>1 DEF SupersessionEnds
        <5> QED
          BY <3>2, <5>1, <5>2
      <4> QED
        BY <4>1, <4>2
    <3> QED
      BY <3>3, <3>4 DEF SupersessionEnds
  <2> QED
    BY <1>1, <1>3, <2>1, <2>2, <2>3, RowsMove DEF ReplacementInv
<1> QED
  BY <1>2, <1>3 DEF TruthNext, EvidenceLost, truthVars

\* Replacements lead from a superseded version to an approved one of its
\* template, for any number of versions and of supersessions in flight: the
\* batch asserts that the replacement is still approved, at the revision that
\* was read (decide, replacementGuard).
THEOREM SupersessionsEnd == TruthSpec => []SupersessionEnds
<1>1. ReplacementInv => SupersessionEnds
  BY DEF ReplacementInv
<1> QED
  BY <1>1, ReplacementStarts, ReplacementStep, PTL DEF TruthSpec

-----------------------------------------------------------------------------
(***************************************************************************)
(* Models, releases and runs                                               *)
(***************************************************************************)

\* What each request is about, and the awaits it passes
GoodDecision ==
    {x \in DecisionCall : x.pc # "idle" =>
        /\ x.action = "run" => x.id \in Runs
        /\ x.action = "retire" => x.id \in Models
        /\ x.action \in {"approve", "reject"} => x.id \in Models \cup Releases
        /\ x.action \in {"create", "activate", "rollback"} => x.id \in Releases
        /\ x.action = "activate" => x.target = x.id
        /\ x.action = "rollback" => x.target \in Releases
        /\ x.action \notin {"activate", "rollback"} => x.target = None
        /\ x.pc = "unused" => x.action = "retire"
        /\ x.pc = "insert" => x.action = "create"
        /\ x.pc = "target" => x.action = "rollback"
        /\ x.pc = "evidence" => x.action \in {"approve", "reject", "activate", "rollback"}
        /\ x.pc = "truth" => x.action \notin {"create", "retire"}
        /\ x.pc \in {"release", "lookup"} => x.action = "run"
        /\ x.pc = "model" => x.action \in {"run", "activate", "rollback"}
        /\ x.pc = "commit" => x.action # "create"}

\* The status a decision has found with the revision
Found(action) ==
    CASE action = "activate" -> "approved"
      [] action = "rollback" -> "active"
      [] action = "retire" -> "approved"
      [] OTHER -> "candidate"

\* A row that still has the revision a request read has the status it read.
RowsOK(d) ==
    LET x == dcall[d]
    IN  x.pc # "idle" =>
        /\ x.id \in Models =>
              /\ x.revision <= model[x.id].revision
              /\ x.revision = model[x.id].revision =>
                    model[x.id].status = Found(x.action)
        /\ x.id \in Releases /\ x.action # "create" =>
              /\ x.revision <= release[x.id].revision
              /\ x.revision = release[x.id].revision =>
                    release[x.id].status = Found(x.action)
        /\ x.action = "create" => release[x.id].status = "none"
        /\ x.action = "run" => run[x.id] = "none"
        /\ x.action = "rollback" => x.expected <= release[x.target].revision
        /\ x.action = "rollback" /\ x.target = x.id /\ x.pc # "target" =>
              x.revision < release[x.id].revision

\* The revision of its target that a switch will ask for
TargetRevision(d) == IF dcall[d].action = "rollback" THEN dcall[d].expected
                                                     ELSE dcall[d].revision

\* A decision that has read its evidence holds a run of its model, a good one
\* unless it rejects, and the one its target is linked to.
EvidenceOK(d) ==
    LET x == dcall[d]
    IN  /\ x.pc \in {"truth", "commit"}
        /\ x.action \in {"approve", "reject", "activate", "rollback"}
        => /\ x.evidence \in Runs
           /\ Asks[x.evidence].model = ModelOf(d)
           /\ x.action # "reject" => run[x.evidence] = "good"
           /\ /\ x.action \in {"activate", "rollback"}
              /\ TargetRevision(d) = release[x.target].revision
              => x.evidence = release[x.target].evidence

GovernanceShape ==
    /\ model \in [Models -> Model]
    /\ release \in [Releases -> Release]
    /\ run \in [Runs -> RunStatus]
    /\ dcall \in [Deciders -> GoodDecision]

\* Two requests never create the same row.
OwnRows ==
    \A d, e \in Deciders :
        (/\ d # e /\ dcall[d].pc # "idle" /\ dcall[e].pc # "idle"
         /\ dcall[d].action \in {"create", "run"}) => dcall[d].id # dcall[e].id

GovernanceInv ==
    /\ GovernanceShape /\ OwnRows
    /\ \A d \in Deciders : RowsOK(d) /\ EvidenceOK(d)
    /\ ActiveModelApproved

LEMMA FreeIsGood == Free \in GoodDecision /\ Free.pc = "idle"
  BY DEF Free, DecisionOn, GoodDecision, DecisionCall, Decision

LEMMA GovernanceStarts == Init => GovernanceInv
<1> SUFFICES ASSUME Init PROVE GovernanceInv
  OBVIOUS
<1>1. model \in [Models -> Model]
  BY DEF Init, Model
<1>2. release \in [Releases -> Release] /\ run \in [Runs -> RunStatus]
  BY DEF Init, Release, RunStatus
<1>3. /\ dcall \in [Deciders -> GoodDecision]
      /\ \A d \in Deciders : dcall[d].pc = "idle"
  BY FreeIsGood DEF Init
<1>4. OwnRows /\ \A d \in Deciders : RowsOK(d) /\ EvidenceOK(d)
  BY <1>3 DEF OwnRows, RowsOK, EvidenceOK
<1>5. ActiveModelApproved
  BY DEF Init, ActiveModelApproved, ReleaseIs
<1> QED
  BY <1>1, <1>2, <1>3, <1>4, <1>5 DEF GovernanceInv, GovernanceShape

\* A request in flight is not disturbed by rows that move on.
LEMMA RequestSurvives ==
    ASSUME GovernanceInv, NEW d \in Deciders, dcall'[d] = dcall[d],
           release' \in [Releases -> Release], model' \in [Models -> Model],
           \A m \in Models : \/ model'[m] = model[m]
                             \/ model'[m].revision > model[m].revision,
           \A r \in Releases :
               \/ release'[r] = release[r]
               \/ /\ release[r].status # "none"
                  /\ release'[r].revision > release[r].revision,
           \A e \in Runs : run'[e] = run[e] \/ run[e] = "queued"
    PROVE  RowsOK(d)' /\ EvidenceOK(d)'
<1> DEFINE x == dcall[d]
<1>1. x \in GoodDecision /\ x \in DecisionCall /\ RowsOK(d) /\ EvidenceOK(d)
  BY DEF GovernanceInv, GovernanceShape, GoodDecision
<1>2. x.revision \in Nat /\ x.expected \in Nat
  BY <1>1 DEF DecisionCall
<1>3. /\ \A m \in Models : model[m].revision \in Nat /\ model'[m].revision \in Nat
      /\ \A r \in Releases : release[r].revision \in Nat
                             /\ release'[r].revision \in Nat
  BY DEF GovernanceInv, GovernanceShape, Model, Release
<1>4. RowsOK(d)'
  BY <1>1, <1>2, <1>3 DEF RowsOK, GoodDecision
<1>5. EvidenceOK(d)'
  <2> SUFFICES ASSUME x.pc \in {"truth", "commit"},
                      x.action \in {"approve", "reject", "activate", "rollback"}
               PROVE  /\ x.evidence \in Runs
                      /\ Asks[x.evidence].model = ModelOf(d)'
                      /\ x.action # "reject" => run'[x.evidence] = "good"
                      /\ /\ x.action \in {"activate", "rollback"}
                         /\ TargetRevision(d)' = release'[x.target].revision
                         => x.evidence = release'[x.target].evidence
    BY DEF EvidenceOK
  <2>1. ModelOf(d)' = ModelOf(d) /\ TargetRevision(d)' = TargetRevision(d)
    BY DEF ModelOf, TargetRevision
  <2>2. x.action \in {"activate", "rollback"} =>
            x.target \in Releases /\ TargetRevision(d) <= release[x.target].revision
    BY <1>1, <1>2 DEF GoodDecision, RowsOK, TargetRevision
  <2> QED
    BY <1>1, <1>2, <1>3, <2>1, <2>2 DEF EvidenceOK, TargetRevision
<1> QED
  BY <1>4, <1>5

\* Steps of one request that write no row
LEMMA RequestMoves ==
    ASSUME GovernanceInv, UNCHANGED <<model, release, run>>,
           NEW d \in Deciders, NEW x \in GoodDecision, dcall' = [dcall EXCEPT ![d] = x],
           RowsOK(d)', EvidenceOK(d)',
           x.pc # "idle" =>
               \/ /\ dcall[d].pc # "idle" /\ x.id = dcall[d].id
                  /\ x.action = dcall[d].action
               \/ \A e \in Deciders \ {d} : dcall[e].pc # "idle" => dcall[e].id # x.id
               \/ /\ x.action \notin {"create", "run"}
                  /\ \A e \in Deciders \ {d} :
                        dcall[e].pc # "idle" /\ dcall[e].action \in {"create", "run"}
                            => dcall[e].id # x.id
    PROVE  GovernanceInv'
<1>1. /\ dcall' \in [Deciders -> GoodDecision] /\ dcall'[d] = x
      /\ \A e \in Deciders : e # d => dcall'[e] = dcall[e]
  BY DEF GovernanceInv, GovernanceShape
<1>2. GovernanceShape'
  BY <1>1 DEF GovernanceInv, GovernanceShape
<1>3. OwnRows'
  BY <1>1 DEF GovernanceInv, OwnRows
<1>4. ASSUME NEW e \in Deciders, e # d PROVE RowsOK(e)' /\ EvidenceOK(e)'
  BY <1>1, <1>4, RequestSurvives DEF GovernanceInv, GovernanceShape
<1>5. ActiveModelApproved'
  BY DEF GovernanceInv, ActiveModelApproved, ReleaseIs, ModelIs
<1> QED
  BY <1>2, <1>3, <1>4, <1>5 DEF GovernanceInv

LEMMA RequestAnswers ==
    ASSUME GovernanceInv, UNCHANGED <<model, release, run>>,
           NEW d \in Deciders, Answer(d)
    PROVE  GovernanceInv'
<1>1. dcall' = [dcall EXCEPT ![d] = Free] /\ dcall'[d] = Free
  BY DEF Answer, GovernanceInv, GovernanceShape
<1>2. RowsOK(d)' /\ EvidenceOK(d)'
  BY <1>1, FreeIsGood DEF RowsOK, EvidenceOK
<1> QED
  BY <1>1, <1>2, FreeIsGood, RequestMoves

\* A request goes on to an await that its kind may reach, not past evidence.
LEMMA RequestGoes ==
    ASSUME GovernanceInv, UNCHANGED <<model, release, run>>, NEW d \in Deciders,
           NEW pc \in {"release", "lookup", "model", "evidence", "commit"},
           Continue(d, pc),
           \/ dcall[d].pc \in {"truth", "model", "release", "lookup"}
                 /\ dcall[d].action = "run" /\ pc # "evidence"
           \/ dcall[d].pc = "unused" /\ pc = "commit"
           \/ dcall[d].pc = "truth" /\ dcall[d].action # "run" /\ pc = "commit"
           \/ dcall[d].pc = "model" /\ dcall[d].action # "run" /\ pc = "evidence"
    PROVE  GovernanceInv'
<1> DEFINE x == [dcall[d] EXCEPT !.pc = pc]
<1>1. /\ dcall[d] \in GoodDecision /\ dcall[d] \in DecisionCall
      /\ RowsOK(d) /\ EvidenceOK(d)
  BY DEF GovernanceInv, GovernanceShape, GoodDecision
<1>2. /\ x \in DecisionCall /\ x.pc = pc /\ x.id = dcall[d].id
      /\ x.revision = dcall[d].revision /\ x.action = dcall[d].action
      /\ x.target = dcall[d].target /\ x.expected = dcall[d].expected
      /\ x.evidence = dcall[d].evidence
  BY <1>1 DEF DecisionCall
<1>3. dcall' = [dcall EXCEPT ![d] = x] /\ dcall'[d] = x
  BY DEF Continue, GovernanceInv, GovernanceShape
<1> HIDE DEF x
<1>4. x \in GoodDecision
  BY <1>1, <1>2 DEF GoodDecision
<1>5. RowsOK(d)'
  BY <1>1, <1>2, <1>3 DEF RowsOK
<1>6. EvidenceOK(d)'
  <2>1. ModelOf(d)' = ModelOf(d) /\ TargetRevision(d)' = TargetRevision(d)
    BY <1>2, <1>3 DEF ModelOf, TargetRevision
  <2> QED
    BY <1>1, <1>2, <1>3, <2>1 DEF EvidenceOK, GoodDecision
<1> QED
  BY <1>1, <1>2, <1>3, <1>4, <1>5, <1>6, RequestMoves

\* A request about a row it has just read, or is going to insert
LEMMA RequestOpens ==
    ASSUME GovernanceInv, UNCHANGED <<model, release, run>>, NEW d \in Deciders,
           NEW id \in Models \cup Releases \cup Runs, NEW action \in Decision,
           NEW pc \in {"unused", "target", "model", "evidence", "truth", "insert"},
           NEW revision \in Nat, NEW target \in Releases \cup {None},
           dcall' = [dcall EXCEPT ![d] = DecisionOn(id, action, pc, revision, target)],
           DecisionOn(id, action, pc, revision, target) \in GoodDecision,
           pc = "truth" => action = "run", action = "rollback" => pc = "target",
           id \in Models => revision = model[id].revision
                            /\ model[id].status = Found(action),
           (id \in Releases /\ action # "create") =>
               revision = release[id].revision /\ release[id].status = Found(action),
           action = "create" => release[id].status = "none",
           action = "run" => run[id] = "none",
           action \in {"create", "run"} =>
               \A e \in Deciders : dcall[e].id # id
    PROVE  GovernanceInv'
<1> DEFINE x == DecisionOn(id, action, pc, revision, target)
<1>1. /\ x.pc = pc /\ x.id = id /\ x.revision = revision /\ x.action = action
      /\ x.target = target /\ x.expected = 0
  BY DEF DecisionOn
<1>2. dcall' = [dcall EXCEPT ![d] = x] /\ dcall'[d] = x /\ x \in GoodDecision
  BY DEF GovernanceInv, GovernanceShape
<1> HIDE DEF x
<1>3. \A r \in Releases : release[r].revision \in Nat
  BY DEF GovernanceInv, GovernanceShape, Release
<1>4. RowsOK(d)'
  BY <1>1, <1>2, <1>3 DEF RowsOK, GoodDecision
<1>5. EvidenceOK(d)'
  BY <1>1, <1>2 DEF EvidenceOK
<1>6. ASSUME action \notin {"create", "run"}, NEW e \in Deciders \ {d},
             dcall[e].pc # "idle", dcall[e].action \in {"create", "run"}
      PROVE  dcall[e].id # id
  <2>1. RowsOK(e) /\ dcall[e] \in GoodDecision
    BY DEF GovernanceInv, GovernanceShape
  <2>2. id \in Models \cup Releases
    BY <1>1, <1>2, <1>6 DEF GoodDecision, Decision
  <2>3. CASE dcall[e].action = "create"
    <3>1. release[dcall[e].id].status = "none" /\ dcall[e].id \in Releases
      BY <1>6, <2>1, <2>3 DEF RowsOK, GoodDecision
    <3>2. Found(action) # "none"
      BY DEF Found
    <3> QED
      BY <1>6, <3>1, <3>2
  <2>4. CASE dcall[e].action = "run"
    <3>1. dcall[e].id \in Runs
      BY <1>6, <2>1, <2>4 DEF GoodDecision
    <3> QED
      BY <2>2, <3>1, GovernanceAssumption
  <2> QED
    BY <1>6, <2>3, <2>4
<1>7. CASE action \in {"create", "run"}
  <2>1. \A e \in Deciders \ {d} : dcall[e].pc # "idle" => dcall[e].id # x.id
    BY <1>1, <1>7
  <2> QED
    BY <1>2, <1>4, <1>5, <2>1, RequestMoves
<1>8. CASE action \notin {"create", "run"}
  <2>1. /\ x.action \notin {"create", "run"}
        /\ \A e \in Deciders \ {d} :
              dcall[e].pc # "idle" /\ dcall[e].action \in {"create", "run"}
                  => dcall[e].id # x.id
    BY <1>1, <1>6, <1>8
  <2> QED
    BY <1>2, <1>4, <1>5, <2>1, RequestMoves
<1> QED
  BY <1>7, <1>8

\* A request that ends in a batch which moves rows on
LEMMA BatchMoves ==
    ASSUME GovernanceInv, NEW d \in Deciders, Answer(d),
           release' \in [Releases -> Release], model' \in [Models -> Model],
           run' = run,
           \A m \in Models : \/ model'[m] = model[m]
                             \/ model'[m].revision > model[m].revision,
           \A r \in Releases :
               \/ release'[r] = release[r]
               \/ /\ release[r].status # "none"
                  /\ release'[r].revision > release[r].revision,
           ActiveModelApproved'
    PROVE  GovernanceInv'
<1>1. /\ dcall' \in [Deciders -> GoodDecision] /\ dcall'[d] = Free
      /\ \A e \in Deciders : e # d => dcall'[e] = dcall[e]
  BY FreeIsGood DEF Answer, GovernanceInv, GovernanceShape
<1>2. GovernanceShape'
  BY <1>1 DEF GovernanceInv, GovernanceShape
<1>3. OwnRows'
  BY <1>1, FreeIsGood DEF GovernanceInv, OwnRows
<1>4. ASSUME NEW e \in Deciders PROVE RowsOK(e)' /\ EvidenceOK(e)'
  <2>1. CASE e = d
    BY <1>1, <2>1, FreeIsGood DEF RowsOK, EvidenceOK
  <2>2. CASE e # d
    BY <1>1, <2>2, RequestSurvives
  <2> QED
    BY <2>1, <2>2
<1> QED
  BY <1>2, <1>3, <1>4 DEF GovernanceInv

LEMMA EvaluatingKeeps ==
    ASSUME GovernanceInv, NEW d \in Deciders, Evaluating(d)
    PROVE  GovernanceInv'
<1>0. dcall[d] \in GoodDecision /\ RowsOK(d)
  BY DEF GovernanceInv, GovernanceShape
<1>1. ASSUME NEW e \in Runs, CreateRun(d, e) PROVE GovernanceInv'
  <2>1. /\ dcall' = [dcall EXCEPT ![d] = DecisionOn(e, "run", "truth", 0, None)]
        /\ UNCHANGED <<model, release, run>> /\ run[e] = "none"
        /\ \A x \in Deciders : dcall[x].id # e
    BY <1>1 DEF CreateRun, OnlyCalls
  <2>2. e \notin Models \cup Releases
    BY GovernanceAssumption
  <2>3. DecisionOn(e, "run", "truth", 0, None) \in GoodDecision
    BY DEF DecisionOn, GoodDecision, DecisionCall, Decision
  <2> QED
    BY <2>1, <2>2, <2>3, RequestOpens DEF Decision
<1>2. CASE VerifyModel(d)
  <2>1. /\ dcall[d].pc = "model" /\ dcall[d].action = "run"
        /\ UNCHANGED <<model, release, run>>
        /\ \/ Answer(d)
           \/ \E pc \in {"release", "lookup", "commit"} : Continue(d, pc)
    BY <1>2 DEF VerifyModel, InState, OnlyCalls
  <2> QED
    BY <2>1, RequestAnswers, RequestGoes
<1>3. CASE ReadRelease(d)
  <2>1. /\ dcall[d].pc = "release" /\ UNCHANGED <<model, release, run>>
        /\ \/ Answer(d)
           \/ \E pc \in {"lookup", "commit"} : Continue(d, pc)
    BY <1>3 DEF ReadRelease, InState, OnlyCalls
  <2> QED
    BY <1>0, <2>1, RequestAnswers, RequestGoes DEF GoodDecision
<1>4. CASE LookUpKey(d)
  <2>1. /\ dcall[d].pc = "lookup" /\ UNCHANGED <<model, release, run>>
        /\ Answer(d) \/ Continue(d, "commit")
    BY <1>4 DEF LookUpKey, InState, OnlyCalls
  <2> QED
    BY <1>0, <2>1, RequestAnswers, RequestGoes DEF GoodDecision
<1>5. CASE InsertRun(d)
  <2> DEFINE e == dcall[d].id
  <2>1. /\ dcall[d].pc = "commit" /\ dcall[d].action = "run" /\ Answer(d)
        /\ UNCHANGED <<model, release>>
        /\ run' = run \/ run' = [run EXCEPT ![e] = "queued"]
    BY <1>5 DEF InsertRun, InState
  <2>2. e \in Runs /\ run[e] = "none"
    BY <1>0, <2>1 DEF GoodDecision, RowsOK
  <2>3. CASE run' = run
    BY <2>1, <2>3, RequestAnswers
  <2>4. CASE run' = [run EXCEPT ![e] = "queued"]
    <3>1. /\ dcall' \in [Deciders -> GoodDecision] /\ dcall'[d] = Free
          /\ \A x \in Deciders : x # d => dcall'[x] = dcall[x]
      BY <2>1, FreeIsGood DEF Answer, GovernanceInv, GovernanceShape
    <3>2. /\ run' \in [Runs -> RunStatus]
          /\ \A x \in Runs : x # e => run'[x] = run[x]
      BY <2>4 DEF GovernanceInv, GovernanceShape, RunStatus
    <3>3. GovernanceShape'
      BY <2>1, <3>1, <3>2 DEF GovernanceInv, GovernanceShape
    <3>4. OwnRows'
      BY <3>1, FreeIsGood DEF GovernanceInv, OwnRows
    <3>5. ASSUME NEW x \in Deciders PROVE RowsOK(x)' /\ EvidenceOK(x)'
      <4>1. CASE x = d
        BY <3>1, <4>1, FreeIsGood DEF RowsOK, EvidenceOK
      <4>2. CASE x # d
        <5>1. /\ dcall'[x] = dcall[x] /\ RowsOK(x) /\ EvidenceOK(x)
              /\ dcall[x] \in GoodDecision
          BY <3>1, <4>2 DEF GovernanceInv, GovernanceShape
        <5>2. dcall[x].pc # "idle" => dcall[x].id # e
          BY <2>1, <4>2 DEF GovernanceInv, OwnRows
        <5>3. RowsOK(x)'
          BY <2>1, <3>2, <5>1, <5>2 DEF RowsOK, GoodDecision
        <5>4. ModelOf(x)' = ModelOf(x) /\ TargetRevision(x)' = TargetRevision(x)
          BY <5>1 DEF ModelOf, TargetRevision
        <5>5. EvidenceOK(x)'
          BY <2>1, <2>2, <3>2, <5>1, <5>4 DEF EvidenceOK
        <5> QED
          BY <5>3, <5>5
      <4> QED
        BY <4>1, <4>2
    <3>6. ActiveModelApproved'
      BY <2>1 DEF GovernanceInv, ActiveModelApproved, ReleaseIs, ModelIs
    <3> QED
      BY <3>3, <3>4, <3>5, <3>6 DEF GovernanceInv
  <2> QED
    BY <2>1, <2>3, <2>4
<1> QED
  BY <1>1, <1>2, <1>3, <1>4, <1>5 DEF Evaluating

LEMMA FinishKeeps ==
    ASSUME GovernanceInv, NEW e \in Runs, NEW s \in {"good", "poor", "failed"},
           FinishRun(e, s)
    PROVE  GovernanceInv'
<1>1. /\ run[e] = "queued" /\ run' = [run EXCEPT ![e] = s]
      /\ UNCHANGED <<model, release, dcall>>
  BY DEF FinishRun
<1>2. /\ run' \in [Runs -> RunStatus]
      /\ \A x \in Runs : run'[x] = run[x] \/ run[x] = "queued"
  BY <1>1 DEF GovernanceInv, GovernanceShape, RunStatus
<1>3. GovernanceShape' /\ OwnRows'
  BY <1>1, <1>2 DEF GovernanceInv, GovernanceShape, OwnRows
<1>4. ASSUME NEW d \in Deciders PROVE RowsOK(d)' /\ EvidenceOK(d)'
  BY <1>1, <1>2, RequestSurvives DEF GovernanceInv, GovernanceShape
<1>5. ActiveModelApproved'
  BY <1>1 DEF GovernanceInv, ActiveModelApproved, ReleaseIs, ModelIs
<1> QED
  BY <1>3, <1>4, <1>5 DEF GovernanceInv

-----------------------------------------------------------------------------
\* The evidence of a model's decision, or of a release's
LEMMA GoverningKeeps ==
    ASSUME GovernanceInv, NEW d \in Deciders, Governing(d)
    PROVE  GovernanceInv'
<1>0. /\ dcall[d] \in GoodDecision /\ dcall[d] \in DecisionCall
      /\ RowsOK(d) /\ EvidenceOK(d)
  BY DEF GovernanceInv, GovernanceShape, GoodDecision
<1>1. ASSUME NEW m \in Models, NEW action \in {"approve", "reject"},
             DecideModel(d, m, action)
      PROVE  GovernanceInv'
  <2> DEFINE k == model[m].revision
  <2>1. /\ dcall' = [dcall EXCEPT ![d] = DecisionOn(m, action, "evidence", k, None)]
        /\ UNCHANGED <<model, release, run>> /\ model[m].status = "candidate"
    BY <1>1 DEF DecideModel, OnlyCalls, ModelIs
  <2>2. m \notin Releases /\ m \notin Runs /\ k \in Nat
    BY GovernanceAssumption DEF GovernanceInv, GovernanceShape, Model
  <2>3. DecisionOn(m, action, "evidence", k, None) \in GoodDecision
    BY <2>2 DEF DecisionOn, GoodDecision, DecisionCall, Decision
  <2>4. Found(action) = "candidate"
    BY DEF Found
  <2> QED
    BY <2>1, <2>2, <2>3, <2>4, RequestOpens DEF Decision
<1>2. ASSUME NEW m \in Models, RetireModel(d, m) PROVE GovernanceInv'
  <2> DEFINE k == model[m].revision
  <2>1. /\ dcall' = [dcall EXCEPT ![d] = DecisionOn(m, "retire", "unused", k, None)]
        /\ UNCHANGED <<model, release, run>> /\ model[m].status = "approved"
    BY <1>2 DEF RetireModel, OnlyCalls, ModelIs
  <2>2. m \notin Releases /\ m \notin Runs /\ k \in Nat
    BY GovernanceAssumption DEF GovernanceInv, GovernanceShape, Model
  <2>3. DecisionOn(m, "retire", "unused", k, None) \in GoodDecision
    BY <2>2 DEF DecisionOn, GoodDecision, DecisionCall, Decision
  <2>4. Found("retire") = "approved"
    BY DEF Found
  <2> QED
    BY <2>1, <2>2, <2>3, <2>4, RequestOpens DEF Decision
<1>3. CASE CheckUnused(d)
  <2>1. /\ dcall[d].pc = "unused" /\ UNCHANGED <<model, release, run>>
        /\ Answer(d) \/ Continue(d, "commit")
    BY <1>3 DEF CheckUnused, InState, OnlyCalls
  <2> QED
    BY <2>1, RequestAnswers, RequestGoes
<1>4. CASE CommitModel(d)
  <2> DEFINE m == dcall[d].id
             row == [status |-> ModelStatus(dcall[d].action),
                     revision |-> model[m].revision + 1]
  <2>1. /\ dcall[d].pc = "commit" /\ m \in Models /\ Answer(d)
        /\ UNCHANGED <<release, run>>
        /\ \/ model' = model
           \/ ModelDecidable(d) /\ model' = [model EXCEPT ![m] = row]
    BY <1>4 DEF CommitModel, InState
  <2>2. CASE model' = model
    BY <2>1, <2>2, RequestAnswers
  <2>3. CASE ModelDecidable(d) /\ model' = [model EXCEPT ![m] = row]
    <3>1. ModelStatus(dcall[d].action) \in {"approved", "rejected", "retired"}
      BY DEF ModelStatus
    <3>2. model[m].revision \in Nat
      BY <2>1 DEF GovernanceInv, GovernanceShape, Model
    <3>3. row \in Model /\ row.revision > model[m].revision
      BY <3>1, <3>2 DEF Model
    <3> HIDE DEF row
    <3>4. /\ model' \in [Models -> Model] /\ model'[m] = row
          /\ \A n \in Models : n # m => model'[n] = model[n]
      BY <2>1, <2>3, <3>3 DEF GovernanceInv, GovernanceShape
    <3>5. \A r \in ReleaseIs("active") : Pins[r] # m
      <4>1. CASE dcall[d].action = "retire"
        BY <2>3, <4>1 DEF ModelDecidable, InUse
      <4>2. CASE dcall[d].action # "retire"
        <5>1. model[m].status = Found(dcall[d].action)
          BY <1>0, <2>1, <2>3 DEF ModelDecidable, RowsOK
        <5>2. dcall[d].action \notin {"activate", "rollback"}
          BY <1>0, <2>1, GovernanceAssumption DEF GoodDecision
        <5>3. model[m].status # "approved"
          BY <4>2, <5>1, <5>2 DEF Found
        <5> QED
          BY <5>3 DEF GovernanceInv, ActiveModelApproved, ModelIs
      <4> QED
        BY <4>1, <4>2
    <3>6. ActiveModelApproved'
      <4>1. \A r \in Releases : Pins[r] \in Models
        BY GovernanceAssumption
      <4> QED
        BY <2>1, <3>4, <3>5, <4>1
           DEF GovernanceInv, ActiveModelApproved, ReleaseIs, ModelIs
    <3> QED
      BY <2>1, <3>3, <3>4, <3>6, BatchMoves DEF GovernanceInv, GovernanceShape
  <2> QED
    BY <2>1, <2>2, <2>3
<1>5. ASSUME NEW e \in Runs, ReadEvidence(d, e) PROVE GovernanceInv'
  <2> DEFINE x == [dcall[d] EXCEPT !.pc = "truth", !.evidence = e]
  <2>1. /\ dcall[d].pc = "evidence" /\ UNCHANGED <<model, release, run>>
        /\ Named(e, d)
        /\ Answer(d) \/ (Supports(e, d) /\ dcall' = [dcall EXCEPT ![d] = x])
    BY <1>5 DEF ReadEvidence, InState, OnlyCalls
  <2>2. CASE Answer(d)
    BY <2>1, <2>2, RequestAnswers
  <2>3. CASE Supports(e, d) /\ dcall' = [dcall EXCEPT ![d] = x]
    <3>1. /\ x \in DecisionCall /\ x.pc = "truth" /\ x.id = dcall[d].id
          /\ x.revision = dcall[d].revision /\ x.action = dcall[d].action
          /\ x.target = dcall[d].target /\ x.expected = dcall[d].expected
          /\ x.evidence = e
      BY <1>0 DEF DecisionCall
    <3> HIDE DEF x
    <3>2. dcall'[d] = x
      BY <2>3 DEF GovernanceInv, GovernanceShape
    <3>3. x \in GoodDecision
      BY <1>0, <2>1, <3>1 DEF GoodDecision
    <3>4. RowsOK(d)'
      BY <1>0, <2>1, <3>1, <3>2 DEF RowsOK
    <3>5. EvidenceOK(d)'
      <4>1. ModelOf(d)' = ModelOf(d)
        BY <3>1, <3>2 DEF ModelOf
      <4> QED
        BY <2>1, <2>3, <3>1, <3>2, <4>1 DEF EvidenceOK, Supports, Named
    <3> QED
      BY <2>1, <2>3, <3>1, <3>3, <3>4, <3>5, RequestMoves
  <2> QED
    BY <2>1, <2>2, <2>3
<1>6. CASE CheckTruth(d)
  <2>1. /\ dcall[d].pc = "truth" /\ UNCHANGED <<model, release, run>>
        /\ \/ Answer(d)
           \/ Continue(d, "model") /\ dcall[d].action = "run"
           \/ Continue(d, "commit") /\ dcall[d].action # "run"
    BY <1>6 DEF CheckTruth, InState, OnlyCalls
  <2> QED
    BY <2>1, RequestAnswers, RequestGoes
<1> QED
  BY <1>1, <1>2, <1>3, <1>4, <1>5, <1>6 DEF Governing
-----------------------------------------------------------------------------
LEMMA ReleaseMoved ==
    ASSUME GovernanceInv, NEW r \in Releases, NEW n \in {1, 2},
           NEW s \in {"active", "rolled_back", "superseded"}
    PROVE  /\ Moved(r, s, n) \in Release /\ Moved(r, s, n).status = s
           /\ Moved(r, s, n).revision > release[r].revision
           /\ Moved(r, s, n).evidence = release[r].evidence
<1>1. release[r] \in Release /\ release[r].revision \in Nat
  BY DEF GovernanceInv, GovernanceShape, Release
<1>2. release[r].revision + n \in Nat /\ release[r].revision + n > release[r].revision
  BY <1>1
<1> QED
  BY <1>1, <1>2 DEF Moved, Release

\* The batch of an activation or a rollback: the target was approved or
\* superseded, on evidence that holds, and the active releases step down.
LEMMA SwitchMoves ==
    ASSUME GovernanceInv, NEW d \in Deciders, InState(d, "commit"),
           dcall[d].action \in {"activate", "rollback"}, Switchable(d), Switch(d)
    PROVE  /\ release' \in [Releases -> Release]
           /\ dcall[d].target \in Releases
           /\ release[dcall[d].target].status \in {"approved", "superseded"}
           /\ release'[dcall[d].target].status = "active"
           /\ release'[dcall[d].target].revision > release[dcall[d].target].revision
           /\ model[Pins[dcall[d].target]].status = "approved"
           /\ \E e \in Runs : /\ release'[dcall[d].target].evidence = e
                              /\ Evidences(e, Pins[dcall[d].target])
           /\ \A r \in Releases \ {dcall[d].target} :
                 \/ /\ release'[r] = release[r] /\ release[r].status # "active"
                 \/ /\ release[r].status = "active"
                    /\ release'[r].revision > release[r].revision
                    /\ release'[r].status \in {"rolled_back", "superseded"}
<1> DEFINE t == dcall[d].target  i == dcall[d].id
<1>1. /\ dcall[d] \in GoodDecision /\ dcall[d] \in DecisionCall
      /\ RowsOK(d) /\ EvidenceOK(d) /\ dcall[d].pc = "commit"
  BY DEF GovernanceInv, GovernanceShape, GoodDecision, InState
<1>2. /\ t \in Releases /\ i \in Releases /\ i \notin Models /\ t # None
      /\ dcall[d].action = "activate" => t = i
  BY <1>1, GovernanceAssumption DEF GoodDecision
<1>3. /\ release[i].revision = dcall[d].revision /\ release[i].revision \in Nat
      /\ release[i].status = Found(dcall[d].action)
  BY <1>1, <1>2 DEF Switchable, RowHolds, RowsOK, GovernanceInv, GovernanceShape, Release
<1>4. dcall[d].action = "rollback" => t # i
  BY <1>1, <1>2, <1>3 DEF RowsOK
<1>5. release[t].status \in {"approved", "superseded"}
  BY <1>2, <1>3, <1>4 DEF Found, Switchable
<1>6. TargetRevision(d) = release[t].revision
  BY <1>2, <1>3, <1>4 DEF TargetRevision, Switchable
<1>7. ModelOf(d) = Pins[t] /\ model[Pins[t]].status = "approved"
  BY <1>2 DEF ModelOf, Switchable, ModelIs
<1>8. /\ dcall[d].evidence \in Runs /\ dcall[d].evidence = release[t].evidence
      /\ Evidences(dcall[d].evidence, Pins[t])
  <2>1. dcall[d].evidence \in Runs /\ dcall[d].evidence # None
    BY <1>1, GovernanceAssumption DEF EvidenceOK
  <2> QED
    BY <1>1, <1>6, <1>7, <2>1 DEF EvidenceOK, Evidences, Switchable, EvidenceHolds
<1>9. t \notin ReleaseIs("active")
  BY <1>5 DEF ReleaseIs
<1>10. /\ release'[t] = Moved(t, "active", 1)
       /\ \A r \in Releases \ {t} :
             release'[r] = IF r \in ReleaseIs("active")
                           THEN Moved(r, IF dcall[d].action = "rollback"
                                         THEN "rolled_back" ELSE "superseded", 1)
                           ELSE release[r]
  BY <1>2, <1>9 DEF Switch
<1>11. ASSUME NEW r \in Releases \ {t}
       PROVE  /\ release'[r] \in Release
              /\ \/ /\ release'[r] = release[r] /\ release[r].status # "active"
                 \/ /\ release[r].status = "active"
                    /\ release'[r].revision > release[r].revision
                    /\ release'[r].status \in {"rolled_back", "superseded"}
  <2>1. CASE r \in ReleaseIs("active")
    <3>1. PICK s \in {"rolled_back", "superseded"} : release'[r] = Moved(r, s, 1)
      BY <1>10, <2>1
    <3> QED
      BY <2>1, <3>1, ReleaseMoved DEF ReleaseIs
  <2>2. CASE r \notin ReleaseIs("active")
    BY <1>10, <2>2 DEF ReleaseIs, GovernanceInv, GovernanceShape
  <2> QED
    BY <2>1, <2>2
<1>12. /\ release'[t] \in Release /\ release'[t].status = "active"
       /\ release'[t].revision > release[t].revision
       /\ release'[t].evidence = release[t].evidence
  BY <1>2, <1>10, ReleaseMoved
<1>13. release' \in [Releases -> Release]
  <2>1. \A r \in Releases : release'[r] \in Release
    BY <1>11, <1>12
  <2> QED
    BY <2>1 DEF Switch
<1> QED
  BY <1>2, <1>5, <1>7, <1>8, <1>11, <1>12, <1>13

\* The batch of an approval or a rejection of a release
LEMMA ReleaseDecided ==
    ASSUME GovernanceInv, NEW d \in Deciders, CommitRelease(d)
    PROVE  \/ release' = release
           \/ /\ dcall[d].id \in Releases
              /\ release' \in [Releases -> Release]
              /\ \A r \in Releases \ {dcall[d].id} : release'[r] = release[r]
              /\ release[dcall[d].id].status = "candidate"
              /\ release'[dcall[d].id].status \in {"approved", "draft"}
              /\ release'[dcall[d].id].revision > release[dcall[d].id].revision
              /\ release'[dcall[d].id].status = "approved" =>
                    \E e \in Runs : /\ release'[dcall[d].id].evidence = e
                                   /\ Evidences(e, Pins[dcall[d].id])
<1> DEFINE i == dcall[d].id
           row == [status |-> IF dcall[d].action = "approve" THEN "approved"
                                                             ELSE "draft",
                   revision |-> release[i].revision + 1, evidence |-> dcall[d].evidence]
<1>1. /\ dcall[d] \in GoodDecision /\ dcall[d] \in DecisionCall
      /\ RowsOK(d) /\ EvidenceOK(d) /\ dcall[d].pc = "commit"
      /\ i \in Releases /\ dcall[d].action \in {"approve", "reject"}
  BY DEF GovernanceInv, GovernanceShape, GoodDecision, InState, CommitRelease
<1>2. SUFFICES ASSUME ReleaseDecidable(d), release' = [release EXCEPT ![i] = row]
               PROVE  /\ release' \in [Releases -> Release]
                      /\ \A r \in Releases \ {i} : release'[r] = release[r]
                      /\ release[i].status = "candidate"
                      /\ release'[i].status \in {"approved", "draft"}
                      /\ release'[i].revision > release[i].revision
                      /\ release'[i].status = "approved" =>
                            \E e \in Runs : /\ release'[i].evidence = e
                                           /\ Evidences(e, Pins[i])
  BY <1>1 DEF CommitRelease
<1>3. dcall[d].evidence \in Runs /\ dcall[d].evidence # None /\ release[i].revision \in Nat
  BY <1>1, GovernanceAssumption DEF EvidenceOK, GovernanceInv, GovernanceShape, Release
<1>4. /\ row \in Release /\ row.status \in {"approved", "draft"}
      /\ row.revision > release[i].revision /\ row.evidence = dcall[d].evidence
      /\ row.status = "approved" => dcall[d].action = "approve"
  BY <1>1, <1>3 DEF Release
<1> HIDE DEF row
<1>5. /\ release' \in [Releases -> Release] /\ release'[i] = row
      /\ \A r \in Releases \ {i} : release'[r] = release[r]
  BY <1>1, <1>2, <1>4 DEF GovernanceInv, GovernanceShape
<1>6. release[i].status = "candidate"
  BY <1>1, <1>2 DEF ReleaseDecidable, RowHolds, RowsOK, Found
<1>7. ModelOf(d) = Pins[i]
  BY <1>1, GovernanceAssumption DEF ModelOf, GoodDecision
<1>8. dcall[d].action = "approve" => Evidences(dcall[d].evidence, Pins[i])
  BY <1>1, <1>2, <1>3, <1>7
     DEF EvidenceOK, Evidences, ReleaseDecidable, EvidenceHolds
<1> QED
  BY <1>3, <1>4, <1>5, <1>6, <1>8
LEMMA InsertKeeps ==
    ASSUME GovernanceInv, NEW d \in Deciders, InsertRelease(d)
    PROVE  GovernanceInv'
<1> DEFINE i == dcall[d].id
           row == [release[i] EXCEPT !.status = "candidate"]
<1>1. /\ dcall[d] \in GoodDecision /\ RowsOK(d) /\ dcall[d].pc = "insert" /\ Answer(d)
      /\ UNCHANGED <<model, run>>
      /\ release' = release \/ release' = [release EXCEPT ![i] = row]
  BY DEF GovernanceInv, GovernanceShape, InsertRelease, InState
<1>2. i \in Releases /\ dcall[d].action = "create" /\ release[i].status = "none"
  BY <1>1 DEF GoodDecision, RowsOK
<1>3. CASE release' = release
  BY <1>1, <1>3, RequestAnswers
<1>4. CASE release' = [release EXCEPT ![i] = row]
  <2>1. /\ row \in Release /\ row.status = "candidate"
        /\ row.revision = release[i].revision /\ row.evidence = release[i].evidence
    BY <1>2 DEF GovernanceInv, GovernanceShape, Release
  <2> HIDE DEF row
  <2>2. /\ release' \in [Releases -> Release] /\ release'[i] = row
        /\ \A r \in Releases : r # i => release'[r] = release[r]
        /\ \A r \in Releases : /\ release'[r].revision = release[r].revision
                              /\ release'[r].evidence = release[r].evidence
    BY <1>2, <1>4, <2>1 DEF GovernanceInv, GovernanceShape
  <2>3. /\ dcall' \in [Deciders -> GoodDecision] /\ dcall'[d] = Free
        /\ \A e \in Deciders : e # d => dcall'[e] = dcall[e]
    BY <1>1, FreeIsGood DEF Answer, GovernanceInv, GovernanceShape
  <2>4. GovernanceShape'
    BY <1>1, <2>2, <2>3 DEF GovernanceInv, GovernanceShape
  <2>5. OwnRows'
    BY <2>3, FreeIsGood DEF GovernanceInv, OwnRows
  <2>6. ASSUME NEW e \in Deciders PROVE RowsOK(e)' /\ EvidenceOK(e)'
    <3>1. CASE e = d
      BY <2>3, <3>1, FreeIsGood DEF RowsOK, EvidenceOK
    <3>2. CASE e # d
      <4>1. /\ dcall'[e] = dcall[e] /\ RowsOK(e) /\ EvidenceOK(e)
            /\ dcall[e] \in GoodDecision
        BY <2>3, <3>2 DEF GovernanceInv, GovernanceShape
      <4>2. dcall[e].pc # "idle" => dcall[e].id # i
        BY <1>1, <1>2, <3>2 DEF GovernanceInv, OwnRows
      <4>3. RowsOK(e)'
        BY <1>1, <2>2, <4>1, <4>2 DEF RowsOK, GoodDecision
      <4>4. ModelOf(e)' = ModelOf(e) /\ TargetRevision(e)' = TargetRevision(e)
        BY <4>1 DEF ModelOf, TargetRevision
      <4>5. EvidenceOK(e)'
        BY <1>1, <2>2, <4>1, <4>4 DEF EvidenceOK, GoodDecision
      <4> QED
        BY <4>3, <4>5
    <3> QED
      BY <3>1, <3>2
  <2>7. ActiveModelApproved'
    BY <1>1, <2>1, <2>2 DEF GovernanceInv, ActiveModelApproved, ReleaseIs, ModelIs
  <2> QED
    BY <2>4, <2>5, <2>6, <2>7 DEF GovernanceInv
<1> QED
  BY <1>1, <1>3, <1>4

\* A decision about a release that is there
LEMMA ReleaseRequested ==
    ASSUME GovernanceInv, UNCHANGED <<model, release, run>>, NEW d \in Deciders,
           NEW r \in Releases, NEW target \in Releases \cup {None},
           NEW action \in {"approve", "reject", "activate", "rollback"},
           NEW pc \in {"target", "model", "evidence"},
           DecisionOn(r, action, pc, release[r].revision, target) \in GoodDecision,
           dcall' = [dcall EXCEPT ![d] =
               DecisionOn(r, action, pc, release[r].revision, target)],
           action = "rollback" => pc = "target",
           release[r].status = Found(action)
    PROVE  GovernanceInv'
<1> DEFINE k == release[r].revision
<1>1. /\ action \in Decision /\ k \in Nat /\ r \notin Models /\ r \notin Runs
      /\ pc \in {"unused", "target", "model", "evidence", "truth", "insert"}
      /\ r \in Models \cup Releases \cup Runs
      /\ action # "create" /\ action # "run" /\ pc # "truth"
  BY GovernanceAssumption DEF Decision, GovernanceInv, GovernanceShape, Release
<1> HIDE DEF k
<1>2. k = release[r].revision
  BY DEF k
<1>3. /\ dcall' = [dcall EXCEPT ![d] = DecisionOn(r, action, pc, k, target)]
      /\ DecisionOn(r, action, pc, k, target) \in GoodDecision
  BY <1>2
<1> QED
  BY <1>1, <1>2, <1>3, RequestOpens

LEMMA ReleasingKeeps ==
    ASSUME GovernanceInv, NEW d \in Deciders, Releasing(d)
    PROVE  GovernanceInv'
<1>0. /\ dcall[d] \in GoodDecision /\ dcall[d] \in DecisionCall
      /\ RowsOK(d) /\ EvidenceOK(d)
  BY DEF GovernanceInv, GovernanceShape, GoodDecision
<1>a. \A r \in Releases : r \notin Models /\ r \notin Runs /\ release[r].revision \in Nat
  BY GovernanceAssumption DEF GovernanceInv, GovernanceShape, Release
<1>1. ASSUME NEW r \in Releases, CreateRelease(d, r) PROVE GovernanceInv'
  <2>1. /\ dcall' = [dcall EXCEPT ![d] = DecisionOn(r, "create", "insert", 0, None)]
        /\ UNCHANGED <<model, release, run>> /\ release[r].status = "none"
        /\ \A x \in Deciders : dcall[x].id # r
    BY <1>1 DEF CreateRelease, OnlyCalls
  <2>2. DecisionOn(r, "create", "insert", 0, None) \in GoodDecision
    BY DEF DecisionOn, GoodDecision, DecisionCall, Decision
  <2> QED
    BY <1>a, <2>1, <2>2, RequestOpens DEF Decision
<1>2. ASSUME NEW r \in Releases, NEW action \in {"approve", "reject"},
             DecideRelease(d, r, action)
      PROVE  GovernanceInv'
  <2> DEFINE k == release[r].revision
  <2>1. /\ dcall' = [dcall EXCEPT ![d] = DecisionOn(r, action, "evidence", k, None)]
        /\ UNCHANGED <<model, release, run>> /\ release[r].status = "candidate"
    BY <1>2 DEF DecideRelease, OnlyCalls
  <2>2. DecisionOn(r, action, "evidence", k, None) \in GoodDecision
    BY <1>a DEF DecisionOn, GoodDecision, DecisionCall, Decision
  <2>3. Found(action) = "candidate"
    BY DEF Found
  <2> QED
    BY <2>1, <2>2, <2>3, ReleaseRequested
<1>3. ASSUME NEW r \in Releases, Activate(d, r) PROVE GovernanceInv'
  <2> DEFINE k == release[r].revision
  <2>1. /\ dcall' = [dcall EXCEPT ![d] = DecisionOn(r, "activate", "model", k, r)]
        /\ UNCHANGED <<model, release, run>> /\ release[r].status = "approved"
    BY <1>3 DEF Activate, OnlyCalls
  <2>2. DecisionOn(r, "activate", "model", k, r) \in GoodDecision
    BY <1>a DEF DecisionOn, GoodDecision, DecisionCall, Decision
  <2>3. Found("activate") = "approved"
    BY DEF Found
  <2> QED
    BY <2>1, <2>2, <2>3, ReleaseRequested
<1>4. ASSUME NEW r \in Releases, NEW t \in Releases, Rollback(d, r, t)
      PROVE  GovernanceInv'
  <2> DEFINE k == release[r].revision
  <2>1. /\ dcall' = [dcall EXCEPT ![d] = DecisionOn(r, "rollback", "target", k, t)]
        /\ UNCHANGED <<model, release, run>> /\ release[r].status = "active"
    BY <1>4 DEF Rollback, OnlyCalls
  <2>2. DecisionOn(r, "rollback", "target", k, t) \in GoodDecision
    BY <1>a DEF DecisionOn, GoodDecision, DecisionCall, Decision
  <2>3. Found("rollback") = "active"
    BY DEF Found
  <2> QED
    BY <2>1, <2>2, <2>3, ReleaseRequested
<1>5. CASE ReadTarget(d)
  <2> DEFINE k == release[dcall[d].target].revision
             x == [dcall[d] EXCEPT !.pc = "model", !.expected = k]
  <2>1. /\ dcall[d].pc = "target" /\ UNCHANGED <<model, release, run>>
        /\ \/ Answer(d)
           \/ /\ release[dcall[d].target].status = "superseded"
              /\ dcall' = [dcall EXCEPT ![d] = x]
    BY <1>5 DEF ReadTarget, InState, OnlyCalls
  <2>2. dcall[d].action = "rollback" /\ dcall[d].target \in Releases /\ k \in Nat
    BY <1>0, <1>a, <2>1 DEF GoodDecision
  <2>3. CASE Answer(d)
    BY <2>1, <2>3, RequestAnswers
  <2>4. CASE /\ release[dcall[d].target].status = "superseded"
             /\ dcall' = [dcall EXCEPT ![d] = x]
    <3>1. /\ x \in DecisionCall /\ x.pc = "model" /\ x.id = dcall[d].id
          /\ x.revision = dcall[d].revision /\ x.action = dcall[d].action
          /\ x.target = dcall[d].target /\ x.expected = k
      BY <1>0, <2>2 DEF DecisionCall
    <3> HIDE DEF x
    <3>2. dcall'[d] = x /\ dcall[d].revision \in Nat
      BY <1>0, <2>4 DEF GovernanceInv, GovernanceShape, DecisionCall
    <3>3. x \in GoodDecision
      BY <1>0, <2>1, <2>2, <3>1 DEF GoodDecision
    <3>4. x.target = x.id => x.revision < release[x.id].revision
      <4>1. Found("rollback") = "active"
        BY DEF Found
      <4> QED
        BY <1>0, <2>1, <2>2, <2>4, <3>1, <3>2, <4>1 DEF RowsOK
    <3>5. RowsOK(d)'
      BY <1>0, <1>a, <2>1, <2>2, <3>1, <3>2, <3>4 DEF RowsOK
    <3>6. EvidenceOK(d)'
      BY <3>1, <3>2 DEF EvidenceOK
    <3> QED
      BY <2>1, <2>4, <3>1, <3>3, <3>5, <3>6, RequestMoves
  <2> QED
    BY <2>1, <2>3, <2>4
<1>6. CASE ReadModel(d)
  <2>1. /\ dcall[d].pc = "model" /\ dcall[d].action # "run"
        /\ UNCHANGED <<model, release, run>>
        /\ Answer(d) \/ Continue(d, "evidence")
    BY <1>6 DEF ReadModel, InState, OnlyCalls
  <2> QED
    BY <2>1, RequestAnswers, RequestGoes
<1>7. CASE CommitRelease(d)
  <2>1. Answer(d) /\ UNCHANGED <<model, run>>
    BY <1>7 DEF CommitRelease
  <2>2. CASE release' = release
    BY <2>1, <2>2, RequestAnswers
  <2>3. CASE release' # release
    <3>1. /\ dcall[d].id \in Releases /\ release' \in [Releases -> Release]
          /\ \A r \in Releases \ {dcall[d].id} : release'[r] = release[r]
          /\ release[dcall[d].id].status = "candidate"
          /\ release'[dcall[d].id].status \in {"approved", "draft"}
          /\ release'[dcall[d].id].revision > release[dcall[d].id].revision
      BY <1>7, <2>3, ReleaseDecided
    <3>2. \A r \in Releases : \/ release'[r] = release[r]
                             \/ /\ release[r].status # "none"
                                /\ release'[r].revision > release[r].revision
      BY <3>1
    <3>3. ActiveModelApproved'
      BY <2>1, <3>1 DEF GovernanceInv, ActiveModelApproved, ReleaseIs, ModelIs
    <3> QED
      BY <2>1, <3>1, <3>2, <3>3, BatchMoves DEF GovernanceInv, GovernanceShape
  <2> QED
    BY <2>2, <2>3
<1>8. CASE CommitSwitch(d)
  <2>1. /\ Answer(d) /\ UNCHANGED <<model, run>> /\ InState(d, "commit")
        /\ dcall[d].action \in {"activate", "rollback"}
        /\ release' = release \/ (Switchable(d) /\ Switch(d))
    BY <1>8 DEF CommitSwitch
  <2>2. CASE release' = release
    BY <2>1, <2>2, RequestAnswers
  <2>3. CASE Switchable(d) /\ Switch(d)
    <3> DEFINE t == dcall[d].target
    <3>1. /\ t \in Releases /\ release' \in [Releases -> Release]
          /\ release[t].status \in {"approved", "superseded"}
          /\ release'[t].revision > release[t].revision
          /\ model[Pins[t]].status = "approved"
          /\ \A r \in Releases \ {t} :
                \/ release'[r] = release[r] /\ release[r].status # "active"
                \/ /\ release[r].status = "active"
                   /\ release'[r].revision > release[r].revision
                   /\ release'[r].status \in {"rolled_back", "superseded"}
      BY <2>1, <2>3, SwitchMoves
    <3> HIDE DEF t
    <3>2. \A r \in Releases : \/ release'[r] = release[r]
                             \/ /\ release[r].status # "none"
                                /\ release'[r].revision > release[r].revision
      BY <3>1
    <3>3. ActiveModelApproved'
      BY <2>1, <3>1 DEF GovernanceInv, ActiveModelApproved, ReleaseIs, ModelIs
    <3> QED
      BY <2>1, <3>1, <3>2, <3>3, BatchMoves DEF GovernanceInv, GovernanceShape
  <2> QED
    BY <2>1, <2>2, <2>3
<1>9. CASE InsertRelease(d)
  BY <1>9, InsertKeeps
<1> QED
  BY <1>1, <1>2, <1>3, <1>4, <1>5, <1>6, <1>7, <1>8, <1>9 DEF Releasing

LEMMA GovernanceStutters ==
    ASSUME GovernanceInv, UNCHANGED releaseVars
    PROVE  GovernanceInv'
<1>1. GovernanceShape' /\ OwnRows'
  BY DEF releaseVars, GovernanceInv, GovernanceShape, OwnRows
<1>2. \A d \in Deciders : RowsOK(d)' /\ EvidenceOK(d)'
  BY RequestSurvives DEF releaseVars, GovernanceInv, GovernanceShape
<1>3. ActiveModelApproved'
  BY DEF releaseVars, GovernanceInv, ActiveModelApproved, ReleaseIs, ModelIs
<1> QED
  BY <1>1, <1>2, <1>3 DEF GovernanceInv

LEMMA GovernanceStep == GovernanceInv /\ [Next]_vars => GovernanceInv'
<1> SUFFICES ASSUME GovernanceInv, [Next]_vars PROVE GovernanceInv'
  OBVIOUS
<1>1. CASE UNCHANGED releaseVars
  BY <1>1, GovernanceStutters
<1>2. ASSUME NEW d \in Deciders, Evaluating(d) \/ Governing(d) \/ Releasing(d)
      PROVE  GovernanceInv'
  BY <1>2, EvaluatingKeeps, GoverningKeeps, ReleasingKeeps
<1>3. ASSUME NEW e \in Runs, NEW s \in {"good", "poor", "failed"}, FinishRun(e, s)
      PROVE  GovernanceInv'
  BY <1>3, FinishKeeps
<1> QED
  BY <1>1, <1>2, <1>3 DEF Next, vars

LEMMA GovernanceInvariant == Spec => []GovernanceInv
  BY GovernanceStarts, GovernanceStep, PTL DEF Spec

\* The active release pins an approved model, for any number of decisions in
\* flight: a retirement and an activation cannot both commit.
THEOREM ActiveReleaseRunnable == Spec => []ActiveModelApproved
<1>1. GovernanceInv => ActiveModelApproved
  BY DEF GovernanceInv
<1> QED
  BY <1>1, GovernanceInvariant, PTL

-----------------------------------------------------------------------------
\* The steps that write a release
LEMMA WhoWritesReleases ==
    ASSUME [Next]_vars
    PROVE  \/ release' = release
           \/ \E d \in Deciders : InsertRelease(d) \/ CommitRelease(d)
                                \/ CommitSwitch(d)
<1>1. ASSUME NEW d \in Deciders, Evaluating(d) \/ Governing(d) PROVE release' = release
  BY <1>1 DEF Evaluating, Governing, CreateRun, VerifyModel, ReadRelease, LookUpKey,
     InsertRun, DecideModel, RetireModel, CheckUnused, CommitModel, ReadEvidence,
     CheckTruth, OnlyCalls
<1>2. ASSUME NEW d \in Deciders, Releasing(d)
      PROVE  release' = release \/ InsertRelease(d) \/ CommitRelease(d) \/ CommitSwitch(d)
  BY <1>2 DEF Releasing, CreateRelease, DecideRelease, Activate, Rollback, ReadTarget,
     ReadModel, OnlyCalls
<1> QED
  BY <1>1, <1>2 DEF Next, vars, releaseVars, FinishRun

\* The steps that write a model
LEMMA WhoWritesModels ==
    ASSUME [Next]_vars
    PROVE  model' = model \/ \E d \in Deciders : CommitModel(d)
<1>1. ASSUME NEW d \in Deciders, Evaluating(d) \/ Releasing(d) PROVE model' = model
  BY <1>1 DEF Evaluating, Releasing, CreateRun, VerifyModel, ReadRelease, LookUpKey,
     InsertRun, CreateRelease, DecideRelease, Activate, Rollback, InsertRelease,
     ReadTarget, ReadModel, CommitRelease, CommitSwitch, OnlyCalls
<1>2. ASSUME NEW d \in Deciders, Governing(d) PROVE model' = model \/ CommitModel(d)
  BY <1>2 DEF Governing, DecideModel, RetireModel, CheckUnused, ReadEvidence,
     CheckTruth, OnlyCalls
<1> QED
  BY <1>1, <1>2 DEF Next, vars, releaseVars, FinishRun

\* What a step may make of a release that exists: a switch replaces all that
\* are active, and a release that changes to approved or active has evidence.
LEMMA ReleaseStep ==
    ASSUME GovernanceInv, [Next]_vars
    PROVE  /\ \A r \in Releases :
                 release[r].status = "rolled_back" => release'[r] = release[r]
           /\ \/ \E r \in Releases : release'[r].status = "active"
              \/ \A r \in Releases : release[r].status # "active"
           /\ \A r \in Releases :
                 (/\ release[r].status # release'[r].status
                  /\ release'[r].status \in {"approved", "active"}) =>
                 \E e \in Runs : release'[r].evidence = e /\ Evidences(e, Pins[r])
<1> DEFINE Goal == /\ \A r \in Releases :
                         release[r].status = "rolled_back" => release'[r] = release[r]
                   /\ \/ \E r \in Releases : release'[r].status = "active"
                      \/ \A r \in Releases : release[r].status # "active"
                   /\ \A r \in Releases :
                         (/\ release[r].status # release'[r].status
                          /\ release'[r].status \in {"approved", "active"}) =>
                         \E e \in Runs : /\ release'[r].evidence = e
                                        /\ Evidences(e, Pins[r])
<1>1. CASE release' = release
  BY <1>1
<1>2. ASSUME NEW d \in Deciders, InsertRelease(d) PROVE Goal
  <2>1. CASE release' = release
    BY <2>1
  <2>2. CASE release' = [release EXCEPT ![dcall[d].id].status = "candidate"]
    <3>1. dcall[d].id \in Releases /\ release[dcall[d].id].status = "none"
      BY <1>2 DEF GovernanceInv, GovernanceShape, GoodDecision, RowsOK, InsertRelease,
         InState
    <3>2. /\ release'[dcall[d].id].status = "candidate"
          /\ \A r \in Releases \ {dcall[d].id} : release'[r] = release[r]
      BY <2>2, <3>1 DEF GovernanceInv, GovernanceShape, Release
    <3> QED
      BY <3>1, <3>2
  <2> QED
    BY <1>2, <2>1, <2>2 DEF InsertRelease
<1>3. ASSUME NEW d \in Deciders, CommitRelease(d) PROVE Goal
  <2> DEFINE i == dcall[d].id
  <2>1. CASE release' = release
    BY <2>1
  <2>2. CASE release' # release
    <3>1. /\ i \in Releases
          /\ \A r \in Releases \ {i} : release'[r] = release[r]
          /\ release[i].status = "candidate"
          /\ release'[i].status \in {"approved", "draft"}
          /\ release'[i].status = "approved" =>
                \E e \in Runs : release'[i].evidence = e /\ Evidences(e, Pins[i])
      BY <1>3, <2>2, ReleaseDecided
    <3> HIDE DEF i
    <3> QED
      BY <3>1
  <2> QED
    BY <2>1, <2>2
<1>4. ASSUME NEW d \in Deciders, CommitSwitch(d) PROVE Goal
  <2> DEFINE t == dcall[d].target
  <2>1. CASE release' = release
    BY <2>1
  <2>2. CASE Switchable(d) /\ Switch(d)
    <3>1. /\ t \in Releases /\ release[t].status \in {"approved", "superseded"}
          /\ release'[t].status = "active"
          /\ \E e \in Runs : release'[t].evidence = e /\ Evidences(e, Pins[t])
          /\ \A r \in Releases \ {t} :
                \/ release'[r] = release[r]
                \/ /\ release[r].status = "active"
                   /\ release'[r].status \in {"rolled_back", "superseded"}
      BY <1>4, <2>2, SwitchMoves DEF CommitSwitch
    <3> HIDE DEF t
    <3> QED
      BY <3>1
  <2> QED
    BY <1>4, <2>1, <2>2 DEF CommitSwitch
<1> QED
  BY <1>1, <1>2, <1>3, <1>4, WhoWritesReleases

\* Once a release has gone live one always is, and a release that was rolled
\* back never returns, whatever activations and rollbacks overlap.
THEOREM AlwaysOneLive == Spec => ReleaseSuccession
<1>1. GovernanceInv /\ [Next]_vars =>
          [/\ ReleaseIs("active") # {} => ReleaseIs("active")' # {}
           /\ ReleaseIs("rolled_back") \subseteq ReleaseIs("rolled_back")']_vars
  BY ReleaseStep DEF ReleaseIs
<1> QED
  BY <1>1, GovernanceInvariant, PTL DEF Spec, ReleaseSuccession

\* A model is approved, and a release approved or put live, only on a good run
\* of that model against ground truth approved at that moment.
THEOREM DecisionsHaveEvidence == Spec => DecidedOnEvidence
<1>1. ASSUME GovernanceInv, [Next]_vars, NEW m \in Models,
             ModelIs(m, "candidate"), ModelIs(m, "approved")'
      PROVE  \E e \in Runs : Evidences(e, m)
  <2>1. PICK d \in Deciders : CommitModel(d)
    BY <1>1, WhoWritesModels DEF ModelIs
  <2> DEFINE i == dcall[d].id  e == dcall[d].evidence
  <2>2. /\ dcall[d] \in GoodDecision /\ dcall[d].pc = "commit" /\ i \in Models
        /\ EvidenceOK(d)
        /\ \/ model' = model
           \/ /\ ModelDecidable(d)
              /\ model' = [model EXCEPT ![i] =
                    [status |-> ModelStatus(dcall[d].action), revision |-> @.revision + 1]]
    BY <1>1, <2>1 DEF GovernanceInv, GovernanceShape, CommitModel, InState
  <2>3. model \in [Models -> Model]
    BY <1>1 DEF GovernanceInv, GovernanceShape
  <2>4. /\ ModelDecidable(d) /\ m = i /\ ModelStatus(dcall[d].action) = "approved"
    BY <1>1, <2>2, <2>3 DEF ModelIs
  <2>5. dcall[d].action = "approve"
    BY <2>4 DEF ModelStatus
  <2>6. e \in Runs /\ e # None
    BY <2>2, <2>5, GovernanceAssumption DEF EvidenceOK
  <2>7. Evidences(e, m)
    BY <2>2, <2>4, <2>5, <2>6
       DEF EvidenceOK, Evidences, ModelDecidable, EvidenceHolds, ModelOf
  <2> QED
    BY <2>6, <2>7
<1>2. GovernanceInv /\ [Next]_vars =>
    [/\ \A m \in Models : (ModelIs(m, "candidate") /\ ModelIs(m, "approved")') =>
             \E e \in Runs : Evidences(e, m)
     /\ \A r \in Releases :
           (/\ release[r].status # release'[r].status
            /\ release'[r].status \in {"approved", "active"}) =>
           \E e \in Runs : release'[r].evidence = e /\ Evidences(e, Pins[r])]_vars
  BY <1>1, ReleaseStep
<1> QED
  BY <1>2, GovernanceInvariant, PTL DEF Spec, DecidedOnEvidence
=============================================================================
