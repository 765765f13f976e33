-------------------------- MODULE LegacyReviewProofs ------------------------
(***************************************************************************)
(* Whatever calls overwrite, every object of the legacy review service is  *)
(* one that a single handler could have made of a valid one.               *)
(***************************************************************************)
EXTENDS LegacyReview, TLAPS

\* What holds of every object that was ever put: a completed reviewer has a
\* complete submission, and the merged annotations start from the first
\* reviewer's and differ from them only where a resolution is logged.
Completeness(v) ==
    \A r \in Reviewers : v.status[r] = "complete" =>
        v.submission[r] \in Submission /\ v.submission[r].reviewed = Frames
Merge(v) ==
    v.merged # None =>
        /\ \A r \in Reviewers : v.status[r] = "complete"
        /\ v.merged \in [Frames -> Answers]
        /\ v.disagreements = Differences(v)
        /\ \A f \in Frames \ v.log :
              v.merged[f] = v.submission["reviewer-a"].answer[f]
Valid(v) == v \in ReviewRecord /\ Completeness(v) /\ Merge(v)

\* What a call carries.
Computed(k) == k.pc \in {"computed", "stored", "answered"}
CallValid(k) ==
    /\ k.op \in {"save", "complete"} => k.role \in Reviewers
    /\ k.op = "revoke" => k.role \in Roles
    /\ Computed(k) => Valid(k.review)
    /\ Computed(k) /\ k.op = "finish" => Adjudicated(k.review)
    /\ k.pc = "stored" => k.op = "finish"

LegacyInv ==
    /\ LegacyTypeOK
    /\ review = None \/ Valid(review)
    /\ \A c \in Calls : CallValid(call[c])
    /\ \A c \in Calls : call[c].pc = "authorized" =>
          call[c].op \in {"create", "revoke"} \/ Valid(review)
    /\ ResultAdjudicated

-----------------------------------------------------------------------------
(***************************************************************************)
(* Every handler makes a valid object of a valid one                       *)
(***************************************************************************)

\* A new review is valid.
LEMMA FreshValid == Valid(Fresh)
  BY DEF Valid, Fresh, ReviewRecord, Completeness, Merge, Roles, Reviewers

\* Revoking an assignment keeps an object valid.
LEMMA RevokedValid ==
  ASSUME NEW v, Valid(v), NEW role \in Roles
  PROVE  Valid(Revoked(v, role))
<1> DEFINE w == Revoked(v, role)
<1>1. w \in ReviewRecord
  BY DEF Revoked, Valid, ReviewRecord
<1>2. /\ w.status = v.status /\ w.submission = v.submission /\ w.log = v.log
      /\ w.merged = v.merged /\ w.disagreements = v.disagreements
  BY DEF Revoked, Valid, ReviewRecord
<1>3. Completeness(w) /\ Merge(w)
  BY <1>2 DEF Valid, Completeness, Merge, Differences
<1> QED BY <1>1, <1>3 DEF Valid

\* Saving keeps an object valid, since its assignment is not complete.
LEMMA SavedValid ==
  ASSUME NEW v, Valid(v), NEW role \in Reviewers, NEW s \in Submission,
         v.status[role] # "complete"
  PROVE  Valid(Saved(v, role, s))
<1> DEFINE w == Saved(v, role, s)
<1>1. w \in ReviewRecord
  BY DEF Saved, Valid, ReviewRecord, Roles
<1>2. /\ w.status = [v.status EXCEPT ![role] = "in_progress"]
      /\ w.submission = [v.submission EXCEPT ![role] = s]
      /\ w.merged = v.merged
  BY DEF Saved, Valid, ReviewRecord
<1>3. /\ v.status \in [Roles -> {"pending", "in_progress", "complete"}]
      /\ v.submission \in [Reviewers -> Submission \cup {None}]
  BY DEF Valid, ReviewRecord
<1>4. Completeness(w)
  BY <1>2, <1>3 DEF Valid, Completeness, Roles
<1>5. Merge(w)
  BY <1>2 DEF Valid, Merge
<1> QED BY <1>1, <1>4, <1>5 DEF Valid

\* Completing a reviewer's pass keeps an object valid.
LEMMA CompletedValid ==
  ASSUME NEW v, Valid(v), NEW role \in Reviewers,
         v.status[role] # "complete",
         v.submission[role] # None, v.submission[role].reviewed = Frames
  PROVE  Valid(Completed(v, role))
<1> DEFINE w == Completed(v, role)
<1>1. /\ v.status \in [Roles -> {"pending", "in_progress", "complete"}]
      /\ v.submission \in [Reviewers -> Submission \cup {None}]
  BY DEF Valid, ReviewRecord
<1>2. w.submission = v.submission
  BY DEF Completed, CompletedFirst, CompletedSecond
<1>3. v.submission[role] \in Submission
  BY <1>1
<1>4. Other(role) \in Reviewers /\ {role, Other(role)} = Reviewers
  BY DEF Other, Reviewers
<1>5. CASE v.status[Other(role)] = "complete"
  <2>1. /\ w.status = [v.status EXCEPT ![role] = "complete",
                                       !["adjudicator"] = "in_progress"]
        /\ w.disagreements = Differences(v)
        /\ w.merged = v.submission["reviewer-a"].answer
        /\ w.log = {}
    BY <1>5 DEF Completed, CompletedSecond
  <2>2. \A r \in Reviewers : /\ v.submission[r] \in Submission
                             /\ v.submission[r].reviewed = Frames
    BY <1>3, <1>4, <1>5 DEF Valid, Completeness
  <2>3. /\ v.submission["reviewer-a"].answer \in [Frames -> Answers]
        /\ Differences(v) \in SUBSET Frames
    BY <2>2 DEF Submission, Differences, Reviewers
  <2>4. w \in ReviewRecord
    BY <1>5, <2>3 DEF Completed, CompletedSecond, Valid, ReviewRecord, Roles
  <2>5. \A r \in Reviewers : w.status[r] = "complete"
    BY <1>1, <1>4, <1>5, <2>1 DEF Roles, Reviewers
  <2>6. Completeness(w)
    BY <1>2, <2>2 DEF Completeness
  <2>7. Merge(w)
    BY <1>2, <2>1, <2>3, <2>5 DEF Merge, Differences
  <2> QED BY <2>4, <2>6, <2>7 DEF Valid
<1>6. CASE v.status[Other(role)] # "complete"
  <2>1. /\ w.status = [v.status EXCEPT ![role] = "complete"]
        /\ w.merged = v.merged
    BY <1>6 DEF Completed, CompletedFirst
  <2>2. w \in ReviewRecord
    BY <1>6 DEF Completed, CompletedFirst, Valid, ReviewRecord, Roles
  <2>3. Completeness(w)
    BY <1>1, <1>2, <1>3, <2>1 DEF Valid, Completeness, Roles
  <2>4. Merge(w)
    BY <2>1 DEF Valid, Merge
  <2> QED BY <2>2, <2>3, <2>4 DEF Valid
<1> QED BY <1>5, <1>6

\* Resolving a frame keeps an object valid.
LEMMA ResolvedValid ==
  ASSUME NEW v, Valid(v), v.merged # None, NEW f \in Frames, NEW a \in Answers
  PROVE  Valid(Resolved(v, f, a))
<1> DEFINE w == Resolved(v, f, a)
<1>1. v.merged \in [Frames -> Answers]
  BY DEF Valid, Merge
<1>2. w \in ReviewRecord
  BY <1>1 DEF Resolved, Valid, ReviewRecord
<1>3. /\ w.status = v.status /\ w.submission = v.submission
      /\ w.disagreements = v.disagreements
      /\ w.merged = [v.merged EXCEPT ![f] = a]
      /\ w.log = v.log \cup {f}
  BY DEF Resolved, Valid, ReviewRecord
<1>4. Completeness(w)
  BY <1>3 DEF Valid, Completeness
<1>5. Merge(w)
  BY <1>1, <1>3 DEF Valid, Merge, Differences
<1> QED BY <1>2, <1>4, <1>5 DEF Valid

\* Completing the adjudication keeps an object valid, and adjudicates it.
LEMMA FinishedValid ==
  ASSUME NEW v, Valid(v), v.merged # None, v.disagreements \subseteq v.log
  PROVE  Valid(Finished(v)) /\ Adjudicated(Finished(v))
<1> DEFINE w == Finished(v)
<1>1. v.status \in [Roles -> {"pending", "in_progress", "complete"}]
  BY DEF Valid, ReviewRecord
<1>2. w \in ReviewRecord
  BY DEF Finished, Valid, ReviewRecord, Roles
<1>3. /\ w.status = [v.status EXCEPT !["adjudicator"] = "complete"]
      /\ w.submission = v.submission /\ w.disagreements = v.disagreements
      /\ w.merged = v.merged /\ w.log = v.log
  BY DEF Finished, Valid, ReviewRecord
<1>4. \A r \in Reviewers : w.status[r] = v.status[r]
  BY <1>1, <1>3 DEF Roles, Reviewers
<1>5. Completeness(w) /\ Merge(w)
  BY <1>3, <1>4 DEF Valid, Completeness, Merge, Differences
<1>6. \A f \in Frames \ w.log :
         Agreed(w.merged[f], w.submission["reviewer-b"].answer[f])
  <2> TAKE f \in Frames \ w.log
  <2>1. f \notin Differences(v) /\ v.merged[f] = v.submission["reviewer-a"].answer[f]
    BY <1>3 DEF Valid, Merge
  <2> QED BY <2>1, <1>3 DEF Differences
<1>7. Adjudicated(w)
  <2>1. \A r \in Reviewers : w.status[r] = "complete"
    BY <1>3, <1>5 DEF Merge
  <2> QED BY <2>1, <1>3, <1>5, <1>6 DEF Adjudicated, Completeness, Merge
<1> QED BY <1>2, <1>5, <1>7 DEF Valid

-----------------------------------------------------------------------------
(***************************************************************************)
(* The invariant                                                           *)
(***************************************************************************)

\* A step that only changes call c, to k, keeps the invariant if k is valid.
LEMMA CallStep ==
  ASSUME LegacyInv, NEW c \in Calls, NEW k \in Call,
         CallValid(k),
         k.pc = "authorized" => k.op \in {"create", "revoke"} \/ Valid(review),
         call' = [call EXCEPT ![c] = k],
         UNCHANGED <<review, result>>
  PROVE  LegacyInv'
<1>1. LegacyTypeOK'
  BY DEF LegacyInv, LegacyTypeOK
<1>2. \A d \in Calls : call'[d] = IF d = c THEN k ELSE call[d]
  BY DEF LegacyInv, LegacyTypeOK
<1>3. (review = None \/ Valid(review))'
  BY DEF LegacyInv
<1>4. (\A d \in Calls : CallValid(call[d]))'
  BY <1>2 DEF LegacyInv
<1>5. (\A d \in Calls : call[d].pc = "authorized" =>
          call[d].op \in {"create", "revoke"} \/ Valid(review))'
  BY <1>2 DEF LegacyInv
<1>6. ResultAdjudicated'
  BY DEF LegacyInv, ResultAdjudicated
<1> QED BY <1>1, <1>3, <1>4, <1>5, <1>6 DEF LegacyInv

\* A call that computes a valid object keeps the invariant.
LEMMA ComputesStep ==
  ASSUME LegacyInv, NEW c \in Calls, NEW v, Valid(v),
         call[c].op = "finish" => Adjudicated(v),
         Computes(c, v)
  PROVE  LegacyInv'
<1> DEFINE k == [pc |-> "computed", op |-> call[c].op, role |-> call[c].role,
                 review |-> v]
<1>1. call[c] \in Call /\ CallValid(call[c])
  BY DEF LegacyInv, LegacyTypeOK
<1>2. k \in Call
  BY <1>1 DEF Call, Valid
<1>3. CallValid(k)
  BY <1>1 DEF CallValid, Computed
<1>4. call' = [call EXCEPT ![c] = k] /\ UNCHANGED <<review, result>>
  BY DEF Computes
<1> HIDE DEF k
<1>5. k.pc # "authorized"
  BY DEF k
<1> QED BY <1>2, <1>3, <1>4, <1>5, CallStep

\* The initial state satisfies the invariant.
LEMMA InvInit == LegacyInit => LegacyInv
  BY DEF LegacyInit, LegacyInv, LegacyTypeOK, Call, Idle, CallValid, Computed,
         ResultAdjudicated

\* Every step keeps it.
LEMMA InvNext == LegacyInv /\ [LegacyNext]_vars => LegacyInv'
<1> SUFFICES ASSUME LegacyInv, [LegacyNext]_vars PROVE LegacyInv'
  OBVIOUS
<1>1. ASSUME NEW c \in Calls, NEW op \in {"create", "revoke", "save", "complete",
                                          "resolve", "finish"},
             NEW role \in Roles \cup {None}, Authorize(c, op, role)
      PROVE LegacyInv'
  <2> DEFINE k == [pc |-> "authorized", op |-> op, role |-> role, review |-> None]
  <2>1. k \in Call
    BY DEF Call
  <2>2. CallValid(k)
    BY <1>1 DEF CallValid, Computed, Authorize
  <2>3. op \in {"create", "revoke"} \/ Valid(review)
    BY <1>1 DEF Authorize, LegacyInv
  <2>4. call' = [call EXCEPT ![c] = k] /\ UNCHANGED <<review, result>>
    BY <1>1 DEF Authorize
  <2>5. k.op = op
    OBVIOUS
  <2> HIDE DEF k
  <2> QED BY <2>1, <2>2, <2>3, <2>4, <2>5, CallStep
<1>2. ASSUME NEW c \in Calls, CreateReview(c) PROVE LegacyInv'
  BY <1>2, FreshValid, ComputesStep DEF CreateReview, Authorized
<1>3. ASSUME NEW c \in Calls, RevokeAssignment(c) PROVE LegacyInv'
  <2>1. call[c].role \in Roles /\ Valid(review)
    BY <1>3 DEF RevokeAssignment, Authorized, LegacyInv, CallValid
  <2>2. Valid(Revoked(review, call[c].role))
    BY <2>1, RevokedValid
  <2> QED BY <1>3, <2>2, ComputesStep DEF RevokeAssignment, Authorized
<1>4. ASSUME NEW c \in Calls, SaveReviewer(c) PROVE LegacyInv'
  <2>1. call[c].role \in Reviewers /\ Valid(review)
    BY <1>4 DEF SaveReviewer, Authorized, LegacyInv, CallValid
  <2>2. PICK s \in Submission : Computes(c, Saved(review, call[c].role, s))
    BY <1>4 DEF SaveReviewer
  <2>3. Valid(Saved(review, call[c].role, s))
    BY <1>4, <2>1, SavedValid DEF SaveReviewer
  <2> QED BY <1>4, <2>2, <2>3, ComputesStep DEF SaveReviewer, Authorized
<1>5. ASSUME NEW c \in Calls, CompleteReviewer(c) PROVE LegacyInv'
  <2>1. call[c].role \in Reviewers /\ Valid(review)
    BY <1>5 DEF CompleteReviewer, Authorized, LegacyInv, CallValid
  <2>2. Valid(Completed(review, call[c].role))
    BY <1>5, <2>1, CompletedValid DEF CompleteReviewer
  <2> QED BY <1>5, <2>2, ComputesStep DEF CompleteReviewer, Authorized
<1>6. ASSUME NEW c \in Calls, ResolveFrame(c) PROVE LegacyInv'
  <2>1. Valid(review) /\ review.merged # None
    BY <1>6 DEF ResolveFrame, Authorized, Adjudicating, LegacyInv
  <2>2. PICK f \in Frames, a \in Answers : Computes(c, Resolved(review, f, a))
    BY <1>6 DEF ResolveFrame
  <2>3. Valid(Resolved(review, f, a))
    BY <2>1, ResolvedValid
  <2> QED BY <1>6, <2>2, <2>3, ComputesStep DEF ResolveFrame, Authorized
<1>7. ASSUME NEW c \in Calls, CompleteAdjudication(c) PROVE LegacyInv'
  <2>1. Valid(review) /\ review.merged # None
    BY <1>7 DEF CompleteAdjudication, Authorized, Adjudicating, LegacyInv
  <2>2. Valid(Finished(review)) /\ Adjudicated(Finished(review))
    BY <1>7, <2>1, FinishedValid DEF CompleteAdjudication
  <2> QED BY <1>7, <2>2, ComputesStep DEF CompleteAdjudication
<1>8. ASSUME NEW c \in Calls, PutReview(c) \/ PutResult(c) PROVE LegacyInv'
  <2> DEFINE k == [pc |-> IF PutReview(c) /\ call[c].op = "finish" THEN "stored"
                          ELSE "answered",
                   op |-> call[c].op, role |-> call[c].role,
                   review |-> call[c].review]
  <2>1. call[c] \in Call /\ CallValid(call[c]) /\ Computed(call[c])
    BY <1>8 DEF LegacyInv, LegacyTypeOK, PutReview, PutResult, Computed
  <2>2. Valid(call[c].review) /\ call[c].review \in ReviewRecord
    BY <2>1 DEF CallValid, Valid
  <2>3. k \in Call /\ CallValid(k) /\ k.pc # "authorized"
    BY <2>1, <2>2 DEF Call, CallValid, Computed
  <2>4. call' = [call EXCEPT ![c] = k]
    BY <1>8 DEF PutReview, PutResult
  <2> HIDE DEF k
  <2>5. \A d \in Calls : call'[d] = IF d = c THEN k ELSE call[d]
    BY <2>4 DEF LegacyInv, LegacyTypeOK
  <2>6. (\A d \in Calls : CallValid(call[d]))'
    BY <2>3, <2>5 DEF LegacyInv
  <2>7. CASE PutReview(c)
    <3>1. review' = call[c].review /\ result' = result
      BY <2>7 DEF PutReview
    <3>2. LegacyTypeOK'
      BY <2>2, <2>3, <2>4, <3>1 DEF LegacyInv, LegacyTypeOK
    <3>3. Valid(review)'
      BY <2>2, <3>1
    <3>4. ResultAdjudicated'
      BY <3>1 DEF LegacyInv, ResultAdjudicated
    <3> QED BY <2>6, <3>2, <3>3, <3>4 DEF LegacyInv
  <2>8. CASE PutResult(c)
    <3>1. review' = review /\ result' = call[c].review
      BY <2>8 DEF PutResult
    <3>2. LegacyTypeOK'
      BY <2>2, <2>3, <2>4, <3>1 DEF LegacyInv, LegacyTypeOK
    <3>3. Adjudicated(call[c].review)
      BY <2>1, <2>8 DEF CallValid, PutResult
    <3>4. ResultAdjudicated'
      BY <3>1, <3>3 DEF ResultAdjudicated
    <3>5. (\A d \in Calls : call[d].pc = "authorized" =>
              call[d].op \in {"create", "revoke"} \/ Valid(review))'
      BY <2>3, <2>5, <3>1 DEF LegacyInv
    <3> QED BY <2>6, <3>1, <3>2, <3>4, <3>5 DEF LegacyInv
  <2> QED BY <1>8, <2>7, <2>8
<1>9. CASE UNCHANGED vars
  BY <1>9 DEF vars, LegacyInv, LegacyTypeOK, ResultAdjudicated
<1> QED
  BY <1>1, <1>2, <1>3, <1>4, <1>5, <1>6, <1>7, <1>8, <1>9 DEF LegacyNext

\* However calls overwrite each other, a published result is adjudicated.
THEOREM ResultIsAdjudicated == LegacySpec => []ResultAdjudicated
<1>1. LegacyInv => ResultAdjudicated
  BY DEF LegacyInv
<1> QED BY InvInit, InvNext, <1>1, PTL DEF LegacySpec
=============================================================================
