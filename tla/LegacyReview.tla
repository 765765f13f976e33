---------------------------- MODULE LegacyReview ----------------------------
(***************************************************************************)
(* The review service of adjudication.ts: two reviewers, then an           *)
(* adjudicator, behind invitation tokens.  A review is one JSON object in  *)
(* R2.  Every handler reads it, computes a new one and puts it back whole, *)
(* with nothing to notice that another call put its own in between.        *)
(*                                                                         *)
(* One review id is modelled; reviews share nothing.  A call that is       *)
(* refused, by its token, its expiry or its input, changes nothing, and    *)
(* has no step.                                                            *)
(***************************************************************************)
CONSTANTS
    Frames, Answers,   \* the frames of the template, what may be said of one
    Agreed(_, _),      \* compareReviews finds no disagreement between two
    Calls,
    None

VARIABLES
    review,   \* the object reviews/<id>.json
    result,   \* the object results/<id>.json
    call

vars == <<review, result, call>>

Reviewers == {"reviewer-a", "reviewer-b"}
Roles == Reviewers \cup {"adjudicator"}

Submission == [answer : [Frames -> Answers], reviewed : SUBSET Frames]

ReviewRecord ==
    [status : [Roles -> {"pending", "in_progress", "complete"}],
     revoked : SUBSET Roles,
     submission : [Reviewers -> Submission \cup {None}],
     disagreements : (SUBSET Frames) \cup {None},    \* review.comparison
     merged : [Frames -> Answers] \cup {None},
     log : SUBSET Frames]                            \* adjudication_log

Call == [pc : {"idle", "authorized", "computed", "stored", "answered"},
         op : {"none", "create", "revoke", "save", "complete", "resolve", "finish"},
         role : Roles \cup {None},
         review : ReviewRecord \cup {None}]   \* what the call puts

LegacyTypeOK ==
    /\ review \in ReviewRecord \cup {None}
    /\ result \in ReviewRecord \cup {None}
    /\ call \in [Calls -> Call]

Idle == [pc |-> "idle", op |-> "none", role |-> None, review |-> None]

LegacyInit ==
    /\ review = None
    /\ result = None
    /\ call = [c \in Calls |-> Idle]

-----------------------------------------------------------------------------
(***************************************************************************)
(* What the handlers make of the object they read                          *)
(***************************************************************************)
Fresh == [status |-> [r \in Roles |-> "pending"], revoked |-> {},
          submission |-> [r \in Reviewers |-> None],
          disagreements |-> None, merged |-> None, log |-> {}]

Saved(v, role, s) ==
    [status |-> [v.status EXCEPT ![role] = "in_progress"],
     submission |-> [v.submission EXCEPT ![role] = s],
     revoked |-> v.revoked, disagreements |-> v.disagreements,
     merged |-> v.merged, log |-> v.log]

Other(role) == IF role = "reviewer-a" THEN "reviewer-b" ELSE "reviewer-a"

Differences(v) ==
    {f \in Frames : ~Agreed(v.submission["reviewer-a"].answer[f],
                            v.submission["reviewer-b"].answer[f])}

CompletedFirst(v, role) ==
    [status |-> [v.status EXCEPT ![role] = "complete"],
     submission |-> v.submission, revoked |-> v.revoked,
     disagreements |-> v.disagreements, merged |-> v.merged, log |-> v.log]

\* The second reviewer to complete starts the adjudication.
CompletedSecond(v, role) ==
    [status |-> [v.status EXCEPT ![role] = "complete", !["adjudicator"] = "in_progress"],
     submission |-> v.submission, revoked |-> v.revoked,
     disagreements |-> Differences(v),
     merged |-> v.submission["reviewer-a"].answer, log |-> {}]

Completed(v, role) ==
    IF v.status[Other(role)] = "complete" THEN CompletedSecond(v, role)
                                          ELSE CompletedFirst(v, role)

Resolved(v, f, a) ==
    [merged |-> [v.merged EXCEPT ![f] = a], log |-> v.log \cup {f},
     status |-> v.status, submission |-> v.submission, revoked |-> v.revoked,
     disagreements |-> v.disagreements]

Finished(v) ==
    [status |-> [v.status EXCEPT !["adjudicator"] = "complete"],
     submission |-> v.submission, revoked |-> v.revoked,
     disagreements |-> v.disagreements, merged |-> v.merged, log |-> v.log]

Revoked(v, role) ==
    [revoked |-> v.revoked \cup {role},
     status |-> v.status, submission |-> v.submission,
     disagreements |-> v.disagreements, merged |-> v.merged, log |-> v.log]

-----------------------------------------------------------------------------
(***************************************************************************)
(* Calls                                                                   *)
(***************************************************************************)

\* An administrator's call, or one whose token names an assignment that is
\* not revoked.  The token of a creation that was overwritten names the same
\* assignment ids, and passes as well.
Authorize(c, op, role) ==
    /\ call[c].pc = "idle"
    /\ \/ op = "create" /\ role = None
       \/ op = "revoke" /\ role \in Roles
       \/ /\ \/ op \in {"save", "complete"} /\ role \in Reviewers
             \/ op \in {"resolve", "finish"} /\ role = "adjudicator"
          /\ review # None
          /\ role \notin review.revoked
    /\ call' = [call EXCEPT ![c] = [pc |-> "authorized", op |-> op,
                                    role |-> role, review |-> None]]
    /\ UNCHANGED <<review, result>>

\* The call reads the object again, and will put v.
Authorized(c, op) == call[c].pc = "authorized" /\ call[c].op = op
Computes(c, v) ==
    /\ call' = [call EXCEPT ![c] = [pc |-> "computed", op |-> call[c].op,
                                    role |-> call[c].role, review |-> v]]
    /\ UNCHANGED <<review, result>>

CreateReview(c) ==
    /\ Authorized(c, "create")
    /\ review = None
    /\ Computes(c, Fresh)

RevokeAssignment(c) ==
    /\ Authorized(c, "revoke")
    /\ review # None
    /\ Computes(c, Revoked(review, call[c].role))

SaveReviewer(c) ==
    /\ Authorized(c, "save")
    /\ review.status[call[c].role] # "complete"
    /\ \E s \in Submission : Computes(c, Saved(review, call[c].role, s))

\* Every frame must have been reviewed.
CompleteReviewer(c) ==
    /\ Authorized(c, "complete")
    /\ review.status[call[c].role] # "complete"
    /\ review.submission[call[c].role] # None
    /\ review.submission[call[c].role].reviewed = Frames
    /\ Computes(c, Completed(review, call[c].role))

Adjudicating == review.merged # None /\ review.disagreements # None

ResolveFrame(c) ==
    /\ Authorized(c, "resolve")
    /\ Adjudicating
    /\ review.status["adjudicator"] # "complete"
    /\ \E f \in Frames, a \in Answers : Computes(c, Resolved(review, f, a))

\* Every frame the reviewers disagree on must have been resolved.
CompleteAdjudication(c) ==
    /\ Authorized(c, "finish")
    /\ Adjudicating
    /\ review.disagreements \subseteq review.log
    /\ Computes(c, Finished(review))

\* The object is put back.
PutReview(c) ==
    /\ call[c].pc = "computed"
    /\ review' = call[c].review
    /\ call' = [call EXCEPT ![c] = [pc |-> IF call[c].op = "finish" THEN "stored"
                                           ELSE "answered",
                                    op |-> call[c].op, role |-> call[c].role,
                                    review |-> call[c].review]]
    /\ UNCHANGED result

\* The completed adjudication is published.
PutResult(c) ==
    /\ call[c].pc = "stored"
    /\ result' = call[c].review
    /\ call' = [call EXCEPT ![c] = [pc |-> "answered", op |-> call[c].op,
                                    role |-> call[c].role,
                                    review |-> call[c].review]]
    /\ UNCHANGED review

LegacyNext ==
    \E c \in Calls :
        \/ \E op \in {"create", "revoke", "save", "complete", "resolve", "finish"},
              role \in Roles \cup {None} : Authorize(c, op, role)
        \/ CreateReview(c) \/ RevokeAssignment(c)
        \/ SaveReviewer(c) \/ CompleteReviewer(c)
        \/ ResolveFrame(c) \/ CompleteAdjudication(c)
        \/ PutReview(c) \/ PutResult(c)

LegacySpec == LegacyInit /\ [][LegacyNext]_vars

-----------------------------------------------------------------------------
(***************************************************************************)
(* Properties                                                              *)
(***************************************************************************)

\* What an adjudicated object says of each frame is what both reviewers,
\* after a complete pass of each, agreed on, or what the adjudicator put.
Adjudicated(v) ==
    /\ \A r \in Reviewers :
          v.status[r] = "complete" /\ v.submission[r].reviewed = Frames
    /\ \A f \in Frames \ v.log :
          /\ v.merged[f] = v.submission["reviewer-a"].answer[f]
          /\ Agreed(v.merged[f], v.submission["reviewer-b"].answer[f])

\* However calls overwrite each other's objects, a published result is
\* adjudicated: an object put back whole may be old, but is never a mixture
\* (adjudication.ts:442-502).
ResultAdjudicated == result # None => Adjudicated(result)

\* An assignment whose revocation was answered stays revoked
\* (workers/README.md:52-54: "Administrators can revoke an assignment").
RevocationStands ==
    \A c \in Calls : call[c].op = "revoke" /\ call[c].pc = "answered" =>
        call[c].role \in review.revoked
=============================================================================
