---------------------------- MODULE ReviewCampaign ---------------------------
(***************************************************************************)
(* Managed review campaigns: workers/control-plane/src/                    *)
(* managed-campaigns.ts, with the contracts of managed-annotations.ts and  *)
(* the comparison of review-comparison.ts.                                 *)
(*                                                                         *)
(* Two reviewers annotate the frames of a template independently, an       *)
(* adjudicator merges their passes, and the completed merge becomes a      *)
(* ground-truth candidate.  Coordinators issue, reissue and revoke the     *)
(* tokens these people present, and may cancel, while calls are in flight. *)
(*                                                                         *)
(* Every await is a step boundary.  A row's revision is compared with the  *)
(* one a client sends, and again by the UPDATE: the model keeps, for every *)
(* call, whether its revision is still the row's (current).                *)
(***************************************************************************)
EXTENDS Naturals, FiniteSets

CONSTANTS
    Campaigns,      \* the ids of creations, all with one idempotency_key
    Frames,         \* the frames of the template
    Contents,       \* what a frame may be annotated with
    Blank,          \* the annotation every frame of the template starts with
    Agree(_, _),    \* compareReviews finds no disagreement in a frame
    Valid(_),       \* validateManagedSubmission, for [Frames -> Contents]
    Drafts,         \* the submissions each reviewer may send; covered when
                    \* reviewed_frames has every frame (assertManagedCoverage)
    MaxTokens,      \* bound: tokens minted for each role, [Role -> Nat]
    Unsettled,      \* bound: roles whose tokens are revoked or expire
    Calls,          \* requests of token holders
    Bound,          \* roles whose assignment may be bound to a named user
    None,           \* SQL NULL
    Faults          \* the failures D1 may produce, see AllFaults

Reviewer == {"reviewer-a", "reviewer-b"}
Role == Reviewer \cup {"adjudicator"}
Annotation == [Frames -> Contents]
Template == [f \in Frames |-> Blank]

AllFaults == {"batch_fails",       \* the batch of a completion fails
              "batch_ambiguous"}   \* it commits, but reports an error

ASSUME ReviewAssumption ==
    /\ Blank \in Contents
    /\ \A x, y \in Contents : Agree(x, y) \in BOOLEAN
    /\ \A a \in Annotation : Valid(a) \in BOOLEAN
    /\ Valid(Template)
    /\ Drafts \in [Reviewer -> SUBSET [frames : {a \in Annotation : Valid(a)},
                                        covered : BOOLEAN]]
    /\ MaxTokens \in [Role -> Nat]
    /\ Bound \subseteq Role /\ Unsettled \subseteq Role
    /\ None \notin Campaigns \cup Calls \cup Annotation
    /\ Faults \subseteq AllFaults

VARIABLES
    campaign,     \* review_campaigns.status
    assignment,   \* campaign_assignments, by campaign and role
    adjudicated,  \* campaign_adjudications
    truth,        \* ground_truth_versions: the operation that registered it
    bucket,       \* the result objects, by the operation that stored them
    lapsed,       \* bound users who lost their session or role
    call,         \* requests in flight
    current       \* those whose expected revision is still the row's

rows == <<campaign, assignment, adjudicated, truth>>
vars == <<rows, bucket, lapsed, call, current>>

Status == {"none", "ready", "active", "awaiting_adjudication", "adjudicating",
           "completed", "cancelled"}
Submission == [frames : Annotation, covered : BOOLEAN] \cup {None}
Assignment == [status : {"pending", "in_progress", "complete"},
               token : Nat,   \* token_hash: the latest minted, 0 NULL
               access : {"good", "expired", "revoked"}, bound : BOOLEAN,
               submission : Submission]
Adjudication == [made : {FALSE}, comparison : {{}}, merged : {Template}, log : {{}}]
                \cup [made : {TRUE}, comparison : SUBSET Frames,
                      merged : Annotation, log : SUBSET Frames]
Call == [pc : {"idle", "identify", "write", "reviewers", "row", "insert",
               "put", "batch", "confirm", "discard"},
         op : {"save", "complete", "view", "resolve", "finish"},
         campaign : Campaigns \cup {None}, role : Role, token : Nat,
         submission : Submission, bound : BOOLEAN, timely : BOOLEAN,
         left : Submission, right : Submission,
         merged : Annotation, log : SUBSET Frames]

Idle == [pc |-> "idle", op |-> "view", campaign |-> None, role |-> "adjudicator",
         token |-> 0, submission |-> None, bound |-> FALSE, timely |-> TRUE,
         left |-> None, right |-> None, merged |-> Template, log |-> {}]

PassesComplete(as) == \A r \in Reviewer : as[r].status = "complete"

\* The last conjunct ties the campaign's status to its passes.
ReviewTypeOK ==
    /\ campaign \in [Campaigns -> Status]
    /\ assignment \in [Campaigns -> [Role -> Assignment]]
    /\ adjudicated \in [Campaigns -> Adjudication]
    /\ truth \in [Campaigns -> Calls \cup {None}]
    /\ bucket \subseteq Campaigns \X Calls
    /\ lapsed \subseteq Campaigns \X Role
    /\ call \in [Calls -> Call]
    /\ current \subseteq Calls
    /\ \A c \in Campaigns :
          /\ campaign[c] \in {"none", "ready", "active"} => ~PassesComplete(assignment[c])
          /\ campaign[c] \in {"awaiting_adjudication", "adjudicating", "completed"}
                => PassesComplete(assignment[c])

Init ==
    /\ campaign = [c \in Campaigns |-> "none"]
    /\ assignment = [c \in Campaigns |-> [r \in Role |->
          [status |-> "pending", token |-> 0, access |-> "good",
           bound |-> FALSE, submission |-> None]]]
    /\ adjudicated = [c \in Campaigns |->
          [made |-> FALSE, comparison |-> {}, merged |-> Template, log |-> {}]]
    /\ truth = [c \in Campaigns |-> None]
    /\ bucket = {} /\ lapsed = {}
    /\ call = [k \in Calls |-> Idle]
    /\ current = {}

Open(c) == campaign[c] \notin {"none", "completed", "cancelled"}

-----------------------------------------------------------------------------
(***************************************************************************)
(* Coordinators: handleAdmin.  Each action's check and batch are one step: *)
(* the batch repeats the check.                                            *)
(***************************************************************************)

\* createCampaign: idempotency_key is UNIQUE, so whoever loses the race after
\* the lookup answers with the winner's campaign.  issue_tokens mints the
\* three tokens at once.
Create(c) ==
    /\ \A d \in Campaigns : campaign[d] = "none"
    /\ campaign' = [campaign EXCEPT ![c] = "ready"]
    /\ \E issue \in {0, 1} :
          assignment' = [assignment EXCEPT ![c] =
              [r \in Role |-> [@[r] EXCEPT !.token = issue]]]
    /\ UNCHANGED <<adjudicated, truth, bucket, lapsed, call, current>>

\* The calls that expect the present revision of the assignment of c and r.
Expecting(c, r) == {k \in Calls : /\ call[k].op \in {"save", "complete"}
                                  /\ call[k].campaign = c /\ call[k].role = r}

\* Only an assignment whose token was issued has a revision to outdate.
SetToken(c, r, token, access) ==
    /\ assignment' = [assignment EXCEPT ![c][r] =
          [@ EXCEPT !.token = token, !.access = access]]
    /\ current' = IF assignment[c][r].token = 0 THEN current
                  ELSE current \ Expecting(c, r)
    /\ UNCHANGED <<campaign, adjudicated, truth, bucket, lapsed, call>>

\* issue and reissue
Issue(c, r) ==
    /\ Open(c) /\ assignment[c][r].status # "complete"
    /\ assignment[c][r].token < MaxTokens[r]
    /\ SetToken(c, r, assignment[c][r].token + 1, "good")

Revoke(c, r) == Open(c) /\ r \in Unsettled /\ SetToken(c, r, assignment[c][r].token, "revoked")

\* To a verified user with the role, before a token is issued.
Assign(c, r) ==
    /\ Open(c) /\ r \in Bound
    /\ assignment[c][r].status = "pending" /\ assignment[c][r].token = 0
    /\ assignment' = [assignment EXCEPT ![c][r].bound = TRUE]
    /\ UNCHANGED <<campaign, adjudicated, truth, bucket, lapsed,
                   call, current>>

Cancel(c) ==
    /\ Open(c)
    /\ campaign' = [campaign EXCEPT ![c] = "cancelled"]
    /\ assignment' = [assignment EXCEPT ![c] =
          [r \in Role |-> [@[r] EXCEPT !.access = "revoked"]]]
    /\ current' = current \ UNION {Expecting(c, r) : r \in Role}
    /\ UNCHANGED <<adjudicated, truth, bucket, lapsed, call>>

\* Time, as long as it matters, and the identity service.
Expire(c, r) ==
    /\ r \in Unsettled /\ assignment[c][r].token # 0
    /\ assignment[c][r].access = "good" /\ assignment[c][r].status # "complete"
    /\ assignment' = [assignment EXCEPT ![c][r].access = "expired"]
    /\ UNCHANGED <<campaign, adjudicated, truth, bucket, lapsed,
                   call, current>>

Lapse(c, r) ==
    /\ assignment[c][r].bound /\ <<c, r>> \notin lapsed
    /\ lapsed' = lapsed \cup {<<c, r>>}
    /\ UNCHANGED <<rows, bucket, call, current>>

-----------------------------------------------------------------------------
(***************************************************************************)
(* Token holders: handleManagedCampaigns up to the handler                 *)
(***************************************************************************)

At(k, pc) == call[k].pc = pc
Goto(k, pc) == call' = [call EXCEPT ![k].pc = pc]
Return(k) == call' = [call EXCEPT ![k] = Idle] /\ current' = current \ {k}

\* The assignment row is read by its token; writeReviewer judges this copy.
Present(k, c, r, op) ==
    LET a == assignment[c][r]
    IN  /\ At(k, "idle")
        /\ a.token # 0 /\ a.access = "good"
        /\ campaign[c] \notin {"none", "cancelled"}
        /\ op \in IF r \in Reviewer THEN {"save", "complete"}
                                    ELSE {"view", "resolve", "finish"}
        /\ op # "view" => a.status # "complete"
        /\ op = "complete" => a.submission # None /\ a.submission.covered
        /\ \E s \in IF op = "save" THEN Drafts[r]
                    ELSE {IF op = "complete" THEN a.submission ELSE None} :
              call' = [call EXCEPT ![k] =
                  [Idle EXCEPT !.pc = "identify", !.op = op, !.campaign = c,
                               !.role = r, !.token = a.token, !.bound = a.bound,
                               !.submission = s]]
        /\ current' = IF r \in Reviewer THEN current \cup {k} ELSE current
        /\ UNCHANGED <<rows, bucket, lapsed>>

\* A bound assignment needs its user's session and role as well.
Identify(k) ==
    /\ At(k, "identify")
    /\ IF call[k].bound /\ <<call[k].campaign, call[k].role>> \in lapsed
       THEN Return(k)
       ELSE /\ Goto(k, IF call[k].role \in Reviewer THEN "write" ELSE "reviewers")
            /\ UNCHANGED current
    /\ UNCHANGED <<rows, bucket, lapsed>>

-----------------------------------------------------------------------------
(***************************************************************************)
(* writeReviewer                                                           *)
(***************************************************************************)

\* Mutant: whoever the call authenticated as may still write.
GrantedOnce(k) == Open(call[k].campaign)

\* The token of the call is still the row's, and good.
Granted(k) ==
    LET a == assignment[call[k].campaign][call[k].role]
    IN  /\ Open(call[k].campaign)
        /\ a.token = call[k].token /\ a.access # "revoked" /\ a.status # "complete"

\* Mutant: the revision the client sent is only checked before the write.
WritableByRevision(k) ==
    Open(call[k].campaign) /\ assignment[call[k].campaign][call[k].role].access = "good"

Writable(k) == /\ Granted(k) /\ k \in current
               /\ assignment[call[k].campaign][call[k].role].access = "good"

Progressed(as) == IF PassesComplete(as) THEN "awaiting_adjudication" ELSE "active"

WriteReviewer(k) ==
    LET c == call[k].campaign
        r == call[k].role
    IN  /\ At(k, "write")
        /\ IF Writable(k)
           THEN /\ assignment' = [assignment EXCEPT ![c][r] =
                     [@ EXCEPT !.submission = call[k].submission,
                               !.status = IF call[k].op = "complete"
                                          THEN "complete" ELSE "in_progress"]]
                /\ campaign' = [campaign EXCEPT ![c] = Progressed(assignment'[c])]
                /\ current' = current \ Expecting(c, r)
           ELSE UNCHANGED <<assignment, campaign>> /\ current' = current \ {k}
        /\ call' = [call EXCEPT ![k] = Idle]
        /\ UNCHANGED <<adjudicated, truth, bucket, lapsed>>

-----------------------------------------------------------------------------
(***************************************************************************)
(* adjudication: the comparison is made by the first call that needs it    *)
(***************************************************************************)

Disagreements(left, right) ==
    {f \in Frames : ~Agree(left.frames[f], right.frames[f])}

\* Mutant: one complete pass is enough to start comparing.
BothCompleteEither(c) ==
    /\ \E r \in Reviewer : assignment[c][r].status = "complete"
    /\ \A r \in Reviewer : assignment[c][r].submission # None

BothComplete(c) == PassesComplete(assignment[c])

ReadReviewers(k) ==
    LET c == call[k].campaign
    IN  /\ At(k, "reviewers")
        /\ IF ~BothComplete(c) THEN Return(k)
           ELSE /\ call' = [call EXCEPT ![k] = [@ EXCEPT !.pc = "row",
                      !.left = assignment[c]["reviewer-a"].submission,
                      !.right = assignment[c]["reviewer-b"].submission]]
                /\ UNCHANGED current
        /\ UNCHANGED <<rows, bucket, lapsed>>

\* ON CONFLICT(campaign_id) DO NOTHING; the row is then read again.
InsertAdjudication(k) ==
    LET c == call[k].campaign
    IN  /\ At(k, "insert")
        /\ adjudicated' = [adjudicated EXCEPT ![c] =
              IF @.made THEN @
              ELSE [made |-> TRUE, log |-> {}, merged |-> call[k].left.frames,
                    comparison |-> Disagreements(call[k].left, call[k].right)]]
        /\ Goto(k, "row")
        /\ UNCHANGED <<campaign, assignment, truth, bucket, lapsed, current>>

-----------------------------------------------------------------------------
(***************************************************************************)
(* writeAdjudication: one frame, or the completion                         *)
(***************************************************************************)

\* The client's revision is the row's.  A frame takes one reviewer's content
\* or an edited one; the log keeps one entry per frame.
Resolve(k, row, f, x) ==
    LET merged == [row.merged EXCEPT ![f] = x]
    IN  /\ call[k].op = "resolve" /\ Valid(merged)
        /\ call' = [call EXCEPT ![k] = [@ EXCEPT !.pc = "batch",
              !.merged = merged, !.log = row.log \cup {f}, !.left = None, !.right = None,
              !.timely = assignment[call[k].campaign][call[k].role].access = "good"]]
        /\ current' = current \cup {k}

\* Mutant: the log need not cover the comparison.
ResolvedAny(row) == Valid(row.merged)

Resolved(row) == row.comparison \subseteq row.log /\ Valid(row.merged)

Finish(k, row) ==
    /\ call[k].op = "finish" /\ Resolved(row)
    /\ call' = [call EXCEPT ![k] = [@ EXCEPT !.pc = "put",
          !.merged = row.merged, !.log = row.log, !.left = None, !.right = None,
          !.timely = assignment[call[k].campaign][call[k].role].access = "good"]]
    /\ current' = current \cup {k}

\* A view ends here, and so does a request that is refused.
ReadRow(k) ==
    LET row == adjudicated[call[k].campaign]
    IN  /\ At(k, "row")
        /\ \/ ~row.made /\ Goto(k, "insert") /\ UNCHANGED current
           \/ row.made /\ \E f \in Frames, x \in Contents : Resolve(k, row, f, x)
           \/ row.made /\ Finish(k, row)
           \/ row.made /\ Return(k)
        /\ UNCHANGED <<rows, bucket, lapsed>>

PutResult(k) ==
    /\ At(k, "put")
    /\ bucket' = bucket \cup {<<call[k].campaign, k>>}
    /\ Goto(k, "batch")
    /\ UNCHANGED <<rows, lapsed, current>>

\* The UPDATE that all other statements of the batch depend on.
Adjudicable(k) == Granted(k) /\ k \in current /\ call[k].timely

\* Mutant: the campaign is completed without its ground truth.
RegistersNothing(k) == FALSE

Registers(k) == call[k].op = "finish"

AdjudicationBatch(k) ==
    LET c == call[k].campaign
        done == call[k].op = "finish"
    IN  /\ adjudicated' = [adjudicated EXCEPT ![c] =
              [@ EXCEPT !.merged = call[k].merged, !.log = call[k].log]]
        /\ truth' = [truth EXCEPT ![c] = IF Registers(k) THEN k ELSE @]
        /\ assignment' = [assignment EXCEPT ![c]["adjudicator"].status =
              IF done THEN "complete" ELSE "in_progress"]
        /\ campaign' = [campaign EXCEPT ![c] =
              IF done THEN "completed" ELSE "adjudicating"]
        /\ current' = {j \in current : call[j].campaign # c \/ call[j].role \in Reviewer}

Faulty(fault) == fault \in Faults

Adjudicate(k) ==
    /\ At(k, "batch")
    /\ \/ /\ Adjudicable(k) /\ AdjudicationBatch(k)
          /\ \/ call' = [call EXCEPT ![k] = Idle]
             \/ /\ Faulty("batch_ambiguous") /\ call[k].op = "finish"
                /\ Goto(k, "confirm")
       \/ /\ ~Adjudicable(k)
          /\ IF call[k].op = "finish" THEN Goto(k, "discard") /\ UNCHANGED current
                                      ELSE Return(k)
          /\ UNCHANGED <<campaign, assignment, adjudicated, truth>>
       \/ /\ Faulty("batch_fails") /\ call[k].op = "finish"
          /\ Goto(k, "confirm")
          /\ UNCHANGED <<campaign, assignment, adjudicated, truth, current>>
    /\ UNCHANGED <<bucket, lapsed>>

\* Mutant: the catch always cleans up.
CommittedNever(k) == FALSE

\* last_operation_id: the row's last write was this call's.
Committed(k) == truth[call[k].campaign] = k

Confirm(k) ==
    /\ At(k, "confirm")
    /\ IF Committed(k) THEN Return(k) ELSE Goto(k, "discard") /\ UNCHANGED current
    /\ UNCHANGED <<rows, bucket, lapsed>>

DiscardResult(k) ==
    /\ At(k, "discard")
    /\ bucket' = bucket \ {<<call[k].campaign, k>>}
    /\ Return(k)
    /\ UNCHANGED <<rows, lapsed>>

-----------------------------------------------------------------------------
Coordinating(c) ==
    \/ Create(c) \/ Cancel(c)
    \/ \E r \in Role : Issue(c, r) \/ Revoke(c, r) \/ Assign(c, r)
                       \/ Expire(c, r) \/ Lapse(c, r)

Calling(k) ==
    \/ \E c \in Campaigns, r \in Role,
          op \in {"save", "complete", "view", "resolve", "finish"} : Present(k, c, r, op)
    \/ Identify(k) \/ WriteReviewer(k)
    \/ ReadReviewers(k) \/ ReadRow(k) \/ InsertAdjudication(k)
    \/ PutResult(k) \/ Adjudicate(k) \/ Confirm(k) \/ DiscardResult(k)

Next == (\E c \in Campaigns : Coordinating(c)) \/ (\E k \in Calls : Calling(k))

Spec == Init /\ [][Next]_vars

-----------------------------------------------------------------------------
(***************************************************************************)
(* Properties                                                              *)
(***************************************************************************)

\* The frozen comparison is the comparison of the two completed passes, so a
\* later validation, which repeats it (ground-truth.ts context), agrees.
ComparisonIsFinal ==
    \A c \in Campaigns : adjudicated[c].made =>
        /\ PassesComplete(assignment[c])
        /\ adjudicated[c].comparison =
              Disagreements(assignment[c]["reviewer-a"].submission,
                            assignment[c]["reviewer-b"].submission)

\* A campaign is completed exactly when its ground truth is registered, from
\* a merge that resolved every disagreement and whose object is stored, even
\* if the completion failed or was repeated (writeAdjudication, result).
ResultStored ==
    \A c \in Campaigns :
        /\ truth[c] # None <=> campaign[c] = "completed"
        /\ truth[c] # None =>
              /\ <<c, truth[c]>> \in bucket
              /\ adjudicated[c].comparison \subseteq adjudicated[c].log
              /\ Valid(adjudicated[c].merged)

\* What a revoked, replaced or unbound token had in flight never lands: a
\* submission or a merge only changes by a call holding the present token, and
\* a completed pass, or one that was saved meanwhile, is never overwritten.
WriteIsCurrent(c) ==
    /\ \A r \in Reviewer :
          assignment[c][r].submission # assignment'[c][r].submission =>
              /\ assignment[c][r].status # "complete"
              /\ \E k \in current : /\ At(k, "write") /\ call[k].campaign = c
                                    /\ call[k].role = r
                                    /\ call[k].token = assignment[c][r].token
                                    /\ assignment[c][r].access # "revoked"
    /\ adjudicated[c].made /\ adjudicated[c] # adjudicated'[c] =>
          /\ assignment[c]["adjudicator"].access # "revoked"
          /\ campaign[c] # "completed"

WritesAreCurrent == [][\A c \in Campaigns : WriteIsCurrent(c)]_vars

\* context (ground-truth.ts): "adjudication decisions do not cover every
\* disagreement exactly once".
LogMatchesDisagreements ==
    \A c \in Campaigns : campaign[c] = "completed" =>
        adjudicated[c].log = adjudicated[c].comparison
=============================================================================
