------------------------ MODULE ReviewCampaignProofs -------------------------
(***************************************************************************)
(* Proofs about ReviewCampaign, for every number of campaigns, frames and  *)
(* calls and every comparison and validity of annotations, and about the   *)
(* comparison of ReviewComparison.                                         *)
(***************************************************************************)
EXTENDS ReviewInvariants, TLAPS, WellFoundedInduction, FiniteSetTheorems

LEMMA TemplateType == Template \in Annotation
  BY ReviewAssumption DEF Template, Annotation

LEMMA IdleType == Idle \in Call /\ Idle.pc = "idle"
  BY TemplateType DEF Idle, Call, Role, Reviewer, Submission

LEMMA Roles ==
  /\ "reviewer-a" \in Role /\ "reviewer-b" \in Role /\ "adjudicator" \in Role
  /\ Reviewer \subseteq Role /\ "adjudicator" \notin Reviewer
  BY DEF Role, Reviewer

\* One assignment row gets a new value.
LEMMA AssignmentStep ==
  ASSUME assignment \in [Campaigns -> [Role -> Assignment]],
         NEW c \in Campaigns, NEW r \in Role, NEW x \in Assignment,
         assignment' = [assignment EXCEPT ![c][r] = x]
  PROVE  /\ assignment' \in [Campaigns -> [Role -> Assignment]]
         /\ assignment'[c][r] = x
         /\ \A d \in Campaigns, s \in Role :
               d # c \/ s # r => assignment'[d][s] = assignment[d][s]
  OBVIOUS

-----------------------------------------------------------------------------
(***************************************************************************)
(* What a step must leave alone for the invariant to survive               *)
(***************************************************************************)

\* Completed passes, adjudications and ground truths stay.
PassesStay ==
    \A c \in Campaigns, r \in Reviewer :
        assignment[c][r].status = "complete" =>
            /\ assignment'[c][r].status = "complete"
            /\ assignment'[c][r].submission = assignment[c][r].submission
RowsStay ==
    \A c \in Campaigns : adjudicated[c].made =>
        adjudicated'[c].made /\ adjudicated'[c].comparison = adjudicated[c].comparison

LEMMA PassesKept ==
  ASSUME PassesStay, NEW c \in Campaigns, PassesComplete(assignment[c])
  PROVE  /\ PassesComplete(assignment'[c])
         /\ \A r \in Reviewer : assignment'[c][r].submission = assignment[c][r].submission
  BY DEF PassesStay, PassesComplete

\* A call whose own ground truth and objects do not change keeps its invariant.
LEMMA CallKept ==
  ASSUME PassesStay, RowsStay, NEW k, NEW x, CallInv(k, x),
         \A c \in Campaigns : truth'[c] = k => truth[c] = k,
         \A c \in Campaigns : <<c, k>> \in bucket => <<c, k>> \in bucket'
  PROVE  CallInv(k, x)'
<1>1. CASE x.pc = "idle"
  BY <1>1 DEF CallInv
<1>2. CASE x.pc # "idle"
  <2>1. Admitted(x) /\ ReadsFinal(x) /\ MergeChecked(x) /\ ObjectOwned(k, x)
        /\ x.campaign \in Campaigns
    BY <1>2 DEF CallInv, Admitted
  <2>2. ReadsFinal(x)'
    BY <2>1, PassesKept DEF ReadsFinal, Reviewer
  <2>3. MergeChecked(x)'
    BY <2>1 DEF MergeChecked, RowsStay
  <2>4. ObjectOwned(k, x)'
    BY <2>1 DEF ObjectOwned
  <2>5. QED
    BY <2>1, <2>2, <2>3, <2>4 DEF CallInv, Admitted
<1>3. QED
  BY <1>1, <1>2

\* One call moves on; no row changes and no object goes.
LEMMA MoveStep ==
  ASSUME ReviewInv, UNCHANGED rows, NEW k \in Calls, NEW x \in Call,
         call' = [call EXCEPT ![k] = x], CallInv(k, x)',
         current' \subseteq Calls, bucket \subseteq bucket',
         bucket' \subseteq Campaigns \X Calls, lapsed' = lapsed
  PROVE  ReviewInv'
<1> USE DEF ReviewInv, rows
<1>1. ReviewTypeOK'
  BY DEF ReviewTypeOK
<1>2. \A j \in Calls : CallInv(j, call[j])'
  <2>1. PassesStay /\ RowsStay
    BY DEF PassesStay, RowsStay
  <2>2. \A j \in Calls : CallInv(j, call[j])' \/ j = k
    <3>1. \A j \in Calls \ {k} : call'[j] = call[j]
      BY DEF ReviewTypeOK
    <3>2. \A y : \A j \in Calls : CallInv(j, y) => CallInv(j, y)'
      BY <2>1, CallKept
    <3>3. QED
      BY <3>1, <3>2
  <2>3. call'[k] = x
    BY DEF ReviewTypeOK
  <2>4. QED
    BY <2>2, <2>3
<1>3. RowsInv' /\ ComparisonIsFinal'
  BY DEF RowsInv, ComparisonIsFinal, PassesComplete
<1>4. ResultStored'
  BY DEF ResultStored
<1>5. QED
  BY <1>1, <1>2, <1>3, <1>4

\* Tokens, access and bindings change; passes, adjudications and objects do not.
LEMMA QuietStep ==
  ASSUME ReviewInv, UNCHANGED <<adjudicated, truth, bucket, call>>, ReviewTypeOK',
         \A c \in Campaigns, r \in Role :
            /\ assignment'[c][r].status = assignment[c][r].status
            /\ assignment'[c][r].submission = assignment[c][r].submission,
         \A c \in Campaigns : campaign'[c] = "completed" <=> campaign[c] = "completed"
  PROVE  ReviewInv'
<1> USE DEF ReviewInv
<1>1. PassesStay /\ RowsStay
  BY Roles DEF PassesStay, RowsStay
<1>2. \A k \in Calls : CallInv(k, call[k])'
  BY <1>1, CallKept
<1>3. RowsInv'
  BY Roles DEF RowsInv
<1>4. ComparisonIsFinal'
  BY <1>1, PassesKept DEF ComparisonIsFinal, Reviewer
<1>5. ResultStored'
  BY DEF ResultStored
<1>6. QED
  BY <1>2, <1>3, <1>4, <1>5

-----------------------------------------------------------------------------
(***************************************************************************)
(* Coordinators, time and the identity service                             *)
(***************************************************************************)

LEMMA SameStatuses ==
  ASSUME NEW c \in Campaigns,
         \A r \in Role : assignment'[c][r].status = assignment[c][r].status
  PROVE  PassesComplete(assignment'[c]) <=> PassesComplete(assignment[c])
  BY Roles DEF PassesComplete

\* The token, access or binding of one assignment changes.
LEMMA TokenStep ==
  ASSUME ReviewInv, NEW c \in Campaigns, NEW r \in Role, NEW x \in Assignment,
         assignment' = [assignment EXCEPT ![c][r] = x],
         x.status = assignment[c][r].status, x.submission = assignment[c][r].submission,
         current' \subseteq Calls,
         UNCHANGED <<campaign, adjudicated, truth, bucket, lapsed, call>>
  PROVE  ReviewInv'
<1> USE DEF ReviewInv, ReviewTypeOK
<1>1. /\ assignment' \in [Campaigns -> [Role -> Assignment]]
      /\ \A d \in Campaigns, s \in Role :
            /\ assignment'[d][s].status = assignment[d][s].status
            /\ assignment'[d][s].submission = assignment[d][s].submission
  BY AssignmentStep
<1>2. ReviewTypeOK'
  BY <1>1, SameStatuses
<1>3. QED
  BY <1>1, <1>2, QuietStep

LEMMA CoordinatingStep ==
  ASSUME ReviewInv, NEW c \in Campaigns, Coordinating(c) PROVE ReviewInv'
<1> USE DEF ReviewInv, ReviewTypeOK
<1>0. ASSUME NEW r \in Role PROVE assignment[c][r] \in Assignment
  OBVIOUS
<1>1. CASE Create(c)
  <2>1. PICK i \in {0, 1} : assignment' = [assignment EXCEPT ![c] =
              [r \in Role |-> [assignment[c][r] EXCEPT !.token = i]]]
    BY <1>1 DEF Create
  <2>2. /\ campaign[c] = "none" /\ campaign' = [campaign EXCEPT ![c] = "ready"]
        /\ UNCHANGED <<adjudicated, truth, bucket, lapsed, call, current>>
    BY <1>1 DEF Create
  <2>3. \A r \in Role :
          LET x == [assignment[c][r] EXCEPT !.token = i]
          IN  x \in Assignment /\ x.status = assignment[c][r].status
              /\ x.submission = assignment[c][r].submission
    <3>1. i \in Nat
      OBVIOUS
    <3>2. QED
      BY <1>0, <3>1 DEF Assignment
  <2>4. /\ assignment' \in [Campaigns -> [Role -> Assignment]]
        /\ \A d \in Campaigns, r \in Role :
              /\ assignment'[d][r].status = assignment[d][r].status
              /\ assignment'[d][r].submission = assignment[d][r].submission
    BY <2>1, <2>3
  <2>5. ReviewTypeOK'
    BY <2>2, <2>4, SameStatuses DEF Status
  <2>6. QED
    BY <2>2, <2>4, <2>5, QuietStep
<1>2. CASE Cancel(c)
  <2>1. /\ assignment' = [assignment EXCEPT ![c] =
              [r \in Role |-> [assignment[c][r] EXCEPT !.access = "revoked"]]]
        /\ campaign[c] # "completed" /\ campaign' = [campaign EXCEPT ![c] = "cancelled"]
        /\ current' \subseteq current
        /\ UNCHANGED <<adjudicated, truth, bucket, lapsed, call>>
    BY <1>2 DEF Cancel, Open
  <2>2. \A r \in Role :
          LET x == [assignment[c][r] EXCEPT !.access = "revoked"]
          IN  x \in Assignment /\ x.status = assignment[c][r].status
              /\ x.submission = assignment[c][r].submission
    BY <1>0 DEF Assignment
  <2>3. /\ assignment' \in [Campaigns -> [Role -> Assignment]]
        /\ \A d \in Campaigns, r \in Role :
              /\ assignment'[d][r].status = assignment[d][r].status
              /\ assignment'[d][r].submission = assignment[d][r].submission
    BY <2>1, <2>2
  <2>4. ReviewTypeOK'
    BY <2>1, <2>3, SameStatuses DEF Status
  <2>5. QED
    BY <2>1, <2>3, <2>4, QuietStep
<1>3. ASSUME NEW r \in Role, NEW t \in Nat, NEW a \in {"good", "revoked"},
             SetToken(c, r, t, a)
      PROVE  ReviewInv'
  <2>1. PICK x : x = [assignment[c][r] EXCEPT !.token = t, !.access = a]
    OBVIOUS
  <2>2. /\ x \in Assignment /\ x.status = assignment[c][r].status
        /\ x.submission = assignment[c][r].submission
    BY <1>0, <2>1 DEF Assignment
  <2>3. /\ assignment' = [assignment EXCEPT ![c][r] = x] /\ current' \subseteq current
        /\ UNCHANGED <<campaign, adjudicated, truth, bucket, lapsed, call>>
    BY <1>3, <2>1 DEF SetToken
  <2>4. QED
    BY <2>2, <2>3, TokenStep
<1>4. ASSUME NEW r \in Role, Issue(c, r) \/ Revoke(c, r) PROVE ReviewInv'
  <2>1. assignment[c][r].token \in Nat
    BY <1>0 DEF Assignment
  <2>2. QED
    BY <1>3, <1>4, <2>1 DEF Issue, Revoke
<1>5. ASSUME NEW r \in Role, Assign(c, r) PROVE ReviewInv'
  <2>1. PICK x : x = [assignment[c][r] EXCEPT !.bound = TRUE]
    OBVIOUS
  <2>2. /\ x \in Assignment /\ x.status = assignment[c][r].status
        /\ x.submission = assignment[c][r].submission
    BY <1>0, <2>1 DEF Assignment
  <2>3. /\ assignment' = [assignment EXCEPT ![c][r] = x]
        /\ UNCHANGED <<campaign, adjudicated, truth, bucket, lapsed, call, current>>
    BY <1>5, <2>1 DEF Assign
  <2>4. QED
    BY <2>2, <2>3, TokenStep
<1>6. ASSUME NEW r \in Role, Expire(c, r) PROVE ReviewInv'
  <2>1. PICK x : x = [assignment[c][r] EXCEPT !.access = "expired"]
    OBVIOUS
  <2>2. /\ x \in Assignment /\ x.status = assignment[c][r].status
        /\ x.submission = assignment[c][r].submission
    BY <1>0, <2>1 DEF Assignment
  <2>3. /\ assignment' = [assignment EXCEPT ![c][r] = x]
        /\ UNCHANGED <<campaign, adjudicated, truth, bucket, lapsed, call, current>>
    BY <1>6, <2>1 DEF Expire
  <2>4. QED
    BY <2>2, <2>3, TokenStep
<1>7. ASSUME NEW r \in Role, Lapse(c, r) PROVE ReviewInv'
  <2>1. /\ lapsed' = lapsed \cup {<<c, r>>}
        /\ UNCHANGED <<campaign, assignment, adjudicated, truth, bucket, call, current>>
    BY <1>7 DEF Lapse, rows
  <2>2. ReviewTypeOK'
    BY <2>1
  <2>3. QED
    BY <2>1, <2>2, QuietStep
<1>8. QED
  BY <1>1, <1>2, <1>4, <1>5, <1>6, <1>7 DEF Coordinating

-----------------------------------------------------------------------------
(***************************************************************************)
(* Requests that only read                                                 *)
(***************************************************************************)

LEMMA CallFacts ==
  ASSUME ReviewInv, NEW k \in Calls
  PROVE  call[k] \in Call /\ CallInv(k, call[k])
  BY DEF ReviewInv, ReviewTypeOK

LEMMA ReturnStep ==
  ASSUME ReviewInv, UNCHANGED rows, lapsed' = lapsed, NEW k \in Calls, Return(k),
         bucket' = bucket
  PROVE  ReviewInv'
<1>1. call' = [call EXCEPT ![k] = Idle] /\ current' \subseteq Calls
  BY DEF Return, ReviewInv, ReviewTypeOK
<1>2. CallInv(k, Idle)'
  BY IdleType DEF CallInv
<1>3. QED
  BY <1>1, <1>2, IdleType, MoveStep DEF ReviewInv, ReviewTypeOK

LEMMA PresentStep ==
  ASSUME ReviewInv, NEW k \in Calls, NEW c \in Campaigns, NEW r \in Role,
         NEW op \in {"save", "complete", "view", "resolve", "finish"}, Present(k, c, r, op)
  PROVE  ReviewInv'
<1> DEFINE a == assignment[c][r]
<1>1. a \in Assignment
  BY DEF ReviewInv, ReviewTypeOK
<1>2. /\ UNCHANGED <<rows, bucket, lapsed>>
      /\ r \in Reviewer <=> op \in {"save", "complete"}
      /\ op # "view" => a.status # "complete"
      /\ op = "complete" => a.submission # None
      /\ current' \subseteq Calls
  BY DEF Present, ReviewInv, ReviewTypeOK
<1>3. PICK s \in IF op = "save" THEN Drafts[r]
                 ELSE {IF op = "complete" THEN a.submission ELSE None} :
         call' = [call EXCEPT ![k] =
            [Idle EXCEPT !.pc = "identify", !.op = op, !.campaign = c,
                         !.role = r, !.token = a.token, !.bound = a.bound,
                         !.submission = s]]
  BY DEF Present
<1>4. s \in Submission /\ (op = "complete" => s # None)
  <2>1. CASE op = "save"
    <3>1. s \in Drafts[r] /\ r \in Reviewer
      BY <1>2, <1>3, <2>1
    <3>2. QED
      BY <2>1, <3>1, ReviewAssumption DEF Submission
  <2>2. CASE op # "save"
    BY <1>1, <1>2, <1>3, <2>2 DEF Submission, Assignment
  <2>3. QED
    BY <2>1, <2>2
<1>5. PICK x : x = [Idle EXCEPT !.pc = "identify", !.op = op, !.campaign = c,
                         !.role = r, !.token = a.token, !.bound = a.bound,
                         !.submission = s]
  OBVIOUS
<1>6. /\ x \in Call /\ x.pc = "identify" /\ x.op = op /\ x.campaign = c /\ x.role = r
      /\ x.submission = s
  BY <1>1, <1>4, <1>5, TemplateType DEF Idle, Call, Assignment, Submission
<1>7. op = "finish" => truth[c] = None
  <2>1. op = "finish" => r = "adjudicator"
    BY <1>2 DEF Role
  <2>2. QED
    BY <1>2, <2>1 DEF ReviewInv, RowsInv
<1>8. CallInv(k, x)'
  BY <1>2, <1>4, <1>6, <1>7, ReviewAssumption
  DEF CallInv, Admitted, ReadsFinal, MergeChecked, ObjectOwned, rows, Adjudicating
<1>9. QED
  BY <1>2, <1>3, <1>5, <1>6, <1>8, MoveStep DEF ReviewInv, ReviewTypeOK

\* The step keeps what a call was admitted with.
LEMMA GotoFacts ==
  ASSUME ReviewInv, NEW k \in Calls, call[k].pc # "idle",
         NEW pc \in {"write", "reviewers", "row", "insert", "batch", "confirm", "discard"},
         Goto(k, pc)
  PROVE  \E x \in Call :
            /\ call' = [call EXCEPT ![k] = x] /\ x.pc = pc
            /\ x.op = call[k].op /\ x.campaign = call[k].campaign
            /\ x.role = call[k].role /\ x.submission = call[k].submission
            /\ x.left = call[k].left /\ x.right = call[k].right
            /\ x.merged = call[k].merged /\ x.log = call[k].log
<1>1. call[k] \in Call
  BY CallFacts
<1>2. PICK x : x = [call[k] EXCEPT !.pc = pc]
  OBVIOUS
<1>3. /\ x \in Call /\ x.pc = pc
      /\ x.op = call[k].op /\ x.campaign = call[k].campaign
      /\ x.role = call[k].role /\ x.submission = call[k].submission
      /\ x.left = call[k].left /\ x.right = call[k].right
      /\ x.merged = call[k].merged /\ x.log = call[k].log
  BY <1>1, <1>2 DEF Call
<1>4. call' = [call EXCEPT ![k] = x]
  BY <1>2 DEF Goto
<1>5. QED
  BY <1>3, <1>4

LEMMA IdentifyStep ==
  ASSUME ReviewInv, NEW k \in Calls, Identify(k) PROVE ReviewInv'
<1>1. /\ UNCHANGED <<rows, bucket, lapsed>> /\ call[k].pc = "identify"
      /\ CallInv(k, call[k]) /\ call[k] \in Call
  BY CallFacts DEF Identify, At
<1>2. CASE Return(k)
  BY <1>1, <1>2, ReturnStep
<1>3. CASE ~Return(k)
  <2>1. PICK pc \in {"write", "reviewers"} :
          /\ Goto(k, pc) /\ UNCHANGED current
          /\ pc = "write" <=> call[k].role \in Reviewer
    BY <1>3 DEF Identify
  <2>2. PICK x \in Call :
          /\ call' = [call EXCEPT ![k] = x] /\ x.pc = pc
          /\ x.op = call[k].op /\ x.campaign = call[k].campaign
          /\ x.role = call[k].role /\ x.submission = call[k].submission
    BY <1>1, <2>1, GotoFacts
  <2>3. call[k].role = "adjudicator" \/ call[k].role \in Reviewer
    BY <1>1 DEF Call, Role
  <2>4. CallInv(k, x)'
    BY <1>1, <2>1, <2>2, <2>3
    DEF CallInv, Admitted, ReadsFinal, MergeChecked, ObjectOwned, rows, Adjudicating
  <2>5. QED
    BY <1>1, <2>1, <2>2, <2>4, MoveStep DEF ReviewInv, ReviewTypeOK
<1>4. QED
  BY <1>2, <1>3

LEMMA ReadReviewersStep ==
  ASSUME ReviewInv, NEW k \in Calls, ReadReviewers(k) PROVE ReviewInv'
<1> DEFINE c == call[k].campaign
<1>1. /\ UNCHANGED <<rows, bucket, lapsed>> /\ call[k].pc = "reviewers"
      /\ CallInv(k, call[k]) /\ call[k] \in Call
  BY CallFacts DEF ReadReviewers, At
<1>2. CASE Return(k)
  BY <1>1, <1>2, ReturnStep
<1>3. CASE ~Return(k)
  <2>1. PICK x : x = [call[k] EXCEPT !.pc = "row",
                      !.left = assignment[c]["reviewer-a"].submission,
                      !.right = assignment[c]["reviewer-b"].submission]
    OBVIOUS
  <2>2. c \in Campaigns
    BY <1>1 DEF CallInv, Admitted
  <2>3. /\ assignment[c]["reviewer-a"].submission \in Submission
        /\ assignment[c]["reviewer-b"].submission \in Submission
    BY <2>2, Roles DEF ReviewInv, ReviewTypeOK, Assignment
  <2>4. /\ x \in Call /\ x.pc = "row"
        /\ x.op = call[k].op /\ x.campaign = c
        /\ x.role = call[k].role /\ x.submission = call[k].submission
        /\ x.left = assignment[c]["reviewer-a"].submission
        /\ x.right = assignment[c]["reviewer-b"].submission
    BY <1>1, <2>1, <2>3 DEF Call
  <2>5. call' = [call EXCEPT ![k] = x] /\ PassesComplete(assignment[c]) /\ UNCHANGED current
    BY <1>3, <2>1 DEF ReadReviewers, BothComplete
  <2>6. CallInv(k, x)'
    BY <1>1, <2>4, <2>5
    DEF CallInv, Admitted, ReadsFinal, MergeChecked, ObjectOwned, rows, Adjudicating
  <2>7. QED
    BY <1>1, <2>4, <2>5, <2>6, MoveStep DEF ReviewInv, ReviewTypeOK
<1>4. QED
  BY <1>2, <1>3

LEMMA ReadRowStep ==
  ASSUME ReviewInv, NEW k \in Calls, ReadRow(k) PROVE ReviewInv'
<1> DEFINE c == call[k].campaign
           row == adjudicated[c]
<1>1. /\ UNCHANGED <<rows, bucket, lapsed>> /\ call[k].pc = "row"
      /\ CallInv(k, call[k]) /\ call[k] \in Call
  BY CallFacts DEF ReadRow, At
<1>2. /\ c \in Campaigns /\ row \in Adjudication
      /\ call[k].op = "finish" => truth[c] # k
  BY <1>1 DEF CallInv, Admitted, ObjectOwned, ReviewInv, ReviewTypeOK
<1>3. row.merged \in Annotation /\ row.log \subseteq Frames
  BY <1>2, TemplateType DEF Adjudication
<1>4. CASE Return(k)
  BY <1>1, <1>4, ReturnStep
<1>5. CASE Goto(k, "insert") /\ UNCHANGED current
  <2>1. PICK x \in Call :
          /\ call' = [call EXCEPT ![k] = x] /\ x.pc = "insert"
          /\ x.op = call[k].op /\ x.campaign = call[k].campaign
          /\ x.role = call[k].role /\ x.submission = call[k].submission
          /\ x.left = call[k].left /\ x.right = call[k].right
    BY <1>1, <1>5, GotoFacts
  <2>2. CallInv(k, x)'
    BY <1>1, <2>1
    DEF CallInv, Admitted, ReadsFinal, MergeChecked, ObjectOwned, rows, Adjudicating
  <2>3. QED
    BY <1>1, <1>5, <2>1, <2>2, MoveStep DEF ReviewInv, ReviewTypeOK
<1>6. ASSUME NEW x \in Call, call' = [call EXCEPT ![k] = x], current' = current \cup {k},
             x.pc \in {"put", "batch"}, x.op = call[k].op, x.campaign = c,
             x.role = call[k].role, x.submission = call[k].submission,
             row.made, x.pc = "put" <=> x.op = "finish", x.op \in {"resolve", "finish"},
             x.op = "finish" => row.comparison \subseteq x.log /\ Valid(x.merged)
      PROVE  ReviewInv'
  <2>1. CallInv(k, x)'
    BY <1>1, <1>2, <1>6
    DEF CallInv, Admitted, ReadsFinal, MergeChecked, ObjectOwned, rows, Adjudicating
  <2>2. QED
    BY <1>1, <1>6, <2>1, MoveStep DEF ReviewInv, ReviewTypeOK
<1>7. ASSUME NEW f \in Frames, NEW y \in Contents, row.made, Resolve(k, row, f, y)
      PROVE  ReviewInv'
  <2>1. PICK t \in BOOLEAN : call' = [call EXCEPT ![k] = [@ EXCEPT !.pc = "batch",
              !.merged = [row.merged EXCEPT ![f] = y], !.log = row.log \cup {f},
              !.left = None, !.right = None, !.timely = t]]
    BY <1>7 DEF Resolve
  <2>2. PICK x : x = [call[k] EXCEPT !.pc = "batch",
              !.merged = [row.merged EXCEPT ![f] = y], !.log = row.log \cup {f},
              !.left = None, !.right = None, !.timely = t]
    OBVIOUS
  <2>3. [row.merged EXCEPT ![f] = y] \in Annotation /\ row.log \cup {f} \in SUBSET Frames
    BY <1>3 DEF Annotation
  <2>4. /\ x \in Call /\ x.pc = "batch" /\ x.op = call[k].op /\ x.campaign = c
        /\ x.role = call[k].role /\ x.submission = call[k].submission
    BY <1>1, <2>2, <2>3 DEF Call, Submission
  <2>5. call' = [call EXCEPT ![k] = x]
    BY <2>1, <2>2
  <2>6. call[k].op = "resolve" /\ current' = current \cup {k}
    BY <1>7 DEF Resolve
  <2>7. QED
    BY <1>6, <1>7, <2>4, <2>5, <2>6
<1>8. CASE row.made /\ Finish(k, row)
  <2>1. PICK t \in BOOLEAN : call' = [call EXCEPT ![k] = [@ EXCEPT !.pc = "put",
              !.merged = row.merged, !.log = row.log,
              !.left = None, !.right = None, !.timely = t]]
    BY <1>8 DEF Finish
  <2>2. PICK x : x = [call[k] EXCEPT !.pc = "put",
              !.merged = row.merged, !.log = row.log,
              !.left = None, !.right = None, !.timely = t]
    OBVIOUS
  <2>4. /\ x \in Call /\ x.pc = "put" /\ x.op = call[k].op /\ x.campaign = c
        /\ x.role = call[k].role /\ x.submission = call[k].submission
        /\ x.merged = row.merged /\ x.log = row.log
    BY <1>1, <1>3, <2>2 DEF Call, Submission
  <2>5. call' = [call EXCEPT ![k] = x]
    BY <2>1, <2>2
  <2>6. /\ call[k].op = "finish" /\ current' = current \cup {k}
        /\ row.comparison \subseteq row.log /\ Valid(row.merged)
    BY <1>8 DEF Finish, Resolved
  <2>7. QED
    BY <1>6, <1>8, <2>4, <2>5, <2>6
<1>9. QED
  BY <1>4, <1>5, <1>7, <1>8 DEF ReadRow

-----------------------------------------------------------------------------
(***************************************************************************)
(* Requests that write                                                     *)
(***************************************************************************)

LEMMA PutResultStep ==
  ASSUME ReviewInv, NEW k \in Calls, PutResult(k) PROVE ReviewInv'
<1>1. /\ UNCHANGED <<rows, lapsed, current>> /\ call[k].pc = "put" /\ Goto(k, "batch")
      /\ CallInv(k, call[k]) /\ bucket' = bucket \cup {<<call[k].campaign, k>>}
  BY CallFacts DEF PutResult, At
<1>2. PICK x \in Call :
        /\ call' = [call EXCEPT ![k] = x] /\ x.pc = "batch"
        /\ x.op = call[k].op /\ x.campaign = call[k].campaign
        /\ x.role = call[k].role /\ x.submission = call[k].submission
        /\ x.merged = call[k].merged /\ x.log = call[k].log
  BY <1>1, GotoFacts
<1>3. call[k].campaign \in Campaigns /\ call[k].op = "finish"
  BY <1>1 DEF CallInv, Admitted
<1>4. CallInv(k, x)'
  BY <1>1, <1>2, <1>3
  DEF CallInv, Admitted, ReadsFinal, MergeChecked, ObjectOwned, rows, Adjudicating
<1>5. bucket \subseteq bucket' /\ bucket' \subseteq Campaigns \X Calls
  BY <1>1, <1>3 DEF ReviewInv, ReviewTypeOK
<1>6. QED
  BY <1>1, <1>2, <1>4, <1>5, MoveStep DEF ReviewInv, ReviewTypeOK

LEMMA ConfirmStep ==
  ASSUME ReviewInv, NEW k \in Calls, Confirm(k) PROVE ReviewInv'
<1>1. /\ UNCHANGED <<rows, bucket, lapsed>> /\ call[k].pc = "confirm"
      /\ CallInv(k, call[k])
  BY CallFacts DEF Confirm, At
<1>2. CASE Return(k)
  BY <1>1, <1>2, ReturnStep
<1>3. CASE ~Return(k)
  <2>1. Goto(k, "discard") /\ UNCHANGED current /\ truth[call[k].campaign] # k
    BY <1>3 DEF Confirm, Committed
  <2>2. PICK x \in Call :
          /\ call' = [call EXCEPT ![k] = x] /\ x.pc = "discard"
          /\ x.op = call[k].op /\ x.campaign = call[k].campaign
          /\ x.role = call[k].role /\ x.submission = call[k].submission
    BY <1>1, <2>1, GotoFacts
  <2>3. CallInv(k, x)'
    BY <1>1, <2>1, <2>2
    DEF CallInv, Admitted, ReadsFinal, MergeChecked, ObjectOwned, rows, Adjudicating
  <2>4. QED
    BY <1>1, <2>1, <2>2, <2>3, MoveStep DEF ReviewInv, ReviewTypeOK
<1>4. QED
  BY <1>2, <1>3

LEMMA DiscardStep ==
  ASSUME ReviewInv, NEW k \in Calls, DiscardResult(k) PROVE ReviewInv'
<1> DEFINE c == call[k].campaign
<1> USE DEF ReviewInv
<1>1. /\ UNCHANGED <<rows, lapsed>> /\ call[k].pc = "discard" /\ current' \subseteq current
      /\ call' = [call EXCEPT ![k] = Idle] /\ bucket' = bucket \ {<<c, k>>}
  BY DEF DiscardResult, At, Return
<1>2. c \in Campaigns /\ truth[c] # k
  BY <1>1, CallFacts DEF CallInv, Admitted, ObjectOwned
<1>3. \A j \in Calls : call'[j] = IF j = k THEN Idle ELSE call[j]
  BY <1>1 DEF ReviewTypeOK
<1>4. ReviewTypeOK'
  BY <1>1, IdleType DEF ReviewTypeOK, rows
<1>5. \A j \in Calls : CallInv(j, call[j])'
  <2>1. PassesStay /\ RowsStay
    BY <1>1 DEF PassesStay, RowsStay, rows
  <2>2. \A j \in Calls \ {k} : CallInv(j, call[j])'
    <3>1. \A j \in Calls \ {k} : \A d \in Campaigns :
            /\ truth'[d] = j => truth[d] = j
            /\ <<d, j>> \in bucket => <<d, j>> \in bucket'
      BY <1>1 DEF rows
    <3>2. \A y : \A j \in Calls \ {k} : CallInv(j, y) => CallInv(j, y)'
      BY <2>1, <3>1, CallKept
    <3>3. QED
      BY <1>3, <3>2, CallFacts
  <2>3. CallInv(k, call[k])'
    BY <1>3, IdleType DEF CallInv
  <2>4. QED
    BY <2>2, <2>3
<1>6. RowsInv' /\ ComparisonIsFinal'
  BY <1>1 DEF RowsInv, ComparisonIsFinal, PassesComplete, rows
<1>7. ResultStored'
  BY <1>1, <1>2 DEF ResultStored, rows
<1>8. QED
  BY <1>4, <1>5, <1>6, <1>7

\* What a reviewer's write changes, if it changes anything.
LEMMA WriteFacts ==
  ASSUME ReviewInv, NEW k \in Calls, WriteReviewer(k), Writable(k)
  PROVE  LET c == call[k].campaign
             r == call[k].role
         IN  /\ c \in Campaigns /\ r \in Reviewer
             /\ campaign[c] \notin {"none", "completed", "cancelled"}
             /\ assignment[c][r].status # "complete"
             /\ campaign' = [campaign EXCEPT ![c] = Progressed(assignment'[c])]
             /\ \E x \in Assignment :
                   /\ assignment' = [assignment EXCEPT ![c][r] = x]
                   /\ x.status = "complete" => x.submission # None
<1> DEFINE c == call[k].campaign
           r == call[k].role
<1>1. call[k].pc = "write" /\ CallInv(k, call[k]) /\ call[k] \in Call
  BY CallFacts DEF WriteReviewer, At
<1>2. /\ c \in Campaigns /\ r \in Reviewer /\ r \in Role
      /\ call[k].op = "complete" => call[k].submission # None
  BY <1>1, Roles DEF CallInv, Admitted
<1>3. /\ campaign[c] \notin {"none", "completed", "cancelled"}
      /\ assignment[c][r].status # "complete"
  BY DEF Writable, Granted, Open
<1>4. PICK x : x = [assignment[c][r] EXCEPT !.submission = call[k].submission,
                       !.status = IF call[k].op = "complete" THEN "complete" ELSE "in_progress"]
  OBVIOUS
<1>5. assignment[c][r] \in Assignment /\ call[k].submission \in Submission
  BY <1>1, <1>2 DEF ReviewInv, ReviewTypeOK, Call
<1>6. /\ x \in Assignment /\ x.submission = call[k].submission
      /\ x.status = (IF call[k].op = "complete" THEN "complete" ELSE "in_progress")
  BY <1>4, <1>5 DEF Assignment
<1>7. /\ assignment' = [assignment EXCEPT ![c][r] = x]
      /\ campaign' = [campaign EXCEPT ![c] = Progressed(assignment'[c])]
  BY <1>4 DEF WriteReviewer
<1>8. QED
  BY <1>2, <1>3, <1>6, <1>7

LEMMA WriteReviewerStep ==
  ASSUME ReviewInv, NEW k \in Calls, WriteReviewer(k) PROVE ReviewInv'
<1> DEFINE c == call[k].campaign
           r == call[k].role
<1> USE DEF ReviewInv
<1>1. /\ call' = [call EXCEPT ![k] = Idle] /\ current' \subseteq Calls
      /\ UNCHANGED <<adjudicated, truth, bucket, lapsed>>
  BY DEF WriteReviewer, ReviewTypeOK
<1>2. CASE ~Writable(k)
  <2>1. UNCHANGED rows
    BY <1>1, <1>2 DEF WriteReviewer, rows
  <2>2. CallInv(k, Idle)'
    BY IdleType DEF CallInv
  <2>3. QED
    BY <1>1, <2>1, <2>2, IdleType, MoveStep DEF ReviewTypeOK
<1>3. CASE Writable(k)
  <2>1. /\ c \in Campaigns /\ r \in Reviewer
        /\ campaign[c] \notin {"none", "completed", "cancelled"}
        /\ assignment[c][r].status # "complete"
        /\ campaign' = [campaign EXCEPT ![c] = Progressed(assignment'[c])]
        /\ \E x \in Assignment :
              /\ assignment' = [assignment EXCEPT ![c][r] = x]
              /\ x.status = "complete" => x.submission # None
    BY <1>3, WriteFacts
  <2> HIDE DEF c, r
  <2>2. PICK x \in Assignment : /\ assignment' = [assignment EXCEPT ![c][r] = x]
                                /\ x.status = "complete" => x.submission # None
    BY <2>1
  <2>3. /\ assignment' \in [Campaigns -> [Role -> Assignment]]
        /\ assignment'[c][r] = x
        /\ \A d \in Campaigns, s \in Role :
              d # c \/ s # r => assignment'[d][s] = assignment[d][s]
    BY <2>1, <2>2, Roles, AssignmentStep DEF ReviewTypeOK
  <2>4. PassesStay /\ RowsStay
    BY <1>1, <2>1, <2>3, Roles DEF PassesStay, RowsStay
  <2>5. ReviewTypeOK'
    <3>1. \A d \in Campaigns \ {c} :
             PassesComplete(assignment'[d]) <=> PassesComplete(assignment[d])
      BY <2>3, Roles DEF PassesComplete
    <3>2. campaign'[c] \in {"active", "awaiting_adjudication"}
          /\ (campaign'[c] = "awaiting_adjudication" <=> PassesComplete(assignment'[c]))
      BY <2>1 DEF Progressed, ReviewTypeOK
    <3>3. campaign' \in [Campaigns -> Status]
          /\ \A d \in Campaigns \ {c} : campaign'[d] = campaign[d]
      BY <2>1, <3>2 DEF ReviewTypeOK, Status
    <3>4. \A d \in Campaigns :
            /\ campaign'[d] \in {"none", "ready", "active"} => ~PassesComplete(assignment'[d])
            /\ campaign'[d] \in {"awaiting_adjudication", "adjudicating", "completed"}
                  => PassesComplete(assignment'[d])
      BY <3>1, <3>2, <3>3 DEF ReviewTypeOK
    <3>5. QED
      BY <1>1, <2>3, <3>3, <3>4, IdleType DEF ReviewTypeOK
  <2>6. \A j \in Calls : CallInv(j, call[j])'
    <3>1. \A j \in Calls : call'[j] = Idle \/ call'[j] = call[j]
      BY <1>1 DEF ReviewTypeOK
    <3>2. \A y : \A j \in Calls : CallInv(j, y) => CallInv(j, y)'
      BY <1>1, <2>4, CallKept
    <3>3. \A j \in Calls : CallInv(j, Idle)
      BY IdleType DEF CallInv
    <3>4. QED
      BY <3>1, <3>2, <3>3, CallFacts
  <2>7. RowsInv'
    BY <1>1, <2>1, <2>2, <2>3, Roles DEF RowsInv
  <2>8. ComparisonIsFinal'
    BY <1>1, <2>4, PassesKept DEF ComparisonIsFinal, Reviewer
  <2>9. ResultStored'
    BY <1>1, <2>1 DEF ResultStored, ReviewTypeOK, Progressed
  <2>10. QED
    BY <2>5, <2>6, <2>7, <2>8, <2>9
<1>4. QED
  BY <1>2, <1>3

\* The adjudication row of one campaign changes, together with the state of
\* its call, but nothing that is already made or registered.
LEMMA InsertStep ==
  ASSUME ReviewInv, NEW k \in Calls, InsertAdjudication(k) PROVE ReviewInv'
<1> DEFINE c == call[k].campaign
           new == [made |-> TRUE, log |-> {}, merged |-> call[k].left.frames,
                   comparison |-> Disagreements(call[k].left, call[k].right)]
<1> USE DEF ReviewInv
<1>1. /\ UNCHANGED <<campaign, assignment, truth, bucket, lapsed, current>>
      /\ call[k].pc = "insert" /\ Goto(k, "row")
      /\ adjudicated' = [adjudicated EXCEPT ![c] = IF @.made THEN @ ELSE new]
  BY DEF InsertAdjudication, At
<1>2. /\ c \in Campaigns /\ PassesComplete(assignment[c])
      /\ call[k].left = assignment[c]["reviewer-a"].submission
      /\ call[k].right = assignment[c]["reviewer-b"].submission
      /\ CallInv(k, call[k])
  BY <1>1, CallFacts DEF CallInv, Admitted, ReadsFinal
<1>3. PICK x \in Call :
        /\ call' = [call EXCEPT ![k] = x] /\ x.pc = "row"
        /\ x.op = call[k].op /\ x.campaign = c
        /\ x.role = call[k].role /\ x.submission = call[k].submission
        /\ x.left = call[k].left /\ x.right = call[k].right
  BY <1>1, GotoFacts
<1>4. new \in Adjudication /\ new.made
      /\ new.comparison = Disagreements(call[k].left, call[k].right)
  <2>1. call[k].left.frames \in Annotation
    <3>1. call[k].left # None /\ call[k].left \in Submission
      BY <1>2, Roles DEF RowsInv, PassesComplete, Reviewer, ReviewTypeOK, Assignment
    <3>2. QED
      BY <3>1 DEF Submission
  <2>2. Disagreements(call[k].left, call[k].right) \in SUBSET Frames
    BY DEF Disagreements
  <2>3. QED
    BY <2>1, <2>2 DEF Adjudication
<1>a. c = call[k].campaign
  OBVIOUS
<1> HIDE DEF c, new
<1>5. /\ adjudicated' \in [Campaigns -> Adjudication]
      /\ \A d \in Campaigns \ {c} : adjudicated'[d] = adjudicated[d]
      /\ adjudicated'[c] = IF adjudicated[c].made THEN adjudicated[c] ELSE new
  BY <1>1, <1>2, <1>4 DEF ReviewTypeOK
<1>6. PassesStay /\ RowsStay
  BY <1>1, <1>5 DEF PassesStay, RowsStay
<1>7. ReviewTypeOK'
  BY <1>1, <1>3, <1>5 DEF ReviewTypeOK
<1>8. \A j \in Calls : CallInv(j, call[j])'
  <2>1. \A j \in Calls \ {k} : call'[j] = call[j]
    BY <1>3 DEF ReviewTypeOK
  <2>2. \A y : \A j \in Calls : CallInv(j, y) => CallInv(j, y)'
    BY <1>1, <1>6, CallKept
  <2>3. CallInv(k, x)
    <3>1. Admitted(call[k]) /\ ObjectOwned(k, call[k])
      BY <1>1, <1>2 DEF CallInv
    <3>2. Admitted(x)
      BY <1>1, <1>3, <1>a, <3>1 DEF Admitted, Adjudicating
    <3>3. ReadsFinal(x)
      BY <1>2, <1>3 DEF ReadsFinal
    <3>4. MergeChecked(x)
      BY <1>3 DEF MergeChecked
    <3>5. ObjectOwned(k, x)
      BY <1>1, <1>3, <1>a, <3>1 DEF ObjectOwned
    <3>6. QED
      BY <3>2, <3>3, <3>4, <3>5 DEF CallInv
  <2>4. call'[k] = x
    BY <1>3 DEF ReviewTypeOK
  <2>5. QED
    BY <2>1, <2>2, <2>3, <2>4, CallFacts
<1>9. RowsInv'
  BY <1>1, <1>5, <1>4 DEF RowsInv
<1>10. ComparisonIsFinal'
  BY <1>1, <1>2, <1>4, <1>5 DEF ComparisonIsFinal
<1>11. ResultStored'
  BY <1>1, <1>5 DEF ResultStored, RowsInv
<1>12. QED
  BY <1>7, <1>8, <1>9, <1>10, <1>11

\* The batch of an adjudication commits.
LEMMA CommitStep ==
  ASSUME ReviewInv, NEW k \in Calls, call[k].pc = "batch", Adjudicable(k),
         AdjudicationBatch(k), UNCHANGED <<bucket, lapsed>>,
         NEW x \in Call, call' = [call EXCEPT ![k] = x], CallInv(k, x)'
  PROVE  ReviewInv'
<1> DEFINE c == call[k].campaign
           done == call[k].op = "finish"
           row == [adjudicated[c] EXCEPT !.merged = call[k].merged, !.log = call[k].log]
           work == [assignment[c]["adjudicator"] EXCEPT !.status =
                       IF done THEN "complete" ELSE "in_progress"]
<1> USE DEF ReviewInv
<1>1. /\ c \in Campaigns /\ call[k].role = "adjudicator" /\ call[k] \in Call
      /\ adjudicated[c].made
      /\ done => /\ adjudicated[c].comparison \subseteq call[k].log
                 /\ Valid(call[k].merged) /\ <<c, k>> \in bucket
  BY CallFacts DEF CallInv, Admitted, MergeChecked, ObjectOwned, Adjudicating
<1>2. campaign[c] # "completed" /\ campaign[c] # "none" /\ truth[c] = None
  BY <1>1 DEF Adjudicable, Granted, Open, ResultStored
<1>3. /\ row \in Adjudication /\ row.made /\ row.comparison = adjudicated[c].comparison
      /\ row.merged = call[k].merged /\ row.log = call[k].log
  <2>1. adjudicated[c] \in Adjudication
    BY <1>1 DEF ReviewTypeOK
  <2>2. call[k].merged \in Annotation /\ call[k].log \in SUBSET Frames
    BY <1>1 DEF Call
  <2>3. QED
    BY <1>1, <2>1, <2>2 DEF Adjudication
<1>4. /\ work \in Assignment /\ work.status = (IF done THEN "complete" ELSE "in_progress")
  <2>1. assignment[c]["adjudicator"] \in Assignment
    BY <1>1, Roles DEF ReviewTypeOK
  <2>2. QED
    BY <2>1 DEF Assignment
<1>5. /\ adjudicated' = [adjudicated EXCEPT ![c] = row]
      /\ truth' = [truth EXCEPT ![c] = IF done THEN k ELSE @]
      /\ assignment' = [assignment EXCEPT ![c]["adjudicator"] = work]
      /\ campaign' = [campaign EXCEPT ![c] = IF done THEN "completed" ELSE "adjudicating"]
      /\ current' \subseteq current
  BY DEF AdjudicationBatch, Registers
<1>6. PassesComplete(assignment[c])
  BY <1>1 DEF ComparisonIsFinal
<1> HIDE DEF c, row, work, done
<1>7. /\ assignment' \in [Campaigns -> [Role -> Assignment]]
      /\ assignment'[c]["adjudicator"] = work
      /\ \A d \in Campaigns, s \in Role :
            d # c \/ s # "adjudicator" => assignment'[d][s] = assignment[d][s]
  BY <1>1, <1>4, <1>5, Roles, AssignmentStep DEF ReviewTypeOK
<1>8. PassesStay /\ RowsStay
  BY <1>1, <1>3, <1>5, <1>7, Roles DEF PassesStay, RowsStay, ReviewTypeOK
<1>9. ReviewTypeOK'
  <2>1. \A d \in Campaigns : PassesComplete(assignment'[d]) <=> PassesComplete(assignment[d])
    BY <1>7, Roles DEF PassesComplete
  <2>2. campaign' \in [Campaigns -> Status] /\ truth' \in [Campaigns -> Calls \cup {None}]
        /\ adjudicated' \in [Campaigns -> Adjudication]
    BY <1>1, <1>3, <1>5 DEF ReviewTypeOK, Status
  <2>3. \A d \in Campaigns :
          /\ campaign'[d] \in {"none", "ready", "active"} => ~PassesComplete(assignment'[d])
          /\ campaign'[d] \in {"awaiting_adjudication", "adjudicating", "completed"}
                => PassesComplete(assignment'[d])
    BY <1>1, <1>5, <1>6, <2>1 DEF ReviewTypeOK
  <2>4. QED
    BY <1>5, <1>7, <2>2, <2>3 DEF ReviewTypeOK
<1>10. \A j \in Calls : CallInv(j, call[j])'
  <2>1. \A j \in Calls \ {k} : call'[j] = call[j]
    BY DEF ReviewTypeOK
  <2>2. \A j \in Calls \ {k} : \A d \in Campaigns : truth'[d] = j => truth[d] = j
    BY <1>5 DEF ReviewTypeOK
  <2>3. \A y : \A j \in Calls \ {k} : CallInv(j, y) => CallInv(j, y)'
    BY <1>8, <2>2, CallKept
  <2>4. call'[k] = x
    BY DEF ReviewTypeOK
  <2>5. QED
    BY <2>1, <2>3, <2>4, CallFacts
<1>11. RowsInv'
  BY <1>1, <1>2, <1>3, <1>4, <1>5, <1>7, Roles DEF RowsInv, ReviewTypeOK
<1>12. ComparisonIsFinal'
  <2>1. \A d \in Campaigns : /\ adjudicated'[d].made <=> adjudicated[d].made
                             /\ adjudicated'[d].comparison = adjudicated[d].comparison
    BY <1>1, <1>3, <1>5 DEF ReviewTypeOK
  <2>2. QED
    BY <1>8, <2>1, PassesKept DEF ComparisonIsFinal, Reviewer
<1>13. ResultStored'
  <2>1. k # None
    BY ReviewAssumption
  <2>2. QED
    BY <1>1, <1>2, <1>3, <1>5, <2>1 DEF ResultStored, ReviewTypeOK
<1>14. QED
  BY <1>9, <1>10, <1>11, <1>12, <1>13

LEMMA AdjudicateStep ==
  ASSUME ReviewInv, NEW k \in Calls, Adjudicate(k) PROVE ReviewInv'
<1>1. /\ UNCHANGED <<bucket, lapsed>> /\ call[k].pc = "batch" /\ CallInv(k, call[k])
  BY CallFacts DEF Adjudicate, At
<1>2. CASE Adjudicable(k) /\ AdjudicationBatch(k) /\ call' = [call EXCEPT ![k] = Idle]
  <2>1. CallInv(k, Idle)'
    BY IdleType DEF CallInv
  <2>2. QED
    BY <1>1, <1>2, <2>1, IdleType, CommitStep
<1>3. CASE Adjudicable(k) /\ AdjudicationBatch(k) /\ call[k].op = "finish" /\ Goto(k, "confirm")
  <2>1. PICK x \in Call :
          /\ call' = [call EXCEPT ![k] = x] /\ x.pc = "confirm"
          /\ x.op = call[k].op /\ x.campaign = call[k].campaign
          /\ x.role = call[k].role /\ x.submission = call[k].submission
    BY <1>1, <1>3, GotoFacts
  <2>2. CallInv(k, x)'
    BY <1>1, <1>3, <2>1
    DEF CallInv, Admitted, ReadsFinal, MergeChecked, ObjectOwned, Adjudicating
  <2>3. QED
    BY <1>1, <1>3, <2>1, <2>2, CommitStep
<1>4. CASE UNCHANGED rows /\ Return(k)
  BY <1>1, <1>4, ReturnStep
<1>5. ASSUME NEW pc \in {"confirm", "discard"}, Goto(k, pc), UNCHANGED <<rows, current>>,
             call[k].op = "finish"
      PROVE  ReviewInv'
  <2>1. PICK x \in Call :
          /\ call' = [call EXCEPT ![k] = x] /\ x.pc = pc
          /\ x.op = call[k].op /\ x.campaign = call[k].campaign
          /\ x.role = call[k].role /\ x.submission = call[k].submission
    BY <1>1, <1>5, GotoFacts
  <2>2. CallInv(k, x)'
    BY <1>1, <1>5, <2>1
    DEF CallInv, Admitted, ReadsFinal, MergeChecked, ObjectOwned, rows, Adjudicating
  <2>3. QED
    BY <1>1, <1>5, <2>1, <2>2, MoveStep DEF ReviewInv, ReviewTypeOK
<1>6. QED
  BY <1>2, <1>3, <1>4, <1>5 DEF Adjudicate, rows

-----------------------------------------------------------------------------
(***************************************************************************)
(* The invariant and its consequences                                      *)
(***************************************************************************)

LEMMA ReviewInit == Init => ReviewInv
<1> SUFFICES ASSUME Init PROVE ReviewInv
  OBVIOUS
<1>1. [status |-> "pending", token |-> 0, access |-> "good", bound |-> FALSE,
       submission |-> None] \in Assignment
  BY DEF Assignment, Submission
<1>2. [made |-> FALSE, comparison |-> {}, merged |-> Template, log |-> {}] \in Adjudication
  BY DEF Adjudication
<1>3. ReviewTypeOK
  BY <1>1, <1>2, IdleType, Roles
  DEF Init, ReviewTypeOK, Status, PassesComplete, Reviewer
<1>4. \A k \in Calls : CallInv(k, call[k])
  BY IdleType DEF Init, CallInv
<1>5. RowsInv /\ ComparisonIsFinal /\ ResultStored
  BY Roles DEF Init, RowsInv, ComparisonIsFinal, ResultStored
<1>6. QED
  BY <1>3, <1>4, <1>5 DEF ReviewInv

LEMMA ReviewStep == ReviewInv /\ [Next]_vars => ReviewInv'
<1> SUFFICES ASSUME ReviewInv, [Next]_vars PROVE ReviewInv'
  OBVIOUS
<1>1. CASE UNCHANGED vars
  <2>1. UNCHANGED <<campaign, assignment, adjudicated, truth, bucket, lapsed, call, current>>
    BY <1>1 DEF vars, rows
  <2>2. ReviewTypeOK'
    BY <2>1 DEF ReviewInv, ReviewTypeOK, PassesComplete
  <2>3. QED
    BY <2>1, <2>2, QuietStep
<1>2. ASSUME NEW c \in Campaigns, Coordinating(c) PROVE ReviewInv'
  BY <1>2, CoordinatingStep
<1>3. ASSUME NEW k \in Calls, Calling(k) PROVE ReviewInv'
  BY <1>3, PresentStep, IdentifyStep, WriteReviewerStep, ReadReviewersStep,
     ReadRowStep, InsertStep, PutResultStep, AdjudicateStep, ConfirmStep, DiscardStep
  DEF Calling
<1>4. QED
  BY <1>1, <1>2, <1>3 DEF Next

\* Rows, objects and calls keep their types, and a campaign's status agrees
\* with its passes (migrations/control, managed-campaigns.ts).
THEOREM ReviewTypesCorrect == Spec => []ReviewTypeOK
  BY ReviewInit, ReviewStep, PTL DEF Spec, ReviewInv

\* The comparison an adjudicator works through is that of the two completed
\* passes for ever: whoever made it first, from what it had read before, and
\* whatever saves, reissues and revocations were in flight
\* (managed-campaigns.ts, adjudication).
THEOREM ComparisonsAreFinal == Spec => []ComparisonIsFinal
  BY ReviewInit, ReviewStep, PTL DEF Spec, ReviewInv

\* A completed campaign has its ground truth, resolved, valid and with its
\* object, and no other campaign has one, whichever completion failed, was
\* ambiguous, was repeated, or cleaned up (managed-campaigns.ts,
\* writeAdjudication).
THEOREM ResultsAreStored == Spec => []ResultStored
  BY ReviewInit, ReviewStep, PTL DEF Spec, ReviewInv

-----------------------------------------------------------------------------
(***************************************************************************)
(* What a write needs                                                      *)
(***************************************************************************)

\* No submission and no adjudication changes.
LEMMA NothingWritten ==
  ASSUME \A c \in Campaigns, r \in Role :
            assignment'[c][r].submission = assignment[c][r].submission,
         UNCHANGED adjudicated
  PROVE  \A c \in Campaigns : WriteIsCurrent(c)
  BY Roles DEF WriteIsCurrent

LEMMA CoordinatingWrites ==
  ASSUME ReviewInv, NEW c \in Campaigns, Coordinating(c)
  PROVE  \A d \in Campaigns : WriteIsCurrent(d)
<1> USE DEF ReviewInv, ReviewTypeOK
<1>1. UNCHANGED adjudicated
  BY DEF Coordinating, Create, Cancel, Issue, Revoke, Assign, Expire, Lapse, SetToken, rows
<1>2. \A d \in Campaigns, r \in Role :
         assignment'[d][r].submission = assignment[d][r].submission
  <2>0. \A d \in Campaigns : DOMAIN assignment[d] = Role
    OBVIOUS
  <2>1. CASE Create(c)
    BY <2>0, <2>1 DEF Create
  <2>2. CASE Cancel(c)
    BY <2>0, <2>2 DEF Cancel
  <2>3. ASSUME NEW s \in Role, Issue(c, s) \/ Revoke(c, s) \/ Assign(c, s) \/ Expire(c, s)
        PROVE  \A d \in Campaigns, r \in Role :
                  assignment'[d][r].submission = assignment[d][r].submission
    <3>0. assignment[c][s] \in Assignment
      OBVIOUS
    <3>1. PICK x : /\ x.submission = assignment[c][s].submission
                   /\ assignment' = [assignment EXCEPT ![c][s] = x]
      <4>1. CASE Issue(c, s)
        <5>1. assignment' = [assignment EXCEPT ![c][s] =
                 [@ EXCEPT !.token = assignment[c][s].token + 1, !.access = "good"]]
          BY <4>1 DEF Issue, SetToken
        <5>2. QED
          BY <3>0, <5>1 DEF Assignment
      <4>2. CASE Revoke(c, s)
        <5>1. assignment' = [assignment EXCEPT ![c][s] =
                 [@ EXCEPT !.token = assignment[c][s].token, !.access = "revoked"]]
          BY <4>2 DEF Revoke, SetToken
        <5>2. QED
          BY <3>0, <5>1 DEF Assignment
      <4>3. CASE Assign(c, s) \/ Expire(c, s)
        <5>1. \/ assignment' = [assignment EXCEPT ![c][s] = [@ EXCEPT !.bound = TRUE]]
              \/ assignment' = [assignment EXCEPT ![c][s] = [@ EXCEPT !.access = "expired"]]
          BY <4>3 DEF Assign, Expire
        <5>2. QED
          BY <3>0, <5>1 DEF Assignment
      <4>4. QED
        BY <2>3, <4>1, <4>2, <4>3
    <3>2. QED
      BY <3>1
  <2>4. ASSUME NEW s \in Role, Lapse(c, s) PROVE UNCHANGED assignment
    BY <2>4 DEF Lapse, rows
  <2>5. QED
    BY <2>1, <2>2, <2>3, <2>4 DEF Coordinating
<1>3. QED
  BY <1>1, <1>2, NothingWritten

LEMMA ReviewerWrites ==
  ASSUME ReviewInv, NEW k \in Calls, WriteReviewer(k)
  PROVE  \A d \in Campaigns : WriteIsCurrent(d)
<1>1. UNCHANGED adjudicated /\ At(k, "write")
  BY DEF WriteReviewer
<1>2. CASE ~Writable(k)
  BY <1>1, <1>2, NothingWritten DEF WriteReviewer
<1>3. CASE Writable(k)
  <2>1. PICK x \in Assignment :
          /\ call[k].campaign \in Campaigns /\ call[k].role \in Reviewer
          /\ assignment' = [assignment EXCEPT ![call[k].campaign][call[k].role] = x]
    BY <1>3, WriteFacts
  <2>2. \A d \in Campaigns, r \in Reviewer :
           d # call[k].campaign \/ r # call[k].role => assignment'[d][r] = assignment[d][r]
    BY <2>1, Roles, AssignmentStep DEF ReviewInv, ReviewTypeOK
  <2>3. QED
    BY <1>1, <1>3, <2>2 DEF WriteIsCurrent, Writable, Granted
<1>4. QED
  BY <1>2, <1>3

LEMMA AdjudicatorWrites ==
  ASSUME ReviewInv, NEW k \in Calls, InsertAdjudication(k) \/ Adjudicate(k)
  PROVE  \A d \in Campaigns : WriteIsCurrent(d)
<1> DEFINE c == call[k].campaign
<1> USE DEF ReviewInv, ReviewTypeOK
<1>1. CASE InsertAdjudication(k)
  <2>1. \A d \in Campaigns : adjudicated[d].made => adjudicated'[d] = adjudicated[d]
    BY <1>1 DEF InsertAdjudication
  <2>2. UNCHANGED assignment
    BY <1>1 DEF InsertAdjudication
  <2>3. QED
    BY <2>1, <2>2 DEF WriteIsCurrent
<1>2. CASE UNCHANGED <<assignment, adjudicated>>
  BY <1>2, NothingWritten
<1>3. CASE At(k, "batch") /\ Adjudicable(k) /\ AdjudicationBatch(k)
  <2>1. c \in Campaigns /\ call[k].role = "adjudicator"
    BY <1>3, CallFacts DEF CallInv, Admitted, Adjudicating, At
  <2>2. campaign[c] # "completed" /\ assignment[c]["adjudicator"].access # "revoked"
    BY <1>3, <2>1 DEF Adjudicable, Granted, Open
  <2>3. \A d \in Campaigns \ {c} : adjudicated'[d] = adjudicated[d]
    BY <1>3 DEF AdjudicationBatch
  <2>4. \A d \in Campaigns, r \in Reviewer : assignment'[d][r] = assignment[d][r]
    <3>1. PICK x : assignment' = [assignment EXCEPT ![c]["adjudicator"] = x]
      BY <1>3 DEF AdjudicationBatch
    <3>2. QED
      BY <2>1, <3>1, Roles
  <2>5. QED
    BY <2>2, <2>3, <2>4 DEF WriteIsCurrent
<1>4. QED
  BY <1>1, <1>2, <1>3 DEF Adjudicate, Return, rows

LEMMA WritesCurrentStep ==
  ReviewInv /\ [Next]_vars => [\A c \in Campaigns : WriteIsCurrent(c)]_vars
<1> SUFFICES ASSUME ReviewInv, Next PROVE \A c \in Campaigns : WriteIsCurrent(c)
  OBVIOUS
<1>1. ASSUME NEW c \in Campaigns, Coordinating(c)
      PROVE  \A d \in Campaigns : WriteIsCurrent(d)
  BY <1>1, CoordinatingWrites
<1>2. ASSUME NEW k \in Calls, Calling(k)
      PROVE  \A d \in Campaigns : WriteIsCurrent(d)
  <2>1. CASE WriteReviewer(k)
    BY <2>1, ReviewerWrites
  <2>2. CASE InsertAdjudication(k) \/ Adjudicate(k)
    BY <2>2, AdjudicatorWrites
  <2>3. CASE ~WriteReviewer(k) /\ ~InsertAdjudication(k) /\ ~Adjudicate(k)
    <3>1. UNCHANGED <<assignment, adjudicated>>
      <4>1. CASE \E c \in Campaigns, r \in Role,
                    op \in {"save", "complete", "view", "resolve", "finish"} : Present(k, c, r, op)
        BY <4>1 DEF Present, rows
      <4>2. CASE Identify(k) \/ ReadReviewers(k) \/ ReadRow(k)
        BY <4>2 DEF Identify, ReadReviewers, ReadRow, rows
      <4>3. CASE PutResult(k) \/ Confirm(k) \/ DiscardResult(k)
        BY <4>3 DEF PutResult, Confirm, DiscardResult, rows
      <4>4. QED
        BY <1>2, <2>3, <4>1, <4>2, <4>3 DEF Calling
    <3>2. QED
      BY <3>1, NothingWritten
  <2>4. QED
    BY <2>1, <2>2, <2>3
<1>3. QED
  BY <1>1, <1>2 DEF Next

\* Whatever a revoked, replaced, outdated or unbound token still has in flight
\* never lands, and a completed pass or a completed campaign's merge is never
\* overwritten (managed-campaigns.ts, writeReviewer and writeAdjudication).
THEOREM OnlyCurrentWritesLand == Spec => WritesAreCurrent
  BY ReviewInit, ReviewStep, WritesCurrentStep, PTL DEF Spec, WritesAreCurrent

-----------------------------------------------------------------------------
(***************************************************************************)
(* The matching of review-comparison.ts.  A recursive function is reached  *)
(* through sets: of the naturals for which a fact holds, the complement    *)
(* would have a least member.                                              *)
(***************************************************************************)

LessNat == {p \in Nat \X Nat : p[1] < p[2]}

LEMMA LeastExists ==
  ASSUME NEW S \in SUBSET Nat, S # {}
  PROVE  \E j \in S : \A k \in S : j <= k
<1>1. IsWellFoundedOn(LessNat, Nat)
  BY NatLessThanWellFounded DEF OpToRel, LessNat
<1>2. PICK j \in S : \A k \in S : <<k, j>> \notin LessNat
  BY <1>1, WFMin
<1>3. ASSUME NEW k \in S PROVE j <= k
  <2>1. <<k, j>> \in Nat \X Nat /\ <<k, j>>[1] = k /\ <<k, j>>[2] = j
    OBVIOUS
  <2>2. ~(k < j)
    BY <1>2, <2>1 DEF LessNat
  <2> QED
    BY <2>2
<1> QED
  BY <1>3

LEMMA LeastMember ==
  ASSUME NEW S \in SUBSET Nat, S # {}
  PROVE  Least(S) \in S
BY LeastExists DEF Least

\* Induction over the naturals, for a set instead of a predicate.
LEMMA SetInduction ==
  ASSUME NEW S, 0 \in S, \A n \in Nat : n \in S => n + 1 \in S
  PROVE  Nat \subseteq S
<1> SUFFICES ASSUME Nat \ S # {} PROVE FALSE
  OBVIOUS
<1>1. PICK j \in Nat \ S : \A k \in Nat \ S : j <= k
  BY LeastExists
<1>2. j # 0 /\ j - 1 \in Nat /\ ~(j <= j - 1)
  OBVIOUS
<1>3. j - 1 \in S
  BY <1>1, <1>2
<1> QED
  BY <1>2, <1>3

\* A sequence of values is determined by its first one and a step.
Begins(T, a, H, n, g) ==
    /\ g \in [Nat -> T] /\ g[0] = a
    /\ \A k \in Nat : k < n => g[k + 1] = H[k + 1][g[k]]

LEMMA BeginningsExist ==
  ASSUME NEW T, NEW a \in T, NEW H \in [Nat -> [T -> T]]
  PROVE  \A n \in Nat : \E g : Begins(T, a, H, n, g)
<1> DEFINE S == {n \in Nat : \E g : Begins(T, a, H, n, g)}
<1>1. 0 \in S
  <2>1. Begins(T, a, H, 0, [k \in Nat |-> a])
    BY DEF Begins
  <2> QED
    BY <2>1
<1>2. ASSUME NEW n \in Nat, n \in S PROVE n + 1 \in S
  <2>1. PICK g : Begins(T, a, H, n, g)
    BY <1>2
  <2>2. PICK h : h = [g EXCEPT ![n + 1] = H[n + 1][g[n]]]
    OBVIOUS
  <2>3. h \in [Nat -> T] /\ h[0] = a
    BY <2>1, <2>2 DEF Begins
  <2>4. ASSUME NEW k \in Nat, k < n + 1 PROVE h[k + 1] = H[k + 1][h[k]]
    <3>1. h[k] = g[k]
      BY <2>1, <2>2, <2>4 DEF Begins
    <3>2. CASE k = n
      BY <2>1, <2>2, <3>1, <3>2 DEF Begins
    <3>3. CASE k < n
      <4>1. h[k + 1] = g[k + 1]
        BY <2>1, <2>2, <3>3 DEF Begins
      <4> QED
        BY <2>1, <3>1, <3>3, <4>1 DEF Begins
    <3> QED
      BY <2>4, <3>2, <3>3
  <2>5. Begins(T, a, H, n + 1, h)
    BY <2>3, <2>4 DEF Begins
  <2> QED
    BY <2>5
<1> HIDE DEF S
<1>3. Nat \subseteq S
  BY <1>1, <1>2, SetInduction
<1> QED
  BY <1>3 DEF S

LEMMA BeginningsAgree ==
  ASSUME NEW T, NEW a \in T, NEW H \in [Nat -> [T -> T]],
         NEW n \in Nat, NEW m \in Nat, NEW g, NEW h,
         Begins(T, a, H, n, g), Begins(T, a, H, m, h)
  PROVE  \A k \in Nat : k <= n /\ k <= m => g[k] = h[k]
<1> DEFINE S == {k \in Nat : k <= n /\ k <= m => g[k] = h[k]}
<1>1. 0 \in S
  BY DEF Begins
<1>2. ASSUME NEW k \in Nat, k \in S PROVE k + 1 \in S
  <2> SUFFICES ASSUME k + 1 <= n, k + 1 <= m PROVE g[k + 1] = h[k + 1]
    OBVIOUS
  <2>1. k < n /\ k < m /\ g[k] = h[k]
    BY <1>2
  <2> QED
    BY <2>1 DEF Begins
<1> HIDE DEF S
<1>3. Nat \subseteq S
  BY <1>1, <1>2, SetInduction
<1> QED
  BY <1>3 DEF S

Iterates(T, a, H, f) ==
    f \in [Nat -> T] /\ f[0] = a /\ \A n \in Nat : f[n + 1] = H[n + 1][f[n]]

LEMMA IterationExists ==
  ASSUME NEW T, NEW a \in T, NEW H \in [Nat -> [T -> T]]
  PROVE  \E f : Iterates(T, a, H, f)
<1> DEFINE G(n) == CHOOSE g : Begins(T, a, H, n, g)
           f == [n \in Nat |-> G(n)[n]]
<1>1. \A n \in Nat : Begins(T, a, H, n, G(n))
  BY BeginningsExist
<1> HIDE DEF G
<1>2. f \in [Nat -> T] /\ f[0] = a
  BY <1>1 DEF Begins
<1>3. ASSUME NEW n \in Nat PROVE f[n + 1] = H[n + 1][f[n]]
  <2>1. Begins(T, a, H, n, G(n)) /\ Begins(T, a, H, n + 1, G(n + 1))
    BY <1>1
  <2>2. G(n)[n] = G(n + 1)[n]
    BY <2>1, BeginningsAgree
  <2>3. G(n + 1)[n + 1] = H[n + 1][G(n + 1)[n]]
    BY <2>1 DEF Begins
  <2> QED
    BY <2>2, <2>3
<1> HIDE DEF f
<1>4. Iterates(T, a, H, f)
  BY <1>2, <1>3 DEF Iterates
<1> QED
  BY <1>4

LEMMA ListFinite ==
  ASSUME NEW x, IsList(x)
  PROVE  IsFiniteSet(DOMAIN x) /\ Cardinality(DOMAIN x) = Len(x) /\ Len(x) \in Nat
<1>1. 1 \in Int /\ Len(x) \in Int /\ Len(x) \in Nat /\ DOMAIN x = 1 .. Len(x)
  BY DEF IsList
<1>2. PICK n \in Int : n = Len(x)
  BY <1>1
<1>3. /\ IsFiniteSet(1 .. n)
      /\ Cardinality(1 .. n) = IF 1 > n THEN 0 ELSE n - 1 + 1
  BY <1>1, FS_Interval
<1>4. Cardinality(1 .. n) = n
  BY <1>1, <1>2, <1>3
<1> QED
  BY <1>1, <1>2, <1>3, <1>4

Results(left, right) ==
    [found : BOOLEAN, match : Matching(left, right), seen : SUBSET DOMAIN right]

\* What one turn of visit does: nothing is left to visit; or a free object j is
\* taken, or one whose holder moves; or the holder cannot, and the loop goes on.
Outcome(left, right, visit, i, m, seen, x) ==
    \/ Edges(left, right, i) \subseteq seen /\ x = Visited(FALSE, m, seen)
    \/ \E j \in Edges(left, right, i) \ seen :
          \/ m[j] = 0 /\ x = Visited(TRUE, [m EXCEPT ![j] = i], seen \cup {j})
          \/ /\ m[j] \in DOMAIN left
             /\ \E y \in Results(left, right) :
                   /\ y = visit[Asked(m[j], m, seen \cup {j})]
                   /\ \/ y.found /\ x = Visited(TRUE, [y.match EXCEPT ![j] = i], y.seen)
                      \/ ~y.found /\ x = visit[Asked(i, y.match, y.seen)]

LEMMA VisitCases ==
  ASSUME NEW left, NEW right, IsList(left), IsList(right),
         NEW visit \in [Search(left, right) -> Results(left, right)],
         NEW i \in DOMAIN left, NEW m \in Matching(left, right),
         NEW seen \in SUBSET DOMAIN right
  PROVE  Outcome(left, right, visit, i, m, seen, Visit(left, right, visit, Asked(i, m, seen)))
<1>0. PICK x : x = Visit(left, right, visit, Asked(i, m, seen))
  OBVIOUS
<1> DEFINE E == Edges(left, right, i) \ seen
           j == Least(E)
           now == seen \cup {j}
           y == visit[Asked(m[j], m, now)]
           moved == IF m[j] = 0 THEN Visited(TRUE, m, now) ELSE y
<1>1. x = IF E = {} THEN Visited(FALSE, m, seen)
          ELSE IF moved.found THEN Visited(TRUE, [moved.match EXCEPT ![j] = i], moved.seen)
          ELSE visit[Asked(i, moved.match, moved.seen)]
  BY <1>0 DEF Visit, Asked
<1> HIDE DEF y, moved
<1>2. CASE E = {}
  BY <1>0, <1>1, <1>2 DEF Outcome
<1>3. CASE E # {}
  <2>1. j \in E
    <3>1. E \subseteq Nat
      BY DEF Edges, IsList
    <3> QED
      BY <1>3, <3>1, LeastMember
  <2> HIDE DEF j
  <2>2. j \in DOMAIN right /\ now \in SUBSET DOMAIN right
    BY <2>1 DEF Edges
  <2>3. m[j] = 0 \/ m[j] \in DOMAIN left
    BY <2>2 DEF Matching
  <2> HIDE DEF E
  <2>4. CASE m[j] = 0
    <3>1. moved = Visited(TRUE, m, now)
      BY <2>4 DEF moved
    <3>2. moved.found /\ moved.match = m /\ moved.seen = now
      BY <3>1 DEF Visited
    <3>3. x = Visited(TRUE, [m EXCEPT ![j] = i], now)
      BY <1>1, <1>3, <3>2
    <3> QED
      BY <1>0, <2>1, <2>4, <3>3 DEF E, Outcome
  <2>5. CASE m[j] # 0
    <3>1. moved = y
      BY <2>5 DEF moved
    <3>2. Asked(m[j], m, now) \in Search(left, right)
      BY <2>2, <2>3, <2>5 DEF Asked, Search
    <3>3. y \in Results(left, right)
      BY <3>2 DEF y
    <3>4. \/ y.found /\ x = Visited(TRUE, [y.match EXCEPT ![j] = i], y.seen)
          \/ ~y.found /\ x = visit[Asked(i, y.match, y.seen)]
      BY <1>1, <1>3, <3>1
    <3> QED
      BY <1>0, <2>1, <2>3, <2>5, <3>3, <3>4 DEF E, y, Outcome
  <2> QED
    BY <2>4, <2>5
<1> QED
  BY <1>2, <1>3

LEMMA VisitType ==
  ASSUME NEW left, NEW right, IsList(left), IsList(right),
         NEW visit \in [Search(left, right) -> Results(left, right)],
         NEW s \in Search(left, right)
  PROVE  Visit(left, right, visit, s) \in Results(left, right)
<1>1. PICK x : x = Visit(left, right, visit, s)
  OBVIOUS
<1>2. PICK i \in DOMAIN left, m \in Matching(left, right), seen \in SUBSET DOMAIN right :
        s = Asked(i, m, seen)
  BY DEF Search, Asked
<1>3. CASE x = Visited(FALSE, m, seen)
  BY <1>1, <1>3 DEF Visited, Results
<1>4. ASSUME NEW j \in DOMAIN right, NEW n \in Matching(left, right),
             NEW now \in SUBSET DOMAIN right,
             x = Visited(TRUE, [n EXCEPT ![j] = i], now)
      PROVE  x \in Results(left, right)
  <2>1. [n EXCEPT ![j] = i] \in Matching(left, right)
    BY DEF Matching
  <2> QED
    BY <1>4, <2>1 DEF Visited, Results
<1>5. ASSUME NEW y \in Results(left, right), x = visit[Asked(i, y.match, y.seen)]
      PROVE  x \in Results(left, right)
  <2>1. Asked(i, y.match, y.seen) \in Search(left, right)
    BY DEF Asked, Search, Results
  <2> QED
    BY <1>5, <2>1
<1>6. \A y \in Results(left, right) :
         y.match \in Matching(left, right) /\ y.seen \in SUBSET DOMAIN right
  BY DEF Results
<1>7. \A j \in Edges(left, right, i) : j \in DOMAIN right /\ seen \cup {j} \in SUBSET DOMAIN right
  BY DEF Edges
<1>8. Outcome(left, right, visit, i, m, seen, x)
  BY <1>1, <1>2, VisitCases
<1>9. \/ x = Visited(FALSE, m, seen)
      \/ \E j \in Edges(left, right, i) :
           \/ x = Visited(TRUE, [m EXCEPT ![j] = i], seen \cup {j})
           \/ \E y \in Results(left, right) :
                \/ x = Visited(TRUE, [y.match EXCEPT ![j] = i], y.seen)
                \/ x = visit[Asked(i, y.match, y.seen)]
  BY <1>8 DEF Outcome
<1> QED
  BY <1>1, <1>3, <1>4, <1>5, <1>6, <1>7, <1>9

\* The recursive definition of Visits has a solution, which is typed.
Solves(left, right, V) ==
    /\ V \in [Nat -> [Search(left, right) -> Results(left, right)]]
    /\ \A s \in Search(left, right) :
          /\ V[0][s] = Visited(FALSE, s.match, s.seen)
          /\ \A n \in Nat : V[n + 1][s] = Visit(left, right, V[n], s)

LEMMA VisitsDefined ==
  ASSUME NEW left, NEW right, IsList(left), IsList(right)
  PROVE  Solves(left, right, Visits(left, right))
<1> DEFINE T == [Search(left, right) -> Results(left, right)]
           none == [s \in Search(left, right) |-> Visited(FALSE, s.match, s.seen)]
           next(v) == [s \in Search(left, right) |-> Visit(left, right, v, s)]
           H == [n \in Nat |-> [v \in T |-> next(v)]]
           level(v, n) == [s \in Search(left, right) |->
                              IF n = 0 THEN Visited(FALSE, s.match, s.seen)
                              ELSE Visit(left, right, v[n - 1], s)]
<1>1. none \in T
  BY DEF Visited, Results, Search
<1>2. ASSUME NEW v \in T PROVE next(v) \in T
  BY VisitType
<1>3. \A v, n : n = 0 => level(v, n) = none
  OBVIOUS
<1>4. \A v, n : n # 0 => level(v, n) = next(v[n - 1])
  OBVIOUS
<1>5. Visits(left, right) = CHOOSE v : v = [n \in Nat |-> level(v, n)]
  BY DEF Visits
<1> HIDE DEF none, next, level, T
<1>6. H \in [Nat -> [T -> T]]
  BY <1>2
<1> HIDE DEF H
<1>7. PICK f : Iterates(T, none, H, f)
  BY <1>1, <1>6, IterationExists
<1>8. f = [n \in Nat |-> level(f, n)]
  <2>1. ASSUME NEW n \in Nat PROVE f[n] = level(f, n)
    <3>1. CASE n = 0
      BY <1>3, <1>7, <3>1 DEF Iterates
    <3>2. CASE n # 0
      <4>1. n - 1 \in Nat /\ (n - 1) + 1 = n
        BY <3>2
      <4>2. f[n - 1] \in T /\ H[n][f[n - 1]] = next(f[n - 1])
        BY <1>7, <4>1 DEF H, Iterates
      <4>3. f[n] = H[n][f[n - 1]]
        BY <1>7, <4>1 DEF Iterates
      <4> QED
        BY <1>4, <3>2, <4>2, <4>3
    <3> QED
      BY <3>1, <3>2
  <2> QED
    BY <1>7, <2>1 DEF Iterates
<1>9. PICK g : g = Visits(left, right) /\ g = [n \in Nat |-> level(g, n)]
  BY <1>5, <1>8
<1>10. g[0] = none /\ \A n \in Nat : g[n + 1] = next(g[n])
  <2>1. g[0] = level(g, 0)
    BY <1>9
  <2>2. ASSUME NEW n \in Nat PROVE g[n + 1] = next(g[n])
    <3>1. g[n + 1] = level(g, n + 1)
      BY <1>9
    <3>2. n + 1 # 0 /\ (n + 1) - 1 = n
      OBVIOUS
    <3> QED
      BY <1>4, <3>1, <3>2
  <2> QED
    BY <1>3, <2>1, <2>2
<1>11. g \in [Nat -> T]
  <2> DEFINE S == {n \in Nat : g[n] \in T}
  <2>1. 0 \in S /\ \A n \in Nat : n \in S => n + 1 \in S
    BY <1>1, <1>2, <1>10
  <2> HIDE DEF S
  <2>2. Nat \subseteq S
    BY <2>1, SetInduction
  <2> QED
    BY <1>9, <2>2 DEF S
<1>12. ASSUME NEW s \in Search(left, right)
       PROVE  /\ none[s] = Visited(FALSE, s.match, s.seen)
              /\ \A n \in Nat : next(g[n])[s] = Visit(left, right, g[n], s)
  BY DEF none, next
<1>13. \A s \in Search(left, right) :
         /\ g[0][s] = Visited(FALSE, s.match, s.seen)
         /\ \A n \in Nat : g[n + 1][s] = Visit(left, right, g[n], s)
  BY <1>10, <1>12
<1> QED
  BY <1>9, <1>11, <1>13 DEF T, Solves

\* Only overlapping objects are matched, and none twice.
Overlapping(left, right, m) ==
    \A j \in DOMAIN right : m[j] # 0 => j \in Edges(left, right, m[j])

Injective(right, m) ==
    \A j, k \in DOMAIN right : m[j] # 0 /\ m[j] = m[k] => j = k

\* What visit is called with: an object i which holds nothing, or nothing that
\* may still be visited.
Sound(left, right, i, m, seen) ==
    /\ Overlapping(left, right, m) /\ Injective(right, m)
    /\ \A j \in DOMAIN right : m[j] = i => j \in seen

\* What a call that found a place for i has made of m: i holds a new object
\* besides the one it is moved from, and everyone keeps a place.
Placed(left, right, i, m, seen, new) ==
    /\ Overlapping(left, right, new)
    /\ \A j \in seen : new[j] = m[j]
    /\ \E j \in DOMAIN right : j \notin seen /\ new[j] = i
    /\ \A j \in DOMAIN right :
          \/ new[j] = m[j] \/ new[j] = i
          \/ \E k \in DOMAIN right : k \notin seen /\ m[k] = new[j]
    /\ \A j, k \in DOMAIN right :
          new[j] # 0 /\ new[j] = new[k] /\ j # k => new[j] = i /\ (m[j] = i \/ m[k] = i)
    /\ \A k \in DOMAIN right : m[k] # 0 => \E j \in DOMAIN right : new[j] = m[k]

\* What a call that found no place has seen: all that i overlaps, and all that
\* the holders of what it has seen overlap.
Exhausted(left, right, i, m, seen, now) ==
    /\ seen \subseteq now
    /\ Edges(left, right, i) \subseteq now
    /\ \A j \in now \ seen : m[j] # 0 /\ Edges(left, right, m[j]) \subseteq now

Kept(left, right, i, m, seen, x) ==
    IF x.found THEN Placed(left, right, i, m, seen, x.match)
    ELSE x.match = m /\ Exhausted(left, right, i, m, seen, x.seen)

LEMMA PlacedFree ==
  ASSUME NEW left, NEW right, IsList(left), IsList(right),
         NEW i \in DOMAIN left, NEW m \in Matching(left, right),
         NEW seen \in SUBSET DOMAIN right, Sound(left, right, i, m, seen),
         NEW j \in Edges(left, right, i), j \notin seen, m[j] = 0
  PROVE  Placed(left, right, i, m, seen, [m EXCEPT ![j] = i])
<1>1. j \in DOMAIN right
  BY DEF Edges
<1>2. PICK new : new = [m EXCEPT ![j] = i]
  OBVIOUS
<1>3. new[j] = i /\ \A k \in DOMAIN right : k # j => new[k] = m[k]
  BY <1>1, <1>2 DEF Matching
<1>4. i # 0
  BY DEF IsList
<1> QED
  BY <1>1, <1>2, <1>3, <1>4 DEF Placed, Sound, Overlapping, Injective

LEMMA SoundMoved ==
  ASSUME NEW left, NEW right, NEW i, NEW m, NEW seen,
         Sound(left, right, i, m, seen),
         NEW j \in DOMAIN right, m[j] # 0
  PROVE  Sound(left, right, m[j], m, seen \cup {j})
BY DEF Sound, Injective

LEMMA PlacedMoved ==
  ASSUME NEW left, NEW right, IsList(left), IsList(right),
         NEW i \in DOMAIN left, NEW m \in Matching(left, right),
         NEW seen \in SUBSET DOMAIN right, Sound(left, right, i, m, seen),
         NEW j \in Edges(left, right, i), j \notin seen, m[j] # 0,
         NEW n \in Matching(left, right),
         Placed(left, right, m[j], m, seen \cup {j}, n)
  PROVE  Placed(left, right, i, m, seen, [n EXCEPT ![j] = i])
<1>1. j \in DOMAIN right
  BY DEF Edges
<1>2. PICK new : new = [n EXCEPT ![j] = i]
  OBVIOUS
<1>3. new[j] = i /\ \A k \in DOMAIN right : k # j => new[k] = n[k]
  BY <1>1, <1>2 DEF Matching
<1>4. i # 0 /\ m[j] # i
  BY <1>1 DEF IsList, Sound
<1>5. Overlapping(left, right, new)
  BY <1>1, <1>3 DEF Placed, Overlapping
<1>6. \A k \in seen : new[k] = m[k]
  BY <1>3 DEF Placed
<1>7. PICK h \in DOMAIN right : h # j /\ h \notin seen /\ new[h] = m[j]
  BY <1>3 DEF Placed
<1>8. \A k \in DOMAIN right :
         \/ new[k] = m[k] \/ new[k] = i
         \/ \E l \in DOMAIN right : l \notin seen /\ m[l] = new[k]
  <2> SUFFICES ASSUME NEW k \in DOMAIN right, k # j
               PROVE  \/ new[k] = m[k]
                      \/ \E l \in DOMAIN right : l \notin seen /\ m[l] = new[k]
    BY <1>3
  <2>1. \/ n[k] = m[k] \/ n[k] = m[j]
        \/ \E l \in DOMAIN right : l \notin seen \cup {j} /\ m[l] = n[k]
    BY DEF Placed
  <2> QED
    BY <1>1, <1>3, <2>1
<1>9. ASSUME NEW k \in DOMAIN right, k # j, new[k] = i PROVE m[k] = i
  <2>1. \/ n[k] = m[k] \/ n[k] = m[j]
        \/ \E l \in DOMAIN right : l \notin seen \cup {j} /\ m[l] = n[k]
    BY DEF Placed
  <2> QED
    BY <1>3, <1>4, <1>9, <2>1 DEF Sound
<1>10. ASSUME NEW k \in DOMAIN right, NEW l \in DOMAIN right,
              new[k] # 0, new[k] = new[l], k # l
       PROVE  new[k] = i /\ (m[k] = i \/ m[l] = i)
  <2>1. CASE k = j \/ l = j
    BY <1>3, <1>9, <1>10, <2>1
  <2>2. CASE k # j /\ l # j
    <3>1. n[k] = n[l] /\ n[k] # 0
      BY <1>3, <1>10, <2>2
    <3>2. m[k] = m[j] \/ m[l] = m[j]
      BY <1>10, <3>1 DEF Placed
    <3>3. k = j \/ l = j
      BY <1>1, <3>2 DEF Sound, Injective
    <3> QED
      BY <2>2, <3>3
  <2> QED
    BY <2>1, <2>2
<1>11. ASSUME NEW k \in DOMAIN right, m[k] # 0 PROVE \E l \in DOMAIN right : new[l] = m[k]
  <2>1. PICK l \in DOMAIN right : n[l] = m[k]
    BY <1>11 DEF Placed
  <2>2. CASE l = j
    <3>1. n[j] = m[j]
      BY DEF Placed
    <3> QED
      BY <1>7, <2>1, <2>2, <3>1
  <2>3. CASE l # j
    BY <1>3, <2>1, <2>3
  <2> QED
    BY <2>2, <2>3
<1>12. \A k, l \in DOMAIN right :
          new[k] # 0 /\ new[k] = new[l] /\ k # l => new[k] = i /\ (m[k] = i \/ m[l] = i)
  BY <1>10
<1>13. \A k \in DOMAIN right : m[k] # 0 => \E l \in DOMAIN right : new[l] = m[k]
  BY <1>11
<1>14. \E k \in DOMAIN right : k \notin seen /\ new[k] = i
  BY <1>1, <1>3
<1> QED
  BY <1>2, <1>5, <1>6, <1>8, <1>12, <1>13, <1>14 DEF Placed

LEMMA SoundLater ==
  ASSUME NEW left, NEW right, NEW i, NEW m, NEW seen, NEW now,
         Sound(left, right, i, m, seen), seen \subseteq now
  PROVE  Sound(left, right, i, m, now)
BY DEF Sound

LEMMA KeptLater ==
  ASSUME NEW left, NEW right, NEW i, NEW m, NEW seen, NEW x,
         NEW j \in Edges(left, right, i), m[j] # 0, NEW now,
         Exhausted(left, right, m[j], m, seen \cup {j}, now),
         Kept(left, right, i, m, now, x)
  PROVE  Kept(left, right, i, m, seen, x)
<1>1. seen \subseteq now /\ j \in now
  BY DEF Exhausted
<1>2. CASE x.found
  <2>1. Placed(left, right, i, m, now, x.match)
    BY <1>2 DEF Kept
  <2>2. Placed(left, right, i, m, seen, x.match)
    BY <1>1, <2>1 DEF Placed
  <2> QED
    BY <1>2, <2>2 DEF Kept
<1>3. CASE ~x.found
  <2>1. x.match = m /\ Exhausted(left, right, i, m, now, x.seen)
    BY <1>3 DEF Kept
  <2>2. Exhausted(left, right, i, m, seen, x.seen)
    BY <1>1, <2>1 DEF Exhausted
  <2> QED
    BY <1>3, <2>1, <2>2 DEF Kept
<1> QED
  BY <1>2, <1>3

\* One turn keeps the promise, if the calls it makes do.
LEMMA VisitKeeps ==
  ASSUME NEW left, NEW right, IsList(left), IsList(right), NEW n \in Nat,
         NEW visit \in [Search(left, right) -> Results(left, right)],
         \A i \in DOMAIN left, m \in Matching(left, right), seen \in SUBSET DOMAIN right :
            Sound(left, right, i, m, seen) /\ Cardinality(DOMAIN right \ seen) <= n
            => Kept(left, right, i, m, seen, visit[Asked(i, m, seen)]),
         NEW i \in DOMAIN left, NEW m \in Matching(left, right),
         NEW seen \in SUBSET DOMAIN right,
         Sound(left, right, i, m, seen), Cardinality(DOMAIN right \ seen) <= n + 1
  PROVE  Kept(left, right, i, m, seen, Visit(left, right, visit, Asked(i, m, seen)))
<1>1. PICK x : x = Visit(left, right, visit, Asked(i, m, seen))
  OBVIOUS
<1>2. Outcome(left, right, visit, i, m, seen, x)
  BY <1>1, VisitCases
<1>3. CASE Edges(left, right, i) \subseteq seen /\ x = Visited(FALSE, m, seen)
  BY <1>1, <1>3 DEF Kept, Exhausted, Visited
<1>4. ASSUME NEW j \in Edges(left, right, i) \ seen, m[j] = 0,
             x = Visited(TRUE, [m EXCEPT ![j] = i], seen \cup {j})
      PROVE  Kept(left, right, i, m, seen, x)
  <2>1. x.found /\ x.match = [m EXCEPT ![j] = i]
    BY <1>4 DEF Visited
  <2>2. Placed(left, right, i, m, seen, [m EXCEPT ![j] = i])
    BY <1>4, PlacedFree
  <2> QED
    BY <2>1, <2>2 DEF Kept
<1>5. ASSUME NEW j \in Edges(left, right, i) \ seen, m[j] \in DOMAIN left,
             NEW y \in Results(left, right),
             y = visit[Asked(m[j], m, seen \cup {j})],
             \/ y.found /\ x = Visited(TRUE, [y.match EXCEPT ![j] = i], y.seen)
             \/ ~y.found /\ x = visit[Asked(i, y.match, y.seen)]
      PROVE  Kept(left, right, i, m, seen, x)
  <2>1. /\ j \in DOMAIN right /\ m[j] # 0
        /\ seen \cup {j} \in SUBSET DOMAIN right
    BY <1>5 DEF Edges, IsList
  <2>2. \A now \in SUBSET DOMAIN right : seen \cup {j} \subseteq now =>
          Cardinality(DOMAIN right \ now) <= n
    <3> SUFFICES ASSUME NEW now \in SUBSET DOMAIN right, seen \cup {j} \subseteq now
                 PROVE  Cardinality(DOMAIN right \ now) <= n
      OBVIOUS
    <3> DEFINE A == DOMAIN right \ seen
               B == DOMAIN right \ now
    <3>1. IsFiniteSet(DOMAIN right)
      BY FS_Interval DEF IsList
    <3>2. IsFiniteSet(A)
      BY <3>1, FS_Difference
    <3>3. IsFiniteSet(A \ {j}) /\ Cardinality(A \ {j}) = Cardinality(A) - 1
      BY <2>1, <3>2, FS_RemoveElement
    <3>4. B \in SUBSET (A \ {j})
      OBVIOUS
    <3>5. Cardinality(B) <= Cardinality(A \ {j}) /\ IsFiniteSet(B)
      BY <3>3, <3>4, FS_Subset
    <3>6. Cardinality(A) \in Nat /\ Cardinality(B) \in Nat
      BY <3>2, <3>5, FS_CardinalityType
    <3> HIDE DEF A, B
    <3>7. Cardinality(A) <= n + 1 => Cardinality(B) <= n
      BY <3>3, <3>5, <3>6
    <3> QED
      BY <3>7 DEF A, B
  <2>3. Sound(left, right, m[j], m, seen \cup {j})
    BY <2>1, SoundMoved
  <2>4. Kept(left, right, m[j], m, seen \cup {j}, y)
    BY <1>5, <2>1, <2>2, <2>3
  <2>5. y.match \in Matching(left, right) /\ y.seen \in SUBSET DOMAIN right
    BY DEF Results
  <2>6. CASE y.found /\ x = Visited(TRUE, [y.match EXCEPT ![j] = i], y.seen)
    <3>1. Placed(left, right, m[j], m, seen \cup {j}, y.match)
      BY <2>4, <2>6 DEF Kept
    <3>2. Placed(left, right, i, m, seen, [y.match EXCEPT ![j] = i])
      BY <2>1, <2>5, <3>1, PlacedMoved
    <3>3. x.found /\ x.match = [y.match EXCEPT ![j] = i]
      BY <2>6 DEF Visited
    <3> QED
      BY <3>2, <3>3 DEF Kept
  <2>7. CASE ~y.found /\ x = visit[Asked(i, y.match, y.seen)]
    <3>1. y.match = m /\ Exhausted(left, right, m[j], m, seen \cup {j}, y.seen)
      BY <2>4, <2>7 DEF Kept
    <3>2. seen \cup {j} \subseteq y.seen
      BY <3>1 DEF Exhausted
    <3>3. Sound(left, right, i, m, y.seen)
      BY <3>2, SoundLater
    <3>4. Kept(left, right, i, m, y.seen, x)
      BY <2>2, <2>5, <2>7, <3>1, <3>2, <3>3
    <3> QED
      BY <2>1, <3>1, <3>4, KeptLater
  <2> QED
    BY <1>5, <2>6, <2>7
<1> QED
  BY <1>1, <1>2, <1>3, <1>4, <1>5 DEF Outcome

\* Len(right) turns are enough for whatever i is visited for.
LEMMA VisitsKeep ==
  ASSUME NEW left, NEW right, IsList(left), IsList(right), NEW n \in Nat
  PROVE  \A i \in DOMAIN left, m \in Matching(left, right), seen \in SUBSET DOMAIN right :
            Sound(left, right, i, m, seen) /\ Cardinality(DOMAIN right \ seen) <= n
            => Kept(left, right, i, m, seen, Visits(left, right)[n][Asked(i, m, seen)])
<1>v. PICK V : V = Visits(left, right) /\ Solves(left, right, V)
  BY VisitsDefined
<1> DEFINE Keeps(k) == \A i \in DOMAIN left, m \in Matching(left, right),
                          seen \in SUBSET DOMAIN right :
              Sound(left, right, i, m, seen) /\ Cardinality(DOMAIN right \ seen) <= k
              => Kept(left, right, i, m, seen, V[k][Asked(i, m, seen)])
           S == {k \in Nat : Keeps(k)}
<1>0. \A i \in DOMAIN left, m \in Matching(left, right), seen \in SUBSET DOMAIN right :
         Asked(i, m, seen) \in Search(left, right)
  BY DEF Asked, Search
<1>1. Keeps(0)
  <2> SUFFICES ASSUME NEW i \in DOMAIN left, NEW m \in Matching(left, right),
                      NEW seen \in SUBSET DOMAIN right,
                      Cardinality(DOMAIN right \ seen) <= 0
               PROVE  Kept(left, right, i, m, seen, V[0][Asked(i, m, seen)])
    OBVIOUS
  <2>1. IsFiniteSet(DOMAIN right \ seen)
    <3>1. IsFiniteSet(DOMAIN right)
      BY FS_Interval DEF IsList
    <3> QED
      BY <3>1, FS_Difference
  <2>2. Cardinality(DOMAIN right \ seen) = 0
    BY <2>1, FS_CardinalityType
  <2>3. DOMAIN right \ seen = {}
    BY <2>1, <2>2, FS_EmptySet
  <2>4. V[0][Asked(i, m, seen)] = Visited(FALSE, m, seen)
    <3>1. V[0][Asked(i, m, seen)] = Visited(FALSE, Asked(i, m, seen).match, Asked(i, m, seen).seen)
      BY <1>0, <1>v DEF Solves
    <3> QED
      BY <3>1 DEF Asked
  <2> QED
    BY <2>3, <2>4 DEF Kept, Exhausted, Visited, Edges
<1>2. ASSUME NEW k \in Nat, Keeps(k) PROVE Keeps(k + 1)
  <2> SUFFICES ASSUME NEW i \in DOMAIN left, NEW m \in Matching(left, right),
                      NEW seen \in SUBSET DOMAIN right, Sound(left, right, i, m, seen),
                      Cardinality(DOMAIN right \ seen) <= k + 1
               PROVE  Kept(left, right, i, m, seen, V[k + 1][Asked(i, m, seen)])
    OBVIOUS
  <2>1. V[k] \in [Search(left, right) -> Results(left, right)]
    BY <1>v DEF Solves
  <2>2. V[k + 1][Asked(i, m, seen)] = Visit(left, right, V[k], Asked(i, m, seen))
    BY <1>0, <1>v DEF Solves
  <2>3. Kept(left, right, i, m, seen, Visit(left, right, V[k], Asked(i, m, seen)))
    BY <1>2, <2>1, VisitKeeps
  <2> QED
    BY <2>2, <2>3
<1> HIDE DEF Keeps
<1>3. 0 \in S /\ \A k \in Nat : k \in S => k + 1 \in S
  BY <1>1, <1>2
<1> HIDE DEF S
<1>4. n \in S
  BY <1>3, SetInduction
<1> QED
  BY <1>v, <1>4 DEF S, Keeps

\* One visit after the other, for the objects of left in their order.
Matched(left, right, M) ==
    /\ \A n \in 0 .. Len(left) : M[n] \in Matching(left, right)
    /\ M[0] = [j \in DOMAIN right |-> 0]
    /\ \A n \in 1 .. Len(left) :
          M[n] = Visits(left, right)[Len(right)][Asked(n, M[n - 1], {})].match

LEMMA MatchesDefined ==
  ASSUME NEW left, NEW right, IsList(left), IsList(right)
  PROVE  Matched(left, right, Matches(left, right))
<1> DEFINE N == Len(left)
           T == Matching(left, right)
           none == [j \in DOMAIN right |-> 0]
           next(n, m) == Visits(left, right)[Len(right)][Asked(n, m, {})].match
           H == [n \in Nat |-> [m \in T |-> IF n \in 1 .. N THEN next(n, m) ELSE m]]
           level(v, n) == IF n = 0 THEN none ELSE next(n, v[n - 1])
<1>1. none \in T
  BY DEF Matching
<1>2. ASSUME NEW n \in 1 .. N, NEW m \in T PROVE next(n, m) \in T
  <2>1. Asked(n, m, {}) \in Search(left, right)
    BY DEF Asked, Search, IsList
  <2>2. PICK V : V = Visits(left, right) /\ Solves(left, right, V)
    BY VisitsDefined
  <2>3. V[Len(right)][Asked(n, m, {})] \in Results(left, right)
    BY <2>1, <2>2 DEF Solves, IsList
  <2> QED
    BY <2>2, <2>3 DEF Results
<1>3. Matches(left, right) = CHOOSE v : v = [n \in 0 .. N |-> level(v, n)]
  BY DEF Matches
<1> HIDE DEF none, next, T
<1>4. H \in [Nat -> [T -> T]]
  BY <1>2
<1>5. \A n \in 1 .. N, m \in T : H[n][m] = next(n, m)
  BY DEF IsList
<1> HIDE DEF H
<1>6. PICK f : Iterates(T, none, H, f)
  BY <1>1, <1>4, IterationExists
<1>7. PICK h : h = [n \in 0 .. N |-> f[n]]
  OBVIOUS
<1>8. h = [n \in 0 .. N |-> level(h, n)]
  <2>1. ASSUME NEW n \in 0 .. N PROVE h[n] = level(h, n)
    <3>1. CASE n = 0
      BY <1>6, <1>7, <3>1 DEF Iterates
    <3>2. CASE n # 0
      <4>1. n - 1 \in Nat /\ n - 1 \in 0 .. N /\ n \in 1 .. N /\ (n - 1) + 1 = n
        BY <3>2 DEF IsList
      <4>2. f[n] = H[n][f[n - 1]] /\ f[n - 1] \in T
        BY <1>6, <4>1 DEF Iterates
      <4>3. f[n] = next(n, f[n - 1])
        BY <1>5, <4>1, <4>2
      <4> QED
        BY <1>7, <3>2, <4>1, <4>3
    <3> QED
      BY <3>1, <3>2
  <2> QED
    BY <1>7, <2>1
<1>9. PICK g : g = Matches(left, right) /\ g = [n \in 0 .. N |-> level(g, n)]
  BY <1>3, <1>8
<1>10. g[0] = none /\ \A n \in 1 .. N : g[n] = next(n, g[n - 1])
  <2>1. 0 \in 0 .. N
    BY DEF IsList
  <2>2. g[0] = none
    BY <1>9, <2>1
  <2>3. ASSUME NEW n \in 1 .. N PROVE g[n] = next(n, g[n - 1])
    <3>1. n \in 0 .. N /\ n # 0
      BY DEF IsList
    <3> QED
      BY <1>9, <3>1
  <2> QED
    BY <2>2, <2>3
<1>11. \A n \in 0 .. N : g[n] \in T
  <2> DEFINE S == {n \in Nat : n <= N => g[n] \in T}
  <2>1. 0 \in S
    BY <1>1, <1>10
  <2>2. ASSUME NEW n \in Nat, n \in S PROVE n + 1 \in S
    <3> SUFFICES ASSUME n + 1 <= N PROVE g[n + 1] \in T
      OBVIOUS
    <3>1. n + 1 \in 1 .. N /\ (n + 1) - 1 = n /\ g[n] \in T
      BY <2>2 DEF IsList
    <3> QED
      BY <1>2, <1>10, <3>1
  <2> HIDE DEF S
  <2>3. Nat \subseteq S
    BY <2>1, <2>2, SetInduction
  <2> QED
    BY <2>3 DEF S, IsList
<1>12. Matched(left, right, g)
  BY <1>10, <1>11 DEF none, next, T, Matched
<1> QED
  BY <1>9, <1>12

\* When a visit fails, there are fewer objects than holders: what it has seen is
\* all that i and the holders of what it has seen overlap.
LEMMA ExhaustedIsShort ==
  ASSUME NEW left, NEW right, IsList(left), IsList(right),
         NEW i \in DOMAIN left, NEW m \in Matching(left, right),
         Injective(right, m), \A j \in DOMAIN right : m[j] # i,
         NEW now \in SUBSET DOMAIN right, Exhausted(left, right, i, m, {}, now)
  PROVE  ~OneToOne(left, right)
<1> SUFFICES ASSUME OneToOne(left, right) PROVE FALSE
  OBVIOUS
<1>1. PICK p \in [DOMAIN left -> DOMAIN right] :
        /\ \A k, l \in DOMAIN left : p[k] = p[l] => k = l
        /\ \A k \in DOMAIN left : p[k] \in Edges(left, right, k)
  BY DEF OneToOne, Edges
<1>2. PICK h : h = [x \in now \cup {0} |-> IF x = 0 THEN p[i] ELSE p[m[x]]]
  OBVIOUS
<1>3. 0 \notin now
  BY DEF IsList
<1>4. \A x \in now : m[x] \in DOMAIN left /\ h[x] = p[m[x]] /\ h[x] \in now
  BY <1>1, <1>2, <1>3 DEF Exhausted, Matching
<1>5. h[0] = p[i] /\ h[0] \in now
  BY <1>1, <1>2 DEF Exhausted
<1>6. h \in [now \cup {0} -> now]
  BY <1>2, <1>4, <1>5
<1>7. IsFiniteSet(now)
  <2>1. IsFiniteSet(DOMAIN right)
    BY FS_Interval DEF IsList
  <2> QED
    BY <2>1, FS_Subset
<1>8. IsFiniteSet(now \cup {0}) /\ Cardinality(now) < Cardinality(now \cup {0})
  <2>1. IsFiniteSet(now \cup {0}) /\ Cardinality(now \cup {0}) = Cardinality(now) + 1
    BY <1>3, <1>7, FS_AddElement
  <2>2. Cardinality(now) \in Nat
    BY <1>7, FS_CardinalityType
  <2> QED
    BY <2>1, <2>2
<1>9. PICK x, y \in now \cup {0} : x # y /\ h[x] = h[y]
  BY <1>6, <1>7, <1>8, FS_PigeonHole
<1>10. CASE x \in now /\ y \in now
  <2>1. m[x] = m[y]
    BY <1>1, <1>4, <1>9, <1>10
  <2>2. m[x] # 0
    BY <1>10 DEF Exhausted
  <2> QED
    BY <1>9, <1>10, <2>1, <2>2 DEF Injective
<1>11. CASE x = 0 /\ y \in now
  BY <1>1, <1>4, <1>5, <1>9, <1>11
<1>12. CASE x \in now /\ y = 0
  BY <1>1, <1>4, <1>5, <1>9, <1>12
<1> QED
  BY <1>9, <1>10, <1>11, <1>12

\* After n visits: a matching of the first n objects, and of all of them if
\* everything can be matched.
MatchedUpTo(left, right, n, m) ==
    /\ Overlapping(left, right, m) /\ Injective(right, m)
    /\ \A j \in DOMAIN right : m[j] \in 0 .. n
    /\ OneToOne(left, right) => \A i \in 1 .. n : \E j \in DOMAIN right : m[j] = i

LEMMA OneMoreMatched ==
  ASSUME NEW left, NEW right, IsList(left), IsList(right),
         NEW n \in 1 .. Len(left), NEW m \in Matching(left, right),
         MatchedUpTo(left, right, n - 1, m), NEW x,
         Kept(left, right, n, m, {}, x)
  PROVE  MatchedUpTo(left, right, n, x.match)
<1>1. /\ n \in DOMAIN left /\ n \in Nat /\ n # 0 /\ n \notin 0 .. (n - 1)
      /\ 0 .. (n - 1) \subseteq 0 .. n /\ n \in 0 .. n
  BY DEF IsList
<1>2. \A j \in DOMAIN right : m[j] # n
  BY <1>1 DEF MatchedUpTo
<1>3. \A i \in 1 .. n : i = n \/ i \in 1 .. (n - 1)
  BY <1>1
<1>4. CASE x.found
  <2>1. PICK new : new = x.match /\ Placed(left, right, n, m, {}, new)
    BY <1>4 DEF Kept
  <2>2. Overlapping(left, right, new) /\ Injective(right, new)
    BY <1>2, <2>1 DEF Placed, Injective
  <2>3. \A j \in DOMAIN right : new[j] \in 0 .. n
    BY <1>1, <2>1 DEF Placed, MatchedUpTo
  <2>4. ASSUME OneToOne(left, right), NEW i \in 1 .. n
        PROVE  \E j \in DOMAIN right : new[j] = i
    <3>1. CASE i = n
      BY <2>1, <3>1 DEF Placed
    <3>2. CASE i \in 1 .. (n - 1)
      <4>1. PICK k \in DOMAIN right : m[k] = i
        BY <2>4, <3>2 DEF MatchedUpTo
      <4>2. m[k] # 0
        BY <3>2, <4>1
      <4> QED
        BY <2>1, <4>1, <4>2 DEF Placed
    <3> QED
      BY <1>3, <3>1, <3>2
  <2> QED
    BY <2>1, <2>2, <2>3, <2>4 DEF MatchedUpTo
<1>5. CASE ~x.found
  <2>1. x.match = m /\ Exhausted(left, right, n, m, {}, x.seen)
    BY <1>5 DEF Kept
  <2>2. Exhausted(left, right, n, m, {}, x.seen \cap DOMAIN right)
    BY <2>1 DEF Exhausted, Edges
  <2>3. ~OneToOne(left, right)
    BY <1>1, <1>2, <2>2, ExhaustedIsShort DEF MatchedUpTo
  <2>4. \A j \in DOMAIN right : m[j] \in 0 .. n
    BY <1>1 DEF MatchedUpTo
  <2> QED
    BY <2>1, <2>3, <2>4 DEF MatchedUpTo
<1> QED
  BY <1>4, <1>5

LEMMA AllMatched ==
  ASSUME NEW left, NEW right, IsList(left), IsList(right)
  PROVE  /\ MaximumMatches(left, right) \in Matching(left, right)
         /\ MatchedUpTo(left, right, Len(left), MaximumMatches(left, right))
<1>0. PICK M : M = Matches(left, right) /\ Matched(left, right, M)
  BY MatchesDefined
<1> DEFINE N == Len(left)
           S == {n \in Nat : n <= N => MatchedUpTo(left, right, n, M[n])}
<1>1. 0 \in S
  <2>1. \A j \in DOMAIN right : M[0][j] = 0
    BY <1>0 DEF Matched
  <2> QED
    BY <2>1 DEF MatchedUpTo, Overlapping, Injective
<1>2. ASSUME NEW n \in Nat, n \in S PROVE n + 1 \in S
  <2> SUFFICES ASSUME n + 1 <= N
               PROVE  MatchedUpTo(left, right, n + 1, M[n + 1])
    OBVIOUS
  <2>1. n + 1 \in 1 .. N /\ (n + 1) - 1 = n /\ n \in 0 .. N /\ n + 1 \in DOMAIN left
        /\ n + 1 \notin 0 .. n
    BY DEF IsList
  <2>2. PICK m \in Matching(left, right) : m = M[n]
    BY <1>0, <2>1 DEF Matched
  <2>3. MatchedUpTo(left, right, n, m)
    BY <1>2, <2>1, <2>2
  <2>4. PICK x : x = Visits(left, right)[Len(right)][Asked(n + 1, m, {})]
    OBVIOUS
  <2>5. M[n + 1] = x.match
    BY <1>0, <2>1, <2>2, <2>4 DEF Matched
  <2>6. Sound(left, right, n + 1, m, {})
    BY <2>1, <2>3 DEF Sound, MatchedUpTo
  <2>7. Len(right) \in Nat /\ Cardinality(DOMAIN right \ {}) <= Len(right)
    <3>1. DOMAIN right \ {} = DOMAIN right
      OBVIOUS
    <3> QED
      BY <3>1, ListFinite
  <2>8. Kept(left, right, n + 1, m, {}, x)
    BY <2>1, <2>4, <2>6, <2>7, VisitsKeep
  <2> QED
    BY <2>1, <2>3, <2>5, <2>8, OneMoreMatched
<1> HIDE DEF S
<1>3. Nat \subseteq S
  BY <1>1, <1>2, SetInduction
<1>4. N \in Nat /\ N \in 0 .. N
  BY DEF IsList
<1>5. MatchedUpTo(left, right, N, M[N]) /\ M[N] \in Matching(left, right)
  BY <1>0, <1>3, <1>4 DEF S, Matched
<1> QED
  BY <1>0, <1>5 DEF MaximumMatches

\* compareReviews finds nothing unmatched in a frame exactly when there is a
\* bijection between its objects along overlaps: the augmenting paths of
\* maximumMatches find it, for lists of any length and any overlaps.
THEOREM AgreementIsOneToOne ==
  ASSUME NEW left, NEW right, IsList(left), IsList(right)
  PROVE  ObjectsAgree(left, right) <=> OneToOne(left, right)
<1>1. PICK m \in Matching(left, right) :
        m = MaximumMatches(left, right) /\ MatchedUpTo(left, right, Len(left), m)
  BY AllMatched
<1>2. ObjectsAgree(left, right) <=>
        /\ \A i \in DOMAIN left : \E j \in DOMAIN right : m[j] = i
        /\ \A j \in DOMAIN right : m[j] # 0
  BY <1>1 DEF ObjectsAgree
<1>3. /\ IsFiniteSet(DOMAIN left) /\ Cardinality(DOMAIN left) = Len(left)
      /\ IsFiniteSet(DOMAIN right) /\ Cardinality(DOMAIN right) = Len(right)
      /\ Len(left) \in Nat /\ Len(right) \in Nat
  BY ListFinite
<1>4. /\ m \in [DOMAIN right -> {0} \cup DOMAIN left]
      /\ \A j, k \in DOMAIN right : m[j] # 0 /\ m[j] = m[k] => j = k
      /\ \A j \in DOMAIN right : m[j] # 0 => Overlap(left[m[j]], right[j])
  BY <1>1 DEF MatchedUpTo, Injective, Overlapping, Edges, Matching
<1>5. ASSUME \A i \in DOMAIN left : \E j \in DOMAIN right : m[j] = i
      PROVE  \E p \in [DOMAIN left -> DOMAIN right] :
                /\ \A i \in DOMAIN left : m[p[i]] = i /\ i # 0
                /\ \A i, j \in DOMAIN left : p[i] = p[j] => i = j
  <2>1. PICK p : p = [i \in DOMAIN left |-> CHOOSE j \in DOMAIN right : m[j] = i]
    OBVIOUS
  <2>2. p \in [DOMAIN left -> DOMAIN right] /\ \A i \in DOMAIN left : m[p[i]] = i
    BY <1>5, <2>1
  <2>3. 0 \notin DOMAIN left
    BY DEF IsList
  <2> QED
    BY <2>2, <2>3
<1>6. ASSUME ObjectsAgree(left, right) PROVE OneToOne(left, right)
  <2>1. PICK p \in [DOMAIN left -> DOMAIN right] :
          /\ \A i \in DOMAIN left : m[p[i]] = i /\ i # 0
          /\ \A i, j \in DOMAIN left : p[i] = p[j] => i = j
    BY <1>2, <1>5, <1>6
  <2>2. ~(Len(right) < Len(left))
    BY <1>3, <2>1, FS_PigeonHole
  <2>3. m \in [DOMAIN right -> DOMAIN left]
    BY <1>2, <1>4, <1>6
  <2>4. ~(Len(left) < Len(right))
    <3> SUFFICES ASSUME Len(left) < Len(right) PROVE FALSE
      OBVIOUS
    <3>1. PICK j, k \in DOMAIN right : j # k /\ m[j] = m[k]
      BY <1>3, <2>3, FS_PigeonHole
    <3> QED
      BY <1>2, <1>4, <1>6, <3>1
  <2>5. Len(left) = Len(right)
    BY <1>3, <2>2, <2>4
  <2>6. \A i \in DOMAIN left : Overlap(left[i], right[p[i]])
    BY <1>4, <2>1
  <2> QED
    BY <2>1, <2>5, <2>6 DEF OneToOne
<1>7. ASSUME OneToOne(left, right) PROVE ObjectsAgree(left, right)
  <2>1. \A i \in DOMAIN left : \E j \in DOMAIN right : m[j] = i
    BY <1>1, <1>7 DEF MatchedUpTo, IsList
  <2>2. ASSUME NEW k \in DOMAIN right, m[k] = 0 PROVE FALSE
    <3>1. PICK p \in [DOMAIN left -> DOMAIN right] :
            /\ \A i \in DOMAIN left : m[p[i]] = i /\ i # 0
            /\ \A i, j \in DOMAIN left : p[i] = p[j] => i = j
      BY <1>5, <2>1
    <3>2. p \in [DOMAIN left -> DOMAIN right \ {k}]
      BY <2>2, <3>1
    <3>3. IsFiniteSet(DOMAIN right \ {k}) /\ Cardinality(DOMAIN right \ {k}) = Len(right) - 1
      BY <1>3, FS_RemoveElement
    <3>4. Len(left) = Len(right)
      BY <1>7 DEF OneToOne
    <3>5. Cardinality(DOMAIN right \ {k}) < Cardinality(DOMAIN left)
      BY <1>3, <3>3, <3>4
    <3> QED
      BY <1>3, <3>1, <3>2, <3>3, <3>5, FS_PigeonHole
  <2> QED
    BY <1>2, <2>1, <2>2
<1> QED
  BY <1>6, <1>7

\* What an adjudicator is shown are the frames whose objects cannot all be
\* matched with one another or whose lists of things outside the taxonomy
\* differ, and no others, for any overlaps: the augmenting paths of
\* maximumMatches never miss a matching of all objects, and the comparison
\* stays that of the completed passes.
THEOREM DisagreementsAreReal ==
  ASSUME ComparesFrames
  PROVE  Spec => []DisagreementIsReal
<1>1. ReviewInv => DisagreementIsReal
  <2> SUFFICES ASSUME ReviewInv, NEW c \in Campaigns, adjudicated[c].made, NEW f \in Frames
               PROVE  LET x == assignment[c]["reviewer-a"].submission.frames[f]
                          y == assignment[c]["reviewer-b"].submission.frames[f]
                      IN  f \in adjudicated[c].comparison <=>
                              \/ ~OneToOne(x.objects, y.objects)
                              \/ x.out_of_taxonomy # y.out_of_taxonomy
    BY DEF DisagreementIsReal
  <2>1. PassesComplete(assignment[c])
    BY DEF ReviewInv, ComparisonIsFinal
  <2>2. ASSUME NEW r \in Reviewer PROVE assignment[c][r].submission.frames[f] \in Contents
    <3>1. assignment[c][r].submission \in Submission /\ assignment[c][r].submission # None
      BY <2>1, Roles DEF ReviewInv, ReviewTypeOK, RowsInv, PassesComplete, Assignment
    <3> QED
      BY <3>1 DEF Submission, Annotation
  <2>3. PICK x \in Contents, y \in Contents :
          /\ x = assignment[c]["reviewer-a"].submission.frames[f]
          /\ y = assignment[c]["reviewer-b"].submission.frames[f]
    BY <2>2 DEF Reviewer
  <2>4. f \in adjudicated[c].comparison <=> ~Agree(x, y)
    BY <2>3 DEF ReviewInv, ComparisonIsFinal, Disagreements
  <2>5. /\ IsList(x.objects) /\ IsList(y.objects)
        /\ Agree(x, y) <=> /\ ObjectsAgree(x.objects, y.objects)
                           /\ x.out_of_taxonomy = y.out_of_taxonomy
    BY DEF ComparesFrames, FrameAgrees
  <2>6. ObjectsAgree(x.objects, y.objects) <=> OneToOne(x.objects, y.objects)
    BY <2>5, AgreementIsOneToOne
  <2> QED
    BY <2>3, <2>4, <2>5, <2>6
<1> QED
  BY <1>1, ReviewInit, ReviewStep, PTL DEF Spec
=============================================================================
