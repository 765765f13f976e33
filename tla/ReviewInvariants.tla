--------------------------- MODULE ReviewInvariants --------------------------
(***************************************************************************)
(* The inductive invariant behind the safety properties of ReviewCampaign, *)
(* and what its comparison means when it is that of ReviewComparison.      *)
(***************************************************************************)
EXTENDS ReviewCampaign, ReviewComparison

\* A call that is past its check of the reviewers' assignments.
Adjudicating == {"reviewers", "row", "insert", "put", "batch", "confirm", "discard"}

\* What a request in flight was admitted as.
Admitted(x) ==
    /\ x.campaign \in Campaigns
    /\ x.role \in Reviewer <=> x.op \in {"save", "complete"}
    /\ x.pc = "write" => x.role \in Reviewer
    /\ x.pc \in Adjudicating => x.role = "adjudicator"
    /\ x.pc \in {"put", "confirm", "discard"} => x.op = "finish"
    /\ x.pc = "batch" => x.op \in {"resolve", "finish"}
    /\ x.op = "complete" => x.submission # None

\* The passes an adjudication call has read are the completed ones.
ReadsFinal(x) ==
    x.pc \in {"row", "insert"} =>
        /\ PassesComplete(assignment[x.campaign])
        /\ x.left = assignment[x.campaign]["reviewer-a"].submission
        /\ x.right = assignment[x.campaign]["reviewer-b"].submission

\* What a call is about to write, it has checked: the row exists, and a
\* completion resolves every disagreement.
MergeChecked(x) ==
    x.pc \in {"put", "batch"} =>
        /\ adjudicated[x.campaign].made
        /\ x.op = "finish" =>
              /\ adjudicated[x.campaign].comparison \subseteq x.log
              /\ Valid(x.merged)

\* A completion has stored its object when its batch runs, and no ground truth
\* names it before, or when it is about to delete the object.
ObjectOwned(k, x) ==
    x.op = "finish" =>
        /\ x.pc = "batch" => <<x.campaign, k>> \in bucket
        /\ x.pc # "confirm" => truth[x.campaign] # k

CallInv(k, x) ==
    x.pc # "idle" => Admitted(x) /\ ReadsFinal(x) /\ MergeChecked(x) /\ ObjectOwned(k, x)

\* A completed pass has a submission, and a registered merge a row whose
\* adjudicator is done.
RowsInv ==
    /\ \A c \in Campaigns, r \in Reviewer :
          assignment[c][r].status = "complete" => assignment[c][r].submission # None
    /\ \A c \in Campaigns : truth[c] # None =>
          assignment[c]["adjudicator"].status = "complete" /\ adjudicated[c].made

ReviewInv ==
    /\ ReviewTypeOK
    /\ \A k \in Calls : CallInv(k, call[k])
    /\ RowsInv
    /\ ComparisonIsFinal /\ ResultStored
-----------------------------------------------------------------------------
\* A frame is annotated with a list of objects and one of the things outside
\* the taxonomy, and compareReviews decides which annotations agree.
ComparesFrames ==
    /\ \A x \in Contents : IsList(x.objects)
    /\ \A x, y \in Contents : Agree(x, y) <=> FrameAgrees(x, y)

\* Whatever the order in which Kuhn's algorithm meets the edges, a frame is
\* reported exactly when its objects cannot all be matched, or the lists of
\* what is outside the taxonomy differ (maximumMatches, compareReviews).
DisagreementIsReal ==
    \A c \in Campaigns : adjudicated[c].made =>
        \A f \in Frames :
            LET x == assignment[c]["reviewer-a"].submission.frames[f]
                y == assignment[c]["reviewer-b"].submission.frames[f]
            IN  f \in adjudicated[c].comparison <=>
                    \/ ~OneToOne(x.objects, y.objects)
                    \/ x.out_of_taxonomy # y.out_of_taxonomy
=============================================================================
