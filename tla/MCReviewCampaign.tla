-------------------------- MODULE MCReviewCampaign ---------------------------
(***************************************************************************)
(* Instances of ReviewCampaign for TLC, with the real comparison.          *)
(***************************************************************************)
EXTENDS ReviewInvariants, TLC

\* Objects of one label by the place of their boxes: neighbours overlap.
Near(x, y) == x <= y + 1 /\ y <= x + 1

Content(objects, beyond) == [objects |-> objects, out_of_taxonomy |-> beyond]

NoObjects == Content(<<>>, <<>>)
RealAgree(x, y) == FrameAgrees(x, y)

PassA == {Content(<<2, 1>>, <<>>)}
PassB == {NoObjects, Content(<<2, 3>>, <<>>), Content(<<2, 3>>, <<"logo">>)}
FrameContents == PassA \cup PassB
ReviewDrafts == [r \in Reviewer |->
    {[frames |-> [f \in Frames |-> x], covered |-> TRUE] :
        x \in IF r = "reviewer-a" THEN PassA ELSE PassB}]
ObjectIds(x) == {x.objects[i] : i \in DOMAIN x.objects}

\* The ids of objects are unique across the frames of a submission.
UniqueIds(a) == \A f, g \in Frames : f # g => ObjectIds(a[f]) \cap ObjectIds(a[g]) = {}

ASSUME ComparisonAssumption == ComparesFrames

\* One person's token may be renewed, once.
Renewed == [r \in Role |-> IF r = "reviewer-b" THEN 2 ELSE 1]

ReviewSymmetry == Permutations(Campaigns) \cup Permutations(Calls)
=============================================================================
