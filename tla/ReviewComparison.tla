--------------------------- MODULE ReviewComparison --------------------------
(***************************************************************************)
(* review-comparison.ts: two reviews of a frame agree when their objects   *)
(* can be matched one to one and they list the same things as outside the  *)
(* taxonomy.  Their policies and their frames are the template's in both.  *)
(***************************************************************************)
EXTENDS Naturals, Sequences

CONSTANT Overlap(_, _)  \* same label, subset and certainty, and an iou of 0.8

\* The objects of a frame: left and right are such lists.
IsList(x) == Len(x) \in Nat /\ DOMAIN x = 1 .. Len(x)

\* The objects of right that the i-th object of left may be matched with.
Edges(left, right, i) == {j \in DOMAIN right : Overlap(left[i], right[j])}

Least(S) == CHOOSE j \in S : \A k \in S : j <= k

\* rightToLeft, 0 where the map has no entry.
Matching(left, right) == [DOMAIN right -> {0} \cup DOMAIN left]

\* A call of visit, and what it leaves: its answer, the map and the visited set.
Asked(i, m, seen) == [left |-> i, match |-> m, seen |-> seen]
Visited(found, m, seen) == [found |-> found, match |-> m, seen |-> seen]

Search(left, right) == [left : DOMAIN left, match : Matching(left, right),
                      seen : SUBSET DOMAIN right]

\* Mutant: an object that is taken is never matched anew.
VisitGreedy(left, right, visit, x) ==
    LET free == {j \in Edges(left, right, x.left) : x.match[j] = 0}
    IN  IF free = {} THEN Visited(FALSE, x.match, x.seen)
        ELSE Visited(TRUE, [x.match EXCEPT ![Least(free)] = x.left], x.seen)

\* One turn of visit's loop over the edges of x.left; visit is the function
\* itself, for the call the turn may make and for the rest of the loop.
Visit(left, right, visit, x) ==
    LET edges == Edges(left, right, x.left) \ x.seen
        j == Least(edges)
        now == x.seen \cup {j}
        moved == IF x.match[j] = 0 THEN Visited(TRUE, x.match, now)
                 ELSE visit[Asked(x.match[j], x.match, now)]
    IN  IF edges = {} THEN Visited(FALSE, x.match, x.seen)
        ELSE IF moved.found
             THEN Visited(TRUE, [moved.match EXCEPT ![j] = x.left], moved.seen)
             ELSE visit[Asked(x.left, moved.match, moved.seen)]

\* visit, by the turns that are left: each visits one more object of right.
Visits(left, right) ==
    LET visits[n \in Nat] ==
            [x \in Search(left, right) |->
                IF n = 0 THEN Visited(FALSE, x.match, x.seen)
                ELSE Visit(left, right, visits[n - 1], x)]
    IN  visits

\* maximumMatches: rightToLeft when the first n objects have had their visit.
Matches(left, right) ==
    LET matches[n \in 0 .. Len(left)] ==
            IF n = 0 THEN [j \in DOMAIN right |-> 0]
            ELSE Visits(left, right)[Len(right)][Asked(n, matches[n - 1], {})].match
    IN  matches

MaximumMatches(left, right) == Matches(left, right)[Len(left)]

\* compareReviews: no object of the frame is left unmatched.
ObjectsAgree(left, right) ==
    LET m == MaximumMatches(left, right)
    IN  /\ \A i \in DOMAIN left : \E j \in DOMAIN right : m[j] = i
        /\ \A j \in DOMAIN right : m[j] # 0

\* All that compareReviews asks of two annotations of a frame.
FrameAgrees(x, y) ==
    /\ ObjectsAgree(x.objects, y.objects)
    /\ x.out_of_taxonomy = y.out_of_taxonomy

\* Reference: there is a one-to-one matching of all objects.
OneToOne(left, right) ==
    /\ Len(left) = Len(right)
    /\ \E p \in [DOMAIN left -> DOMAIN right] :
          /\ \A i, j \in DOMAIN left : p[i] = p[j] => i = j
          /\ \A i \in DOMAIN left : Overlap(left[i], right[p[i]])
=============================================================================
