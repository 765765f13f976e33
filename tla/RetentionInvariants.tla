------------------------- MODULE RetentionInvariants ------------------------
(***************************************************************************)
(* The inductive invariant behind the safety properties of Retention.      *)
(***************************************************************************)
EXTENDS Retention

Active(k) == archive[k].state \in {"scheduled", "deleting", "deleted"}
Purged(k) == archive[k].state \in {"deleting", "deleted"}
Busy(s) == sweep[s].pc \notin {"idle", "dead"}

\* A call knows its resource, a cancellation and a sweep their archive.
CallsKnow ==
    /\ \A k \in Archives :
          call[k].pc \in {"lineage", "store", "commit"} => call[k].resource \in Resources
    /\ \A k \in Archives :
          archive[k].state # "none" => archive[k].resource \in Resources
    /\ \A k \in Archives : call[k].pc # "done" /\ call[k].pc # "undo" =>
          archive[k].state = "none"
    /\ \A x \in Cancels : cancel[x].pc = "commit" =>
          cancel[x].archive \in Archives /\ archive[cancel[x].archive].state # "none"

\* A resource with an archive in force is needed by nobody.
Fenced == \A r \in Resources : Archived(r) => ~Needed(r)

\* No other resource shares the payload of one with an archive in force.
ArchivedAlone ==
    \A k \in Archives : Active(k) =>
        \A r \in Resources \ {archive[k].resource} :
            Payload[r] \cap Payload[archive[k].resource] = {}

\* The retirements in force are exactly the payloads of archives in force.
RetirementsMatch ==
    /\ \A k \in Archives : Active(k) =>
          \A a \in Payload[archive[k].resource] : retirement[a] = k
    /\ \A a \in Artifacts : retirement[a] # None =>
          /\ Active(retirement[a])
          /\ a \in Payload[archive[retirement[a]].resource]

\* A sweep works on the payloads of an archive that cannot be cancelled.
SweepsPurge ==
    \A s \in Sweeps : Busy(s) =>
        /\ sweep[s].archive \in Archives
        /\ Purged(sweep[s].archive)
        /\ sweep[s].todo \subseteq Payload[archive[sweep[s].archive].resource]

\* Only those payloads go; what is marked is gone, and was marked once.
GonePurged ==
    /\ \A a \in Artifacts \ bucket :
          \E k \in Archives : Purged(k) /\ a \in Payload[archive[k].resource]
    /\ \A s \in Sweeps : sweep[s].pc = "mark" =>
          \A a \in Artifacts : InHand(s, a) => a \notin bucket
    /\ deleted_at \cap bucket = {}
    /\ \A a \in Artifacts : deletions[a] = IF a \in deleted_at THEN 1 ELSE 0

ClosedComplete ==
    \A k \in Archives : archive[k].state = "deleted" => Undeleted(k) = {}

ArchivedFrameSets ==
    \A f \in FrameSets : frame_set[f] = "archived" => Archived(f)

\* What the archives, retirements, objects and calls say of one another.
LedgerInv ==
    /\ CallsKnow /\ ArchivedAlone /\ RetirementsMatch
    /\ SweepsPurge /\ GonePurged /\ ClosedComplete /\ ArchivedFrameSets

RetentionInv == RetentionTypeOK /\ Fenced /\ LedgerInv
=============================================================================
