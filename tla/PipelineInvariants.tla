-------------------------- MODULE PipelineInvariants -------------------------
(***************************************************************************)
(* The inductive invariants behind the safety properties of                *)
(* ArtifactPipeline.                                                       *)
(***************************************************************************)
EXTENDS ArtifactPipeline, JobInvariants

Uploading(p) == call[p].pc \in {"put", "confirm", "undo"}
Finalizing(p) == call[p].pc \in {"check", "store", "commit", "recover", "discard"}

-----------------------------------------------------------------------------
\* A call in flight has a lease that a runner holds, and the one thing it
\* was sent for.
CallsLeased ==
    \A p \in Calls :
        /\ call[p].pc # "idle" =>
              call[p].lease \in Claims /\ claim[call[p].lease].pc = "held"
        /\ Uploading(p) => /\ call[p].artifact \in Artifacts
                           /\ upload[call[p].artifact].lease = call[p].lease
        /\ Finalizing(p) => /\ call[p].manifest \in Manifests
                            /\ JobType[claim[call[p].lease].job] = "sampling"
        /\ ~Uploading(p) => call[p].artifact = None
        /\ ~Finalizing(p) => call[p].manifest = {}

\* Reservations, registered frame sets and successful attempts belong to
\* leases whose runner had the token.
OwnersHeld ==
    /\ \A a \in Artifacts : upload[a].status # "none" =>
          claim[upload[a].lease].pc = "held"
    /\ \A j \in Jobs : frame_set[j] # None =>
          claim[frame_set[j].lease].pc = "held" /\ claim[frame_set[j].lease].job = j
    /\ \A c \in Claims : attempt_status[c] = "succeeded" => claim[c].pc = "held"

\* What a finalization has checked was uploaded under its lease.
ManifestsChecked ==
    \A p \in Calls : Finalizing(p) =>
        /\ \A a \in call[p].manifest \ call[p].unchecked :
              /\ upload[a].status \in {"uploaded", "finalized"}
              /\ upload[a].lease = call[p].lease
        /\ call[p].pc # "check" => call[p].unchecked = {}

\* Uploads are finalized by the frame set of their lease.
FinalizedRegistered ==
    \A a \in Artifacts : upload[a].status = "finalized" =>
        LET f == frame_set[claim[upload[a].lease].job]
        IN  f # None /\ f.lease = upload[a].lease

\* Only evaluations complete with a report.
ReportsAreEvaluations ==
    \A r \in Requests : request[r].pc \in {"complete", "stored"} =>
        JobType[claim[request[r].lease].job] = "evaluation"

PipelineTypeInv == TypeInv /\ PipelineTypeOK /\ CallsLeased /\ OwnersHeld

\* Whatever a client repeats and whatever fails.
OutcomeInv ==
    /\ PipelineTypeInv
    /\ ManifestsChecked /\ FinalizedRegistered /\ ReportsAreEvaluations
    /\ FrameSetIsOutcome

\* A manifest object is a frame set's, or a call that will deal with it is
\* under way.
ManifestsTended ==
    \A m \in manifests :
        \/ \E j \in Jobs : frame_set[j] # None /\ frame_set[j].manifest = m
        \/ \E p \in Calls : /\ call[p].pc \in {"commit", "recover", "discard"}
                            /\ call[p].manifest = m

-----------------------------------------------------------------------------
\* One call at a time uploads an artifact, which is then only reserved, and
\* one finalizes a manifest.
CallsAlone ==
    \A p, q \in Calls :
        /\ Uploading(p) => upload[call[p].artifact].status = "reserved"
        /\ Uploading(p) /\ call[q].artifact = call[p].artifact => q = p
        /\ Finalizing(p) /\ call[q].manifest = call[p].manifest => q = p

\* Objects are where the rows and the calls say.
ObjectsThere ==
    /\ \A a \in Artifacts : upload[a].status \in {"uploaded", "finalized"} => a \in frames
    /\ \A p \in Calls :
          /\ call[p].pc = "confirm" => call[p].artifact \in frames
          /\ call[p].pc \in {"commit", "recover", "discard"} => call[p].manifest \in manifests

\* A manifest about to be deleted is no frame set's.
DiscardsUnregistered ==
    \A p \in Calls, j \in Jobs :
        call[p].pc = "discard" /\ frame_set[j] # None
           => frame_set[j].manifest # call[p].manifest

\* For clients that send no upload and no finalization twice at a time.
EvidenceInv ==
    OutcomeInv /\ CallsAlone /\ ObjectsThere /\ DiscardsUnregistered /\ EvidenceKept
=============================================================================
