---------------------------- MODULE JobRefinement ---------------------------
(***************************************************************************)
(* The job lifecycle keeps the contract of JobContract.                    *)
(***************************************************************************)
EXTENDS JobLifecycle

SpentTokens == {c \in Claims : claim[c].job # 0}
Cancelling == {j \in Jobs : cancellation_requested[j]}

Contract == INSTANCE JobContract WITH
    Tokens <- Claims,
    Results <- Requests,
    phase <- status,
    holder <- lease_token_hash,
    spent <- SpentTokens,
    cancelling <- Cancelling,
    result <- report_artifact_id

\* Every step of every handler, with its leases, timestamps and in-flight
\* calls, is a step of the contract or changes no job
\* (docs/internals-architecture.md:115-140; job-lifecycle.ts:70-106,
\* 191-343, 393-423).
KeepsContract == Contract!Spec
=============================================================================
