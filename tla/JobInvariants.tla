---------------------------- MODULE JobInvariants ---------------------------
(***************************************************************************)
(* The inductive invariants behind the safety properties of JobLifecycle.  *)
(***************************************************************************)
EXTENDS JobLifecycle

\* The claim's UPDATE took a job, and the call has not undone it.
Won(c) == claim[c].pc \in {"updated", "rollback", "inserted", "held", "dead"}

-----------------------------------------------------------------------------
\* With TypeOK: a winner knows its job, a rollback finds attempt_count above
\* zero, and a call carries a token that a claim returned.
WinnersHaveJobs == \A c \in Claims : Won(c) => claim[c].job \in Jobs

RunningIsCounted == \A j \in Jobs : status[j] = "running" => attempt_count[j] > 0

CallsHoldLeases ==
    \A r \in Requests : request[r].pc # "idle" =>
        /\ request[r].lease \in Claims
        /\ claim[request[r].lease].pc = "held"

TypeInv == TypeOK /\ RunningIsCounted /\ WinnersHaveJobs /\ CallsHoldLeases

-----------------------------------------------------------------------------
\* The token a job names belongs to a claim that won this job.
TokensAreWon ==
    \A j \in Jobs, c \in Claims : lease_token_hash[j] = c =>
        claim[c].job = j /\ status[j] = "running" /\ Won(c)

\* claimedAt lies in the past while the claim can still act on it.
ClaimsArePast ==
    \A c \in Claims : claim[c].pc \in {"called", "swept"} => claim[c].at <= clock

\* Only a claim past its INSERT has an attempt row.
AttemptsHaveClaims ==
    \A c \in Claims : attempt_status[c] # "none" =>
        claim[c].pc \in {"inserted", "held", "dead"}

\* The expiry time a claim or its attempt relies on is that of the lease on
\* the job, or it has passed.
ExpiryKnown(c, e) ==
    \/ /\ lease_token_hash[claim[c].job] = c
       /\ lease_expires_at[claim[c].job] = e
    \/ e <= clock
ExpiriesAgree ==
    \A c \in Claims :
        /\ claim[c].pc = "updated" => ExpiryKnown(c, claim[c].until)
        /\ attempt_status[c] = "running" => ExpiryKnown(c, attempt_expires_at[c])

\* What a live attempt knows of its job survives the two-step claim.
LeaseInv ==
    TypeInv /\ TokensAreWon /\ ClaimsArePast /\ AttemptsHaveClaims /\ ExpiriesAgree

-----------------------------------------------------------------------------
\* The winners of a job have distinct numbers up to its attempt_count, and
\* the current one has the last: a rollback frees no number but its own.
NumbersInv ==
    /\ \A c \in Claims : Won(c) => claim[c].number \in 1 .. attempt_count[claim[c].job]
    /\ \A j \in Jobs, c \in Claims :
          lease_token_hash[j] = c => claim[c].number = attempt_count[j]
    /\ \A c, d \in Claims :
          Won(c) /\ Won(d) /\ c # d /\ claim[c].job = claim[d].job
             => claim[c].number # claim[d].number
    /\ \A j \in Jobs : attempt_count[j] <= max_attempts[j]

\* Leases and attempt numbers together, without ambiguous INSERTs.
ClaimInv == LeaseInv /\ NumbersInv

-----------------------------------------------------------------------------
\* Where a completion stands tells where its report object is.
ReportsInFlight ==
    \A r \in Requests :
        /\ request[r].pc \in {"stored", "registered"} => r \in bucket
        /\ r \in artifacts => request[r].pc = "registered"
        /\ request[r].pc \in {"complete", "stored"} =>
              JobType[claim[request[r].lease].job] = "evaluation"

\* Without ambiguous completion batches.
ReportInv == TypeInv /\ ReportsInFlight /\ ReportDurable
=============================================================================
