----------------------------- MODULE JobContract ----------------------------
(***************************************************************************)
(* What the durable lifecycle promises about a job, whatever calls, leases *)
(* and clocks are behind it: the states of internal_jobs.status and the    *)
(* steps between them, exclusive one-time tokens, cancellation that cannot *)
(* be outrun, and results that are set once.                               *)
(***************************************************************************)
CONSTANTS Jobs, Tokens, Results, None

VARIABLES phase,       \* where each job is in its lifecycle
          holder,      \* the token a running job belongs to
          spent,       \* tokens that have owned a job
          cancelling,  \* jobs with a cancellation request
          result       \* what a succeeded job produced

vars == <<phase, holder, spent, cancelling, result>>

Init ==
    /\ phase = [j \in Jobs |-> "none"]
    /\ holder = [j \in Jobs |-> None]
    /\ spent = {}
    /\ cancelling = {}
    /\ result = [j \in Jobs |-> None]

Create(j) ==
    /\ phase[j] = "none"
    /\ phase' = [phase EXCEPT ![j] = "queued"]
    /\ UNCHANGED <<holder, spent, cancelling, result>>

\* A fresh token takes a queued job, or takes over a running one.
Take(j, t) ==
    /\ phase[j] \in {"queued", "running"}
    /\ j \notin cancelling
    /\ t \notin spent
    /\ phase' = [phase EXCEPT ![j] = "running"]
    /\ holder' = [holder EXCEPT ![j] = t]
    /\ spent' = spent \cup {t}
    /\ UNCHANGED <<cancelling, result>>

\* Running jobs leave their holders without a result: those with a
\* cancellation request are cancelled, the others fail or are requeued.
Release(C, F, Q) ==
    /\ \A j \in C \cup F \cup Q : phase[j] = "running"
    /\ C \subseteq cancelling
    /\ F \cap cancelling = {} /\ Q \cap cancelling = {} /\ F \cap Q = {}
    /\ phase' = [j \in Jobs |-> IF j \in C THEN "cancelled"
                               ELSE IF j \in F THEN "failed"
                               ELSE IF j \in Q THEN "queued" ELSE phase[j]]
    /\ holder' = [j \in Jobs |-> IF j \in C \cup F \cup Q THEN None
                                ELSE holder[j]]
    /\ UNCHANGED <<spent, cancelling, result>>

Succeed(j, x) ==
    /\ phase[j] = "running"
    /\ j \notin cancelling
    /\ phase' = [phase EXCEPT ![j] = "succeeded"]
    /\ holder' = [holder EXCEPT ![j] = None]
    /\ result' = [result EXCEPT ![j] = x]
    /\ UNCHANGED <<spent, cancelling>>

Cancel(j) ==
    /\ \/ /\ phase[j] = "queued"
          /\ phase' = [phase EXCEPT ![j] = "cancelled"]
       \/ phase[j] = "running" /\ UNCHANGED phase
    /\ cancelling' = cancelling \cup {j}
    /\ UNCHANGED <<holder, spent, result>>

Retry(j) ==
    /\ phase[j] \in {"failed", "cancelled"}
    /\ phase' = [phase EXCEPT ![j] = "queued"]
    /\ cancelling' = cancelling \ {j}
    /\ UNCHANGED <<holder, spent, result>>

\* A token that never reached its runner is withdrawn, along with its hold on
\* a job.  A cancellation requested meanwhile stays with the queued job.
Withdraw(t) ==
    LET J == {j \in Jobs : holder[j] = t}
    IN  /\ t \in spent
        /\ phase' = [j \in Jobs |-> IF j \in J THEN "queued" ELSE phase[j]]
        /\ holder' = [j \in Jobs |-> IF j \in J THEN None ELSE holder[j]]
        /\ spent' \in {spent, spent \ {t}}
        /\ UNCHANGED <<cancelling, result>>

Next ==
    \/ \E t \in Tokens : Withdraw(t)
    \/ \E j \in Jobs :
          \/ Create(j) \/ Cancel(j) \/ Retry(j)
          \/ \E t \in Tokens : Take(j, t)
          \/ \E x \in Results : Succeed(j, x)
    \/ \E C, F, Q \in SUBSET Jobs : Release(C, F, Q)

Spec == Init /\ [][Next]_vars
=============================================================================
