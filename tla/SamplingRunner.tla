--------------------------- MODULE SamplingRunner ---------------------------
(***************************************************************************)
(* The process that executes jobs: backend/video_semantic_extractor/       *)
(* sampling_runner.py, woken by workers/sampling-runner.  It is written    *)
(* against JobContract: the durable lifecycle behind its requests may do   *)
(* whatever the contract allows, and JobLifecycle keeps that contract.     *)
(*                                                                         *)
(* One run_once executes at a time, since execution_lock turns further     *)
(* calls away; the heartbeat threads of earlier ones may still be there,   *)
(* because join gives up after two seconds.                                *)
(***************************************************************************)
EXTENDS Integers

CONSTANTS
    Jobs, JobType,     \* "sampling" or "evaluation"
    Tokens,            \* lease tokens the server may issue
    SourceCount,       \* sources of the dataset version of each job
    PerSource,         \* max_frames of the sampling configuration
    FrameLimit,        \* MAX_FRAME_SET_FRAMES
    None,
    Faults             \* "call_fails", "answer_lost", "crash"

ASSUME RunnerAssumption ==
    /\ JobType \in [Jobs -> {"sampling", "evaluation"}]
    /\ SourceCount \in [Jobs -> Nat]
    /\ PerSource \in Nat \ {0}
    /\ FrameLimit \in Nat
    /\ None \notin Jobs \cup Tokens
    /\ Faults \subseteq {"call_fails", "answer_lost", "crash"}

VARIABLES
    phase, holder, spent, cancelling, result,   \* the server, see JobContract
    lease,     \* time left of the lease of each token
    prefer,    \* _prefer_evaluation
    run,       \* the run_once in progress
    beat,      \* the heartbeat thread started for each token
    event,     \* the events stop, abort and cancelled of that thread
    since      \* jobs taken since each queue was last asked, in this process

serverVars == <<phase, holder, spent, cancelling, result>>
threadVars == <<beat, event>>
vars == <<phase, holder, spent, cancelling, result, lease, prefer, run,
          beat, event, since>>

Results == [sources : Nat, frames : Nat]

Server == INSTANCE JobContract WITH Results <- Results

Queues == {"sampling", "evaluation"}

Run == [pc : {"idle", "turn", "sampling", "evaluation", "inputs", "source",
              "finish", "report", "stop"},
        job : Jobs \cup {None}, token : Tokens \cup {None},
        left : Nat,            \* sources still to process
        remaining : Int]       \* remaining_frames

IdleRun == [pc |-> "idle", job |-> None, token |-> None,
            left |-> 0, remaining |-> 0]

RunnerTypeOK ==
    /\ lease \in [Tokens -> 0 .. 2]
    /\ prefer \in BOOLEAN
    /\ run \in Run
    /\ beat \in [Tokens -> {"none", "waiting", "asking", "over"}]
    /\ event \in [Tokens -> SUBSET {"stop", "abort", "cancelled"}]
    /\ since \in [Queues -> 0 .. 2]

RunnerInit ==
    /\ Server!Init
    /\ lease = [t \in Tokens |-> 0]
    /\ prefer = FALSE
    /\ run = IdleRun
    /\ beat = [t \in Tokens |-> "none"]
    /\ event = [t \in Tokens |-> {}]
    /\ since = [q \in Queues |-> 0]

-----------------------------------------------------------------------------
(***************************************************************************)
(* The server                                                              *)
(***************************************************************************)

\* The lease of t is held and has not run out.
Live(j, t) == phase[j] = "running" /\ holder[j] = t /\ lease[t] > 0

\* ... and its job still accepts results.
Accepts(j, t) == Live(j, t) /\ j \notin cancelling

\* A job of the queue that is queued, or whose lease ran out.
Claimable(q) ==
    {j \in Jobs : /\ JobType[j] = q /\ j \notin cancelling
                  /\ \/ phase[j] = "queued"
                     \/ phase[j] = "running" /\ lease[holder[j]] = 0}

Administer ==
    /\ \E j \in Jobs : Server!Create(j) \/ Server!Cancel(j) \/ Server!Retry(j)
    /\ UNCHANGED <<lease, prefer, run, threadVars, since>>

\* A claim closes what is beyond its lease and its attempts.
Expire(j) ==
    /\ phase[j] = "running" /\ lease[holder[j]] = 0
    /\ IF j \in cancelling THEN Server!Release({j}, {}, {})
                           ELSE Server!Release({}, {j}, {})
    /\ UNCHANGED <<lease, prefer, run, threadVars, since>>

\* The claim behind a token that never arrived is undone.
Undo(t) ==
    /\ beat[t] = "none"
    /\ Server!Withdraw(t)
    /\ lease' = [lease EXCEPT ![t] = 0]
    /\ UNCHANGED <<prefer, run, threadVars, since>>

Tick(t) ==
    /\ lease[t] > 0
    /\ lease' = [lease EXCEPT ![t] = @ - 1]
    /\ UNCHANGED <<serverVars, prefer, run, threadVars, since>>

-----------------------------------------------------------------------------
(***************************************************************************)
(* run_once: choosing a job                                                *)
(***************************************************************************)

\* A preference for evaluations is used up by looking at it.
RunOnce ==
    /\ run.pc = "idle"
    /\ run' = [IdleRun EXCEPT !.pc = IF prefer THEN "turn" ELSE "sampling"]
    /\ prefer' = FALSE
    /\ UNCHANGED <<serverVars, lease, threadVars, since>>

Queue == IF run.pc = "sampling" THEN "sampling" ELSE "evaluation"

\* This queue is asked; a job of it makes the other one wait.
Asked(taken) ==
    since' = [q \in Queues |-> IF q = Queue THEN 0
                               ELSE IF taken /\ since[q] < 2 THEN since[q] + 1
                               ELSE since[q]]

Take(j, t) == Server!Take(j, t) /\ lease' = [lease EXCEPT ![t] = 2]

\* Mutant: a sampling job gives no turn to the evaluations.
PreferenceKept(q) == prefer
\* _prefer_evaluation after a job of queue q was claimed.
Preference(q) == prefer \/ q = "sampling"

\* The claim finds a job: its heartbeat thread starts.
ClaimJob ==
    /\ run.pc \in {"turn", "sampling", "evaluation"}
    /\ \E j \in Claimable(Queue), t \in Tokens \ spent :
          /\ Take(j, t)
          /\ run' = [IdleRun EXCEPT !.pc = "inputs", !.job = j, !.token = t]
          /\ beat' = [beat EXCEPT ![t] = "waiting"]
    /\ prefer' = Preference(Queue)
    /\ Asked(TRUE)
    /\ UNCHANGED event

\* It finds none, and run_once goes on to the next queue, if any.
ClaimNothing ==
    /\ run.pc \in {"turn", "sampling", "evaluation"}
    /\ Claimable(Queue) = {}
    /\ run' = [IdleRun EXCEPT !.pc = CASE run.pc = "turn" -> "sampling"
                                       [] run.pc = "sampling" -> "evaluation"
                                       [] OTHER -> "idle"]
    /\ Asked(FALSE)
    /\ UNCHANGED <<serverVars, lease, prefer, threadVars>>

\* The request fails, perhaps after the server has taken the job.
ClaimFails ==
    /\ run.pc \in {"turn", "sampling", "evaluation"}
    /\ \/ "call_fails" \in Faults /\ UNCHANGED <<serverVars, lease>>
       \/ /\ "answer_lost" \in Faults
          /\ \E j \in Claimable(Queue), t \in Tokens \ spent : Take(j, t)
    /\ run' = IdleRun
    /\ Asked(FALSE)
    /\ UNCHANGED <<prefer, threadVars>>

-----------------------------------------------------------------------------
(***************************************************************************)
(* run_once: executing it                                                  *)
(***************************************************************************)
Aborted == "abort" \in event[run.token]

\* Anything that raises leads to the report of a failure.
Fails(pc) ==
    /\ run.pc = pc
    /\ run' = [run EXCEPT !.pc = "report"]
    /\ UNCHANGED <<serverVars, lease, prefer, threadVars, since>>

\* The sources of a sampling job, and the budget of its frame set.
ReadSources ==
    LET n == SourceCount[run.job]
    IN  /\ run.pc = "inputs" /\ JobType[run.job] = "sampling"
        /\ n \in 1 .. FrameLimit
        /\ run' = [run EXCEPT !.pc = "source", !.left = n, !.remaining = FrameLimit]
        /\ UNCHANGED <<serverVars, lease, prefer, threadVars, since>>

\* The inputs of an evaluation are downloaded under the lease and evaluated.
Evaluate ==
    /\ run.pc = "inputs" /\ JobType[run.job] = "evaluation"
    /\ Accepts(run.job, run.token)
    /\ ~Aborted
    /\ run' = [run EXCEPT !.pc = "finish"]
    /\ UNCHANGED <<serverVars, lease, prefer, threadVars, since>>

\* Mutant: a source may take all that remains.
SourceFrameLimitGreedy(frames, sources) ==
    IF PerSource < frames THEN PerSource ELSE frames
\* _source_frame_limit: a near-even share, rounded up.
SourceFrameLimit(frames, sources) ==
    LET share == (frames + sources - 1) \div sources
    IN  IF PerSource < share THEN PerSource ELSE share

\* One source: downloaded, sampled into at least one frame and at most its
\* share, and every frame uploaded under the lease.
ProcessSource ==
    /\ run.pc = "source"
    /\ ~Aborted
    /\ run.left >= 1 /\ run.remaining >= run.left
    /\ Accepts(run.job, run.token)
    /\ \E n \in 1 .. SourceFrameLimit(run.remaining, run.left) :
          run' = [run EXCEPT !.left = @ - 1, !.remaining = @ - n,
                             !.pc = IF run.left = 1 THEN "finish" ELSE "source"]
    /\ UNCHANGED <<serverVars, lease, prefer, threadVars, since>>

Manifest == [sources |-> SourceCount[run.job], frames |-> FrameLimit - run.remaining]

\* finalize, or the completion of an evaluation: accepted, and perhaps the
\* answer is lost.
Finish ==
    /\ run.pc = "finish"
    /\ Accepts(run.job, run.token)
    /\ Server!Succeed(run.job, Manifest)
    /\ \E pc \in {"stop"} \cup {p \in {"report"} : "answer_lost" \in Faults} :
          run' = [run EXCEPT !.pc = pc]
    /\ UNCHANGED <<lease, prefer, threadVars, since>>

\* The failure is reported; it asks for another attempt unless the heartbeat
\* saw a cancellation.  The server may have other reasons to refuse one.
ReportFailure ==
    LET j == run.job
        requeue == "cancelled" \notin event[run.token]
    IN  /\ run.pc = "report"
        /\ Live(j, run.token)
        /\ \/ j \in cancelling /\ Server!Release({j}, {}, {})
           \/ j \notin cancelling /\ requeue /\ Server!Release({}, {}, {j})
           \/ j \notin cancelling /\ Server!Release({}, {j}, {})
        /\ run' = [run EXCEPT !.pc = "stop"]
        /\ UNCHANGED <<lease, prefer, threadVars, since>>

\* The report is refused, or does not arrive.
ReportLost ==
    /\ run.pc = "report"
    /\ ~Live(run.job, run.token) \/ "call_fails" \in Faults
    /\ run' = [run EXCEPT !.pc = "stop"]
    /\ UNCHANGED <<serverVars, lease, prefer, threadVars, since>>

\* Mutant: only a run that succeeded stops its thread.
StoppedOnSuccess(t) == IF phase[run.job] = "succeeded" THEN {"stop"} ELSE {}
\* What the finally clause sets, on every path.
Stopped(t) == {"stop"}

\* finally: join waits for two seconds at most.
Stop ==
    /\ run.pc = "stop"
    /\ event' = [event EXCEPT ![run.token] = @ \cup Stopped(run.token)]
    /\ run' = IdleRun
    /\ UNCHANGED <<serverVars, lease, prefer, beat, since>>

\* The container is stopped or replaced; its threads die with it.
Crash ==
    /\ "crash" \in Faults
    /\ run' = IdleRun
    /\ prefer' = FALSE
    /\ beat' = [t \in Tokens |-> IF beat[t] = "none" THEN "none" ELSE "over"]
    /\ since' = [q \in Queues |-> 0]
    /\ UNCHANGED <<serverVars, lease, event>>

-----------------------------------------------------------------------------
(***************************************************************************)
(* _heartbeat, one thread per claimed job                                  *)
(***************************************************************************)

\* stop.wait times out, or the thread ends.
BeatWakes(t) ==
    /\ beat[t] = "waiting"
    /\ beat' = [beat EXCEPT ![t] = IF "stop" \in event[t] THEN "over" ELSE "asking"]
    /\ UNCHANGED <<serverVars, lease, prefer, run, event, since>>

\* The heartbeat extends the lease; a cancellation request ends the thread.
BeatAnswered(t) ==
    /\ beat[t] = "asking"
    /\ \E j \in Jobs :
          /\ Live(j, t)
          /\ IF j \in cancelling
               THEN /\ event' = [event EXCEPT ![t] = @ \cup {"cancelled", "abort"}]
                    /\ beat' = [beat EXCEPT ![t] = "over"]
               ELSE /\ beat' = [beat EXCEPT ![t] = "waiting"]
                    /\ UNCHANGED event
    /\ lease' = [lease EXCEPT ![t] = 2]
    /\ UNCHANGED <<serverVars, prefer, run, since>>

\* It is refused, or the request fails, perhaps after it was accepted.
BeatFails(t) ==
    /\ beat[t] = "asking"
    /\ \/ /\ "call_fails" \in Faults \/ \A j \in Jobs : ~Live(j, t)
          /\ UNCHANGED lease
       \/ /\ "answer_lost" \in Faults /\ \E j \in Jobs : Live(j, t)
          /\ lease' = [lease EXCEPT ![t] = 2]
    /\ event' = [event EXCEPT ![t] = @ \cup {"abort"}]
    /\ beat' = [beat EXCEPT ![t] = "over"]
    /\ UNCHANGED <<serverVars, prefer, run, since>>

-----------------------------------------------------------------------------
RunStep ==
    \/ RunOnce \/ ClaimJob \/ ClaimNothing \/ ClaimFails
    \/ ReadSources \/ Evaluate \/ ProcessSource \/ Finish
    \/ Fails("inputs") \/ Fails("source") \/ Fails("finish")
    \/ ReportFailure \/ ReportLost \/ Stop

BeatStep(t) == BeatWakes(t) \/ BeatAnswered(t) \/ BeatFails(t)

RunnerNext ==
    \/ RunStep \/ Crash
    \/ \E t \in Tokens : BeatStep(t) \/ Tick(t) \/ Undo(t)
    \/ Administer
    \/ \E j \in Jobs : Expire(j)

RunnerSpec == RunnerInit /\ [][RunnerNext]_vars

\* The scheduler wakes the runner every minute, threads run, time passes.
FairRunnerSpec ==
    /\ RunnerSpec
    /\ WF_vars(RunStep)
    /\ \A t \in Tokens : WF_vars(BeatStep(t)) /\ WF_vars(Tick(t))

-----------------------------------------------------------------------------
(***************************************************************************)
(* Properties                                                              *)
(***************************************************************************)

\* However few frames remain, every source still to come can have one: the
\* budget never makes a job fail on its later sources, and the frame set
\* stays within the limit of the template generator
\* (sampling_runner.py:44-50, 240-263).
BudgetSuffices ==
    /\ run.pc = "source" => run.left <= run.remaining
    /\ \A j \in Jobs : JobType[j] = "sampling" /\ result[j] # None =>
          result[j].frames \in SourceCount[j] .. FrameLimit

\* "Both queues make progress even while sampling work is continuously
\* queued": no two jobs of one queue are taken without the other queue being
\* asked in between, whatever failed (sampling_runner.py:188-197).
TurnsTaken == \A q \in Queues : since[q] <= 1

\* A run that is over lets go of its lease: whatever it failed at, and though
\* its heartbeat thread may outlive it, the lease runs out and the job can be
\* claimed again (sampling_runner.py:173-185, 300-302).
AbandonedRunsOut ==
    \A t \in Tokens : (lease[t] > 0 /\ run.token # t) ~> (lease[t] = 0)
=============================================================================
