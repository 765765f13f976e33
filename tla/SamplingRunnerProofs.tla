------------------------ MODULE SamplingRunnerProofs ------------------------
(***************************************************************************)
(* Proofs about SamplingRunner: for any jobs, tokens, limits and faults,   *)
(* and any server that keeps JobContract, the frame budget suffices and    *)
(* the two queues take turns.                                              *)
(***************************************************************************)
EXTENDS SamplingRunner, TLAPS

\* Kept apart: the provers do better without it.
PreferTyped == prefer \in BOOLEAN

(***************************************************************************)
(* Turns                                                                   *)
(***************************************************************************)

\* A job of the sampling queue leaves a preference behind; the preference is
\* used up when the evaluation queue is about to be asked, and while it
\* stands the sampling queue was the last one to be served.
TurnInv ==
    /\ run \in Run
    /\ PreferTyped
    /\ since \in [Queues -> 0 .. 1]
    /\ run.pc \in {"turn", "sampling", "evaluation"} => prefer = FALSE
    /\ run.pc \in {"turn", "evaluation"} => since["sampling"] = 0
    /\ since["evaluation"] = 1 => prefer = TRUE \/ run.pc = "turn"
    /\ prefer = TRUE => since["sampling"] = 0

\* What the turns depend on.
TurnVars == <<prefer, since, run>>

LEMMA IdleRunShape == IdleRun \in Run
  BY DEF IdleRun, Run

\* What a source takes, with the record spelled out.
LEMMA SourceStep ==
    ASSUME run \in Run, ProcessSource
    PROVE  /\ run' \in Run
           /\ run'.pc = IF run.left = 1 THEN "finish" ELSE "source"
           /\ run'.job = run.job
           /\ run'.left = run.left - 1
           /\ \E n \in 1 .. SourceFrameLimit(run.remaining, run.left) :
                 run'.remaining = run.remaining - n
<1>1. PICK n \in 1 .. SourceFrameLimit(run.remaining, run.left) :
          run' = [run EXCEPT !.left = @ - 1, !.remaining = @ - n,
                      !.pc = IF run.left = 1 THEN "finish" ELSE "source"]
  BY DEF ProcessSource
<1>2. PICK pc0, j0, t0, l0, r0 :
          run = [pc |-> pc0, job |-> j0, token |-> t0, left |-> l0, remaining |-> r0]
  BY DEF Run
<1>3. run' = [pc |-> IF l0 = 1 THEN "finish" ELSE "source", job |-> j0,
              token |-> t0, left |-> l0 - 1, remaining |-> r0 - n]
  BY <1>1, <1>2
<1>4. /\ j0 \in Jobs \cup {None} /\ t0 \in Tokens \cup {None}
      /\ l0 \in Nat /\ r0 \in Int /\ l0 >= 1 /\ n \in Int
  BY <1>2 DEF Run, ProcessSource
<1>5. run' \in Run
  BY <1>3, <1>4 DEF Run
<1> QED
  BY <1>2, <1>3, <1>5

\* Where run_once begins.
LEMMA RunOnceRun ==
    ASSUME RunOnce
    PROVE  run' \in Run /\ run'.pc \in {"turn", "sampling"}
<1> DEFINE At(pc) == [pc |-> pc, job |-> None, token |-> None,
                      left |-> 0, remaining |-> 0]
<1>1. \A pc \in {"turn", "sampling"} : At(pc) \in Run /\ At(pc).pc = pc
  BY DEF Run
<1>2. run' = At("turn") \/ run' = At("sampling")
  BY DEF RunOnce, IdleRun
<1> QED
  BY <1>1, <1>2

\* What a sampling run starts from.
LEMMA ReadSourcesRun ==
    ASSUME run \in Run, ReadSources
    PROVE  /\ run' \in Run /\ run'.pc = "source" /\ run'.job = run.job
           /\ run'.left = SourceCount[run.job] /\ run'.remaining = FrameLimit
<1> DEFINE n == SourceCount[run.job]
<1>1. /\ n \in Nat /\ FrameLimit \in Int
      /\ run' = [run EXCEPT !.pc = "source", !.left = n, !.remaining = FrameLimit]
  BY RunnerAssumption DEF ReadSources
<1>2. PICK pc0, j0, t0, l0, r0 :
          run = [pc |-> pc0, job |-> j0, token |-> t0, left |-> l0, remaining |-> r0]
  BY DEF Run
<1>3. j0 \in Jobs \cup {None} /\ t0 \in Tokens \cup {None}
  BY <1>2 DEF Run
<1> HIDE DEF n
<1>4. run' = [pc |-> "source", job |-> j0, token |-> t0,
              left |-> n, remaining |-> FrameLimit]
  BY <1>1, <1>2
<1>5. run' \in Run
  BY <1>1, <1>3, <1>4 DEF Run
<1> QED
  BY <1>2, <1>4, <1>5 DEF n

\* Where a claim without a job leads.
LEMMA ClaimNothingRun ==
    ASSUME ClaimNothing
    PROVE  /\ run' \in Run
           /\ \/ run'.pc = "idle"
              \/ run.pc = "turn" /\ run'.pc = "sampling"
              \/ run.pc = "sampling" /\ run'.pc = "evaluation"
<1> DEFINE At(pc) == [pc |-> pc, job |-> None, token |-> None,
                      left |-> 0, remaining |-> 0]
<1>1. \A pc \in {"idle", "sampling", "evaluation"} :
          At(pc) \in Run /\ At(pc).pc = pc
  BY DEF Run
<1>2. CASE run.pc = "turn"
  <2>1. run' = At("sampling")
    BY <1>2 DEF ClaimNothing, IdleRun
  <2> QED
    BY <1>1, <1>2, <2>1
<1>3. CASE run.pc = "sampling"
  <2>1. run' = At("evaluation")
    BY <1>3 DEF ClaimNothing, IdleRun
  <2> QED
    BY <1>1, <1>3, <2>1
<1>4. CASE run.pc = "evaluation"
  <2>1. run' = At("idle")
    BY <1>4 DEF ClaimNothing, IdleRun
  <2> QED
    BY <1>1, <2>1
<1> QED
  BY <1>2, <1>3, <1>4 DEF ClaimNothing

LEMMA TurnInit == RunnerInit => TurnInv
<1> SUFFICES ASSUME RunnerInit PROVE TurnInv
  OBVIOUS
<1>1. /\ run = IdleRun /\ run.pc = "idle"
      /\ prefer = FALSE
      /\ since = [q \in Queues |-> 0]
  BY DEF RunnerInit, IdleRun
<1>2. since \in [Queues -> 0 .. 1] /\ since["evaluation"] = 0
  BY <1>1 DEF Queues
<1>3. PreferTyped
  BY <1>1 DEF PreferTyped
<1> QED
  BY <1>1, <1>2, <1>3, IdleRunShape DEF TurnInv

\* A step that moves the run on, or not at all, outside the choice of a job.
LEMMA TurnUntouched ==
    ASSUME TurnInv, UNCHANGED <<prefer, since>>, run' \in Run,
           run'.pc \notin {"turn", "sampling", "evaluation"},
           run.pc # "turn"
    PROVE  TurnInv'
<1>1. PreferTyped'
  BY DEF TurnInv, PreferTyped
<1> QED
  BY <1>1 DEF TurnInv

LEMMA TurnStutter ==
    ASSUME TurnInv, UNCHANGED TurnVars
    PROVE  TurnInv'
<1>1. PreferTyped'
  BY DEF TurnInv, TurnVars, PreferTyped
<1> QED
  BY <1>1 DEF TurnInv, TurnVars

LEMMA TurnRunOnce ==
    ASSUME TurnInv, RunOnce
    PROVE  TurnInv'
<1>1. /\ run' = [IdleRun EXCEPT !.pc = IF prefer THEN "turn" ELSE "sampling"]
      /\ prefer' = FALSE
      /\ since' = since
  BY DEF RunOnce
<1>2. PreferTyped' /\ (prefer = TRUE \/ prefer = FALSE)
  BY <1>1 DEF TurnInv, PreferTyped
<1>3. CASE prefer = TRUE
  <2>1. run' = [IdleRun EXCEPT !.pc = "turn"] /\ since["sampling"] = 0
    BY <1>1, <1>3 DEF TurnInv
  <2>2. run' \in Run /\ run'.pc = "turn"
    BY <2>1 DEF IdleRun, Run
  <2> QED
    BY <1>1, <1>2, <2>1, <2>2 DEF TurnInv
<1>4. CASE prefer = FALSE
  <2>1. /\ run' = [IdleRun EXCEPT !.pc = "sampling"]
        /\ since["evaluation"] # 1
    BY <1>1, <1>4 DEF TurnInv, RunOnce
  <2>2. run' \in Run /\ run'.pc = "sampling"
    BY <2>1 DEF IdleRun, Run
  <2> QED
    BY <1>1, <1>2, <2>1, <2>2 DEF TurnInv
<1> QED
  BY <1>2, <1>3, <1>4

LEMMA TurnClaimJob ==
    ASSUME TurnInv, ClaimJob
    PROVE  TurnInv'
<1>1. PICK j \in Jobs, t \in Tokens :
          run' = [IdleRun EXCEPT !.pc = "inputs", !.job = j, !.token = t]
  BY DEF ClaimJob, Claimable
<1>2. run' = [pc |-> "inputs", job |-> j, token |-> t, left |-> 0, remaining |-> 0]
  BY <1>1 DEF IdleRun
<1>3. run' \in Run /\ run'.pc = "inputs"
  BY <1>2 DEF Run
<1>4. /\ run.pc \in {"turn", "sampling", "evaluation"}
      /\ prefer' = (prefer \/ Queue = "sampling")
      /\ since' = [q \in Queues |-> IF q = Queue THEN 0
                       ELSE IF since[q] < 2 THEN since[q] + 1 ELSE since[q]]
  BY DEF ClaimJob, Asked, Preference
<1>5. prefer = FALSE /\ since \in [Queues -> 0 .. 1]
  BY <1>4 DEF TurnInv
<1>6. CASE run.pc = "sampling"
  <2>1. since["evaluation"] = 0
    BY <1>5, <1>6 DEF TurnInv, Queues
  <2>2. Queue = "sampling"
    BY <1>6 DEF Queue
  <2>3. prefer' = TRUE /\ PreferTyped'
    BY <1>4, <2>2 DEF PreferTyped
  <2>4. since' \in [Queues -> 0 .. 1] /\ since'["sampling"] = 0
    BY <1>4, <1>5, <2>1, <2>2 DEF Queues
  <2> QED
    BY <1>3, <2>3, <2>4 DEF TurnInv
<1>7. CASE run.pc \in {"turn", "evaluation"}
  <2>1. since["sampling"] = 0
    BY <1>7 DEF TurnInv
  <2>2. Queue = "evaluation"
    BY <1>7 DEF Queue
  <2>3. prefer' = FALSE /\ PreferTyped'
    BY <1>4, <1>5, <2>2 DEF PreferTyped
  <2>4. since' \in [Queues -> 0 .. 1] /\ since'["evaluation"] = 0
    BY <1>4, <1>5, <2>1, <2>2 DEF Queues
  <2> QED
    BY <1>3, <2>3, <2>4 DEF TurnInv
<1> QED
  BY <1>4, <1>6, <1>7

LEMMA TurnAsked ==
    ASSUME TurnInv, run.pc \in {"turn", "sampling", "evaluation"},
           Asked(FALSE), prefer' = prefer, run' \in Run,
           \/ run'.pc = "idle"
           \/ run.pc = "turn" /\ run'.pc = "sampling"
           \/ run.pc = "sampling" /\ run'.pc = "evaluation"
    PROVE  TurnInv'
<1>1. since' = [q \in Queues |-> IF q = Queue THEN 0 ELSE since[q]]
  BY DEF Asked
<1>2. prefer' = FALSE /\ since \in [Queues -> 0 .. 1] /\ PreferTyped'
  BY DEF TurnInv, PreferTyped
<1>3. since["evaluation"] = 0 \/ run.pc = "turn"
  BY <1>2 DEF TurnInv, Queues
<1>4. since["sampling"] = 0 \/ run.pc = "sampling"
  BY DEF TurnInv
<1>5. since' \in [Queues -> 0 .. 1]
  BY <1>1, <1>2 DEF Queues
<1>6. since'["sampling"] = 0 /\ since'["evaluation"] = 0
  BY <1>1, <1>3, <1>4 DEF Queue, Queues
<1> QED
  BY <1>2, <1>5, <1>6 DEF TurnInv

LEMMA TurnNext == TurnInv /\ [RunnerNext]_vars => TurnInv'
<1> SUFFICES ASSUME TurnInv, [RunnerNext]_vars PROVE TurnInv'
  OBVIOUS
<1> USE DEF TurnVars
<1>1. CASE RunOnce
  BY <1>1, TurnRunOnce
<1>2. CASE ClaimJob
  BY <1>2, TurnClaimJob
<1>3. CASE ClaimNothing
  <2>1. /\ run' \in Run
        /\ \/ run'.pc = "idle"
           \/ run.pc = "turn" /\ run'.pc = "sampling"
           \/ run.pc = "sampling" /\ run'.pc = "evaluation"
    BY <1>3, ClaimNothingRun DEF TurnInv
  <2> QED
    BY <1>3, <2>1, TurnAsked DEF ClaimNothing
<1>4. CASE ClaimFails
  BY <1>4, TurnAsked, IdleRunShape DEF ClaimFails, IdleRun
<1>5. CASE ReadSources
  <2>1. run' \in Run /\ run'.pc = "source" /\ run.pc = "inputs"
    BY <1>5, ReadSourcesRun DEF ReadSources, TurnInv
  <2> QED
    BY <1>5, <2>1, TurnUntouched DEF ReadSources
<1>6. CASE Evaluate
  <2>1. run' \in Run /\ run'.pc = "finish" /\ run.pc = "inputs"
    BY <1>6 DEF Evaluate, TurnInv, Run
  <2> QED
    BY <1>6, <2>1, TurnUntouched DEF Evaluate
<1>7. CASE ProcessSource
  <2>1. run.pc = "source" /\ UNCHANGED <<prefer, since>>
    BY <1>7 DEF ProcessSource
  <2>2. run' \in Run /\ run'.pc \in {"finish", "source"}
    BY <1>7, SourceStep DEF TurnInv
  <2> QED
    BY <2>1, <2>2, TurnUntouched
<1>8. CASE Finish
  <2>1. run' \in Run /\ run'.pc \in {"stop", "report"} /\ run.pc = "finish"
    BY <1>8 DEF Finish, TurnInv, Run
  <2> QED
    BY <1>8, <2>1, TurnUntouched DEF Finish
<1>9. CASE Fails("inputs") \/ Fails("source") \/ Fails("finish")
  <2>1. /\ run' \in Run /\ run'.pc = "report"
        /\ run.pc \in {"inputs", "source", "finish"}
    BY <1>9 DEF Fails, TurnInv, Run
  <2> QED
    BY <1>9, <2>1, TurnUntouched DEF Fails
<1>10. CASE ReportFailure \/ ReportLost
  <2>1. run' \in Run /\ run'.pc = "stop" /\ run.pc = "report"
    BY <1>10 DEF ReportFailure, ReportLost, TurnInv, Run
  <2> QED
    BY <1>10, <2>1, TurnUntouched DEF ReportFailure, ReportLost
<1>11. CASE Stop
  BY <1>11, TurnUntouched, IdleRunShape DEF Stop, IdleRun
<1>12. CASE Crash
  <2>1. /\ run' = IdleRun /\ prefer' = FALSE
        /\ since' = [q \in Queues |-> 0]
    BY <1>12 DEF Crash
  <2>2. run'.pc = "idle" /\ run' \in Run /\ PreferTyped'
    BY <2>1, IdleRunShape DEF IdleRun, PreferTyped
  <2>3. since' \in [Queues -> 0 .. 1] /\ since'["evaluation"] = 0
    BY <2>1 DEF Queues
  <2> QED
    BY <2>1, <2>2, <2>3 DEF TurnInv
<1>13. CASE \E t \in Tokens : BeatStep(t) \/ Tick(t) \/ Undo(t)
  BY <1>13, TurnStutter
     DEF BeatStep, BeatWakes, BeatAnswered, BeatFails, Tick, Undo
<1>14. CASE Administer \/ \E j \in Jobs : Expire(j)
  BY <1>14, TurnStutter DEF Administer, Expire
<1>15. CASE UNCHANGED vars
  BY <1>15, TurnStutter DEF vars
<1> QED
  BY <1>1, <1>2, <1>3, <1>4, <1>5, <1>6, <1>7, <1>8, <1>9, <1>10, <1>11,
     <1>12, <1>13, <1>14, <1>15 DEF RunnerNext, RunStep

\* Whatever fails, no queue is served twice without the other being asked.
THEOREM QueuesTakeTurns == RunnerSpec => []TurnsTaken
<1>1. TurnInv => TurnsTaken
  BY DEF TurnInv, TurnsTaken
<1> QED
  BY TurnInit, TurnNext, <1>1, PTL DEF RunnerSpec
(***************************************************************************)
(* The budget                                                              *)
(***************************************************************************)

\* A share rounded up leaves one frame for each of the other sources.
LEMMA ShareLeavesRest ==
    ASSUME NEW R \in Nat, NEW S \in Nat, 1 <= S, S <= R,
           NEW n \in 1 .. SourceFrameLimit(R, S)
    PROVE  n \in Nat /\ 1 <= n /\ S - 1 <= R - n
<1> DEFINE q == (R + S - 1) \div S
<1>1. n \in Nat /\ 1 <= n /\ n <= q
  BY RunnerAssumption DEF SourceFrameLimit
<1>2. q \in Nat /\ q * S <= R + S - 1
  OBVIOUS
<1>3. n * S <= R + S - 1
  BY <1>1, <1>2
<1>4. CASE S = 1
  BY <1>1, <1>3, <1>4
<1>5. CASE S >= 2
  BY <1>1, <1>3, <1>5
<1> QED
  BY <1>1, <1>4, <1>5

\* Where a sampling job is at: at a source, what is left of the limit covers
\* the sources to come and what is gone covers those that are done; at the
\* end, every source has its frame.
BudgetInv ==
    /\ run \in Run
    /\ run.pc \in {"inputs", "source", "finish"} => run.job \in Jobs
    /\ run.pc = "source" =>
          /\ JobType[run.job] = "sampling"
          /\ 1 <= run.left /\ run.left <= run.remaining
          /\ SourceCount[run.job] - run.left <= FrameLimit - run.remaining
    /\ run.pc = "finish" /\ JobType[run.job] = "sampling" =>
          /\ 0 <= run.remaining
          /\ SourceCount[run.job] <= FrameLimit - run.remaining

\* The frame sets that were published.
ResultInv ==
    /\ result = [j \in Jobs |-> result[j]]
    /\ \A j \in Jobs : JobType[j] = "sampling" /\ result[j] # None =>
          result[j].frames \in SourceCount[j] .. FrameLimit

LEMMA BudgetInit == RunnerInit => BudgetInv /\ ResultInv
<1> SUFFICES ASSUME RunnerInit PROVE BudgetInv /\ ResultInv
  OBVIOUS
<1>1. run = IdleRun /\ run.pc = "idle"
  BY DEF RunnerInit, IdleRun
<1>2. BudgetInv
  BY <1>1, IdleRunShape DEF BudgetInv
<1>3. result = [j \in Jobs |-> None]
  BY DEF RunnerInit, Server!Init
<1>4. ResultInv
  BY <1>3 DEF ResultInv
<1> QED
  BY <1>2, <1>4

\* Only the successful end of a run sets a result.
LEMMA ResultKept ==
    ASSUME [RunnerNext]_vars, ~Finish
    PROVE  result' = result
<1> USE DEF serverVars
<1>1. CASE RunStep
  BY <1>1 DEF RunStep, RunOnce, ClaimJob, ClaimNothing, ClaimFails, Take,
       ReadSources, Evaluate, ProcessSource, Fails, ReportFailure, ReportLost,
       Stop, Server!Take, Server!Release
<1>2. CASE Crash
  BY <1>2 DEF Crash
<1>3. CASE \E t \in Tokens : BeatStep(t) \/ Tick(t) \/ Undo(t)
  BY <1>3 DEF BeatStep, BeatWakes, BeatAnswered, BeatFails, Tick, Undo,
       Server!Withdraw
<1>4. CASE Administer
  BY <1>4 DEF Administer, Server!Create, Server!Cancel, Server!Retry
<1>5. CASE \E j \in Jobs : Expire(j)
  BY <1>5 DEF Expire, Server!Release
<1>6. CASE UNCHANGED vars
  BY <1>6 DEF vars
<1> QED
  BY <1>1, <1>2, <1>3, <1>4, <1>5, <1>6 DEF RunnerNext

\* A run that is not at work on a job's inputs has nothing to account for.
LEMMA BudgetUntouched ==
    ASSUME run' \in Run, run'.pc \notin {"inputs", "source", "finish"}
    PROVE  BudgetInv'
  BY DEF BudgetInv

LEMMA BudgetStutter ==
    ASSUME BudgetInv, run' = run
    PROVE  BudgetInv'
  BY DEF BudgetInv

LEMMA BudgetSource ==
    ASSUME BudgetInv, ProcessSource
    PROVE  BudgetInv'
<1>1. /\ run' \in Run
      /\ run'.pc = (IF run.left = 1 THEN "finish" ELSE "source")
      /\ run'.job = run.job
      /\ run'.left = run.left - 1
  BY SourceStep DEF BudgetInv
<1>2. PICK n \in 1 .. SourceFrameLimit(run.remaining, run.left) :
          run'.remaining = run.remaining - n
  BY SourceStep DEF BudgetInv
<1>3. /\ run.pc = "source" /\ run.job \in Jobs
      /\ JobType[run.job] = "sampling"
      /\ run.left \in Nat /\ run.remaining \in Nat
      /\ 1 <= run.left /\ run.left <= run.remaining
      /\ SourceCount[run.job] - run.left <= FrameLimit - run.remaining
      /\ SourceCount[run.job] \in Nat /\ FrameLimit \in Nat
  BY RunnerAssumption DEF BudgetInv, ProcessSource, Run
<1>4. n \in Nat /\ 1 <= n /\ run.left - 1 <= run.remaining - n
  BY <1>2, <1>3, ShareLeavesRest
<1>5. CASE run.left = 1
  BY <1>1, <1>2, <1>3, <1>4, <1>5 DEF BudgetInv
<1>6. CASE run.left # 1
  BY <1>1, <1>2, <1>3, <1>4, <1>6 DEF BudgetInv
<1> QED
  BY <1>5, <1>6

LEMMA BudgetNext == BudgetInv /\ [RunnerNext]_vars => BudgetInv'
<1> SUFFICES ASSUME BudgetInv, [RunnerNext]_vars PROVE BudgetInv'
  OBVIOUS
<1>1. CASE RunOnce \/ ClaimNothing \/ ClaimFails \/ Stop \/ Crash
  <2>1. run' \in Run /\ run'.pc \in {"idle", "turn", "sampling", "evaluation"}
    <3>1. CASE RunOnce
      BY <3>1, RunOnceRun
    <3>2. CASE ClaimNothing
      BY <3>2, ClaimNothingRun
    <3>3. CASE ClaimFails \/ Stop \/ Crash
      <4>1. run' = IdleRun
        BY <3>3 DEF ClaimFails, Stop, Crash
      <4> QED
        BY <4>1, IdleRunShape DEF IdleRun
    <3> QED
      BY <1>1, <3>1, <3>2, <3>3
  <2> QED
    BY <2>1, BudgetUntouched
<1>2. CASE ClaimJob
  <2>1. PICK j \in Jobs, t \in Tokens :
            run' = [IdleRun EXCEPT !.pc = "inputs", !.job = j, !.token = t]
    BY <1>2 DEF ClaimJob, Claimable
  <2>2. run' = [pc |-> "inputs", job |-> j, token |-> t,
                left |-> 0, remaining |-> 0]
    BY <2>1 DEF IdleRun
  <2>3. run' \in Run /\ run'.pc = "inputs" /\ run'.job \in Jobs
    BY <2>2 DEF Run
  <2> QED
    BY <2>3 DEF BudgetInv
<1>3. CASE ReadSources
  <2> DEFINE n == SourceCount[run.job]
  <2>1. /\ run.job \in Jobs /\ JobType[run.job] = "sampling"
        /\ n \in Nat /\ 1 <= n /\ n <= FrameLimit /\ FrameLimit \in Nat
    BY <1>3, RunnerAssumption DEF ReadSources, BudgetInv
  <2>2. /\ run' \in Run /\ run'.pc = "source" /\ run'.job = run.job
        /\ run'.left = n /\ run'.remaining = FrameLimit
    BY <1>3, <2>1, ReadSourcesRun DEF BudgetInv
  <2> QED
    BY <2>1, <2>2 DEF BudgetInv
<1>4. CASE Evaluate
  <2>1. run' \in Run /\ run'.pc = "finish" /\ run'.job = run.job
    BY <1>4 DEF Evaluate, BudgetInv, Run
  <2>2. run.job \in Jobs /\ JobType[run.job] = "evaluation"
    BY <1>4 DEF Evaluate, BudgetInv
  <2> QED
    BY <2>1, <2>2 DEF BudgetInv
<1>5. CASE ProcessSource
  BY <1>5, BudgetSource
<1>6. CASE Finish
  <2>1. run' \in Run /\ run'.pc \in {"stop", "report"}
    BY <1>6 DEF Finish, BudgetInv, Run
  <2> QED
    BY <2>1, BudgetUntouched
<1>7. CASE Fails("inputs") \/ Fails("source") \/ Fails("finish")
  <2>1. run' \in Run /\ run'.pc = "report"
    BY <1>7 DEF Fails, BudgetInv, Run
  <2> QED
    BY <2>1, BudgetUntouched
<1>8. CASE ReportFailure \/ ReportLost
  <2>1. run' \in Run /\ run'.pc = "stop"
    BY <1>8 DEF ReportFailure, ReportLost, BudgetInv, Run
  <2> QED
    BY <2>1, BudgetUntouched
<1>9. CASE \E t \in Tokens : BeatStep(t) \/ Tick(t) \/ Undo(t)
  BY <1>9, BudgetStutter
     DEF BeatStep, BeatWakes, BeatAnswered, BeatFails, Tick, Undo
<1>10. CASE Administer \/ \E j \in Jobs : Expire(j)
  BY <1>10, BudgetStutter DEF Administer, Expire
<1>11. CASE UNCHANGED vars
  BY <1>11, BudgetStutter DEF vars
<1> QED
  BY <1>1, <1>2, <1>3, <1>4, <1>5, <1>6, <1>7, <1>8, <1>9, <1>10, <1>11
     DEF RunnerNext, RunStep

LEMMA ResultNext == BudgetInv /\ ResultInv /\ [RunnerNext]_vars => ResultInv'
<1> SUFFICES ASSUME BudgetInv, ResultInv, [RunnerNext]_vars PROVE ResultInv'
  OBVIOUS
<1>1. CASE ~Finish
  BY <1>1, ResultKept DEF ResultInv
<1>2. CASE Finish
  <2>1. /\ run.job \in Jobs
        /\ result' = [result EXCEPT ![run.job] = Manifest]
    BY <1>2 DEF Finish, Server!Succeed, BudgetInv
  <2>2. \A j \in Jobs : result'[j] = (IF j = run.job THEN Manifest ELSE result[j])
    BY <2>1 DEF ResultInv
  <2>3. JobType[run.job] = "sampling" =>
            Manifest.frames \in SourceCount[run.job] .. FrameLimit
    BY <1>2, <2>1, RunnerAssumption DEF Finish, BudgetInv, Manifest, Run
  <2>4. result' = [j \in Jobs |-> result'[j]]
    BY <2>1 DEF ResultInv
  <2> QED
    BY <2>2, <2>3, <2>4 DEF ResultInv
<1> QED
  BY <1>1, <1>2

\* The frame budget never runs out before the last source.
THEOREM BudgetAlwaysSuffices == RunnerSpec => []BudgetSuffices
<1>1. BudgetInv /\ ResultInv => BudgetSuffices
  BY DEF BudgetInv, ResultInv, BudgetSuffices
<1> QED
  BY BudgetInit, BudgetNext, ResultNext, <1>1, PTL DEF RunnerSpec
=============================================================================
