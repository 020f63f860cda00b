------------------------------ MODULE JobQueue ------------------------------
(***************************************************************************)
(* The job queue of worker/src/jobs: the `job` and `worker_heartbeat`      *)
(* tables, and the processes that use them.  A process is one run of the   *)
(* worker binary, either the service (`kyc-worker`: a job loop, a heart-   *)
(* beat task and a supervisor) or `kyc-worker run-once` (a job loop        *)
(* without heartbeat or shutdown channel).  Every SQL statement of the     *)
(* code is its own transaction, hence one action.                          *)
(*                                                                         *)
(* Time advances by Tick.  The columns that hold an instant are kept       *)
(* relative to now: `age` of a heartbeat, `scheduled` of a job.            *)
(***************************************************************************)
EXTENDS Integers, FiniteSets

CONSTANTS
  Jobs,              \* job ids; the claim breaks ties by id
  Procs,             \* runs of the worker binary
  RunOnce,           \* those of Procs started with `run-once`
  WorkerIds,         \* values of worker_id
  IdOf,              \* the worker_id each process runs under
  Cancellable,       \* the jobs somebody may ask to cancel
  NoOne,             \* NULL in locked_by
  NoJob,             \* no job in hand
  MaxAttempts,       \* job.max_attempts
  HeartbeatInterval, \* ticks between two beats           (5 s)
  ShutdownGrace,     \* ticks a job may go on after a stop (30 s)
  ExitMargin,        \* ticks more before main leaves      (5 s)
  ZombieThreshold,   \* age at which a heartbeat is stale  (60 s)
  BackoffBase,       \* first delay of a failed job        (5 s)
  BackoffCap,        \* longest delay of a failed job      (300 s)
  MaxLag,            \* bound: lateness that the claim order still tells apart
  MaxFaults          \* bound: database errors and late heartbeats

ASSUME NamesAssumption ==
  /\ Jobs \subseteq Nat
  /\ RunOnce \subseteq Procs
  /\ Cancellable \subseteq Jobs
  /\ IdOf \in [Procs -> WorkerIds]
  /\ NoOne \notin WorkerIds
  /\ NoJob \notin Jobs

\* worker/src/heartbeat.rs:10, jobs/mod.rs:32, main.rs:139 and queue.rs:187
\* satisfy it: 5 s + 30 s + 5 s < 60 s.
ASSUME TimingAssumption ==
  /\ HeartbeatInterval \in Nat \ {0}
  /\ ShutdownGrace \in Nat
  /\ ExitMargin \in Nat
  /\ ZombieThreshold \in Nat
  /\ HeartbeatInterval + ShutdownGrace + ExitMargin < ZombieThreshold

ASSUME BoundsAssumption ==
  /\ MaxAttempts \in Nat \ {0}
  /\ BackoffBase \in Nat /\ BackoffCap \in Nat
  /\ MaxLag \in Nat /\ MaxFaults \in Nat

VARIABLES
  \* the job table
  status, attempts, lockedBy, scheduled, cancelRequested,
  progressBy,  \* whose progress message the row shows
  \* the worker_heartbeat table
  age,         \* now - last_seen_at, ZombieThreshold for stale or no row
  \* each process
  pc,          \* where its job loop is, or how the process ended
  job,         \* the job in hand
  outcome,     \* what is about to be written about it
  report,      \* run-once: the last outcome of each job (last_outcome)
  stop,        \* the shutdown channel holds true
  timer,       \* ticks left before main leaves, once stop is set
  beating,     \* its heartbeats land in time
  faultsLeft   \* what remains of MaxFaults

rows     == <<status, attempts, lockedBy, scheduled, cancelRequested, progressBy>>
procs    == <<pc, job, outcome, report, stop, timer, beating>>
vars     == <<rows, age, procs, faultsLeft>>

Status   == {"absent", "pending", "running", "done", "failed"}
Serving  == {"boot", "idle", "drain", "claim", "exec", "settle", "halted"}
Ended    == {"exit0", "exit1", "killed"}
Outcomes == {"none", "ok", "error", "released"}

\* How long main waits for the jobs task once the stop is asked.
ExitDelay_Longer == ShutdownGrace + ExitMargin + ZombieThreshold
ExitDelay == ShutdownGrace + ExitMargin

Service     == Procs \ RunOnce
Alive(p)    == pc[p] \in Serving
InHand(p)   == pc[p] \in {"exec", "settle"}
Expired(w)  == age[w] >= ZombieThreshold
Holds(p, j) == status[j] = "running" /\ lockedBy[j] = IdOf[p]

TypeOK ==
  /\ status \in [Jobs -> Status]
  /\ attempts \in [Jobs -> Nat]
  /\ lockedBy \in [Jobs -> WorkerIds \cup {NoOne}]
  /\ scheduled \in [Jobs -> -MaxLag..BackoffCap]
  /\ cancelRequested \in [Jobs -> BOOLEAN]
  /\ progressBy \in [Jobs -> WorkerIds \cup {NoOne}]
  /\ age \in [WorkerIds -> 0..ZombieThreshold]
  /\ pc \in [Procs -> {"off"} \cup Serving \cup Ended]
  /\ job \in [Procs -> Jobs \cup {NoJob}]
  /\ outcome \in [Procs -> Outcomes]
  /\ report \in [Procs -> [Jobs -> Outcomes]]
  /\ stop \in [Procs -> BOOLEAN]
  /\ timer \in [Procs -> 0..ExitDelay]
  /\ beating \in [Procs -> BOOLEAN]
  /\ faultsLeft \in 0..MaxFaults
  /\ \A p \in Procs : InHand(p) => job[p] \in Jobs

Init ==
  /\ status = [j \in Jobs |-> "absent"]
  /\ attempts = [j \in Jobs |-> 0]
  /\ lockedBy = [j \in Jobs |-> NoOne]
  /\ scheduled = [j \in Jobs |-> 0]
  /\ cancelRequested = [j \in Jobs |-> FALSE]
  /\ progressBy = [j \in Jobs |-> NoOne]
  /\ age = [w \in WorkerIds |-> ZombieThreshold]
  /\ pc = [p \in Procs |-> "off"]
  /\ job = [p \in Procs |-> NoJob]
  /\ outcome = [p \in Procs |-> "none"]
  /\ report = [p \in Procs |-> [j \in Jobs |-> "none"]]
  /\ stop = [p \in Procs |-> FALSE]
  /\ timer = [p \in Procs |-> 0]
  /\ beating = [p \in Procs |-> FALSE]
  /\ faultsLeft = MaxFaults

-----------------------------------------------------------------------------
(* The creators of jobs: the back-office and `kyc-worker enqueue`.           *)

Enqueue(j) ==
  /\ status[j] = "absent"
  /\ status' = [status EXCEPT ![j] = "pending"]
  /\ scheduled' = [scheduled EXCEPT ![j] = 0]
  /\ UNCHANGED <<attempts, lockedBy, cancelRequested, progressBy, age, procs, faultsLeft>>

\* No statement of src/ sets the column; docs/architecture.md:76 offers it.
RequestCancel(j) ==
  /\ j \in Cancellable
  /\ status[j] \in {"pending", "running"}
  /\ ~cancelRequested[j]
  /\ cancelRequested' = [cancelRequested EXCEPT ![j] = TRUE]
  /\ UNCHANGED <<status, attempts, lockedBy, scheduled, progressBy, age, procs, faultsLeft>>

-----------------------------------------------------------------------------
(* The statements of worker/src/jobs/queue.rs on the job table.  Here and    *)
(* below, X_Slip is X as a plausible slip would have it: a run with it in    *)
(* the place of X shows that a property sees the slip.                       *)

Claimable_AnyStatus(j) ==
  status[j] \in {"pending", "running"} /\ ~cancelRequested[j] /\ scheduled[j] <= 0

Claimable_StrictlyPast(j) ==
  status[j] = "pending" /\ ~cancelRequested[j] /\ scheduled[j] < 0

Claimable(j) ==
  /\ status[j] = "pending"
  /\ ~cancelRequested[j]
  /\ scheduled[j] <= 0

\* ORDER BY scheduled_at, id.  No code sets priority, its first key.
Precedes(j, k) ==
  \/ scheduled[j] < scheduled[k]
  \/ scheduled[j] = scheduled[k] /\ scheduled[j] > -MaxLag /\ j < k

NextInLine(j) ==
  /\ Claimable(j)
  /\ \A k \in Jobs : Claimable(k) => ~Precedes(k, j)

Backoff_NoCap(n) == BackoffBase * 3 ^ (IF n > 1 THEN n - 1 ELSE 0)

\* least(300, 5 * 3^greatest(attempts - 1, 0))
Backoff(n) ==
  LET delay == BackoffBase * 3 ^ (IF n > 1 THEN n - 1 ELSE 0)
  IN  IF delay \in 0..BackoffCap THEN delay ELSE BackoffCap

RetryOrFail_OneMore(j) == IF attempts[j] > MaxAttempts THEN "failed" ELSE "pending"
RetryOrFail(j) == IF attempts[j] >= MaxAttempts THEN "failed" ELSE "pending"

Zombies_EveryWorker == {j \in Jobs : status[j] = "running"}
Zombies == {j \in Jobs : status[j] = "running" /\ Expired(lockedBy[j])}

ReclaimZombieJobs_KeepsLock ==
  /\ status' = [j \in Jobs |-> IF j \in Zombies THEN RetryOrFail(j) ELSE status[j]]
  /\ UNCHANGED <<lockedBy, attempts, scheduled, cancelRequested, progressBy>>

ReclaimZombieJobs ==
  /\ status' = [j \in Jobs |-> IF j \in Zombies THEN RetryOrFail(j) ELSE status[j]]
  /\ lockedBy' = [j \in Jobs |-> IF j \in Zombies THEN NoOne ELSE lockedBy[j]]
  /\ UNCHANGED <<attempts, scheduled, cancelRequested, progressBy>>

GiveBack_NoGuard(p, j, newStatus, newSchedule) ==
  /\ status' = [status EXCEPT ![j] = newStatus]
  /\ lockedBy' = [lockedBy EXCEPT ![j] = NoOne]
  /\ scheduled' = [scheduled EXCEPT ![j] = newSchedule]
  /\ UNCHANGED <<attempts, cancelRequested, progressBy>>

\* The UPDATE that gives job j back, guarded by locked_by and status: when
\* p lost the job to another worker it affects no row.
GiveBack(p, j, newStatus, newSchedule) ==
  /\ IF Holds(p, j)
     THEN /\ status' = [status EXCEPT ![j] = newStatus]
          /\ lockedBy' = [lockedBy EXCEPT ![j] = NoOne]
          /\ scheduled' = [scheduled EXCEPT ![j] = newSchedule]
     ELSE UNCHANGED <<status, lockedBy, scheduled>>
  /\ UNCHANGED <<attempts, cancelRequested, progressBy>>

CompleteJob(p, j) == GiveBack(p, j, "done", scheduled[j])
FailJob(p, j)     == GiveBack(p, j, RetryOrFail(j), Backoff(attempts[j]))
ReleaseJob_Forgotten(p, j) == UNCHANGED rows
ReleaseJob(p, j)  == GiveBack(p, j, "pending", scheduled[j])

-----------------------------------------------------------------------------
(* The job loop: run, drain_queue and run_one_job, or drain_once.            *)

Start(p) ==
  /\ pc[p] = "off"
  /\ pc' = [pc EXCEPT ![p] = IF p \in RunOnce THEN "claim" ELSE "boot"]
  /\ UNCHANGED <<rows, age, job, outcome, report, stop, timer, beating, faultsLeft>>

\* The jobs task ends with an error: the supervisor stops the other task.
HaltInError(p) ==
  /\ pc' = [pc EXCEPT ![p] = "halted"]
  /\ job' = [job EXCEPT ![p] = NoJob]
  /\ outcome' = [outcome EXCEPT ![p] = "error"]
  /\ stop' = [stop EXCEPT ![p] = TRUE]
  /\ timer' = [timer EXCEPT ![p] = IF stop[p] THEN @ ELSE ExitDelay]
  /\ UNCHANGED <<report, beating>>

\* First the reclaim of zombies, then LISTEN on a connection of its own.
Boot(p) ==
  /\ pc[p] = "boot"
  /\ ReclaimZombieJobs
  /\ pc' = [pc EXCEPT ![p] = "drain"]
  /\ UNCHANGED <<age, job, outcome, report, stop, timer, beating, faultsLeft>>

\* Either of them failing ends the jobs task; the reclaim may be done by then.
BootFails(p) ==
  /\ pc[p] = "boot"
  /\ faultsLeft > 0
  /\ faultsLeft' = faultsLeft - 1
  /\ ReclaimZombieJobs \/ UNCHANGED rows
  /\ HaltInError(p)
  /\ UNCHANGED age

\* A notification or the fallback poll: either may come at any time.
Wake(p) ==
  /\ pc[p] = "idle"
  /\ pc' = [pc EXCEPT ![p] = "drain"]
  /\ UNCHANGED <<rows, age, job, outcome, report, stop, timer, beating, faultsLeft>>

ZombieTick_OnlyWakes(p) ==
  /\ pc[p] = "idle"
  /\ pc' = [pc EXCEPT ![p] = "drain"]
  /\ UNCHANGED <<rows, age, job, outcome, report, stop, timer, beating, faultsLeft>>

ZombieTick(p) ==
  /\ pc[p] = "idle"
  /\ ReclaimZombieJobs
  /\ pc' = [pc EXCEPT ![p] = "drain"]
  /\ UNCHANGED <<age, job, outcome, report, stop, timer, beating, faultsLeft>>

CheckStop_Never(p) ==
  /\ pc[p] = "drain"
  /\ pc' = [pc EXCEPT ![p] = "claim"]
  /\ UNCHANGED <<rows, age, job, outcome, report, stop, timer, beating, faultsLeft>>

\* Each turn of drain_queue looks at the shutdown channel, then claims: the
\* stop may come between the two.
CheckStop(p) ==
  /\ pc[p] = "drain"
  /\ pc' = [pc EXCEPT ![p] = IF stop[p] THEN "halted" ELSE "claim"]
  /\ UNCHANGED <<rows, age, job, outcome, report, stop, timer, beating, faultsLeft>>

\* The select of an idle loop sees the stop.
LeaveLoop(p) ==
  /\ pc[p] = "idle" /\ stop[p]
  /\ pc' = [pc EXCEPT ![p] = "halted"]
  /\ UNCHANGED <<rows, age, job, outcome, report, stop, timer, beating, faultsLeft>>

Claim(p, j) ==
  /\ pc[p] = "claim"
  /\ NextInLine(j)
  /\ status' = [status EXCEPT ![j] = "running"]
  /\ lockedBy' = [lockedBy EXCEPT ![j] = IdOf[p]]
  /\ attempts' = [attempts EXCEPT ![j] = @ + 1]
  /\ pc' = [pc EXCEPT ![p] = "exec"]
  /\ job' = [job EXCEPT ![p] = j]
  /\ UNCHANGED <<scheduled, cancelRequested, progressBy, age, outcome, report, stop,
                 timer, beating, faultsLeft>>

ExitCode(p) ==
  IF \A j \in Jobs : report[p][j] \in {"none", "ok"} THEN "exit0" ELSE "exit1"

ClaimNothing(p) ==
  /\ pc[p] = "claim"
  /\ \A j \in Jobs : ~Claimable(j)
  /\ pc' = [pc EXCEPT ![p] = IF p \in RunOnce THEN ExitCode(p) ELSE "idle"]
  /\ UNCHANGED <<rows, age, job, outcome, report, stop, timer, beating, faultsLeft>>

ClaimFails(p) ==
  /\ pc[p] = "claim"
  /\ faultsLeft > 0
  /\ faultsLeft' = faultsLeft - 1
  /\ pc' = [pc EXCEPT ![p] = IF p \in RunOnce THEN "exit1" ELSE "idle"]
  /\ UNCHANGED <<rows, age, job, outcome, report, stop, timer, beating>>

\* set_progress, from inside a job.  No row affected is not an error: a job
\* that was taken away goes on.
SetProgress(p) ==
  /\ pc[p] = "exec"
  /\ Holds(p, job[p])
  /\ progressBy' = [progressBy EXCEPT ![job[p]] = IdOf[p]]
  /\ UNCHANGED <<status, attempts, lockedBy, scheduled, cancelRequested, age, procs,
                 faultsLeft>>

\* execute returned, with or without an error; or the grace is over.
Finish(p, result) ==
  /\ pc[p] = "exec"
  /\ \/ result \in {"ok", "error"}
     \/ result = "released" /\ stop[p] /\ timer[p] <= ExitMargin
  /\ pc' = [pc EXCEPT ![p] = "settle"]
  /\ outcome' = [outcome EXCEPT ![p] = result]
  /\ UNCHANGED <<rows, age, job, report, stop, timer, beating, faultsLeft>>

\* The loop goes on whatever became of the write; drain_once keeps the outcome.
NextTurn(p) ==
  /\ pc' = [pc EXCEPT ![p] = IF p \in RunOnce THEN "claim" ELSE "drain"]
  /\ job' = [job EXCEPT ![p] = NoJob]
  /\ outcome' = [outcome EXCEPT ![p] = "none"]
  /\ report' = IF p \in RunOnce
               THEN [report EXCEPT ![p][job[p]] = outcome[p]]
               ELSE report
  /\ UNCHANGED <<age, stop, timer, beating>>

Settle(p) ==
  /\ pc[p] = "settle"
  /\ \/ outcome[p] = "ok" /\ CompleteJob(p, job[p])
     \/ outcome[p] = "error" /\ FailJob(p, job[p])
     \/ outcome[p] = "released" /\ ReleaseJob(p, job[p])
  /\ NextTurn(p)
  /\ UNCHANGED faultsLeft

\* The write fails: it is logged, and nobody writes it again.
SettleFails(p) ==
  /\ pc[p] = "settle"
  /\ faultsLeft > 0
  /\ faultsLeft' = faultsLeft - 1
  /\ NextTurn(p)
  /\ UNCHANGED rows

-----------------------------------------------------------------------------
(* The other tasks of a service: heartbeat, signal, supervision.             *)

Beat(p) ==
  /\ p \in Service /\ Alive(p) /\ ~stop[p]
  /\ age' = [age EXCEPT ![IdOf[p]] = 0]
  /\ beating' = [beating EXCEPT ![p] = TRUE]
  /\ UNCHANGED <<rows, pc, job, outcome, report, stop, timer, faultsLeft>>

\* Its beats fail, or come late, until the next one lands.
Stall(p) ==
  /\ Alive(p) /\ beating[p]
  /\ faultsLeft > 0
  /\ faultsLeft' = faultsLeft - 1
  /\ beating' = [beating EXCEPT ![p] = FALSE]
  /\ UNCHANGED <<rows, age, pc, job, outcome, report, stop, timer>>

\* SIGTERM or SIGINT; the heartbeat task ends there.
RequestStop(p) ==
  /\ p \in Service /\ Alive(p) /\ ~stop[p]
  /\ stop' = [stop EXCEPT ![p] = TRUE]
  /\ timer' = [timer EXCEPT ![p] = ExitDelay]
  /\ UNCHANGED <<rows, age, pc, job, outcome, report, beating, faultsLeft>>

\* A panic of the job ends the jobs task without any write on the job.
Panic(p) ==
  /\ p \in Service /\ pc[p] = "exec"
  /\ HaltInError(p)
  /\ UNCHANGED <<rows, age, faultsLeft>>

End(p, code) ==
  /\ pc' = [pc EXCEPT ![p] = code]
  /\ job' = [job EXCEPT ![p] = NoJob]
  /\ outcome' = [outcome EXCEPT ![p] = "none"]
  /\ timer' = [timer EXCEPT ![p] = 0]
  /\ beating' = [beating EXCEPT ![p] = FALSE]
  /\ UNCHANGED <<rows, age, report, stop, faultsLeft>>

\* Both tasks are over.
Exit(p) ==
  /\ pc[p] = "halted" /\ stop[p]
  /\ End(p, IF outcome[p] = "error" THEN "exit1" ELSE "exit0")

\* main waits ExitDelay for the jobs task, no more.
ForcedExit(p) ==
  /\ Alive(p) /\ stop[p] /\ timer[p] = 0
  /\ End(p, "exit1")

Crash(p) ==
  /\ Alive(p)
  /\ End(p, "killed")

\* A heartbeat that is due, or the end of main's wait, comes before time goes
\* on, unless the process is late already.
OnTime(p) ==
  Alive(p) /\ beating[p] =>
    IF stop[p] THEN timer[p] > 0 ELSE age[IdOf[p]] < HeartbeatInterval

Tick ==
  /\ \A p \in Procs : OnTime(p)
  /\ age' = [w \in WorkerIds |-> IF age[w] < ZombieThreshold THEN age[w] + 1 ELSE age[w]]
  /\ scheduled' = [j \in Jobs |-> IF scheduled[j] > -MaxLag THEN scheduled[j] - 1
                                                           ELSE scheduled[j]]
  /\ timer' = [p \in Procs |-> IF timer[p] > 0 THEN timer[p] - 1 ELSE 0]
  /\ UNCHANGED <<status, attempts, lockedBy, cancelRequested, progressBy, pc, job,
                 outcome, report, stop, beating, faultsLeft>>

-----------------------------------------------------------------------------
LoopStep(p) ==
  \/ Boot(p) \/ BootFails(p) \/ Wake(p) \/ ZombieTick(p)
  \/ CheckStop(p) \/ LeaveLoop(p)
  \/ \E j \in Jobs : Claim(p, j)
  \/ ClaimNothing(p) \/ ClaimFails(p)
  \/ SetProgress(p)
  \/ \E result \in {"ok", "error", "released"} : Finish(p, result)
  \/ Settle(p) \/ SettleFails(p)

ProcessStep(p) ==
  \/ Start(p) \/ Beat(p) \/ Stall(p) \/ RequestStop(p) \/ Panic(p)
  \/ Exit(p) \/ ForcedExit(p) \/ Crash(p)

Next ==
  \/ \E j \in Jobs : Enqueue(j) \/ RequestCancel(j)
  \/ \E p \in Procs : LoopStep(p) \/ ProcessStep(p)
  \/ Tick

Spec == Init /\ [][Next]_vars

(***************************************************************************)
(* Fairness.  The tasks of a process are scheduled by tokio and its        *)
(* statements return, so a process that can go on does; the job's own code *)
(* is taken to return.  Wake and ZombieTick compete for an idle loop: the  *)
(* ticker stays ready and select! picks a ready branch at random, hence    *)
(* strong fairness.  Nothing makes a process start, stop or crash, and     *)
(* nothing makes a fault happen.                                           *)
(***************************************************************************)
Progress(p) ==
  \/ Boot(p) \/ Wake(p) \/ ZombieTick(p) \/ CheckStop(p) \/ LeaveLoop(p)
  \/ \E j \in Jobs : Claim(p, j)
  \/ ClaimNothing(p)
  \/ \E result \in {"ok", "error", "released"} : Finish(p, result)
  \/ Settle(p) \/ Exit(p) \/ ForcedExit(p)

Fairness ==
  /\ WF_vars(Tick)
  /\ \A p \in Procs : WF_vars(Progress(p)) /\ SF_vars(ZombieTick(p)) /\ WF_vars(Beat(p))

FairSpec == Spec /\ Fairness

-----------------------------------------------------------------------------
(* Safety.                                                                   *)

\* While a process beats on time its heartbeat is never stale, not even in
\* the 35 s that follow a stop, when its heartbeat task is already over.
HeartbeatStaysFresh ==
  \A p \in Procs : Alive(p) /\ beating[p] => ~Expired(IdOf[p])

\* A busy worker is not robbed ("un worker occupé se ferait voler ses jobs",
\* docs/plans/phase-0-socle.md:295): as long as it beats on time, the job it
\* executes stays its own until it gives it back itself.
NoTheft ==
  [][\A p \in Procs, j \in Jobs :
       (Alive(p) /\ beating[p] /\ InHand(p) /\ job[p] = j /\ Holds(p, j))
         => (Holds(p, j)' \/ job'[p] # j)]_vars

\* The ownership guard (queue.rs:65): a running job leaves its holder only
\* when a process running under that id settles it, or when the heartbeat of
\* that id is stale; and the progress shown is that of the holder.  A worker
\* that lost its job overwrites nothing of the one that took it over.
OnlyHolderWrites ==
  [][\A j \in Jobs : status[j] = "running" =>
       /\ (status'[j] # "running" \/ lockedBy'[j] # lockedBy[j]) =>
            \/ Expired(lockedBy[j])
            \/ \E p \in Procs : /\ Holds(p, j) /\ pc[p] = "settle" /\ job[p] = j
                               /\ pc'[p] # "settle"
       /\ progressBy'[j] # progressBy[j] => progressBy'[j] = lockedBy[j]]_vars

\* A job is given up only once every attempt was used (queue.rs:110), and
\* attempts pass max_attempts only by as many releases as processes that were
\* stopped: each releases at most one job before it leaves.
AttemptsAccounted ==
  \A j \in Jobs :
    /\ status[j] = "failed" => attempts[j] >= MaxAttempts
    /\ attempts[j] <= MaxAttempts + Cardinality({p \in Procs : stop[p]})

\* A process under the holder's id is alive, and none has the job in hand: no
\* worker will ever write the row, and the heartbeat keeps it from a reclaim.
Stranded(j) ==
  /\ status[j] = "running"
  /\ \E p \in Procs : IdOf[p] = lockedBy[j] /\ Alive(p)
  /\ \A p \in Procs : IdOf[p] = lockedBy[j] => ~(InHand(p) /\ job[p] = j)

\* Without a fault no job is stranded under a loop that goes on serving.
StrandedOnlyByFault ==
  \A j \in Jobs :
    Stranded(j) => \/ faultsLeft < MaxFaults
                  \/ \A p \in Procs : IdOf[p] = lockedBy[j] /\ Alive(p) => pc[p] = "halted"

Lifecycle == INSTANCE JobLifecycle
  WITH state <- status, holder <- lockedBy, tries <- attempts, Holders <- WorkerIds

\* The tables and the processes implement the life of a job as its creator
\* sees it; in particular a job that is done or failed stays so.
ImplementsLifecycle == Lifecycle!Spec

(* What the documentation says and the code does not do.                     *)

\* "SKIP LOCKED fait office de verrou distribué" (docs/architecture.md:63):
\* no job is executed by two processes at once.
NoConcurrentExecution ==
  \A p, q \in Procs : InHand(p) /\ InHand(q) /\ job[p] = job[q] => p = q

\* run-once exits with 0 only if every job it ran ended in done
\* (jobs/mod.rs:252).
ExitZeroMeansDone ==
  \A p \in RunOnce, j \in Jobs :
    pc[p] = "exit0" /\ report[p][j] # "none" => status[j] = "done"

-----------------------------------------------------------------------------
(* Liveness, for as long as one service stays up.                            *)

SomeServiceUp == \E p \in Service : Alive(p) /\ ~stop[p]

\* A job that nobody cancels ends, unless its final write was lost.
JobsEnd ==
  <>[]SomeServiceUp =>
    \A j \in Jobs : (status[j] \in {"pending", "running"})
      ~> (status[j] \in {"done", "failed"} \/ cancelRequested[j] \/ Stranded(j))

\* The job of a process that died is taken from it.
DeadHolderLosesJob ==
  <>[]SomeServiceUp =>
    \A p \in Procs, j \in Jobs :
      (pc[p] \in Ended /\ Holds(p, j))
        ~> (~Holds(p, j) \/ \E q \in Procs : IdOf[q] = IdOf[p] /\ Alive(q))

\* A stopped service and a run-once leave.
ProcessesLeave ==
  \A p \in Procs : (stop[p] \/ (p \in RunOnce /\ Alive(p))) ~> pc[p] \in Ended
=============================================================================
