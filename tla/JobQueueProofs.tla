--------------------------- MODULE JobQueueProofs ---------------------------
(***************************************************************************)
(* Proofs about JobQueue, for any jobs, processes, attempts and timing     *)
(* that satisfy its assumptions.                                           *)
(***************************************************************************)
EXTENDS JobQueue, FiniteSetTheorems, TLAPS

\* The delay of a failed job stays within the cap of fail_job, however many
\* times it was tried.
LEMMA BackoffType == ASSUME NEW n \in Nat PROVE Backoff(n) \in 0..BackoffCap
  BY BoundsAssumption DEF Backoff

-----------------------------------------------------------------------------
(* Type correctness.                                                         *)

\* What the statements on the job table keep typed.
RowsOK ==
  /\ status \in [Jobs -> Status]
  /\ attempts \in [Jobs -> Nat]
  /\ lockedBy \in [Jobs -> WorkerIds \cup {NoOne}]
  /\ scheduled \in [Jobs -> -MaxLag..BackoffCap]
  /\ cancelRequested \in [Jobs -> BOOLEAN]
  /\ progressBy \in [Jobs -> WorkerIds \cup {NoOne}]

\* What the steps of the processes keep typed.
ProcsOK ==
  /\ pc \in [Procs -> {"off"} \cup Serving \cup Ended]
  /\ job \in [Procs -> Jobs \cup {NoJob}]
  /\ outcome \in [Procs -> Outcomes]
  /\ report \in [Procs -> [Jobs -> Outcomes]]
  /\ stop \in [Procs -> BOOLEAN]
  /\ timer \in [Procs -> 0..ExitDelay]
  /\ beating \in [Procs -> BOOLEAN]
  /\ \A p \in Procs : InHand(p) => job[p] \in Jobs

\* TypeOK splits into the job table, the processes and the rest: a step
\* rarely touches more than one of them.
LEMMA TypeParts ==
  TypeOK <=> /\ RowsOK /\ ProcsOK
             /\ age \in [WorkerIds -> 0..ZombieThreshold]
             /\ faultsLeft \in 0..MaxFaults
  BY DEF TypeOK, RowsOK, ProcsOK

\* The status that fail_job and reclaim_zombie_jobs choose is a status.
LEMMA RetryOrFailType == ASSUME NEW j \in Jobs PROVE RetryOrFail(j) \in Status
  BY DEF RetryOrFail, Status

\* reclaim_zombie_jobs keeps the table typed.
LEMMA ReclaimType == ASSUME RowsOK, ReclaimZombieJobs PROVE RowsOK'
  BY RetryOrFailType, NamesAssumption DEF RowsOK, ReclaimZombieJobs

\* So does the guarded UPDATE that gives a job back.
LEMMA GiveBackType ==
  ASSUME RowsOK, NEW p \in Procs, NEW j \in Jobs, NEW s \in Status,
         NEW d \in -MaxLag..BackoffCap, GiveBack(p, j, s, d)
  PROVE  RowsOK'
  BY DEF RowsOK, GiveBack

\* The supervisor's wait is a natural number of ticks.
LEMMA ExitDelayType == ExitDelay \in Nat
  BY TimingAssumption DEF ExitDelay

\* A jobs task that ends in error leaves its process typed.
LEMMA HaltType == ASSUME ProcsOK, NEW p \in Procs, HaltInError(p) PROVE ProcsOK'
  BY ExitDelayType DEF ProcsOK, HaltInError, Serving, Outcomes, InHand

\* So does the turn to the next job.
LEMMA NextTurnType ==
  ASSUME ProcsOK, NEW p \in Procs, job[p] \in Jobs, NextTurn(p) PROVE ProcsOK'
  BY DEF ProcsOK, NextTurn, Serving, Outcomes, InHand

\* So does the end of the process, whatever its code.
LEMMA EndType ==
  ASSUME ProcsOK, NEW p \in Procs, NEW code \in Ended, End(p, code) PROVE ProcsOK'
  BY ExitDelayType DEF ProcsOK, End, Serving, Ended, Outcomes, InHand

\* Before any process starts the types hold.
LEMMA InitType == Init => TypeOK
  BY NamesAssumption, TimingAssumption, BoundsAssumption, ExitDelayType
     DEF Init, TypeOK, Status, Outcomes, InHand

\* Every step keeps the types: one case for each action.
LEMMA TypeStep == TypeOK /\ [Next]_vars => TypeOK'
<1> SUFFICES ASSUME TypeOK, [Next]_vars PROVE TypeOK'
  OBVIOUS
<1>0. RowsOK /\ ProcsOK /\ age \in [WorkerIds -> 0..ZombieThreshold] /\ faultsLeft \in 0..MaxFaults
  BY TypeParts
<1> USE ExitDelayType, NamesAssumption, BoundsAssumption, TimingAssumption
<1>1. ASSUME NEW j \in Jobs, Enqueue(j) PROVE TypeOK'
  BY <1>1 DEF TypeOK, Enqueue, Status, procs, InHand
<1>2. ASSUME NEW j \in Jobs, RequestCancel(j) PROVE TypeOK'
  BY <1>2 DEF TypeOK, RequestCancel, procs, InHand
<1>3. ASSUME NEW p \in Procs, LoopStep(p) PROVE TypeOK'
  <2>1. CASE Boot(p)
    <3>1. RowsOK'
      BY <1>0, <2>1, ReclaimType DEF Boot
    <3>2. ProcsOK'
      BY <1>0, <2>1 DEF Boot, ProcsOK, Serving, InHand
    <3>3. QED
      BY <1>0, <2>1, <3>1, <3>2, TypeParts DEF Boot, TypeOK, RowsOK, ProcsOK
  <2>2. CASE BootFails(p)
    <3>1. RowsOK'
      <4>1. CASE ReclaimZombieJobs
        BY <1>0, <4>1, ReclaimType
      <4>2. CASE UNCHANGED rows
        BY <1>0, <4>2 DEF RowsOK, rows
      <4>3. QED
        BY <2>2, <4>1, <4>2 DEF BootFails
    <3>2. ProcsOK'
      BY <1>0, <2>2, HaltType DEF BootFails
    <3>3. QED
      BY <1>0, <2>2, <3>1, <3>2 DEF BootFails, TypeOK, RowsOK, ProcsOK
  <2>3. CASE Wake(p)
    BY <2>3 DEF TypeOK, Wake, rows, Serving, Ended, InHand
  <2>4. CASE ZombieTick(p)
    <3>1. RowsOK'
      BY <1>0, <2>4, ReclaimType DEF ZombieTick
    <3>2. ProcsOK'
      BY <1>0, <2>4 DEF ZombieTick, ProcsOK, Serving, InHand
    <3>3. QED
      BY <1>0, <2>4, <3>1, <3>2 DEF ZombieTick, TypeOK, RowsOK, ProcsOK
  <2>5. CASE CheckStop(p)
    BY <2>5 DEF TypeOK, CheckStop, rows, Serving, Ended, InHand
  <2>6. CASE LeaveLoop(p)
    BY <2>6 DEF TypeOK, LeaveLoop, rows, Serving, Ended, InHand
  <2>7. ASSUME NEW j \in Jobs, Claim(p, j) PROVE TypeOK'
    BY <2>7 DEF TypeOK, Claim, Serving, Status, InHand
  <2>8. CASE ClaimNothing(p)
    BY <2>8 DEF TypeOK, ClaimNothing, ExitCode, rows, Serving, Ended, InHand
  <2>9. CASE ClaimFails(p)
    BY <2>9 DEF TypeOK, ClaimFails, rows, Serving, Ended, InHand
  <2>10. CASE SetProgress(p)
    BY <2>10 DEF TypeOK, SetProgress, procs, InHand
  <2>11. ASSUME NEW result \in {"ok", "error", "released"}, Finish(p, result) PROVE TypeOK'
    BY <2>11 DEF TypeOK, Finish, rows, Serving, Outcomes, InHand
  <2>12. CASE Settle(p)
    <3>1. job[p] \in Jobs
      BY <2>12 DEF Settle, TypeOK, InHand
    <3>2. RowsOK'
      <4>1. CASE CompleteJob(p, job[p])
        BY <1>0, <3>1, <4>1, GiveBackType DEF CompleteJob, RowsOK, Status
      <4>2. CASE FailJob(p, job[p])
        <5>1. attempts[job[p]] \in Nat
          BY <1>0, <3>1 DEF RowsOK
        <5>2. Backoff(attempts[job[p]]) \in 0..BackoffCap
          BY <5>1, BackoffType
        <5>3. Backoff(attempts[job[p]]) \in -MaxLag..BackoffCap
          BY <5>2
        <5>4. QED
          BY <1>0, <3>1, <4>2, <5>3, RetryOrFailType, GiveBackType DEF FailJob
      <4>3. CASE ReleaseJob(p, job[p])
        BY <1>0, <3>1, <4>3, GiveBackType DEF ReleaseJob, RowsOK, Status
      <4>4. QED
        BY <2>12, <4>1, <4>2, <4>3 DEF Settle
    <3>3. ProcsOK'
      BY <1>0, <2>12, <3>1, NextTurnType DEF Settle
    <3>4. QED
      BY <1>0, <2>12, <3>2, <3>3 DEF Settle, NextTurn, TypeOK, RowsOK, ProcsOK
  <2>13. CASE SettleFails(p)
    <3>1. job[p] \in Jobs
      BY <2>13 DEF SettleFails, TypeOK, InHand
    <3>2. ProcsOK'
      BY <1>0, <2>13, <3>1, NextTurnType DEF SettleFails
    <3>3. QED
      BY <1>0, <2>13, <3>2 DEF SettleFails, NextTurn, rows, TypeOK, RowsOK, ProcsOK
  <2>14. QED
    BY <1>3, <2>1, <2>2, <2>3, <2>4, <2>5, <2>6, <2>7, <2>8, <2>9, <2>10, <2>11, <2>12,
       <2>13 DEF LoopStep
<1>4. ASSUME NEW p \in Procs, ProcessStep(p) PROVE TypeOK'
  <2>1. CASE Start(p)
    BY <2>1 DEF TypeOK, Start, rows, Serving, InHand
  <2>2. CASE Beat(p)
    BY <2>2 DEF TypeOK, Beat, rows, InHand
  <2>3. CASE Stall(p)
    BY <2>3 DEF TypeOK, Stall, rows, InHand
  <2>4. CASE RequestStop(p)
    BY <2>4 DEF TypeOK, RequestStop, rows, InHand
  <2>5. CASE Panic(p)
    BY <1>0, <2>5, HaltType DEF Panic, rows, TypeOK, RowsOK, ProcsOK
  <2>6. ASSUME NEW code \in Ended, End(p, code) PROVE TypeOK'
    BY <1>0, <2>6, EndType DEF End, rows, TypeOK, RowsOK, ProcsOK
  <2>7. QED
    BY <1>4, <2>1, <2>2, <2>3, <2>4, <2>5, <2>6
       DEF ProcessStep, Exit, ForcedExit, Crash, Ended
<1>5. CASE Tick
  BY <1>5 DEF TypeOK, Tick, InHand
<1>6. CASE UNCHANGED vars
  BY <1>6 DEF TypeOK, vars, rows, procs, InHand
<1>7. QED
  BY <1>1, <1>2, <1>3, <1>4, <1>5, <1>6 DEF Next

\* TypeOK: every column and every variable of a process keeps its type.
THEOREM TypeCorrect == Spec => []TypeOK
  BY InitType, TypeStep, PTL DEF Spec

-----------------------------------------------------------------------------
(* What a step may do to the rows.                                           *)

\* Only five kinds of step touch the status, holder and attempts of a row.
LEMMA RowSteps ==
  ASSUME [Next]_vars
  PROVE  \/ \E j \in Jobs : Enqueue(j)
         \/ \E p \in Procs, j \in Jobs : Claim(p, j)
         \/ ReclaimZombieJobs
         \/ \E p \in Procs : Settle(p)
         \/ UNCHANGED <<status, lockedBy, attempts>>
<1>1. ASSUME NEW j \in Jobs, RequestCancel(j) PROVE UNCHANGED <<status, lockedBy, attempts>>
  BY <1>1 DEF RequestCancel
<1>2. ASSUME NEW p \in Procs, LoopStep(p)
      PROVE  \/ \E j \in Jobs : Claim(p, j)
             \/ ReclaimZombieJobs
             \/ Settle(p)
             \/ UNCHANGED <<status, lockedBy, attempts>>
  BY <1>2 DEF LoopStep, Boot, BootFails, Wake, ZombieTick, CheckStop, LeaveLoop,
              ClaimNothing, ClaimFails, SetProgress, Finish, SettleFails, rows
<1>3. ASSUME NEW p \in Procs, ProcessStep(p) PROVE UNCHANGED <<status, lockedBy, attempts>>
  BY <1>3 DEF ProcessStep, Start, Beat, Stall, RequestStop, Panic, Exit, ForcedExit, Crash,
              End, rows
<1>4. CASE Tick
  BY <1>4 DEF Tick
<1>5. CASE UNCHANGED vars
  BY <1>5 DEF vars, rows
<1>6. QED
  BY <1>1, <1>2, <1>3, <1>4, <1>5 DEF Next

\* When a job that is given back may be claimed again: as before, or after the
\* delay of fail_job.
Delays(j) == {scheduled[j], Backoff(attempts[j])}

\* The final write on a job changes nothing, or gives the job back: it is the
\* only thing that settling does to the rows.
LEMMA SettleWrites ==
  ASSUME NEW p \in Procs, Settle(p)
  PROVE  \E s \in {"done", "pending", "failed"}, d \in Delays(job[p]) :
           /\ GiveBack(p, job[p], s, d)
           /\ s = "failed" => attempts[job[p]] >= MaxAttempts
           /\ s = "pending" => \/ ~(attempts[job[p]] >= MaxAttempts)
                               \/ outcome[p] = "released"
<1>1. CASE outcome[p] = "ok" /\ CompleteJob(p, job[p])
  BY <1>1 DEF CompleteJob, Delays
<1>2. CASE outcome[p] = "error" /\ FailJob(p, job[p])
  BY <1>2 DEF FailJob, RetryOrFail, Delays
<1>3. CASE outcome[p] = "released" /\ ReleaseJob(p, job[p])
  BY <1>3 DEF ReleaseJob, Delays
<1>4. QED
  BY <1>1, <1>2, <1>3 DEF Settle

-----------------------------------------------------------------------------
(* The heartbeat of a process that beats on time.                            *)

\* Inductive: an unstopped process last beat at most HeartbeatInterval ago;
\* once stopped, its silence and what remains of main's wait add up to no more
\* than that plus the whole wait.
Fresh(p) ==
  /\ pc[p] = "off" => ~beating[p]
  /\ Alive(p) /\ beating[p] =>
       IF stop[p] THEN age[IdOf[p]] + timer[p] <= HeartbeatInterval + ExitDelay
                  ELSE age[IdOf[p]] <= HeartbeatInterval

\* What HeartbeatStaysFresh is proved from.
FreshInv == TypeOK /\ \A p \in Procs : Fresh(p)

\* 5 s between beats, 30 s of grace and 5 s of margin are less than the 60 s of
\* the threshold: this is where TimingAssumption is used.
LEMMA FreshEnough == FreshInv => HeartbeatStaysFresh
<1> SUFFICES ASSUME FreshInv, NEW p \in Procs, Alive(p), beating[p] PROVE ~Expired(IdOf[p])
  BY DEF HeartbeatStaysFresh
<1>1. age[IdOf[p]] \in Nat /\ timer[p] \in Nat
  BY NamesAssumption, TimingAssumption, ExitDelayType DEF FreshInv, TypeOK
<1>2. age[IdOf[p]] <= HeartbeatInterval + ExitDelay
  BY <1>1, ExitDelayType, TimingAssumption DEF FreshInv, Fresh
<1>3. QED
  BY <1>1, <1>2, TimingAssumption DEF Expired, ExitDelay

\* Beats, stops and ticks keep the silence of a process within the bound.
LEMMA FreshStep == FreshInv /\ [Next]_vars => FreshInv'
<1> SUFFICES ASSUME FreshInv, [Next]_vars, NEW p \in Procs PROVE Fresh(p)'
  BY TypeStep DEF FreshInv
<1>0. TypeOK /\ Fresh(p)
  BY DEF FreshInv
<1>a. age[IdOf[p]] \in Nat /\ timer[p] \in Nat /\ IdOf[p] \in WorkerIds
  BY <1>0, NamesAssumption, TimingAssumption, ExitDelayType DEF TypeOK
<1> USE ExitDelayType, TimingAssumption DEF Fresh, Alive
<1>1. ASSUME NEW j \in Jobs, Enqueue(j) \/ RequestCancel(j) PROVE Fresh(p)'
  BY <1>0, <1>1 DEF Enqueue, RequestCancel, procs
<1>2. ASSUME NEW q \in Procs, LoopStep(q) PROVE Fresh(p)'
  <2>1. CASE BootFails(q)
    BY <1>0, <1>a, <2>1 DEF BootFails, HaltInError, TypeOK, Serving
  <2>2. CASE \/ Boot(q) \/ Wake(q) \/ ZombieTick(q) \/ CheckStop(q) \/ LeaveLoop(q)
            \/ (\E j \in Jobs : Claim(q, j)) \/ SetProgress(q)
            \/ (\E result \in {"ok", "error", "released"} : Finish(q, result))
            \/ Settle(q) \/ SettleFails(q)
    BY <1>0, <2>2 DEF Boot, Wake, ZombieTick, CheckStop, LeaveLoop, Claim, SetProgress, Finish,
                      Settle, SettleFails, NextTurn, procs, TypeOK, Serving
  <2>3. CASE ClaimNothing(q) \/ ClaimFails(q)
    BY <1>0, <2>3 DEF ClaimNothing, ClaimFails, ExitCode, TypeOK, Serving
  <2>4. QED
    BY <1>2, <2>1, <2>2, <2>3 DEF LoopStep
<1>3. ASSUME NEW q \in Procs, ProcessStep(q) PROVE Fresh(p)'
  <2>1. CASE Start(q)
    BY <1>0, <2>1 DEF Start, TypeOK, Serving
  <2>2. CASE Beat(q)
    BY <1>0, <1>a, <2>2 DEF Beat, TypeOK, Serving
  <2>3. CASE Stall(q)
    BY <1>0, <2>3 DEF Stall, TypeOK
  <2>4. CASE RequestStop(q)
    BY <1>0, <1>a, <2>4 DEF RequestStop, TypeOK
  <2>5. CASE Panic(q)
    BY <1>0, <1>a, <2>5 DEF Panic, HaltInError, TypeOK, Serving
  <2>6. ASSUME NEW code \in Ended, End(q, code) PROVE Fresh(p)'
    BY <1>0, <2>6 DEF End, TypeOK, Serving, Ended
  <2>7. QED
    BY <1>3, <2>1, <2>2, <2>3, <2>4, <2>5, <2>6 DEF ProcessStep, Exit, ForcedExit, Crash, Ended
<1>4. CASE Tick
  BY <1>0, <1>a, <1>4 DEF Tick, OnTime, TypeOK
<1>5. CASE UNCHANGED vars
  BY <1>0, <1>5 DEF vars, procs
<1>6. QED
  BY <1>1, <1>2, <1>3, <1>4, <1>5 DEF Next

\* No process is alive at the start.
LEMMA FreshInit == Init => FreshInv
  BY InitType DEF Init, FreshInv, Fresh, Alive, Serving

\* HeartbeatStaysFresh: a process whose beats land in time is never taken for
\* dead, from its first beat until main has left, whatever the others do.
THEOREM HeartbeatFreshness == Spec => []HeartbeatStaysFresh
<1>1. Spec => []FreshInv
  BY FreshInit, FreshStep, PTL DEF Spec
<1>2. QED
  BY <1>1, FreshEnough, PTL

-----------------------------------------------------------------------------
(* Who takes a running job from its holder.                                  *)

\* No two processes run under one worker_id (config.rs draws one at random; an
\* operator who sets WORKER_ID may break it).
UniqueIds == \A p, q \in Procs : IdOf[p] = IdOf[q] => p = q

\* One step of NoTheft, for one process and one job.
Kept(p, j) ==
  (Alive(p) /\ beating[p] /\ InHand(p) /\ job[p] = j /\ Holds(p, j))
    => (Holds(p, j)' \/ job'[p] # j)

\* A step of another process, or a reclaim, does not take the job of a process
\* that beats on time.
LEMMA NoTheftStep ==
  ASSUME UniqueIds, FreshInv, [Next]_vars, NEW p \in Procs, NEW j \in Jobs
  PROVE  Kept(p, j)
<1> SUFFICES ASSUME Alive(p), beating[p], job[p] = j, Holds(p, j)
             PROVE  Holds(p, j)' \/ job'[p] # j
  BY DEF Kept
<1>0. TypeOK /\ ~Expired(IdOf[p]) /\ status[j] = "running" /\ lockedBy[j] = IdOf[p]
  BY FreshEnough DEF FreshInv, HeartbeatStaysFresh, Holds
<1>1. CASE \E k \in Jobs : Enqueue(k)
  BY <1>0, <1>1 DEF Enqueue, Holds, TypeOK
<1>2. CASE \E q \in Procs, k \in Jobs : Claim(q, k)
  BY <1>0, <1>2 DEF Claim, NextInLine, Claimable, Holds, TypeOK
<1>3. CASE ReclaimZombieJobs
  BY <1>0, <1>3 DEF ReclaimZombieJobs, Zombies, Holds
<1>4. ASSUME NEW q \in Procs, Settle(q) PROVE Holds(p, j)' \/ job'[p] # j
  <2>1. CASE q = p
    BY <1>0, <1>4, <2>1, NamesAssumption DEF Settle, NextTurn, TypeOK
  <2>2. CASE q # p
    <3>1. PICK s \in {"done", "pending", "failed"}, d \in Delays(job[q]) : GiveBack(q, job[q], s, d)
      BY <1>4, SettleWrites
    <3>2. IdOf[q] # IdOf[p]
      BY <2>2 DEF UniqueIds
    <3>3. QED
      BY <1>0, <3>1, <3>2 DEF GiveBack, Holds, TypeOK
  <2>3. QED
    BY <2>1, <2>2
<1>5. CASE UNCHANGED <<status, lockedBy, attempts>>
  BY <1>0, <1>5 DEF Holds
<1>6. QED
  BY <1>1, <1>2, <1>3, <1>4, <1>5, RowSteps

\* NoTheft: when no two processes share a worker_id, nobody takes a job from a
\* worker that executes it and beats on time.
THEOREM NoTheftCorrect == ASSUME UniqueIds PROVE Spec => NoTheft
<1>1. FreshInv /\ [Next]_vars => [\A p \in Procs, j \in Jobs : Kept(p, j)]_vars
  BY NoTheftStep
<1>2. [\A p \in Procs, j \in Jobs : Kept(p, j)]_vars
        <=> [\A p \in Procs, j \in Jobs :
               (Alive(p) /\ beating[p] /\ InHand(p) /\ job[p] = j /\ Holds(p, j))
                 => (Holds(p, j)' \/ job'[p] # j)]_vars
  BY DEF Kept
<1>3. QED
  BY <1>1, <1>2, FreshInit, FreshStep, PTL DEF Spec, NoTheft

-----------------------------------------------------------------------------
(* JobQueue implements JobLifecycle.                                         *)

\* Only a running job has a holder.  Submitted needs it of an absent job.
LockInv ==
  /\ TypeOK
  /\ \A j \in Jobs : status[j] # "running" => lockedBy[j] = NoOne

\* claim_next_job sets the holder with the status, and every statement that
\* leaves running clears it.
LEMMA LockStep == LockInv /\ [Next]_vars => LockInv'
<1> SUFFICES ASSUME LockInv, [Next]_vars, NEW j \in Jobs, status'[j] # "running"
             PROVE  lockedBy'[j] = NoOne
  BY TypeStep DEF LockInv
<1>0. TypeOK /\ (status[j] # "running" => lockedBy[j] = NoOne)
  BY DEF LockInv
<1>1. CASE \E k \in Jobs : Enqueue(k)
  BY <1>0, <1>1 DEF Enqueue, TypeOK
<1>2. CASE \E q \in Procs, k \in Jobs : Claim(q, k)
  BY <1>0, <1>2 DEF Claim, TypeOK
<1>3. CASE ReclaimZombieJobs
  BY <1>0, <1>3 DEF ReclaimZombieJobs
<1>4. ASSUME NEW q \in Procs, Settle(q) PROVE lockedBy'[j] = NoOne
  <2>1. PICK s \in {"done", "pending", "failed"}, d \in Delays(job[q]) : GiveBack(q, job[q], s, d)
    BY <1>4, SettleWrites
  <2>2. QED
    BY <1>0, <2>1 DEF GiveBack, TypeOK
<1>5. CASE UNCHANGED <<status, lockedBy, attempts>>
  BY <1>0, <1>5
<1>6. QED
  BY <1>1, <1>2, <1>3, <1>4, <1>5, RowSteps

\* A step of the queue is, for every row, a step of JobLifecycle or none.
LEMMA LifecycleStep == LockInv /\ [Next]_vars => [Lifecycle!Next]_(Lifecycle!vars)
<1> SUFFICES ASSUME LockInv, [Next]_vars, NEW j \in Jobs
             PROVE  \/ Lifecycle!Submitted(j) \/ Lifecycle!Taken(j)
                    \/ Lifecycle!Finished(j) \/ Lifecycle!Kept(j)
  BY DEF Lifecycle!Next
<1>0. TypeOK /\ (status[j] # "running" => lockedBy[j] = NoOne)
  BY DEF LockInv
<1> USE DEF Lifecycle!Submitted, Lifecycle!Taken, Lifecycle!Finished, Lifecycle!Kept
<1>1. CASE \E k \in Jobs : Enqueue(k)
  BY <1>0, <1>1 DEF Enqueue, TypeOK
<1>2. ASSUME NEW q \in Procs, NEW k \in Jobs, Claim(q, k)
      PROVE  Lifecycle!Taken(j) \/ Lifecycle!Kept(j)
  <2>1. CASE j = k
    BY <1>0, <1>2, <2>1, NamesAssumption DEF Claim, NextInLine, Claimable, TypeOK
  <2>2. CASE j # k
    BY <1>0, <1>2, <2>2 DEF Claim, TypeOK
  <2>3. QED
    BY <2>1, <2>2
<1>3. CASE ReclaimZombieJobs
  BY <1>0, <1>3 DEF ReclaimZombieJobs, Zombies, RetryOrFail
<1>4. ASSUME NEW q \in Procs, Settle(q)
      PROVE  Lifecycle!Finished(j) \/ Lifecycle!Kept(j)
  <2>1. PICK s \in {"done", "pending", "failed"}, d \in Delays(job[q]) :
          GiveBack(q, job[q], s, d) /\ (s = "failed" => attempts[job[q]] >= MaxAttempts)
    BY <1>4, SettleWrites
  <2>2. QED
    BY <1>0, <2>1 DEF GiveBack, Holds, TypeOK
<1>5. CASE UNCHANGED <<status, lockedBy, attempts>>
  BY <1>5
<1>6. QED
  BY <1>1, <1>2, <1>3, <1>4, <1>5, RowSteps

\* ImplementsLifecycle: whatever the processes do, a row is submitted once,
\* held by one worker at a time, and done or failed for good.
THEOREM LifecycleImplemented == Spec => ImplementsLifecycle
<1>1. Init => LockInv /\ Lifecycle!Init
  BY InitType DEF Init, LockInv, Lifecycle!Init
<1>2. QED
  BY <1>1, LockStep, LifecycleStep, PTL DEF Spec, ImplementsLifecycle, Lifecycle!Spec

-----------------------------------------------------------------------------
(* Who writes a running job.                                                 *)

\* The message a row shows is written by its holder only.
LEMMA ProgressSteps ==
  ASSUME [Next]_vars
  PROVE  (\E p \in Procs : SetProgress(p)) \/ UNCHANGED progressBy
<1>1. ASSUME NEW j \in Jobs, Enqueue(j) \/ RequestCancel(j) PROVE UNCHANGED progressBy
  BY <1>1 DEF Enqueue, RequestCancel
<1>2. ASSUME NEW p \in Procs, LoopStep(p), ~SetProgress(p) PROVE UNCHANGED progressBy
  BY <1>2 DEF LoopStep, Boot, BootFails, Wake, ZombieTick, CheckStop, LeaveLoop, Claim,
              ClaimNothing, ClaimFails, Finish, Settle, SettleFails, CompleteJob, FailJob,
              ReleaseJob, GiveBack, ReclaimZombieJobs, rows
<1>3. ASSUME NEW p \in Procs, ProcessStep(p) PROVE UNCHANGED progressBy
  BY <1>3 DEF ProcessStep, Start, Beat, Stall, RequestStop, Panic, Exit, ForcedExit, Crash,
              End, rows
<1>4. CASE Tick \/ UNCHANGED vars
  BY <1>4 DEF Tick, vars, rows
<1>5. QED
  BY <1>1, <1>2, <1>3, <1>4 DEF Next

\* One step of OnlyHolderWrites, for one job.
Owned(j) ==
  status[j] = "running" =>
    /\ (status'[j] # "running" \/ lockedBy'[j] # lockedBy[j]) =>
         \/ Expired(lockedBy[j])
         \/ \E p \in Procs : /\ Holds(p, j) /\ pc[p] = "settle" /\ job[p] = j
                            /\ pc'[p] # "settle"
    /\ progressBy'[j] # progressBy[j] => progressBy'[j] = lockedBy[j]

\* A step that touches a running row is its holder settling, or a reclaim of a
\* stale holder.
LEMMA OwnedStep == ASSUME TypeOK, [Next]_vars, NEW j \in Jobs PROVE Owned(j)
<1> SUFFICES ASSUME status[j] = "running" PROVE Owned(j)
  BY DEF Owned
<1>1. progressBy'[j] # progressBy[j] => progressBy'[j] = lockedBy[j]
  BY ProgressSteps DEF SetProgress, Holds, TypeOK
<1>2. ASSUME status'[j] # "running" \/ lockedBy'[j] # lockedBy[j], ~Expired(lockedBy[j])
      PROVE  \E p \in Procs : Holds(p, j) /\ pc[p] = "settle" /\ job[p] = j /\ pc'[p] # "settle"
  <2>1. ~\E k \in Jobs : Enqueue(k)
    BY <1>2 DEF Enqueue, TypeOK
  <2>2. ~\E q \in Procs, k \in Jobs : Claim(q, k)
    BY <1>2 DEF Claim, NextInLine, Claimable, TypeOK
  <2>3. ~ReclaimZombieJobs
    BY <1>2 DEF ReclaimZombieJobs, Zombies
  <2>4. PICK q \in Procs : Settle(q)
    BY <1>2, <2>1, <2>2, <2>3, RowSteps
  <2>5. PICK s \in {"done", "pending", "failed"}, d \in Delays(job[q]) : GiveBack(q, job[q], s, d)
    BY <2>4, SettleWrites
  <2>6. job[q] = j /\ Holds(q, j)
    BY <1>2, <2>5 DEF GiveBack, TypeOK
  <2>7. pc[q] = "settle" /\ pc'[q] # "settle"
    BY <2>4 DEF Settle, NextTurn, TypeOK
  <2>8. QED
    BY <2>6, <2>7
<1>3. QED
  BY <1>1, <1>2 DEF Owned

\* OnlyHolderWrites: a running job leaves its holder only by the holder's own
\* settling or after its heartbeat went stale, and shows only its progress.
\* It needs no assumption on the ids.
THEOREM OnlyHolderWritesCorrect == Spec => OnlyHolderWrites
<1>1. TypeOK /\ [Next]_vars => [\A j \in Jobs : Owned(j)]_vars
  BY OwnedStep
<1>2. [\A j \in Jobs : Owned(j)]_vars
        <=> [\A j \in Jobs : status[j] = "running" =>
               /\ (status'[j] # "running" \/ lockedBy'[j] # lockedBy[j]) =>
                    \/ Expired(lockedBy[j])
                    \/ \E p \in Procs : /\ Holds(p, j) /\ pc[p] = "settle" /\ job[p] = j
                                       /\ pc'[p] # "settle"
               /\ progressBy'[j] # progressBy[j] => progressBy'[j] = lockedBy[j]]_vars
  BY DEF Owned
<1>3. QED
  BY <1>1, <1>2, InitType, TypeStep, PTL DEF Spec, OnlyHolderWrites

-----------------------------------------------------------------------------
(* Attempts and releases.                                                    *)

\* The processes that may have released a job: stopped, and past the point
\* where they could claim again.
Spent == {p \in Procs : stop[p] /\ pc[p] \in {"drain", "halted"} \cup Ended}

\* A run-once is never stopped, and only a stopped process releases.
StopOK(p) ==
  /\ p \in RunOnce => ~stop[p] /\ pc[p] # "boot"
  /\ pc[p] = "settle" /\ outcome[p] = "released" => stop[p]

\* The same for all processes.
StopInv == TypeOK /\ \A p \in Procs : StopOK(p)

\* The bound of a waiting job is one less: it still has a claim to go through.
CountOK(j) ==
  /\ status[j] = "failed" => attempts[j] >= MaxAttempts
  /\ attempts[j] <= MaxAttempts + Cardinality(Spent)
  /\ status[j] \in {"absent", "pending"} =>
       attempts[j] + 1 <= MaxAttempts + Cardinality(Spent)

\* What AttemptsAccounted is proved from.
AttemptsInv == StopInv /\ \A j \in Jobs : CountOK(j)

\* Only a stopped process releases, and a process that is spent stays so.
LEMMA StopStep ==
  ASSUME StopInv, [Next]_vars
  PROVE  StopInv' /\ Spent \subseteq Spent'
<1> SUFFICES ASSUME NEW p \in Procs
             PROVE  StopOK(p)' /\ (p \in Spent => (p \in Spent)')
  BY TypeStep DEF StopInv, Spent
<1>0. TypeOK /\ StopOK(p) /\ \A q \in Procs : StopOK(q)
  BY DEF StopInv
<1> DEFINE Goal == StopOK(p)' /\ (p \in Spent => (p \in Spent)')
<1> USE DEF Spent, StopOK, Ended
<1>1. ASSUME NEW j \in Jobs, Enqueue(j) \/ RequestCancel(j) PROVE Goal
  BY <1>0, <1>1 DEF Enqueue, RequestCancel, procs
<1>2. ASSUME NEW q \in Procs, LoopStep(q) PROVE Goal
  <2>1. CASE BootFails(q)
    BY <1>0, <2>1 DEF BootFails, HaltInError, TypeOK
  <2>2. CASE Boot(q) \/ Wake(q) \/ ZombieTick(q) \/ CheckStop(q) \/ LeaveLoop(q)
    BY <1>0, <2>2 DEF Boot, Wake, ZombieTick, CheckStop, LeaveLoop, TypeOK
  <2>3. CASE (\E j \in Jobs : Claim(q, j)) \/ SetProgress(q)
    BY <1>0, <2>3 DEF Claim, SetProgress, procs, TypeOK
  <2>4. ASSUME NEW result \in {"ok", "error", "released"}, Finish(q, result) PROVE Goal
    BY <1>0, <2>4 DEF Finish, TypeOK
  <2>5. CASE Settle(q) \/ SettleFails(q)
    BY <1>0, <2>5 DEF Settle, SettleFails, NextTurn, TypeOK
  <2>6. CASE ClaimNothing(q) \/ ClaimFails(q)
    BY <1>0, <2>6 DEF ClaimNothing, ClaimFails, ExitCode, TypeOK
  <2>7. QED
    BY <1>2, <2>1, <2>2, <2>3, <2>4, <2>5, <2>6 DEF LoopStep
<1>3. ASSUME NEW q \in Procs, ProcessStep(q) PROVE Goal
  <2>1. CASE Start(q)
    BY <1>0, <2>1 DEF Start, TypeOK
  <2>2. CASE Beat(q) \/ Stall(q) \/ RequestStop(q)
    BY <1>0, <2>2 DEF Beat, Stall, RequestStop, Service, TypeOK
  <2>3. CASE Panic(q)
    BY <1>0, <2>3 DEF Panic, HaltInError, Service, TypeOK
  <2>4. ASSUME NEW code \in Ended, End(q, code) PROVE Goal
    BY <1>0, <2>4 DEF End, TypeOK
  <2>5. QED
    BY <1>3, <2>1, <2>2, <2>3, <2>4 DEF ProcessStep, Exit, ForcedExit, Crash
<1>4. CASE Tick \/ UNCHANGED vars
  BY <1>0, <1>4 DEF Tick, vars, procs
<1>5. QED
  BY <1>1, <1>2, <1>3, <1>4 DEF Next

\* The process that releases a job was not spent before and is spent after.
LEMMA ReleaseSpends ==
  ASSUME StopInv, NEW p \in Procs, Settle(p), outcome[p] = "released"
  PROVE  p \notin Spent /\ (p \in Spent)'
<1>1. stop[p] /\ p \notin RunOnce /\ pc[p] = "settle" /\ TypeOK
  BY DEF StopInv, StopOK, Settle
<1>2. QED
  BY <1>1 DEF Spent, Ended, Settle, NextTurn, TypeOK

\* With finitely many processes the releases can be counted.
LEMMA SpentFinite ==
  ASSUME IsFiniteSet(Procs)
  PROVE  IsFiniteSet(Spent) /\ Cardinality(Spent) \in Nat
  BY FS_Subset, FS_CardinalityType DEF Spent

\* A claim uses the attempt the bound reserves for a waiting job; a release
\* gives one back at the price of a process that is spent.
LEMMA AttemptsStep ==
  ASSUME IsFiniteSet(Procs), AttemptsInv, [Next]_vars
  PROVE  AttemptsInv'
<1> SUFFICES ASSUME NEW j \in Jobs PROVE CountOK(j)'
  BY StopStep DEF AttemptsInv
<1>0. TypeOK /\ StopInv /\ CountOK(j)
  BY DEF AttemptsInv, StopInv
<1> DEFINE N == Cardinality(Spent)
           N2 == Cardinality(Spent')
<1>a. IsFiniteSet(Spent') /\ N2 \in Nat
  <2>1. Spent' \in SUBSET Procs
    BY DEF Spent
  <2>2. QED
    BY <2>1, FS_Subset, FS_CardinalityType
<1>b. IsFiniteSet(Spent) /\ N \in Nat /\ N <= N2
  <2>1. Spent \in SUBSET Spent'
    BY <1>0, StopStep
  <2>2. QED
    BY <1>a, <2>1, FS_Subset, SpentFinite
<1>c. attempts[j] \in Nat /\ MaxAttempts \in Nat
  BY <1>0, BoundsAssumption DEF TypeOK
<1> DEFINE Goal ==
      /\ status'[j] = "failed" => attempts'[j] >= MaxAttempts
      /\ attempts'[j] <= MaxAttempts + N2
      /\ status'[j] \in {"absent", "pending"} => attempts'[j] + 1 <= MaxAttempts + N2
<1> SUFFICES Goal
  BY DEF CountOK
<1>d. /\ status[j] = "failed" => attempts[j] >= MaxAttempts
      /\ attempts[j] <= MaxAttempts + N
      /\ status[j] \in {"absent", "pending"} => attempts[j] + 1 <= MaxAttempts + N
  BY <1>0 DEF CountOK
<1> HIDE DEF N, N2
<1>1. CASE \E k \in Jobs : Enqueue(k)
  BY <1>0, <1>b, <1>a, <1>c, <1>d, <1>1 DEF Enqueue, TypeOK
<1>2. ASSUME NEW q \in Procs, NEW k \in Jobs, Claim(q, k) PROVE Goal
  BY <1>0, <1>b, <1>a, <1>c, <1>d, <1>2 DEF Claim, NextInLine, Claimable, TypeOK
<1>3. CASE ReclaimZombieJobs
  BY <1>0, <1>b, <1>a, <1>c, <1>d, <1>3 DEF ReclaimZombieJobs, RetryOrFail, TypeOK
<1>4. ASSUME NEW q \in Procs, Settle(q) PROVE Goal
  <2>1. PICK s \in {"done", "pending", "failed"}, d \in Delays(job[q]) :
          /\ GiveBack(q, job[q], s, d)
          /\ s = "failed" => attempts[job[q]] >= MaxAttempts
          /\ s = "pending" => \/ ~(attempts[job[q]] >= MaxAttempts)
                              \/ outcome[q] = "released"
    BY <1>4, SettleWrites
  <2>2. outcome[q] = "released" => N + 1 <= N2
    <3> SUFFICES ASSUME outcome[q] = "released" PROVE N + 1 <= N2
      OBVIOUS
    <3>1. q \notin Spent /\ q \in Spent'
      BY <1>0, <1>4, ReleaseSpends
    <3>2. Spent \cup {q} \in SUBSET Spent'
      BY <1>0, <3>1, StopStep
    <3>3. Cardinality(Spent \cup {q}) = N + 1
      BY <1>b, <3>1, FS_AddElement DEF N
    <3>4. QED
      BY <1>a, <3>2, <3>3, FS_Subset DEF N2
  <2>3. CASE Holds(q, job[q]) /\ job[q] = j
    BY <1>0, <1>a, <1>b, <1>c, <1>d, <2>1, <2>2, <2>3 DEF GiveBack, TypeOK
  <2>4. CASE ~(Holds(q, job[q]) /\ job[q] = j)
    BY <1>0, <1>a, <1>b, <1>c, <1>d, <2>1, <2>4 DEF GiveBack, TypeOK
  <2>5. QED
    BY <2>3, <2>4
<1>5. CASE UNCHANGED <<status, lockedBy, attempts>>
  BY <1>b, <1>a, <1>c, <1>d, <1>5
<1>6. QED
  BY <1>1, <1>2, <1>3, <1>4, <1>5, RowSteps

\* The spent processes are among the stopped ones.
LEMMA AttemptsEnough ==
  ASSUME IsFiniteSet(Procs), AttemptsInv PROVE AttemptsAccounted
<1> DEFINE S == {p \in Procs : stop[p]}
<1>1. Spent \in SUBSET S /\ IsFiniteSet(S)
  BY FS_Subset DEF Spent
<1>2. Cardinality(Spent) <= Cardinality(S) /\ Cardinality(S) \in Nat /\ Cardinality(Spent) \in Nat
  BY <1>1, FS_Subset, FS_CardinalityType
<1>3. attempts \in [Jobs -> Nat] /\ MaxAttempts \in Nat
  BY BoundsAssumption DEF AttemptsInv, StopInv, TypeOK
<1>4. ASSUME NEW j \in Jobs PROVE attempts[j] <= MaxAttempts + Cardinality(S)
  <2>1. attempts[j] <= MaxAttempts + Cardinality(Spent)
    BY DEF AttemptsInv, CountOK
  <2>2. QED
    BY <1>2, <1>3, <2>1
<1>5. QED
  BY <1>4 DEF AttemptsAccounted, AttemptsInv, CountOK

\* AttemptsAccounted: whatever the interleaving, a job fails only once its
\* attempts are used up, and exceeds them by at most one attempt for each
\* process that was stopped.
THEOREM AttemptsAccountedCorrect ==
  ASSUME IsFiniteSet(Procs) PROVE Spec => []AttemptsAccounted
<1>1. Init => AttemptsInv
  <2> SUFFICES ASSUME Init PROVE AttemptsInv
    OBVIOUS
  <2>1. Cardinality(Spent) \in Nat
    BY SpentFinite
  <2>2. StopInv
    BY InitType DEF Init, StopInv, StopOK
  <2>3. QED
    BY <2>1, <2>2, BoundsAssumption DEF AttemptsInv, CountOK, Init
<1>2. QED
  BY <1>1, AttemptsStep, AttemptsEnough, PTL DEF Spec

-----------------------------------------------------------------------------
(* No job is left running with nobody to finish it.                          *)

\* As long as no fault happened, a process under the id of the holder has the
\* job in hand, or its job loop is over.
Accounted(j) ==
  status[j] = "running" /\ faultsLeft = MaxFaults =>
    \E p \in Procs : /\ IdOf[p] = lockedBy[j]
                     /\ (InHand(p) /\ job[p] = j) \/ pc[p] \in {"halted"} \cup Ended

\* What StrandedOnlyByFault is proved from.
AccountedInv == TypeOK /\ \A j \in Jobs : Accounted(j)

\* What a step does to a process that has job j in hand: it still has it, it
\* settled it, or its job loop is over.
LEMMA InHandSteps ==
  ASSUME TypeOK, [Next]_vars, NEW p \in Procs, NEW j \in Jobs, InHand(p), job[p] = j
  PROVE  \/ (InHand(p) /\ job[p] = j)'
         \/ pc'[p] \in {"halted"} \cup Ended
         \/ Settle(p)
         \/ faultsLeft' # MaxFaults
<1> DEFINE Goal == \/ (InHand(p) /\ job[p] = j)'
                   \/ pc'[p] \in {"halted"} \cup Ended
                   \/ Settle(p)
                   \/ faultsLeft' # MaxFaults
<1> USE DEF InHand, Ended
<1>1. ASSUME NEW k \in Jobs, Enqueue(k) \/ RequestCancel(k) PROVE Goal
  BY <1>1 DEF Enqueue, RequestCancel, procs
<1>2. ASSUME NEW q \in Procs, LoopStep(q) PROVE Goal
  <2>1. CASE BootFails(q)
    BY <2>1 DEF BootFails, HaltInError, TypeOK
  <2>2. CASE Boot(q) \/ Wake(q) \/ ZombieTick(q) \/ CheckStop(q) \/ LeaveLoop(q)
    BY <2>2 DEF Boot, Wake, ZombieTick, CheckStop, LeaveLoop, TypeOK
  <2>3. CASE (\E k \in Jobs : Claim(q, k)) \/ SetProgress(q)
    BY <2>3 DEF Claim, SetProgress, procs, TypeOK
  <2>4. ASSUME NEW result \in {"ok", "error", "released"}, Finish(q, result) PROVE Goal
    BY <2>4 DEF Finish, TypeOK
  <2>5. CASE Settle(q)
    BY <2>5 DEF Settle, NextTurn, TypeOK
  <2>6. CASE SettleFails(q)
    BY <2>6, BoundsAssumption DEF SettleFails, TypeOK
  <2>7. CASE ClaimNothing(q) \/ ClaimFails(q)
    BY <2>7 DEF ClaimNothing, ClaimFails, TypeOK
  <2>8. QED
    BY <1>2, <2>1, <2>2, <2>3, <2>4, <2>5, <2>6, <2>7 DEF LoopStep
<1>3. ASSUME NEW q \in Procs, ProcessStep(q) PROVE Goal
  <2>1. CASE Start(q) \/ Beat(q) \/ Stall(q) \/ RequestStop(q)
    BY <2>1 DEF Start, Beat, Stall, RequestStop, TypeOK
  <2>2. CASE Panic(q)
    BY <2>2 DEF Panic, HaltInError, TypeOK
  <2>3. ASSUME NEW code \in Ended, End(q, code) PROVE Goal
    BY <2>3 DEF End, TypeOK
  <2>4. QED
    BY <1>3, <2>1, <2>2, <2>3 DEF ProcessStep, Exit, ForcedExit, Crash
<1>4. CASE Tick \/ UNCHANGED vars
  BY <1>4 DEF Tick, vars, procs
<1>5. QED
  BY <1>1, <1>2, <1>3, <1>4 DEF Next

\* A job loop that is over stays over, and a spent fault stays spent.
LEMMA OverSteps ==
  ASSUME TypeOK, [Next]_vars
  PROVE  /\ \A p \in Procs : pc[p] \in {"halted"} \cup Ended => pc'[p] \in {"halted"} \cup Ended
         /\ faultsLeft' = MaxFaults => faultsLeft = MaxFaults
<1> DEFINE Goal ==
      /\ \A p \in Procs : pc[p] \in {"halted"} \cup Ended => pc'[p] \in {"halted"} \cup Ended
      /\ faultsLeft' = MaxFaults => faultsLeft = MaxFaults
<1> USE BoundsAssumption DEF Ended
<1>1. ASSUME NEW k \in Jobs, Enqueue(k) \/ RequestCancel(k) PROVE Goal
  BY <1>1 DEF Enqueue, RequestCancel, procs
<1>2. ASSUME NEW q \in Procs, LoopStep(q) PROVE Goal
  <2>1. CASE BootFails(q) \/ ClaimNothing(q) \/ ClaimFails(q)
    BY <2>1 DEF BootFails, HaltInError, ClaimNothing, ClaimFails, ExitCode, TypeOK
  <2>2. CASE Boot(q) \/ Wake(q) \/ ZombieTick(q) \/ CheckStop(q) \/ LeaveLoop(q)
    BY <2>2 DEF Boot, Wake, ZombieTick, CheckStop, LeaveLoop, TypeOK
  <2>3. CASE (\E k \in Jobs : Claim(q, k)) \/ SetProgress(q)
    BY <2>3 DEF Claim, SetProgress, procs, TypeOK
  <2>4. ASSUME NEW result \in {"ok", "error", "released"}, Finish(q, result) PROVE Goal
    BY <2>4 DEF Finish, TypeOK
  <2>5. CASE Settle(q) \/ SettleFails(q)
    BY <2>5 DEF Settle, SettleFails, NextTurn, TypeOK
  <2>6. QED
    BY <1>2, <2>1, <2>2, <2>3, <2>4, <2>5 DEF LoopStep
<1>3. ASSUME NEW q \in Procs, ProcessStep(q) PROVE Goal
  <2>1. CASE Start(q) \/ Beat(q) \/ Stall(q) \/ RequestStop(q)
    BY <2>1 DEF Start, Beat, Stall, RequestStop, TypeOK
  <2>2. CASE Panic(q)
    BY <2>2 DEF Panic, HaltInError, TypeOK
  <2>3. ASSUME NEW code \in Ended, End(q, code) PROVE Goal
    BY <2>3 DEF End, TypeOK
  <2>4. QED
    BY <1>3, <2>1, <2>2, <2>3 DEF ProcessStep, Exit, ForcedExit, Crash
<1>4. CASE Tick \/ UNCHANGED vars
  BY <1>4 DEF Tick, vars, procs
<1>5. QED
  BY <1>1, <1>2, <1>3, <1>4 DEF Next

\* A running job keeps its process until it is settled, or a fault happens.
LEMMA AccountedStep == AccountedInv /\ [Next]_vars => AccountedInv'
<1> SUFFICES ASSUME AccountedInv, [Next]_vars, NEW j \in Jobs,
                    status'[j] = "running", faultsLeft' = MaxFaults
             PROVE  \E p \in Procs : /\ IdOf[p] = lockedBy'[j]
                                     /\ \/ (InHand(p) /\ job[p] = j)'
                                        \/ pc'[p] \in {"halted"} \cup Ended
  BY TypeStep DEF AccountedInv, Accounted
<1>0. TypeOK /\ faultsLeft = MaxFaults
  BY OverSteps DEF AccountedInv
<1>1. CASE \E q \in Procs : Claim(q, j)
  BY <1>0, <1>1 DEF Claim, InHand, TypeOK
<1>2. CASE ~\E q \in Procs : Claim(q, j)
  <2>1. status[j] = "running" /\ lockedBy'[j] = lockedBy[j]
    <3>1. CASE \E k \in Jobs : Enqueue(k)
      BY <1>0, <3>1 DEF Enqueue, TypeOK
    <3>2. ASSUME NEW q \in Procs, NEW k \in Jobs, Claim(q, k)
          PROVE  status[j] = "running" /\ lockedBy'[j] = lockedBy[j]
      BY <1>0, <1>2, <3>2 DEF Claim, TypeOK
    <3>3. CASE ReclaimZombieJobs
      BY <1>0, <3>3 DEF ReclaimZombieJobs, RetryOrFail
    <3>4. ASSUME NEW q \in Procs, Settle(q)
          PROVE  status[j] = "running" /\ lockedBy'[j] = lockedBy[j]
      <4>1. PICK s \in {"done", "pending", "failed"}, d \in Delays(job[q]) : GiveBack(q, job[q], s, d)
        BY <3>4, SettleWrites
      <4>2. QED
        BY <1>0, <4>1 DEF GiveBack, TypeOK
    <3>5. QED
      BY <3>1, <3>2, <3>3, <3>4, RowSteps
  <2>2. PICK p \in Procs : /\ IdOf[p] = lockedBy[j]
                           /\ (InHand(p) /\ job[p] = j) \/ pc[p] \in {"halted"} \cup Ended
    BY <1>0, <2>1 DEF AccountedInv, Accounted
  <2>3. CASE pc[p] \in {"halted"} \cup Ended
    BY <1>0, <2>1, <2>2, <2>3, OverSteps
  <2>4. CASE InHand(p) /\ job[p] = j
    <3>1. ~Settle(p)
      <4> SUFFICES ASSUME Settle(p) PROVE FALSE
        OBVIOUS
      <4>1. PICK s \in {"done", "pending", "failed"}, d \in Delays(job[p]) : GiveBack(p, job[p], s, d)
        BY SettleWrites
      <4>2. QED
        BY <1>0, <2>1, <2>2, <2>4, <4>1 DEF GiveBack, Holds, TypeOK
    <3>2. QED
      BY <1>0, <2>1, <2>2, <2>4, <3>1, InHandSteps
  <2>5. QED
    BY <2>2, <2>3, <2>4
<1>3. QED
  BY <1>1, <1>2

\* StrandedOnlyByFault: when no two processes share a worker_id, a row can be
\* stuck in running under a live worker only after a lost write.
THEOREM StrandedOnlyByFaultCorrect ==
  ASSUME UniqueIds PROVE Spec => []StrandedOnlyByFault
<1>1. Init => AccountedInv
  BY InitType DEF Init, AccountedInv, Accounted
<1>2. AccountedInv => StrandedOnlyByFault
  <2> SUFFICES ASSUME AccountedInv, NEW j \in Jobs, Stranded(j), ~(faultsLeft < MaxFaults)
               PROVE  \A p \in Procs : IdOf[p] = lockedBy[j] /\ Alive(p) => pc[p] = "halted"
    BY DEF StrandedOnlyByFault
  <2>1. faultsLeft = MaxFaults /\ status[j] = "running"
    BY BoundsAssumption DEF AccountedInv, TypeOK, Stranded
  <2>2. PICK p \in Procs : IdOf[p] = lockedBy[j] /\ pc[p] \in {"halted"} \cup Ended
    BY <2>1 DEF AccountedInv, Accounted, Stranded
  <2>3. QED
    BY <2>2 DEF UniqueIds, Alive, Serving, Ended
<1>3. QED
  BY <1>1, <1>2, AccountedStep, PTL DEF Spec
=============================================================================
