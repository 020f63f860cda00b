---------------------------- MODULE JobLifecycle ----------------------------
(***************************************************************************)
(* What the `job` table promises to whoever created a row: a job waits, is *)
(* held by one worker at a time, and ends in `done` or `failed`, where it  *)
(* stays.  It only fails once its attempts are used up.  This is the       *)
(* abstract specification that JobQueue implements; nothing here knows of  *)
(* processes, heartbeats, clocks or SQL statements.                        *)
(***************************************************************************)
EXTENDS Naturals

CONSTANTS
  Jobs,         \* the rows of the table
  Holders,      \* who may hold a job
  NoOne,        \* the holder of a job nobody holds
  MaxAttempts   \* job.max_attempts

VARIABLES
  state,        \* job.status, or "absent" before the INSERT
  holder,       \* job.locked_by
  tries         \* job.attempts

vars == <<state, holder, tries>>

Init ==
  /\ state  = [j \in Jobs |-> "absent"]
  /\ holder = [j \in Jobs |-> NoOne]
  /\ tries  = [j \in Jobs |-> 0]

\* The row is inserted.
Submitted(j) ==
  /\ state[j] = "absent" /\ state'[j] = "pending"
  /\ holder'[j] = NoOne
  /\ tries'[j] = tries[j]

\* One holder takes the job; this is where an attempt is counted.
Taken(j) ==
  /\ state[j] = "pending" /\ state'[j] = "running"
  /\ holder'[j] \in Holders
  /\ tries'[j] = tries[j] + 1

\* The holder is rid of the job: it succeeded, it gave up, or it waits again.
Finished(j) ==
  /\ state[j] = "running"
  /\ \/ state'[j] = "done"
     \/ state'[j] = "failed" /\ tries[j] >= MaxAttempts
     \/ state'[j] = "pending"
  /\ holder'[j] = NoOne
  /\ tries'[j] = tries[j]

Kept(j) ==
  /\ state'[j] = state[j]
  /\ holder'[j] = holder[j]
  /\ tries'[j] = tries[j]

\* Every job moves by at most one of these; one SQL statement may move several.
Next == \A j \in Jobs : Submitted(j) \/ Taken(j) \/ Finished(j) \/ Kept(j)

Spec == Init /\ [][Next]_vars
=============================================================================
