--------------------------- MODULE ScoreRunProofs ---------------------------
(***************************************************************************)
(* Theorems about ScoreRun: whatever executions switch together, fail or   *)
(* wait, one run and one axis at most are current, and once there is one   *)
(* readers never find none, which rest on SwitchInv; then what a run       *)
(* publishes, whose rows are complete, and what pages read of it.          *)
(***************************************************************************)
EXTENDS ScoreRun, FiniteSetTheorems, TLAPS

\* The shape of what the switch reads and writes.
Shape ==
  /\ current = [t \in Tables |-> current[t]]
  /\ cleared = [x \in Jobs |-> cleared[x]]
  /\ pc = [x \in Jobs |-> pc[x]]
  /\ file = [x \in Loads |-> file[x]]

\* An execution that is about to commit has made not current all the rows
\* that are, its own aside...
ReadyToCommit ==
  \A x \in Jobs :
    pc[x] = "commit" => current[TableOf(x)] \subseteq cleared[x] \cup {RowOf(x)}

\* ... and is the only one on its table.
OneCommitter ==
  \A x \in Jobs : \A y \in Rivals(x) : pc[x] = "commit" => pc[y] # "commit"

SwitchInv == Shape /\ OneCurrent /\ ReadyToCommit /\ OneCommitter

\* Steps that touch nothing of the switch: x goes to a step that is not its
\* commit, and nobody else moves.
Aside(x) ==
  /\ current' = current
  /\ \/ cleared' = cleared
     \/ cleared' = Without(cleared, x, {})
     \/ cleared' = [cleared EXCEPT ![x] = target[x] \cap current[TableOf(x)]]
  /\ \E step : step # "commit" /\ Goto(x, step)
  /\ \/ file' = file
     \/ file' = Without(file, x, None)
     \/ \E f \in SeedFiles : file' = [file EXCEPT ![x] = f]

-----------------------------------------------------------------------------

\* Its row and its table are those of x as long as nobody else's file changes.
LEMMA TablesOf ==
  ASSUME NEW x \in Jobs
  PROVE  /\ TableOf(x) \in Tables
         /\ \A y \in Rivals(x) : y \in Jobs /\ y # x /\ TableOf(y) = TableOf(x) /\ x \in Rivals(y)
BY DEF TableOf, Tables, Rivals

LEMMA InitSwitch == Init => SwitchInv
<1> SUFFICES ASSUME Init PROVE SwitchInv
  OBVIOUS
<1>1. PICK f \in StartFiles :
        current = [t \in Tables |->
                     IF t = "group_axis" THEN {g.version : g \in {f} \ {None}} ELSE {}]
  BY DEF Init
<1>2. Shape
  BY <1>1 DEF Init, Shape
<1>3. OneCurrent
  BY <1>1 DEF OneCurrent, Tables
<1>4. ReadyToCommit /\ OneCommitter
  BY DEF Init, ReadyToCommit, OneCommitter, Rivals
<1> QED
  BY <1>2, <1>3, <1>4 DEF SwitchInv

\* A step aside keeps the invariant.
LEMMA AsideKeeps ==
  ASSUME SwitchInv, NEW x \in Jobs, Aside(x)
  PROVE  SwitchInv'
<1> USE DEF SwitchInv
<1>1. PICK step : step # "commit" /\ pc' = [pc EXCEPT ![x] = step]
  BY DEF Aside, Goto
<1>2. /\ pc'[x] # "commit"
      /\ \A y \in Jobs \ {x} : pc'[y] = pc[y]
  BY <1>1 DEF Shape
<1>3. \A y \in Jobs \ {x} : cleared'[y] = cleared[y]
  BY DEF Aside, Shape, Without
<1>4. \A y \in Loads \ {x} : file'[y] = file[y]
  BY DEF Aside, Shape, Without
<1>5. \A y \in Jobs \ {x} : RowOf(y)' = RowOf(y) /\ TableOf(y)' = TableOf(y)
  BY <1>4 DEF RowOf, TableOf, Jobs
<1>6. Shape'
  BY <1>1 DEF Aside, Shape, Without
<1>7. OneCurrent'
  BY DEF Aside, OneCurrent
<1>8. ReadyToCommit'
  BY <1>2, <1>3, <1>5 DEF Aside, ReadyToCommit
<1>9. OneCommitter'
  BY <1>2 DEF OneCommitter, Rivals, TableOf
<1> QED
  BY <1>6, <1>7, <1>8, <1>9

\* A commit leaves its own row current and no other.
LEMMA CommitGives ==
  ASSUME SwitchInv, NEW x \in Jobs, CommitSwitch(x)
  PROVE  /\ current'[TableOf(x)] = {RowOf(x)}
         /\ \A t \in Tables \ {TableOf(x)} : current'[t] = current[t]
<1>1. TableOf(x) \in Tables
  BY TablesOf
<1>2. current[TableOf(x)] \subseteq cleared[x] \cup {RowOf(x)}
  BY DEF SwitchInv, ReadyToCommit, CommitSwitch
<1>3. current'[TableOf(x)] = (current[TableOf(x)] \ cleared[x]) \cup {RowOf(x)}
  BY <1>1 DEF CommitSwitch, Switched, SwitchInv, Shape
<1>4. \A t \in Tables \ {TableOf(x)} : current'[t] = current[t]
  BY <1>1 DEF CommitSwitch, Switched, SwitchInv, Shape
<1> QED
  BY <1>2, <1>3, <1>4

\* Hence it keeps the invariant, wherever it goes next.
LEMMA CommitKeeps ==
  ASSUME SwitchInv, NEW x \in Jobs, NEW step, step # "commit",
         CommitSwitch(x), Goto(x, step), file' = file
  PROVE  SwitchInv'
<1>1. /\ current'[TableOf(x)] = {RowOf(x)}
      /\ \A t \in Tables \ {TableOf(x)} : current'[t] = current[t]
  BY CommitGives
<1>2. /\ pc[x] = "commit" /\ pc'[x] # "commit"
      /\ \A y \in Jobs \ {x} : pc'[y] = pc[y] /\ cleared'[y] = cleared[y]
  BY DEF CommitSwitch, Goto, SwitchInv, Shape
<1>3. \A y \in Jobs : RowOf(y)' = RowOf(y) /\ TableOf(y)' = TableOf(y)
  BY DEF RowOf, TableOf
<1>4. Shape'
  BY DEF CommitSwitch, Switched, Goto, SwitchInv, Shape
<1>5. OneCurrent'
  BY <1>1 DEF SwitchInv, OneCurrent
<1>6. ReadyToCommit'
  <2> SUFFICES ASSUME NEW y \in Jobs, pc'[y] = "commit"
               PROVE  current'[TableOf(y)] \subseteq cleared'[y] \cup {RowOf(y)}
    BY <1>3 DEF ReadyToCommit
  <2>1. y # x /\ pc[y] = "commit" /\ cleared'[y] = cleared[y]
    BY <1>2
  <2>2. TableOf(y) # TableOf(x)
    BY <1>2, <2>1 DEF SwitchInv, OneCommitter, Rivals
  <2>3. current'[TableOf(y)] = current[TableOf(y)]
    BY <1>1, <2>2, TablesOf
  <2> QED
    BY <2>1, <2>3 DEF SwitchInv, ReadyToCommit
<1>7. OneCommitter'
  BY <1>2 DEF SwitchInv, OneCommitter, Rivals, TableOf
<1> QED
  BY <1>4, <1>5, <1>6, <1>7 DEF SwitchInv

\* The second UPDATE: the rivals it waited for are not about to commit.
LEMMA SetKeeps ==
  ASSUME SwitchInv, NEW x \in Jobs, Set(x), pc'[x] = "commit"
  PROVE  SwitchInv'
<1>1. /\ \A y \in Rivals(x) : pc[y] # "commit"
      /\ pc[x] = "set"
  BY DEF Set
<1>2. CASE /\ current[TableOf(x)] \subseteq cleared[x] \cup {RowOf(x)}
           /\ Goto(x, "commit") /\ UNCHANGED <<tables, memory>>
  <2>1. /\ current' = current /\ cleared' = cleared /\ file' = file
        /\ \A y \in Jobs \ {x} : pc'[y] = pc[y]
    BY <1>2 DEF tables, memory, Goto, SwitchInv, Shape
  <2>2. Shape' /\ OneCurrent'
    BY <1>2, <2>1 DEF Goto, SwitchInv, Shape, OneCurrent
  <2>3. ReadyToCommit'
    BY <1>2, <2>1 DEF SwitchInv, ReadyToCommit, RowOf, TableOf
  <2>4. OneCommitter'
    BY <1>1, <2>1 DEF SwitchInv, OneCommitter, Rivals, TableOf
  <2> QED
    BY <2>2, <2>3, <2>4 DEF SwitchInv
<1>3. CASE Fail(x)
  BY <1>3 DEF Fail, Goto, SwitchInv, Shape
<1> QED
  BY <1>2, <1>3 DEF Set

\* Nothing of the switch changes.
LEMMA StillKeeps ==
  ASSUME SwitchInv, UNCHANGED <<current, cleared, pc, file>>
  PROVE  SwitchInv'
BY DEF SwitchInv, Shape, OneCurrent, ReadyToCommit, OneCommitter, Rivals, TableOf, RowOf

\* What a failure is to the switch.
LEMMA FailAside ==
  ASSUME SwitchInv, NEW x \in Jobs, Fail(x)
  PROVE  Aside(x)
BY DEF Fail, Forget, Aside, Goto, tables

-----------------------------------------------------------------------------

LEMMA RecomputeKeeps ==
  ASSUME SwitchInv, NEW r \in Recomputes, Recompute(r)
  PROVE  SwitchInv'
<1>0. r \in Jobs
  BY DEF Jobs
<1>1. CASE StartRun(r) \/ ReadAxis(r) \/ ReadThemes(r) \/ EndStage(r) \/ Aim(r) \/ Clear(r)
  BY <1>0, <1>1, AsideKeeps
     DEF StartRun, ReadAxis, ReadThemes, EndStage, AfterStage, Stages, Aim, Clear,
         Aside, Goto, tables, memory
<1>2. CASE Compute(r) \/ Flush(r) \/ StartRefresh(r)
  BY <1>2, StillKeeps DEF Compute, Flush, StartRefresh, tables
<1>3. CASE Set(r)
  <2>1. CASE pc'[r] = "commit"
    BY <1>0, <1>3, <2>1, SetKeeps
  <2>2. CASE pc'[r] # "commit"
    BY <1>0, <1>3, <2>2, FailAside, AsideKeeps DEF Set, Goto, SwitchInv, Shape
  <2> QED
    BY <2>1, <2>2
<1>4. CASE CommitRun(r)
  BY <1>0, <1>4, CommitKeeps DEF CommitRun
<1>5. CASE EndRefresh(r) \/ EndRun(r)
  BY <1>0, <1>5, AsideKeeps DEF EndRefresh, EndRun, Forget, Aside, Goto
<1>6. CASE Fail(r)
  BY <1>0, <1>6, FailAside, AsideKeeps
<1> QED
  BY <1>1, <1>2, <1>3, <1>4, <1>5, <1>6 DEF Recompute

LEMMA LoadKeeps ==
  ASSUME SwitchInv, NEW x \in Loads, Load(x)
  PROVE  SwitchInv'
<1>0. x \in Jobs
  BY DEF Jobs
<1>1. CASE StartLoad(x) \/ Aim(x) \/ Clear(x) \/ EndLoad(x)
  BY <1>0, <1>1, AsideKeeps
     DEF StartLoad, Aim, Clear, EndLoad, Forget, Aside, Goto, tables, memory
<1>2. CASE Estimate(x)
  BY <1>2, StillKeeps DEF Estimate
<1>3. CASE CheckContent(x) \/ InsertVersion(x)
  <2>1. CASE Fail(x)
    BY <1>0, <2>1, FailAside, AsideKeeps
  <2>2. CASE ~ Fail(x)
    BY <1>0, <1>3, <2>2, AsideKeeps
       DEF CheckContent, InsertVersion, Aside, Goto, tables, memory
  <2> QED
    BY <2>1, <2>2
<1>4. CASE Set(x)
  <2>1. CASE pc'[x] = "commit"
    BY <1>0, <1>4, <2>1, SetKeeps
  <2>2. CASE pc'[x] # "commit"
    BY <1>0, <1>4, <2>2, FailAside, AsideKeeps DEF Set, Goto, SwitchInv, Shape
  <2> QED
    BY <2>1, <2>2
<1>5. CASE CommitLoad(x)
  BY <1>0, <1>5, CommitKeeps DEF CommitLoad
<1>6. CASE Fail(x)
  BY <1>0, <1>6, FailAside, AsideKeeps
<1> QED
  BY <1>1, <1>2, <1>3, <1>4, <1>5, <1>6 DEF Load

LEMMA NextKeeps == SwitchInv /\ [Next]_vars => SwitchInv'
<1> SUFFICES ASSUME SwitchInv, [Next]_vars PROVE SwitchInv'
  OBVIOUS
<1>1. CASE \E r \in Recomputes : Recompute(r)
  BY <1>1, RecomputeKeeps
<1>2. CASE \E x \in Loads : Load(x)
  BY <1>2, LoadKeeps
<1>3. CASE SaveLabels
  BY <1>3, StillKeeps DEF SaveLabels, memory
<1>4. CASE UNCHANGED vars
  BY <1>4, StillKeeps DEF vars, tables, memory
<1> QED
  BY <1>1, <1>2, <1>3, <1>4 DEF Next, Act

(* OneCurrent, for any executions: the two UPDATEs of the switch leave one   *)
(* current row at most (recompute_scores.rs:167-177, load_axis).             *)
THEOREM OneCurrentCorrect == Spec => []OneCurrent
<1>1. SwitchInv => OneCurrent
  BY DEF SwitchInv
<1> QED
  BY <1>1, InitSwitch, NextKeeps, PTL DEF Spec

(* StaysPublished, for any executions: readers who found a current run, or a *)
(* current axis, always find one (recompute_scores.rs:165).                  *)
THEOREM StaysPublishedCorrect == Spec => StaysPublished
<1> DEFINE Kept == \A t \in Tables : current[t] # {} => current'[t] # {}
<1>1. ASSUME SwitchInv, NEW x \in Jobs, CommitSwitch(x) PROVE Kept
  BY <1>1, CommitGives
<1>2. ASSUME current' = current PROVE Kept
  BY <1>2
<1>3. ASSUME NEW x \in Jobs, Fail(x) PROVE current' = current
  BY <1>3 DEF Fail, tables
<1>4. ASSUME SwitchInv, NEW r \in Recomputes, Recompute(r) PROVE Kept
  <2>1. CASE CommitRun(r)
    BY <1>1, <1>4, <2>1 DEF CommitRun, Jobs
  <2>2. CASE ~ CommitRun(r)
    BY <1>2, <1>3, <1>4, <2>2
       DEF Recompute, StartRun, ReadAxis, ReadThemes, Compute, Flush, EndStage, Aim, Clear,
           Set, StartRefresh, EndRefresh, EndRun, tables, Jobs
  <2> QED
    BY <2>1, <2>2
<1>5. ASSUME SwitchInv, NEW x \in Loads, Load(x) PROVE Kept
  <2>1. CASE CommitLoad(x)
    BY <1>1, <1>5, <2>1 DEF CommitLoad, Jobs
  <2>2. CASE ~ CommitLoad(x)
    BY <1>2, <1>3, <1>5, <2>2
       DEF Load, StartLoad, CheckContent, InsertVersion, Aim, Clear, Set, Estimate, EndLoad,
           tables, Jobs
  <2> QED
    BY <2>1, <2>2
<1>6. ASSUME SwitchInv, [Next]_vars PROVE [Kept]_vars
  <2>1. CASE SaveLabels
    BY <1>2, <2>1 DEF SaveLabels
  <2> QED
    BY <1>4, <1>5, <1>6, <2>1 DEF Next, Act
<1>7. SwitchInv /\ [Next]_vars => [Kept]_vars
  BY <1>6
<1> QED
  BY <1>7, InitSwitch, NextKeeps, PTL DEF Spec, StaysPublished
-----------------------------------------------------------------------------
(* The contents of a version, and the versions a run reads.                  *)

IsSeed(f) == f \in SeedFiles

\* What is estimated, or about to be, is what group_axis records...
Recorded(e) == content[e.version] # None /\ e.hash = content[e.version]

Switching == {"aim", "clear", "set", "commit"}

\* ... since a load goes on only if its version is recorded with its contents,
\* or is its own to record.
LoadsInOrder ==
  \A x \in Loads :
    /\ pc[x] \in Switching \cup {"check", "insert", "estimate"} => IsSeed(file[x])
    /\ pc[x] \in Switching /\ x \notin inserted => Recorded(file[x])
    /\ pc[x] = "estimate" => Recorded(file[x])

Insertions ==
  /\ inserted \subseteq Loads
  /\ \A x \in inserted : pc[x] \in Switching /\ content[file[x].version] = None
  /\ \A x, y \in inserted : x # y => file[x].version # file[y].version

Shapes ==
  /\ pc = [x \in Jobs |-> pc[x]]
  /\ file = [x \in Loads |-> file[x]]
  /\ content = [v \in Versions |-> content[v]]

ContentInv ==
  /\ Shapes /\ LoadsInOrder /\ Insertions
  /\ \A e \in estimate : Recorded(e)

LEMMA InitContent == Init => ContentInv
<1> SUFFICES ASSUME Init PROVE ContentInv
  OBVIOUS
<1>1. PICK f \in StartFiles :
        /\ content = [v \in Versions |->
                        IF \E g \in {f} \ {None} : g.version = v THEN f.hash ELSE None]
        /\ estimate = UNION {{Estimated(g, s) : s \in Scrutins} : g \in {f} \ {None}}
  BY DEF Init
<1>2. ASSUME NEW e \in estimate PROVE Recorded(e)
  <2>1. f \in SeedFiles /\ e.version = f.version /\ e.hash = f.hash
    BY <1>1, RunAssumption DEF Estimated
  <2>2. f # None /\ f.hash # None /\ f.version \in Versions
    BY <2>1, RunAssumption DEF Versions
  <2> QED
    BY <1>1, <2>1, <2>2 DEF Recorded
<1>3. Shapes
  BY <1>1 DEF Init, Shapes
<1>4. LoadsInOrder /\ Insertions
  BY DEF Init, LoadsInOrder, Insertions, Switching, Jobs
<1> QED
  BY <1>2, <1>3, <1>4 DEF ContentInv

\* Nothing that group_axis, its loads or the estimates hold changes, but the
\* place of a recomputation.
LEMMA OtherJobKeeps ==
  ASSUME ContentInv, UNCHANGED <<content, estimate, file, inserted>>,
         pc' = [x \in Jobs |-> pc'[x]], \A x \in Loads : pc'[x] = pc[x]
  PROVE  ContentInv'
BY DEF ContentInv, Shapes, LoadsInOrder, Insertions, Recorded, IsSeed, Switching

LEMMA RecomputeKeepsContent ==
  ASSUME ContentInv, NEW r \in Recomputes, Recompute(r)
  PROVE  ContentInv'
<1>1. r \notin Loads /\ r \in Jobs
  BY RunAssumption DEF Jobs
<1>2. \A value : Without(file, r, value) = file
  BY <1>1 DEF Without, ContentInv, Shapes
<1>3. inserted \ {r} = inserted
  BY <1>1 DEF ContentInv, Insertions
<1>4. content' = content /\ estimate' = estimate
  BY DEF Recompute, StartRun, ReadAxis, ReadThemes, Compute, Flush, EndStage, Aim, Clear, Set,
         CommitRun, StartRefresh, EndRefresh, EndRun, Fail, tables
<1>5. file' = file /\ inserted' = inserted
  BY <1>2, <1>3
     DEF Recompute, StartRun, ReadAxis, ReadThemes, Compute, Flush, EndStage, Aim, Clear, Set,
         CommitRun, StartRefresh, EndRefresh, EndRun, Fail, Forget, memory
<1>6. pc' = pc \/ \E step : Goto(r, step)
  BY DEF Recompute, StartRun, ReadAxis, ReadThemes, Compute, Flush, EndStage, Aim, Clear, Set,
         CommitRun, StartRefresh, EndRefresh, EndRun, Fail
<1>7. pc' = [x \in Jobs |-> pc'[x]] /\ \A x \in Loads : pc'[x] = pc[x]
  <2>1. pc = [x \in Jobs |-> pc[x]] /\ \A x \in Loads : x \in Jobs /\ x # r
    BY <1>1 DEF ContentInv, Shapes, Jobs
  <2>2. CASE pc' = pc
    BY <2>1, <2>2
  <2>3. ASSUME NEW step, Goto(r, step)
        PROVE  pc' = [x \in Jobs |-> pc'[x]] /\ \A x \in Loads : pc'[x] = pc[x]
    BY <1>1, <2>1, <2>3 DEF Goto
  <2> QED
    BY <1>6, <2>2, <2>3
<1> QED
  BY <1>4, <1>5, <1>7, OtherJobKeeps

\* A load moves on, or fails, without a change of what is recorded.
LEMMA StepKeepsContent ==
  ASSUME ContentInv, NEW x \in Loads, NEW step, Goto(x, step),
         UNCHANGED <<content, estimate>>,
         \/ UNCHANGED <<file, inserted>>
         \/ file' = Without(file, x, None) /\ inserted' = inserted \ {x},
         \/ step \in {"done", "failed"} /\ inserted' = inserted \ {x}
         \/ /\ step \in Switching \cup {"insert"} /\ file' = file /\ inserted' = inserted
            /\ pc[x] \in Switching \cup {"check"}
            /\ step \in Switching => pc[x] \in Switching \/ Recorded(file[x])
            /\ step = "insert" => x \notin inserted
  PROVE  ContentInv'
<1>1. x \in Jobs
  BY DEF Jobs
<1>2. pc'[x] = step /\ \A y \in Jobs \ {x} : pc'[y] = pc[y]
  BY <1>1 DEF Goto, ContentInv, Shapes
<1>3. \A y \in Loads \ {x} : file'[y] = file[y]
  BY DEF Without, ContentInv, Shapes
<1>4. Shapes'
  BY DEF Goto, Without, ContentInv, Shapes
<1>5. LoadsInOrder'
  BY <1>1, <1>2, <1>3 DEF ContentInv, LoadsInOrder, Recorded, IsSeed, Switching, Jobs
<1>6. Insertions'
  BY <1>1, <1>2, <1>3 DEF ContentInv, Insertions, Switching, Jobs
<1>7. \A e \in estimate' : Recorded(e)'
  BY DEF ContentInv, Recorded
<1> QED
  BY <1>4, <1>5, <1>6, <1>7 DEF ContentInv

LEMMA LoadKeepsContent ==
  ASSUME ContentInv, NEW x \in Loads, Load(x)
  PROVE  ContentInv'
<1>1. x \in Jobs
  BY DEF Jobs
<1>2. CASE Fail(x) \/ EndLoad(x)
  BY <1>2, StepKeepsContent DEF Fail, EndLoad, Forget, tables
<1>3. CASE Aim(x) \/ Clear(x)
  BY <1>3, StepKeepsContent DEF Aim, Clear, Switching, tables
<1>4. CASE Set(x)
  BY <1>2, <1>4, StepKeepsContent DEF Set, Switching, tables, memory
<1>5. CASE CheckContent(x)
  <2>1. CASE Fail(x)
    BY <1>2, <2>1
  <2>2. CASE /\ content[file[x].version] \in {None, file[x].hash} /\ pc[x] = "check"
             /\ Goto(x, IF content[file[x].version] = None THEN "insert" ELSE "aim")
             /\ UNCHANGED <<tables, memory>>
    <3>1. x \notin inserted
      BY <2>2 DEF ContentInv, Insertions, Switching
    <3>2. CASE content[file[x].version] = None
      BY <2>2, <3>1, <3>2, StepKeepsContent DEF Switching, tables, memory
    <3>3. CASE content[file[x].version] # None
      BY <2>2, <3>3, StepKeepsContent DEF Recorded, Switching, tables, memory
    <3> QED
      BY <3>2, <3>3
  <2> QED
    BY <1>5, <2>1, <2>2 DEF CheckContent
<1>6. CASE StartLoad(x)
  <2>1. PICK f \in SeedFiles : file' = [file EXCEPT ![x] = f]
    BY <1>6 DEF StartLoad
  <2>2. /\ pc' = [pc EXCEPT ![x] = "check"] /\ pc[x] = "new"
        /\ content' = content /\ estimate' = estimate /\ inserted' = inserted
    BY <1>6 DEF StartLoad, Goto, tables
  <2>3. Shapes'
    BY <2>1, <2>2 DEF ContentInv, Shapes
  <2>4. file'[x] = f /\ pc'[x] = "check"
    BY <1>1, <2>1, <2>2 DEF ContentInv, Shapes
  <2>5. \A y \in Loads \ {x} : file'[y] = file[y] /\ pc'[y] = pc[y] /\ y \in Jobs
    BY <2>1, <2>2 DEF ContentInv, Shapes, Jobs
  <2>6. LoadsInOrder'
    BY <2>2, <2>4, <2>5 DEF ContentInv, LoadsInOrder, Recorded, IsSeed, Switching
  <2>7. x \notin inserted
    BY <2>2 DEF ContentInv, Insertions, Switching
  <2>8. Insertions'
    BY <2>2, <2>5, <2>7 DEF ContentInv, Insertions
  <2> QED
    BY <2>2, <2>3, <2>6, <2>8 DEF ContentInv, Recorded
<1>7. CASE InsertVersion(x) /\ ~ Fail(x)
  <2>1. /\ pc[x] = "insert" /\ pc' = [pc EXCEPT ![x] = "aim"]
        /\ inserted' = inserted \cup {x} /\ content[file[x].version] = None
        /\ \A y \in inserted : file[y].version # file[x].version
        /\ content' = content /\ estimate' = estimate /\ file' = file
    BY <1>7 DEF InsertVersion, Goto, tables
  <2>2. Shapes'
    BY <2>1 DEF ContentInv, Shapes
  <2>3. pc'[x] = "aim" /\ \A y \in Loads \ {x} : pc'[y] = pc[y] /\ y \in Jobs
    BY <1>1, <2>1 DEF ContentInv, Shapes, Jobs
  <2>4. LoadsInOrder'
    BY <2>1, <2>3 DEF ContentInv, LoadsInOrder, Recorded, IsSeed, Switching
  <2>5. Insertions'
    BY <2>1, <2>3 DEF ContentInv, Insertions, Switching
  <2> QED
    BY <2>1, <2>2, <2>4, <2>5 DEF ContentInv, Recorded
<1>8. CASE CommitLoad(x)
  <2> DEFINE v == file[x].version
  <2>1. /\ pc[x] = "commit" /\ pc' = [pc EXCEPT ![x] = "estimate"]
        /\ content' = IF x \in inserted THEN [content EXCEPT ![v] = file[x].hash] ELSE content
        /\ inserted' = inserted \ {x} /\ estimate' = estimate /\ file' = file
    BY <1>8 DEF CommitLoad, CommitSwitch, Goto
  <2>2. file[x] \in SeedFiles /\ v \in Versions /\ file[x].hash # None
    BY <2>1, RunAssumption DEF ContentInv, LoadsInOrder, IsSeed, Switching, Versions
  <2>3. Recorded(file[x])'
    <3>1. CASE x \in inserted
      BY <2>1, <2>2, <3>1 DEF Recorded, ContentInv, Shapes
    <3>2. CASE x \notin inserted
      BY <2>1, <3>2 DEF Recorded, ContentInv, LoadsInOrder, Switching
    <3> QED
      BY <3>1, <3>2
  <2>4. \A w : content[w] # None => content'[w] = content[w]
    BY <2>1 DEF ContentInv, Insertions, Shapes
  <2>5. \A e : Recorded(e) => Recorded(e)'
    BY <2>4 DEF Recorded
  <2>6. Shapes'
    BY <2>1 DEF ContentInv, Shapes
  <2>7. pc'[x] = "estimate" /\ \A y \in Loads \ {x} : pc'[y] = pc[y] /\ y \in Jobs
    BY <1>1, <2>1 DEF ContentInv, Shapes, Jobs
  <2>8. LoadsInOrder'
    <3> SUFFICES ASSUME NEW y \in Loads
                 PROVE  /\ pc'[y] \in Switching \cup {"check", "insert", "estimate"} => IsSeed(file'[y])
                        /\ pc'[y] \in Switching /\ y \notin inserted' => Recorded(file[y])'
                        /\ pc'[y] = "estimate" => Recorded(file[y])'
      BY <2>1 DEF LoadsInOrder, Recorded, IsSeed
    <3>1. CASE y = x
      BY <2>1, <2>2, <2>3, <2>7, <3>1 DEF IsSeed, Switching
    <3>2. CASE y # x
      <4>1. pc'[y] = pc[y] /\ (y \in inserted' <=> y \in inserted) /\ file'[y] = file[y]
        BY <2>1, <2>7, <3>2
      <4>2. Recorded(file[y]) => Recorded(file[y])'
        BY <2>1, <2>4 DEF Recorded
      <4> QED
        BY <4>1, <4>2 DEF ContentInv, LoadsInOrder, IsSeed
    <3> QED
      BY <3>1, <3>2
  <2>9. Insertions'
    <3>1. \A y \in inserted' : y \in inserted /\ y # x /\ pc'[y] = pc[y]
      BY <2>1, <2>7 DEF ContentInv, Insertions
    <3>2. \A y \in inserted' : content'[file[y].version] = None
      BY <2>1, <3>1 DEF ContentInv, Insertions, Shapes
    <3> QED
      BY <2>1, <3>1, <3>2 DEF ContentInv, Insertions
  <2> QED
    BY <2>1, <2>4, <2>6, <2>8, <2>9 DEF ContentInv, Recorded
<1>9. CASE Estimate(x)
  <2>1. /\ pc[x] = "estimate" /\ UNCHANGED <<content, pc, file, inserted>>
        /\ \E s : estimate' \subseteq estimate \cup {Estimated(file[x], s)}
    BY <1>9 DEF Estimate
  <2>2. \A e \in estimate' : Recorded(e)
    BY <2>1 DEF ContentInv, LoadsInOrder, Recorded, Estimated
  <2> QED
    BY <2>1, <2>2 DEF ContentInv, Shapes, LoadsInOrder, Insertions, Recorded, IsSeed
<1> QED
  BY <1>2, <1>3, <1>4, <1>5, <1>6, <1>7, <1>8, <1>9 DEF Load

LEMMA NextKeepsContent == ContentInv /\ [Next]_vars => ContentInv'
<1> SUFFICES ASSUME ContentInv, [Next]_vars PROVE ContentInv'
  OBVIOUS
<1>1. CASE \E r \in Recomputes : Recompute(r)
  BY <1>1, RecomputeKeepsContent
<1>2. CASE \E x \in Loads : Load(x)
  BY <1>2, LoadKeepsContent
<1>3. CASE SaveLabels \/ UNCHANGED vars
  BY <1>3, OtherJobKeeps DEF SaveLabels, vars, tables, memory, ContentInv, Shapes
<1> QED
  BY <1>1, <1>2, <1>3 DEF Next, Act

(* OneContentPerVersion, for any executions: whoever loads a version, and    *)
(* whatever its file became, estimates rest on the contents recorded for it  *)
(* (label_scrutins_heuristic.rs:207-266).                                    *)
THEOREM OneContentPerVersionCorrect == Spec => []OneContentPerVersion
<1>1. ContentInv => OneContentPerVersion
  BY DEF ContentInv, Recorded, OneContentPerVersion
<1> QED
  BY <1>1, InitContent, NextKeepsContent, PTL DEF Spec
-----------------------------------------------------------------------------

\* A row rests on measures that are recorded...
Rests(x) == \A e \in x.basis : Recorded(e)

\* ... all of one version.
SameVersion(X) ==
  \A x, y \in X : \A e \in x.basis, f \in y.basis : e.version = f.version

OfVersion(X, v) == \A x \in X : \A e \in x.basis : e.version = v

\* What a run has inserted, and what it has computed, is of the version it read
\* before it inserted anything.
OwnRows(r) ==
  /\ \A x \in rows[r] : Rests(x)
  /\ SameVersion(rows[r])
  /\ pc[r] \in {"new", "axis", "themes"} => rows[r] = {} /\ todo[r] = None
  /\ pc[r] \in Stages => OfVersion(rows[r], version[r])
  /\ pc[r] \in Stages /\ todo[r] # None =>
       OfVersion(todo[r], version[r]) /\ \A x \in todo[r] : Rests(x)

RunShapes ==
  /\ pc = [x \in Jobs |-> pc[x]]
  /\ rows = [r \in Recomputes |-> rows[r]]
  /\ todo = [x \in Jobs |-> todo[x]]
  /\ version = [r \in Recomputes |-> version[r]]

RunInv == RunShapes /\ \A r \in Recomputes : OwnRows(r)

LEMMA InitRun == Init => RunInv
BY DEF Init, RunInv, RunShapes, OwnRows, Rests, SameVersion, OfVersion, Stages, Jobs

\* What a stage computes rests on estimates of the version of the run.
LEMMA StageRows ==
  ASSUME NEW r, NEW x \in PersonRows(r) \cup GroupeRows(r) \cup MandatRows(r)
  PROVE  x.basis \subseteq {e \in estimate : e.version = version[r]}
<1> DEFINE Own == {e \in estimate : e.version = version[r]}
<1>1. \A t : Measured(r, t) \subseteq Own
  BY DEF Measured
<1>2. \A t : Weigh(t, Measured(r, t)) \subseteq Own
  BY <1>1 DEF Weigh
<1>3. \A t : During(Weigh(t, Measured(r, t))) \subseteq Own
  BY <1>2 DEF During
<1>4. ASSUME NEW name, NEW t, NEW basis, x = Row(name, t, basis) PROVE x.basis = basis
  BY <1>4 DEF Row
<1>5. CASE x \in PersonRows(r)
  <2> DEFINE Enough(t) == Cardinality(Weigh(t, Measured(r, t))) >= ContributionsMin
             Proofs == UNION {{Row("contribution", t, {e}) : e \in Measured(r, t)} :
                                t \in eligible[r]}
             Scores == {Row("person", t, Weigh(t, Measured(r, t))) : t \in {u \in eligible[r] : Enough(u)}}
  <2>1. PersonRows(r) = Proofs \cup Scores
    BY Zenon DEF PersonRows
  <2>2. CASE x \in Proofs
    <3>1. PICK t : x \in {Row("contribution", t, {e}) : e \in Measured(r, t)}
      BY <2>2, Zenon
    <3>2. PICK e \in Measured(r, t) : x = Row("contribution", t, {e})
      BY <3>1, Zenon
    <3> QED
      BY <1>1, <1>4, <3>2
  <2>3. CASE x \in Scores
    <3>1. PICK t : x = Row("person", t, Weigh(t, Measured(r, t)))
      BY <2>3, Zenon
    <3> QED
      BY <1>2, <1>4, <3>1
  <2> HIDE DEF Proofs, Scores
  <2> QED
    BY <1>5, <2>1, <2>2, <2>3
<1>6. CASE x \in GroupeRows(r)
  <2>1. PICK t : x = Row("groupe", t, Weigh(t, Measured(r, t)))
    BY <1>6, Zenon DEF GroupeRows
  <2> QED
    BY <1>2, <1>4, <2>1
<1>7. CASE x \in MandatRows(r)
  <2>1. PICK t : x = Row("mandat", t, During(Weigh(t, Measured(r, t))))
    BY <1>7, Zenon DEF MandatRows
  <2> QED
    BY <1>3, <1>4, <2>1
<1> QED
  BY <1>5, <1>6, <1>7

\* What is recorded stays.
LEMMA RecordedStays ==
  ASSUME ContentInv, [Act]_vars
  PROVE  \A e : Recorded(e) => Recorded(e)'
<1>1. CASE \E r \in Recomputes : Recompute(r)
  <2>1. content' = content
    BY <1>1 DEF Recompute, StartRun, ReadAxis, ReadThemes, Compute, Flush, EndStage, Aim, Clear,
                Set, CommitRun, StartRefresh, EndRefresh, EndRun, Fail, tables
  <2> QED
    BY <2>1 DEF Recorded
<1>2. ASSUME NEW x \in Loads, Load(x) PROVE \A e : Recorded(e) => Recorded(e)'
  <2>1. CASE CommitLoad(x)
    BY <2>1 DEF CommitLoad, ContentInv, Insertions, Shapes, Recorded
  <2>2. CASE ~ CommitLoad(x)
    <3>1. content' = content
      BY <1>2, <2>2 DEF Load, StartLoad, CheckContent, InsertVersion, Aim, Clear, Set, Estimate,
                        EndLoad, Fail, tables
    <3> QED
      BY <3>1 DEF Recorded
  <2> QED
    BY <2>1, <2>2
<1>3. CASE SaveLabels \/ UNCHANGED vars
  BY <1>3 DEF SaveLabels, vars, tables, Recorded
<1> QED
  BY <1>1, <1>2, <1>3 DEF Next, Act

\* Neither a load nor an admin writes what a run is about.
LEMMA OthersKeepRun ==
  ASSUME ContentInv, RunInv, [Act]_vars, UNCHANGED <<rows, version>>,
         pc' = [x \in Jobs |-> pc'[x]], todo' = [x \in Jobs |-> todo'[x]],
         \A r \in Recomputes : pc'[r] = pc[r] /\ todo'[r] = todo[r]
  PROVE  RunInv'
<1>1. \A x : Rests(x) => Rests(x)'
  BY RecordedStays DEF Rests
<1> QED
  BY <1>1 DEF RunInv, RunShapes, OwnRows, SameVersion, OfVersion

\* A step of a run concerns its own rows.
LEMMA OwnStepKeepsRun ==
  ASSUME RunInv, NEW r \in Recomputes, content' = content, RunShapes', OwnRows(r)',
         \A q \in Recomputes \ {r} : /\ rows'[q] = rows[q] /\ todo'[q] = todo[q]
                                     /\ pc'[q] = pc[q] /\ version'[q] = version[q]
  PROVE  RunInv'
<1>1. \A x : Rests(x) => Rests(x)'
  BY DEF Rests, Recorded
<1>2. ASSUME NEW q \in Recomputes \ {r} PROVE OwnRows(q)'
  BY <1>1 DEF RunInv, OwnRows, SameVersion, OfVersion
<1> QED
  BY <1>2 DEF RunInv

LEMMA LoadKeepsRun ==
  ASSUME ContentInv, RunInv, NEW x \in Loads, Load(x)
  PROVE  RunInv'
<1>1. x \in Jobs /\ x \notin Recomputes /\ \A r \in Recomputes : r \in Jobs /\ r # x
  BY RunAssumption DEF Jobs
<1>2. rows' = rows
  BY DEF Load, StartLoad, CheckContent, InsertVersion, Aim, Clear, Set, CommitLoad, Estimate,
         EndLoad, Fail, tables
<1>3. version' = version
  <2>1. Without(version, x, None) = version
    BY <1>1 DEF Without, RunInv, RunShapes
  <2> QED
    BY <2>1 DEF Load, StartLoad, CheckContent, InsertVersion, Aim, Clear, Set, CommitLoad,
                Estimate, EndLoad, Fail, Forget, memory
<1>4. pc' = pc \/ \E step : pc' = [pc EXCEPT ![x] = step]
  BY DEF Load, StartLoad, CheckContent, InsertVersion, Aim, Clear, Set, CommitLoad, Estimate,
         EndLoad, Fail, Goto
<1>5. \/ todo' = todo \/ todo' = Without(todo, x, None)
      \/ \E set : todo' = [todo EXCEPT ![x] = set]
  BY DEF Load, StartLoad, CheckContent, InsertVersion, Aim, Clear, Set, CommitLoad, Estimate,
         EndLoad, Fail, Forget, memory
<1>6. pc' = [y \in Jobs |-> pc'[y]] /\ \A r \in Recomputes : pc'[r] = pc[r]
  BY <1>1, <1>4 DEF RunInv, RunShapes
<1>7. todo' = [y \in Jobs |-> todo'[y]] /\ \A r \in Recomputes : todo'[r] = todo[r]
  BY <1>1, <1>5 DEF RunInv, RunShapes, Without
<1> QED
  BY <1>2, <1>3, <1>6, <1>7, OthersKeepRun DEF Act

\* A step of the run that inserts nothing: before the stages it reads, between
\* them it drops what it computed, after them it forgets.
QuietStep(r, step) ==
  /\ UNCHANGED <<rows, content>> /\ Goto(r, step)
  /\ \/ /\ step \in {"axis", "themes"} /\ pc[r] \in {"new", "axis"} /\ todo' = todo
        /\ version' = version \/ \E v : version' = [version EXCEPT ![r] = v]
     \/ /\ step \in Stages /\ version' = version
        /\ \/ pc[r] = "themes" /\ todo' = todo
           \/ pc[r] \in Stages /\ todo' = [todo EXCEPT ![r] = None]
     \/ /\ step \notin Stages \cup {"new", "axis", "themes"}
        /\ todo' = todo \/ todo' = Without(todo, r, None) \/ todo' = [todo EXCEPT ![r] = None]
        /\ version' = version \/ version' = Without(version, r, None)

LEMMA QuietStepKeepsRun ==
  ASSUME ContentInv, RunInv, NEW r \in Recomputes, NEW step, QuietStep(r, step)
  PROVE  RunInv'
<1>1. r \in Jobs /\ \A q \in Recomputes \ {r} : q \in Jobs
  BY DEF Jobs
<1> USE DEF RunInv, RunShapes
<1>2. pc'[r] = step /\ \A q \in Recomputes \ {r} : pc'[q] = pc[q]
  BY <1>1 DEF QuietStep, Goto
<1>3. \A q \in Recomputes \ {r} : version'[q] = version[q] /\ todo'[q] = todo[q]
  BY <1>1 DEF QuietStep, Without
<1>4. pc' = [x \in Jobs |-> pc'[x]]
  BY <1>1 DEF QuietStep, Goto
<1>5. todo' = [x \in Jobs |-> todo'[x]]
  BY <1>1 DEF QuietStep, Without
<1>6. version' = [q \in Recomputes |-> version'[q]]
  BY DEF QuietStep, Without
<1>7. \A x : Rests(x) => Rests(x)'
  BY DEF QuietStep, Rests, Recorded
<1>8. step \in Stages => todo'[r] = None /\ OfVersion(rows[r], version'[r])
  BY <1>1 DEF QuietStep, OwnRows, OfVersion, Stages
<1>9. step \in {"axis", "themes"} => rows[r] = {} /\ todo'[r] = None
  BY DEF QuietStep, OwnRows, Stages
<1>10. step # "new" /\ rows' = rows /\ content' = content
  BY DEF QuietStep, Stages
<1>11. OwnRows(r)'
  BY <1>2, <1>7, <1>8, <1>9, <1>10 DEF OwnRows, SameVersion, OfVersion
<1> QED
  BY <1>2, <1>3, <1>4, <1>5, <1>6, <1>10, <1>11, OwnStepKeepsRun

LEMMA RecomputeKeepsRun ==
  ASSUME ContentInv, RunInv, NEW r \in Recomputes, Recompute(r)
  PROVE  RunInv'
<1>1. r \in Jobs /\ \A q \in Recomputes \ {r} : q \in Jobs
  BY DEF Jobs
<1>2. CASE StartRun(r) \/ ReadAxis(r)
  <2>1. QuietStep(r, "axis") \/ QuietStep(r, "themes")
    BY <1>2 DEF StartRun, ReadAxis, QuietStep, tables, memory
  <2> QED
    BY <2>1, QuietStepKeepsRun
<1>3. CASE ReadThemes(r)
  <2>1. QuietStep(r, "aim") \/ QuietStep(r, "person")
    BY <1>3 DEF ReadThemes, QuietStep, Stages, tables
  <2> QED
    BY <2>1, QuietStepKeepsRun
<1>4. CASE Fail(r) \/ EndRun(r)
  <2>1. QuietStep(r, "failed") \/ QuietStep(r, "done")
    BY <1>4 DEF Fail, EndRun, Forget, QuietStep, Stages, tables
  <2> QED
    BY <2>1, QuietStepKeepsRun
<1>5. CASE EndStage(r)
  <2>1. AfterStage(r) \in {"groupe", "mandat", "aim"}
    BY <1>5 DEF EndStage, AfterStage, Stages
  <2>2. QuietStep(r, AfterStage(r))
    BY <1>5, <2>1 DEF EndStage, QuietStep, Stages, tables
  <2> QED
    BY <2>2, QuietStepKeepsRun
<1>6. CASE Aim(r) \/ Clear(r) \/ CommitRun(r) \/ EndRefresh(r)
  <2>1. \E step : step \in {"clear", "set", "view person", "view mandat", "counters"}
                  /\ QuietStep(r, step)
    BY <1>6 DEF Aim, Clear, CommitRun, EndRefresh, QuietStep, Stages, tables
  <2> QED
    BY <2>1, QuietStepKeepsRun
<1>7. CASE Set(r)
  <2>1. Fail(r) \/ QuietStep(r, "commit")
    BY <1>7 DEF Set, QuietStep, Stages, tables, memory
  <2> QED
    BY <1>4, <2>1, QuietStepKeepsRun
<1>8. CASE Compute(r)
  <2>1. PICK computed :
          /\ computed \in {PersonRows(r), GroupeRows(r), MandatRows(r)}
          /\ todo' = [todo EXCEPT ![r] = computed]
    BY <1>8 DEF Compute, Stages
  <2>2. /\ pc' = pc /\ rows' = rows /\ version' = version /\ content' = content
        /\ pc[r] \in Stages
    BY <1>8 DEF Compute, tables
  <2>3. /\ todo'[r] = computed /\ todo' = [x \in Jobs |-> todo'[x]]
        /\ \A q \in Recomputes \ {r} : todo'[q] = todo[q]
    BY <1>1, <2>1 DEF RunInv, RunShapes
  <2>4. OfVersion(computed, version[r]) /\ \A x \in computed : Rests(x)
    BY <2>1, StageRows DEF OfVersion, Rests, ContentInv
  <2>5. \A x : Rests(x) => Rests(x)'
    BY <2>2 DEF Rests, Recorded
  <2>6. OwnRows(r)'
    BY <2>2, <2>3, <2>4, <2>5 DEF RunInv, OwnRows, SameVersion, OfVersion, Stages
  <2> QED
    BY <2>2, <2>3, <2>6, OwnStepKeepsRun DEF RunInv, RunShapes
<1>9. CASE Flush(r)
  <2>1. /\ pc' = pc /\ version' = version /\ content' = content
        /\ pc[r] \in Stages /\ todo[r] # None
    BY <1>9 DEF Flush
  <2>2. PICK batch \in SUBSET todo[r] :
          /\ rows' = [rows EXCEPT ![r] = @ \cup batch]
          /\ todo' = [todo EXCEPT ![r] = @ \ batch]
    BY <1>9 DEF Flush
  <2>3. /\ rows'[r] = rows[r] \cup batch /\ todo'[r] = todo[r] \ batch
        /\ \A q \in Recomputes \ {r} : rows'[q] = rows[q] /\ todo'[q] = todo[q]
        /\ todo' = [x \in Jobs |-> todo'[x]] /\ rows' = [q \in Recomputes |-> rows'[q]]
    BY <1>1, <2>2 DEF RunInv, RunShapes
  <2>4. OfVersion(rows'[r], version[r]) /\ \A x \in rows'[r] : Rests(x)
    BY <2>1, <2>3 DEF RunInv, OwnRows, OfVersion
  <2>5. OfVersion(todo'[r], version[r]) /\ \A x \in todo'[r] : Rests(x)
    BY <2>1, <2>3 DEF RunInv, OwnRows, OfVersion
  <2>6. SameVersion(rows'[r])
    BY <2>4 DEF OfVersion, SameVersion
  <2>7. \A x : Rests(x) => Rests(x)'
    BY <2>1 DEF Rests, Recorded
  <2>8. OwnRows(r)'
    BY <2>1, <2>4, <2>5, <2>6, <2>7 DEF OwnRows, SameVersion, OfVersion, Stages
  <2> QED
    BY <2>1, <2>3, <2>8, OwnStepKeepsRun DEF RunInv, RunShapes
<1>10. CASE StartRefresh(r)
  <2>1. UNCHANGED <<rows, version, pc, todo, content>>
    BY <1>10 DEF StartRefresh, tables
  <2> QED
    BY <2>1 DEF RunInv, RunShapes, OwnRows, SameVersion, OfVersion, Rests, Recorded
<1> QED
  BY <1>2, <1>3, <1>4, <1>5, <1>6, <1>7, <1>8, <1>9, <1>10 DEF Recompute

LEMMA NextKeepsRun == ContentInv /\ RunInv /\ [Next]_vars => RunInv'
<1> SUFFICES ASSUME ContentInv, RunInv, [Next]_vars PROVE RunInv'
  OBVIOUS
<1>1. CASE \E r \in Recomputes : Recompute(r)
  BY <1>1, RecomputeKeepsRun
<1>2. CASE \E x \in Loads : Load(x)
  BY <1>2, LoadKeepsRun
<1>3. CASE SaveLabels \/ UNCHANGED vars
  BY <1>3, OthersKeepRun DEF Act, SaveLabels, vars, tables, memory, RunInv, RunShapes
<1> QED
  BY <1>1, <1>2, <1>3 DEF Next, Act

(* OneVersionPerRun, for any executions: a run that fails, ends or is        *)
(* overtaken by a new axis has all its rows from one version with one        *)
(* content (recompute_scores.rs:119).                                        *)
THEOREM OneVersionPerRunCorrect == Spec => []OneVersionPerRun
<1>1. RunInv => OneVersionPerRun
  BY DEF RunInv, OwnRows, OneVersionPerRun, SameVersion, Rests, Recorded
<1> QED
  BY <1>1, InitContent, NextKeepsContent, InitRun, NextKeepsRun, PTL DEF Spec

-----------------------------------------------------------------------------
(* What a score run publishes: its rows are complete, the views follow it,   *)
(* and what a page reads from both agrees.                                   *)

\* What the tables hold.
Measures == [version : Versions, scrutin : Scrutins, hash : {f.hash : f \in SeedFiles}]
ScoreRows == [table : {"contribution", "person", "groupe", "mandat"},
              theme : Themes, basis : SUBSET Measures]

\* The value of each execution, in each variable that has one.
Functions ==
  /\ pc = [x \in Jobs |-> pc[x]]
  /\ todo = [x \in Jobs |-> todo[x]]
  /\ target = [x \in Jobs |-> target[x]]
  /\ cleared = [x \in Jobs |-> cleared[x]]
  /\ rows = [r \in Recomputes |-> rows[r]]
  /\ counters = [r \in Recomputes |-> counters[r]]
  /\ eligible = [r \in Recomputes |-> eligible[r]]
  /\ snapshot = [r \in Recomputes |-> snapshot[r]]

\* What a step of x leaves alone.
Frame(x) ==
  /\ \A y \in Jobs \ {x} : /\ pc'[y] = pc[y] /\ todo'[y] = todo[y]
                           /\ target'[y] = target[y] /\ cleared'[y] = cleared[y]
  /\ \A r \in Recomputes \ {x} : /\ rows'[r] = rows[r] /\ counters'[r] = counters[r]
                                 /\ eligible'[r] = eligible[r] /\ snapshot'[r] = snapshot[r]

LEMMA RecomputeFrame ==
  ASSUME Functions, NEW r \in Recomputes, Recompute(r)
  PROVE  Functions' /\ Frame(r)
<1>0. r \in Jobs /\ Recomputes \subseteq Jobs
  BY DEF Jobs
<1>1. CASE StartRun(r) \/ ReadAxis(r) \/ ReadThemes(r) \/ EndStage(r)
  BY <1>0, <1>1 DEF StartRun, ReadAxis, ReadThemes, EndStage, Goto, tables, memory, Functions, Frame
<1>2. CASE Compute(r) \/ Flush(r)
  BY <1>0, <1>2 DEF Compute, Flush, tables, Functions, Frame
<1>3. CASE Fail(r)
  BY <1>0, <1>3 DEF Fail, Goto, Forget, Without, tables, Functions, Frame
<1>4. CASE Aim(r) \/ Clear(r)
  BY <1>0, <1>4 DEF Aim, Clear, Goto, tables, Functions, Frame
<1>5. CASE Set(r)
  BY <1>0, <1>3, <1>5 DEF Set, Goto, tables, memory, Functions, Frame
<1>6. CASE CommitRun(r)
  BY <1>0, <1>6 DEF CommitRun, CommitSwitch, Goto, Functions, Frame
<1>7. CASE StartRefresh(r) \/ EndRefresh(r)
  BY <1>0, <1>7 DEF StartRefresh, EndRefresh, Goto, tables, Functions, Frame
<1>8. CASE EndRun(r)
  BY <1>0, <1>8 DEF EndRun, Goto, Forget, Without, Functions, Frame
<1> QED
  BY <1>1, <1>2, <1>3, <1>4, <1>5, <1>6, <1>7, <1>8 DEF Recompute

LEMMA LoadFrame ==
  ASSUME Functions, NEW x \in Loads, Load(x)
  PROVE  Functions' /\ Frame(x) /\ UNCHANGED <<label, rows, counters, eligible, snapshot, personView, mandatView>>
<1>0. x \in Jobs /\ Recomputes \subseteq Jobs /\ x \notin Recomputes
  BY RunAssumption DEF Jobs
<1>1. /\ \A value : Without(snapshot, x, value) = snapshot
      /\ \A value : Without(eligible, x, value) = eligible
  BY <1>0 DEF Without, Functions
<1>2. CASE StartLoad(x) \/ (InsertVersion(x) /\ ~ Fail(x)) \/ (CheckContent(x) /\ ~ Fail(x))
  BY <1>0, <1>2 DEF StartLoad, InsertVersion, CheckContent, Goto, tables, memory, Functions, Frame
<1>3. CASE Fail(x) \/ EndLoad(x)
  BY <1>0, <1>1, <1>3 DEF Fail, EndLoad, Goto, Forget, Without, tables, Functions, Frame
<1>4. CASE Aim(x) \/ Clear(x)
  BY <1>0, <1>4 DEF Aim, Clear, Goto, tables, Functions, Frame
<1>5. CASE Set(x)
  BY <1>0, <1>3, <1>5 DEF Set, Goto, tables, memory, Functions, Frame
<1>6. CASE CommitLoad(x)
  BY <1>0, <1>6 DEF CommitLoad, CommitSwitch, Goto, Functions, Frame
<1>7. CASE Estimate(x)
  BY <1>0, <1>7 DEF Estimate, Functions, Frame
<1> QED
  BY <1>2, <1>3, <1>4, <1>5, <1>6, <1>7 DEF Load
-----------------------------------------------------------------------------
(* The rows a stage computes.                                                *)

LEMMA RowFields ==
  ASSUME NEW name, NEW t, NEW basis
  PROVE  /\ Row(name, t, basis).table = name
         /\ Row(name, t, basis).theme = t
         /\ Row(name, t, basis).basis = basis
BY DEF Row

\* Each measure gives a contribution, and enough of those that weigh a score.
LEMMA PersonRowsAre ==
  ASSUME NEW r, NEW x
  PROVE  x \in PersonRows(r) <=>
           \/ \E t \in eligible[r] : \E e \in Measured(r, t) : x = Row("contribution", t, {e})
           \/ \E t \in eligible[r] : /\ Cardinality(Weigh(t, Measured(r, t))) >= ContributionsMin
                                     /\ x = Row("person", t, Weigh(t, Measured(r, t)))
<1> DEFINE Enough(t) == Cardinality(Weigh(t, Measured(r, t))) >= ContributionsMin
           Proofs == UNION {{Row("contribution", t, {e}) : e \in Measured(r, t)} : t \in eligible[r]}
           Scores == {Row("person", t, Weigh(t, Measured(r, t))) : t \in {u \in eligible[r] : Enough(u)}}
<1>1. PersonRows(r) = Proofs \cup Scores
  BY Zenon DEF PersonRows
<1>2. x \in Proofs <=> \E t \in eligible[r] : \E e \in Measured(r, t) : x = Row("contribution", t, {e})
  <2>1. ASSUME x \in Proofs
        PROVE  \E t \in eligible[r] : \E e \in Measured(r, t) : x = Row("contribution", t, {e})
    <3>1. PICK t \in eligible[r] : x \in {Row("contribution", t, {e}) : e \in Measured(r, t)}
      BY <2>1, Zenon
    <3> QED
      BY <3>1, Zenon
  <2>2. ASSUME NEW t \in eligible[r], NEW e \in Measured(r, t), x = Row("contribution", t, {e})
        PROVE  x \in Proofs
    <3>1. x \in {Row("contribution", t, {d}) : d \in Measured(r, t)}
      BY <2>2, Zenon
    <3> QED
      BY <3>1, Zenon
  <2> QED
    BY <2>1, <2>2, Zenon
<1>3. x \in Scores <=> \E t \in eligible[r] : Enough(t) /\ x = Row("person", t, Weigh(t, Measured(r, t)))
  BY Zenon
<1> HIDE DEF Proofs, Scores
<1> QED
  BY <1>1, <1>2, <1>3

LEMMA LaterRowsAre ==
  ASSUME NEW r, NEW x \in GroupeRows(r) \cup MandatRows(r)
  PROVE  \E t \in eligible[r] : \E basis : x = Row("groupe", t, basis) \/ x = Row("mandat", t, basis)
<1>1. CASE x \in GroupeRows(r)
  <2>1. PICK t \in eligible[r] : x = Row("groupe", t, Weigh(t, Measured(r, t)))
    BY <1>1, Zenon DEF GroupeRows
  <2> QED
    BY <1>1, <2>1
<1>2. CASE x \in MandatRows(r)
  <2>1. PICK t \in eligible[r] : x = Row("mandat", t, During(Weigh(t, Measured(r, t))))
    BY <1>2, Zenon DEF MandatRows
  <2> QED
    BY <1>2, <2>1
<1> QED
  BY <1>1, <1>2

\* They have the types of the tables, if what they are computed from has.
LEMMA StageTyped ==
  ASSUME NEW r, eligible[r] \subseteq Themes, estimate \subseteq Measures
  PROVE  PersonRows(r) \cup GroupeRows(r) \cup MandatRows(r) \subseteq ScoreRows
<1> SUFFICES ASSUME NEW x \in PersonRows(r) \cup GroupeRows(r) \cup MandatRows(r)
             PROVE  x \in ScoreRows
  OBVIOUS
<1>1. x.basis \in SUBSET Measures
  BY StageRows
<1>2. ASSUME NEW name \in {"contribution", "person", "groupe", "mandat"}, NEW t \in eligible[r],
             NEW basis, x = Row(name, t, basis)
      PROVE  x \in ScoreRows
  <2>1. basis \in SUBSET Measures
    BY <1>1, <1>2, RowFields
  <2> QED
    BY <1>2, <2>1 DEF Row, ScoreRows
<1>3. CASE x \in PersonRows(r)
  <2>1. \/ \E t \in eligible[r] : \E e \in Measured(r, t) : x = Row("contribution", t, {e})
        \/ \E t \in eligible[r] : x = Row("person", t, Weigh(t, Measured(r, t)))
    BY <1>3, PersonRowsAre, Zenon
  <2> QED
    BY <1>2, <2>1
<1>4. CASE x \in GroupeRows(r) \cup MandatRows(r)
  <2>1. \E t \in eligible[r] : \E basis : x = Row("groupe", t, basis) \/ x = Row("mandat", t, basis)
    BY <1>4, LaterRowsAre
  <2> QED
    BY <1>2, <2>1
<1> QED
  BY <1>3, <1>4

-----------------------------------------------------------------------------
(* The types of what executions read, compute and write.                     *)

RunTyped(r) ==
  /\ rows[r] \subseteq ScoreRows
  /\ eligible[r] \subseteq Themes
  /\ todo[r] # None => todo[r] \subseteq ScoreRows
  /\ snapshot[r] # None => pc[r] \in {"view person", "view mandat"}

LoadTyped(x) == pc[x] = "estimate" => todo[x] \subseteq Scrutins

TypeInv ==
  /\ Functions
  /\ label \subseteq Themes \X Scrutins
  /\ estimate \subseteq Measures
  /\ \A r \in Recomputes : RunTyped(r)
  /\ \A x \in Loads : LoadTyped(x)

LEMMA EstimatedTyped ==
  ASSUME NEW f \in SeedFiles, NEW s \in Scrutins
  PROVE  Estimated(f, s) \in Measures
<1>1. f.version \in Versions /\ f.hash \in {g.hash : g \in SeedFiles}
  BY DEF Versions
<1> QED
  BY <1>1 DEF Estimated, Measures

LEMMA InitTypes == Init => TypeInv
<1> SUFFICES ASSUME Init PROVE TypeInv
  OBVIOUS
<1>1. PICK f \in StartFiles :
        estimate = UNION {{Estimated(g, s) : s \in Scrutins} : g \in {f} \ {None}}
  BY DEF Init
<1>2. ASSUME NEW e \in estimate PROVE e \in Measures
  <2>1. f \in SeedFiles /\ e \in {Estimated(f, s) : s \in Scrutins}
    BY <1>1, RunAssumption
  <2>2. PICK s \in Scrutins : e = Estimated(f, s)
    BY <2>1, Zenon
  <2> QED
    BY <2>1, <2>2, EstimatedTyped
<1>3. Functions /\ label \subseteq Themes \X Scrutins
  BY RunAssumption DEF Init, Functions
<1>4. \A r \in Recomputes : RunTyped(r)
  BY DEF Init, RunTyped, Jobs
<1>5. \A x \in Loads : LoadTyped(x)
  BY DEF Init, LoadTyped, Jobs
<1> QED
  BY <1>2, <1>3, <1>4, <1>5 DEF TypeInv

LEMMA RecomputeKeepsTypes ==
  ASSUME TypeInv, NEW r \in Recomputes, Recompute(r)
  PROVE  TypeInv'
<1>0. r \in Jobs /\ r \notin Loads /\ Loads \subseteq Jobs /\ Recomputes \subseteq Jobs
  BY RunAssumption DEF Jobs
<1>1. Functions' /\ Frame(r)
  BY RecomputeFrame DEF TypeInv
<1>2. label' = label /\ estimate' = estimate
  BY DEF Recompute, StartRun, ReadAxis, ReadThemes, Compute, Flush, EndStage, Aim, Clear, Set,
         CommitRun, StartRefresh, EndRefresh, EndRun, Fail, tables
<1>3. \A x \in Loads : LoadTyped(x)'
  BY <1>0, <1>1 DEF Frame, TypeInv, LoadTyped
<1>4. \A q \in Recomputes \ {r} : RunTyped(q)'
  BY <1>0, <1>1 DEF Frame, TypeInv, RunTyped
<1>5. RunTyped(r)'
  <2> USE <1>0 DEF TypeInv, RunTyped, Functions
  <2>1. CASE StartRun(r) \/ ReadAxis(r) \/ EndStage(r) \/ Aim(r) \/ Clear(r)
    BY <2>1 DEF StartRun, ReadAxis, EndStage, Aim, Clear, Goto, Stages, tables, memory
  <2>2. CASE ReadThemes(r)
    BY <2>2 DEF ReadThemes, Goto, tables
  <2>3. CASE Compute(r)
    <3>1. todo'[r] \in {PersonRows(r), GroupeRows(r), MandatRows(r)}
      BY <2>3 DEF Compute, Stages
    <3>2. PersonRows(r) \cup GroupeRows(r) \cup MandatRows(r) \subseteq ScoreRows
      BY StageTyped
    <3> QED
      BY <2>3, <3>1, <3>2 DEF Compute, tables
  <2>4. CASE Flush(r)
    <3>1. PICK batch \in SUBSET todo[r] : rows'[r] = rows[r] \cup batch /\ todo'[r] = todo[r] \ batch
      BY <2>4 DEF Flush
    <3>2. todo[r] # None /\ UNCHANGED <<eligible, snapshot, pc>>
      BY <2>4 DEF Flush
    <3> QED
      BY <3>1, <3>2
  <2>5. CASE Fail(r)
    BY <2>5 DEF Fail, Forget, Without, tables
  <2>6. CASE Set(r)
    BY <2>5, <2>6 DEF Set, Goto, tables, memory
  <2>7. CASE CommitRun(r)
    BY <2>7 DEF CommitRun, CommitSwitch, Goto
  <2>8. CASE StartRefresh(r) \/ EndRefresh(r)
    BY <2>8 DEF StartRefresh, EndRefresh, Views, Goto, tables
  <2>9. CASE EndRun(r)
    BY <2>9 DEF EndRun, Forget, Without
  <2> QED
    BY <2>1, <2>2, <2>3, <2>4, <2>5, <2>6, <2>7, <2>8, <2>9 DEF Recompute
<1> QED
  BY <1>1, <1>2, <1>3, <1>4, <1>5 DEF TypeInv

LEMMA LoadKeepsTypes ==
  ASSUME TypeInv, ContentInv, NEW x \in Loads, Load(x)
  PROVE  TypeInv'
<1>0. x \in Jobs /\ x \notin Recomputes /\ Loads \subseteq Jobs /\ Recomputes \subseteq Jobs
  BY RunAssumption DEF Jobs
<1>1. /\ Functions' /\ Frame(x)
      /\ UNCHANGED <<label, rows, counters, eligible, snapshot, personView, mandatView>>
  BY LoadFrame DEF TypeInv
<1>2. \A r \in Recomputes : RunTyped(r)'
  BY <1>0, <1>1 DEF Frame, TypeInv, RunTyped
<1>3. \A y \in Loads \ {x} : LoadTyped(y)'
  BY <1>0, <1>1 DEF Frame, TypeInv, LoadTyped
<1>4. CASE Estimate(x)
  <2>1. PICK s \in todo[x] : /\ estimate' = {e \in estimate : e.version # Estimated(file[x], s).version
                                                              \/ e.scrutin # s}
                                            \cup {Estimated(file[x], s)}
                             /\ todo' = [todo EXCEPT ![x] = @ \ {s}]
    BY <1>4 DEF Estimate
  <2>2. s \in Scrutins /\ file[x] \in SeedFiles /\ pc' = pc
    BY <1>4 DEF Estimate, TypeInv, LoadTyped, ContentInv, LoadsInOrder, IsSeed
  <2>3. Estimated(file[x], s) \in Measures
    BY <2>2, EstimatedTyped
  <2>4. estimate' \subseteq Measures
    BY <2>1, <2>3 DEF TypeInv
  <2>5. LoadTyped(x)'
    BY <1>0, <2>1, <2>2 DEF TypeInv, LoadTyped, Functions
  <2> QED
    BY <1>1, <1>2, <1>3, <2>4, <2>5 DEF TypeInv
<1>5. CASE ~ Estimate(x)
  <2>1. estimate' = estimate
    BY <1>5 DEF Load, StartLoad, CheckContent, InsertVersion, Aim, Clear, Set, CommitLoad, EndLoad,
                Fail, tables
  <2>2. CASE CommitLoad(x)
    <3>1. todo'[x] = Scrutins
      BY <1>0, <2>2 DEF CommitLoad, TypeInv, Functions
    <3> QED
      BY <1>1, <1>2, <1>3, <2>1, <3>1 DEF TypeInv, LoadTyped
  <2>3. CASE ~ CommitLoad(x)
    <3>1. pc'[x] # "estimate"
      BY <1>0, <1>5, <2>3
         DEF Load, StartLoad, CheckContent, InsertVersion, Aim, Clear, Set, EndLoad, Fail, Goto,
             TypeInv, Functions
    <3> QED
      BY <1>1, <1>2, <1>3, <2>1, <3>1 DEF TypeInv, LoadTyped
  <2> QED
    BY <2>2, <2>3
<1> QED
  BY <1>4, <1>5

LEMMA NextKeepsTypes == TypeInv /\ ContentInv /\ [Next]_vars => TypeInv'
<1> SUFFICES ASSUME TypeInv, ContentInv, [Next]_vars PROVE TypeInv'
  OBVIOUS
<1>1. CASE \E r \in Recomputes : Recompute(r)
  BY <1>1, RecomputeKeepsTypes
<1>2. CASE \E x \in Loads : Load(x)
  BY <1>2, LoadKeepsTypes
<1>3. CASE SaveLabels
  <2>1. PICK s \in Scrutins, T \in SUBSET Themes : label' = {l \in label : l[2] # s} \cup (T \X {s})
    BY <1>3 DEF SaveLabels
  <2>2. label' \subseteq Themes \X Scrutins
    BY <2>1 DEF TypeInv
  <2> QED
    BY <1>3, <2>2 DEF SaveLabels, memory, TypeInv, Functions, RunTyped, LoadTyped
<1>4. CASE UNCHANGED vars
  BY <1>4 DEF vars, tables, memory, TypeInv, Functions, RunTyped, LoadTyped
<1> QED
  BY <1>1, <1>2, <1>3, <1>4 DEF Next, Act
-----------------------------------------------------------------------------
(* The locks of the switch: the rows an execution made not current are its   *)
(* own until it commits.                                                     *)

OwnLocks(x) ==
  /\ target[x] # {} => pc[x] \in InSwitch
  /\ cleared[x] # {} => pc[x] \in {"set", "commit"}
  /\ cleared[x] \subseteq current[TableOf(x)]

Apart(x, y) == cleared[x] \cap cleared[y] = {}

LockInv ==
  /\ \A x \in Jobs : OwnLocks(x)
  /\ \A x \in Jobs : \A y \in Rivals(x) : Apart(x, y)
  /\ current["score_run"] \subseteq Recomputes
  /\ \A v \in current["group_axis"] : content[v] # None

LEMMA InitLocks == Init => LockInv
<1> SUFFICES ASSUME Init PROVE LockInv
  OBVIOUS
<1>1. PICK f \in StartFiles :
        /\ content = [v \in Versions |->
                        IF \E g \in {f} \ {None} : g.version = v THEN f.hash ELSE None]
        /\ current = [t \in Tables |->
                        IF t = "group_axis" THEN {g.version : g \in {f} \ {None}} ELSE {}]
  BY DEF Init
<1>2. current["score_run"] = {} /\ current["group_axis"] = {g.version : g \in {f} \ {None}}
  BY <1>1 DEF Tables
<1>3. ASSUME NEW v \in current["group_axis"] PROVE content[v] # None
  <2>1. f \in SeedFiles /\ f # None /\ v = f.version
    BY <1>2, <1>3, RunAssumption
  <2>2. f.hash # None /\ v \in Versions
    BY <2>1, RunAssumption DEF Versions
  <2> QED
    BY <1>1, <2>1, <2>2
<1>4. \A x \in Jobs : target[x] = {} /\ cleared[x] = {}
  BY DEF Init
<1> QED
  BY <1>2, <1>3, <1>4 DEF LockInv, OwnLocks, Apart, Rivals

\* A step of x that commits nothing and clears nothing: what it held it keeps,
\* or all of it goes.
LEMMA StepKeepsLocks ==
  ASSUME LockInv, NEW x \in Jobs, Frame(x), current' = current,
         \A v : content[v] # None => content'[v] # None,
         OwnLocks(x)', cleared'[x] \subseteq cleared[x]
  PROVE  LockInv'
<1>1. \A y \in Jobs \ {x} : OwnLocks(y)'
  BY DEF Frame, LockInv, OwnLocks, TableOf
<1>2. \A y \in Jobs : cleared'[y] \subseteq cleared[y]
  BY DEF Frame
<1>3. \A y \in Jobs : \A z \in Rivals(y) : Apart(y, z)'
  BY <1>2, TablesOf DEF LockInv, Apart
<1>4. Rivals(x)' = Rivals(x)
  BY DEF Rivals, TableOf
<1> QED
  BY <1>1, <1>3 DEF LockInv, Rivals, TableOf

\* The first UPDATE waits for those who hold one of its rows.
LEMMA ClearKeepsLocks ==
  ASSUME LockInv, Functions, NEW x \in Jobs, Frame(x), Clear(x)
  PROVE  LockInv'
<1>1. /\ cleared'[x] = target[x] \cap current[TableOf(x)]
      /\ target' = target /\ pc'[x] = "set" /\ current' = current /\ content' = content
  BY DEF Clear, Functions, Goto, tables
<1>2. \A y \in Rivals(x) : cleared[y] \cap target[x] = {}
  BY DEF Clear
<1>3. OwnLocks(x)'
  BY <1>1 DEF OwnLocks, InSwitch, TableOf
<1>4. \A y \in Jobs \ {x} : OwnLocks(y)'
  BY <1>1 DEF Frame, LockInv, OwnLocks, TableOf
<1>5. \A y \in Rivals(x) : Apart(x, y)' /\ Apart(y, x)'
  BY <1>1, <1>2, TablesOf DEF Frame, Apart
<1>6. \A y \in Jobs \ {x} : \A z \in Rivals(y) \ {x} : Apart(y, z)'
  BY TablesOf DEF Frame, LockInv, Apart
<1>7. \A y \in Jobs : \A z \in Rivals(y) : Apart(y, z)'
  BY <1>5, <1>6, TablesOf
<1> QED
  BY <1>1, <1>3, <1>4, <1>7 DEF LockInv, Rivals, TableOf

\* The commit takes away rows that nobody else holds, and holds none any more.
LEMMA CommitKeepsLocks ==
  ASSUME LockInv, Functions, Shape, NEW x \in Jobs, Frame(x), CommitSwitch(x),
         x \in Loads => content'[file[x].version] # None,
         \A v : content[v] # None => content'[v] # None
  PROVE  LockInv'
<1>1. TableOf(x) \in Tables
  BY TablesOf
<1>2. /\ current'[TableOf(x)] = (current[TableOf(x)] \ cleared[x]) \cup {RowOf(x)}
      /\ \A t \in Tables \ {TableOf(x)} : current'[t] = current[t]
  BY <1>1 DEF CommitSwitch, Switched, Shape
<1>3. target'[x] = {} /\ cleared'[x] = {}
  BY DEF CommitSwitch, Functions
<1>4. ASSUME NEW y \in Jobs \ {x} PROVE OwnLocks(y)'
  <2>1. cleared'[y] = cleared[y] /\ target'[y] = target[y] /\ pc'[y] = pc[y] /\ OwnLocks(y)
    BY DEF Frame, LockInv
  <2>2. cleared[y] \subseteq current'[TableOf(y)]
    <3>1. CASE TableOf(y) = TableOf(x)
      <4>1. Apart(x, y)
        BY <3>1 DEF LockInv, Rivals
      <4> QED
        BY <1>2, <2>1, <3>1, <4>1 DEF Apart, OwnLocks
    <3>2. CASE TableOf(y) # TableOf(x)
      BY <1>2, <2>1, <3>2, TablesOf DEF OwnLocks
    <3> QED
      BY <3>1, <3>2
  <2> QED
    BY <2>1, <2>2 DEF OwnLocks, TableOf
<1>5. OwnLocks(x)'
  BY <1>3 DEF OwnLocks
<1>6. \A y \in Jobs : \A z \in Rivals(y) : Apart(y, z)'
  <2>1. \A y \in Jobs : cleared'[y] \subseteq cleared[y]
    BY <1>3 DEF Frame
  <2> QED
    BY <2>1, TablesOf DEF LockInv, Apart
<1>7. current'["score_run"] \subseteq Recomputes /\ \A v \in current'["group_axis"] : content'[v] # None
  <2>1. CASE x \in Recomputes
    BY <1>2, <2>1 DEF LockInv, TableOf, RowOf, Tables
  <2>2. CASE x \notin Recomputes
    <3>1. x \in Loads /\ TableOf(x) = "group_axis" /\ RowOf(x) = file[x].version
      BY <2>2 DEF TableOf, RowOf, Jobs
    <3> QED
      BY <1>2, <3>1 DEF LockInv, Tables
  <2> QED
    BY <2>1, <2>2
<1> QED
  BY <1>4, <1>5, <1>6, <1>7 DEF LockInv, Rivals, TableOf

\* A version that has contents keeps contents.
LEMMA ContentStays ==
  ASSUME ContentInv, [Act]_vars
  PROVE  \A v : content[v] # None => content'[v] # None
<1> SUFFICES ASSUME NEW v, content[v] # None PROVE content'[v] # None
  OBVIOUS
<1>1. PICK e : e.version = v /\ e.hash = content[v]
  <2>1. [version |-> v, hash |-> content[v]].version = v /\ [version |-> v, hash |-> content[v]].hash = content[v]
    OBVIOUS
  <2> QED
    BY <2>1
<1>2. Recorded(e)
  BY <1>1 DEF Recorded
<1>3. Recorded(e)'
  BY <1>2, RecordedStays
<1> QED
  BY <1>1, <1>3 DEF Recorded

\* What both jobs do on the way to their commit, or to a failure.
LEMMA SwitchKeepsLocks ==
  ASSUME LockInv, Functions, NEW x \in Jobs, Frame(x),
         \A v : content[v] # None => content'[v] # None,
         Fail(x) \/ Aim(x) \/ Clear(x) \/ Set(x)
  PROVE  LockInv'
<1>1. OwnLocks(x)
  BY DEF LockInv
<1>2. CASE Fail(x)
  <2>1. current' = current /\ target'[x] = {} /\ cleared'[x] = {}
    BY <1>2 DEF Fail, Forget, Without, Functions, tables
  <2>2. OwnLocks(x)' /\ cleared'[x] \subseteq cleared[x]
    BY <2>1 DEF OwnLocks
  <2> QED
    BY <2>1, <2>2, StepKeepsLocks
<1>3. CASE Aim(x)
  <2>1. current' = current /\ cleared' = cleared /\ pc[x] = "aim" /\ pc'[x] = "clear"
    BY <1>3 DEF Aim, Goto, Functions, tables
  <2>2. OwnLocks(x)'
    BY <1>1, <2>1 DEF OwnLocks, InSwitch, TableOf
  <2> QED
    BY <2>1, <2>2, StepKeepsLocks
<1>4. CASE Clear(x)
  BY <1>4, ClearKeepsLocks
<1>5. CASE (Set(x) /\ ~ Fail(x))
  <2>1. /\ current' = current /\ cleared' = cleared /\ target' = target
        /\ pc'[x] = "commit"
    BY <1>5 DEF Set, Goto, Functions, tables, memory
  <2>2. OwnLocks(x)'
    BY <1>1, <2>1 DEF OwnLocks, InSwitch, TableOf
  <2> QED
    BY <2>1, <2>2, StepKeepsLocks
<1> QED
  BY <1>2, <1>3, <1>4, <1>5

\* Outside of the switch nothing is held.
LEMMA OutsideKeepsLocks ==
  ASSUME LockInv, NEW x \in Jobs, Frame(x), current' = current,
         \A v : content[v] # None => content'[v] # None,
         pc[x] \notin InSwitch,
         target'[x] \in {target[x], {}}, cleared'[x] \in {cleared[x], {}}
  PROVE  LockInv'
<1>1. target'[x] = {} /\ cleared'[x] = {}
  BY DEF LockInv, OwnLocks, InSwitch
<1>2. OwnLocks(x)' /\ cleared'[x] \subseteq cleared[x]
  BY <1>1 DEF OwnLocks
<1> QED
  BY <1>2, StepKeepsLocks

LEMMA RecomputeKeepsLocks ==
  ASSUME LockInv, TypeInv, SwitchInv, ContentInv, NEW r \in Recomputes, Recompute(r)
  PROVE  LockInv'
<1>1. Functions /\ Shape /\ Frame(r) /\ r \in Jobs /\ r \notin Loads
  BY RecomputeFrame, RunAssumption DEF TypeInv, SwitchInv, Jobs
<1>2. \A v : content[v] # None => content'[v] # None
  BY ContentStays DEF Act
<1>3. CASE Fail(r) \/ Aim(r) \/ Clear(r) \/ Set(r)
  BY <1>1, <1>2, <1>3, SwitchKeepsLocks
<1>4. CASE CommitRun(r)
  <2>1. CommitSwitch(r)
    BY <1>4 DEF CommitRun
  <2> QED
    BY <1>1, <1>2, <2>1, CommitKeepsLocks
<1>5. CASE \/ StartRun(r) \/ ReadAxis(r) \/ ReadThemes(r) \/ Compute(r) \/ Flush(r) \/ EndStage(r)
           \/ StartRefresh(r) \/ EndRefresh(r) \/ EndRun(r)
  <2>1. /\ current' = current /\ pc[r] \notin InSwitch
        /\ target'[r] \in {target[r], {}} /\ cleared'[r] \in {cleared[r], {}}
    BY <1>1, <1>5
       DEF StartRun, ReadAxis, ReadThemes, Compute, Flush, EndStage, StartRefresh, EndRefresh, EndRun,
           Views, Forget, Without, Stages, InSwitch, tables, memory, Functions
  <2> QED
    BY <1>1, <1>2, <2>1, OutsideKeepsLocks
<1> QED
  BY <1>3, <1>4, <1>5 DEF Recompute

LEMMA LoadKeepsLocks ==
  ASSUME LockInv, TypeInv, SwitchInv, ContentInv, NEW x \in Loads, Load(x)
  PROVE  LockInv'
<1>1. Functions /\ Shape /\ Frame(x) /\ x \in Jobs
  BY LoadFrame DEF TypeInv, SwitchInv, Jobs
<1>2. \A v : content[v] # None => content'[v] # None
  BY ContentStays DEF Act
<1>3. CASE Fail(x) \/ Aim(x) \/ Clear(x) \/ Set(x)
  BY <1>1, <1>2, <1>3, SwitchKeepsLocks
<1>4. CASE CommitLoad(x)
  <2>1. CommitSwitch(x) /\ pc[x] = "commit"
    BY <1>4 DEF CommitLoad, CommitSwitch
  <2>2. content'[file[x].version] # None
    <3>1. file[x] \in SeedFiles /\ (x \notin inserted => content[file[x].version] # None)
      BY <2>1 DEF ContentInv, LoadsInOrder, Switching, IsSeed, Recorded
    <3>2. file[x].version \in Versions /\ file[x].hash # None
      BY <3>1, RunAssumption DEF Versions
    <3>3. x \in inserted => content' = [content EXCEPT ![file[x].version] = file[x].hash]
      BY <1>4 DEF CommitLoad
    <3> QED
      BY <1>2, <3>1, <3>2, <3>3 DEF ContentInv, Shapes
  <2> QED
    BY <1>1, <1>2, <2>1, <2>2, CommitKeepsLocks
<1>5. CASE \/ StartLoad(x) \/ (CheckContent(x) /\ ~ Fail(x)) \/ (InsertVersion(x) /\ ~ Fail(x))
           \/ Estimate(x) \/ EndLoad(x)
  <2>1. /\ current' = current /\ pc[x] \notin InSwitch
        /\ target'[x] \in {target[x], {}} /\ cleared'[x] \in {cleared[x], {}}
    BY <1>1, <1>5
       DEF StartLoad, CheckContent, InsertVersion, Estimate, EndLoad, Forget, Without, InSwitch,
           tables, memory, Functions
  <2> QED
    BY <1>1, <1>2, <2>1, OutsideKeepsLocks
<1> QED
  BY <1>3, <1>4, <1>5 DEF Load

LEMMA NextKeepsLocks ==
  LockInv /\ TypeInv /\ SwitchInv /\ ContentInv /\ [Next]_vars => LockInv'
<1> SUFFICES ASSUME LockInv, TypeInv, SwitchInv, ContentInv, [Next]_vars PROVE LockInv'
  OBVIOUS
<1>1. CASE \E r \in Recomputes : Recompute(r)
  BY <1>1, RecomputeKeepsLocks
<1>2. CASE \E x \in Loads : Load(x)
  BY <1>2, LoadKeepsLocks
<1>3. CASE SaveLabels \/ UNCHANGED vars
  BY <1>3 DEF SaveLabels, vars, tables, memory, LockInv, OwnLocks, Apart, Rivals, TableOf
<1> QED
  BY <1>1, <1>2, <1>3 DEF Next, Act

(* TypeOK, for any executions: nothing that an execution holds outlives its  *)
(* transaction, and no row is made not current by two (load_axis,            *)
(* recompute_scores.rs:167-177).                                             *)
THEOREM ScoreTypesCorrect == Spec => []TypeOK
<1>1. ASSUME TypeInv, LockInv, ContentInv PROVE TypeOK
  <2>1. \A e \in Measures : IsEstimate(e)
    BY DEF Measures, IsEstimate
  <2>2. \A x \in ScoreRows : x.theme \in Themes /\ x.basis \subseteq Measures
    BY DEF ScoreRows
  <2>3. \A r \in Recomputes : \A x \in rows[r] : x.theme \in Themes /\ \A e \in x.basis : IsEstimate(e)
    BY <1>1, <2>1, <2>2 DEF TypeInv, RunTyped
  <2>4. \A x \in inserted : pc[x] = "aim" \/ pc[x] \in InSwitch
    BY <1>1 DEF ContentInv, Insertions, Switching, InSwitch
  <2> QED
    BY <1>1, <2>1, <2>3, <2>4 DEF TypeInv, RunTyped, LockInv, OwnLocks, TypeOK, Views
<1>2. TypeInv /\ LockInv /\ ContentInv => TypeOK
  BY <1>1
<1> QED
  BY <1>2, InitSwitch, NextKeeps, InitContent, NextKeepsContent, InitTypes, NextKeepsTypes,
     InitLocks, NextKeepsLocks, PTL DEF Spec
-----------------------------------------------------------------------------
(* The views: a refresh that no switch has overtaken writes what the current *)
(* run has.                                                                  *)

Published == {"view person", "view mandat", "counters", "done", "failed"}

\* What each view is about.
About(view) == IF view = "view person" THEN "person" ELSE "mandat"
Shows(view) == IF view = "view person" THEN personView ELSE mandatView

Settled(r, view) == view \in late \/ Shows(view) = Table(r, About(view))

\* A run switches before its refreshes; once it is past a view, the view holds
\* its rows, or was filled late.
Follows(r) ==
  /\ pc[r] \in Published
  /\ pc[r] \in {"view mandat", "counters"} \/ counters[r] # None => Settled(r, "view person")
  /\ pc[r] = "counters" \/ counters[r] # None => Settled(r, "view mandat")

\* A refresh under way, if not overtaken, is about to write the current rows.
Timely(q) ==
  snapshot[q] # None /\ q \notin overtaken =>
    \A r \in current["score_run"] : snapshot[q] = Table(r, About(pc[q]))

CountersLast == \A r \in Recomputes : counters[r] # None => pc[r] = "done"

ViewInv ==
  /\ \A r \in current["score_run"] : Follows(r)
  /\ \A q \in Recomputes : Timely(q)
  /\ CountersLast

LEMMA InitViews == Init => ViewInv
BY DEF Init, ViewInv, Timely, CountersLast, Tables

\* A step that ends no refresh leaves what is late.
LEMMA NoFill ==
  ASSUME Watch, \A r \in Recomputes : ~ Fills(r, "view person") /\ ~ Fills(r, "view mandat")
  PROVE  \A view \in Views : view \in late' <=> view \in late
BY DEF Watch, Views

\* What a refresh reads is what the current run has.
LEMMA ViewedIsCurrent ==
  ASSUME SwitchInv, NEW r \in current["score_run"], NEW name
  PROVE  Viewed(name) = Table(r, name)
<1>1. current["score_run"] = {r}
  BY DEF SwitchInv, OneCurrent, Tables
<1> QED
  BY <1>1 DEF Viewed

\* A step that leaves the runs, the switch and the views: every refresh goes
\* on, ends without filling, or starts now.
LEMMA ElsewhereKeepsViews ==
  ASSUME ViewInv, TypeInv, SwitchInv, Watch, current["score_run"] \subseteq Recomputes,
         UNCHANGED <<personView, mandatView>>, current'["score_run"] = current["score_run"],
         \A r \in current["score_run"] :
           /\ rows'[r] = rows[r] /\ pc'[r] \in Published
           /\ pc'[r] \in {"view mandat", "counters"} => pc'[r] = pc[r]
           /\ counters'[r] # None => counters[r] # None \/ pc[r] = "counters",
         \A q \in Recomputes :
           /\ snapshot'[q] # None =>
                /\ pc'[q] = pc[q] /\ pc[q] \in Views
                /\ snapshot'[q] = snapshot[q] \/ snapshot'[q] = Viewed(About(pc[q]))
                /\ snapshot[q] # None => snapshot'[q] = snapshot[q]
           /\ ~ Fills(q, "view person") /\ ~ Fills(q, "view mandat"),
         CountersLast'
  PROVE  ViewInv'
<1>1. \A r \in current["score_run"] : \A name : Table(r, name)' = Table(r, name)
  BY DEF Table
<1>2. ASSUME NEW r \in current'["score_run"] PROVE Follows(r)'
  <2>1. r \in current["score_run"] /\ Follows(r)
    BY DEF ViewInv
  <2>2. ASSUME NEW view \in Views PROVE Settled(r, view) => Settled(r, view)'
    BY <1>1, <2>1, NoFill DEF Settled, Shows
  <2>3. /\ Settled(r, "view person") => Settled(r, "view person")'
        /\ Settled(r, "view mandat") => Settled(r, "view mandat")'
    BY <2>2 DEF Views
  <2>4. /\ pc'[r] \in Published
        /\ pc'[r] \in {"view mandat", "counters"} \/ counters'[r] # None =>
             pc[r] \in {"view mandat", "counters"} \/ counters[r] # None
        /\ pc'[r] = "counters" \/ counters'[r] # None => pc[r] = "counters" \/ counters[r] # None
    BY <2>1
  <2> QED
    BY <2>1, <2>3, <2>4 DEF Follows
<1>3. ASSUME NEW q \in Recomputes, snapshot'[q] # None, q \notin overtaken',
             NEW r \in current'["score_run"]
      PROVE  snapshot'[q] = Table(r, About(pc[q]))'
  <2>1. r \in current["score_run"] /\ Timely(q) /\ pc'[q] = pc[q] /\ q \notin overtaken
    BY <1>3 DEF ViewInv, Watch
  <2>2. snapshot'[q] = Table(r, About(pc[q]))
    BY <1>3, <2>1, ViewedIsCurrent DEF Timely
  <2> QED
    BY <1>1, <2>1, <2>2
<1>4. ASSUME NEW q \in Recomputes PROVE Timely(q)'
  BY <1>3 DEF Timely, About
<1> QED
  BY <1>2, <1>4 DEF ViewInv

\* The run that becomes current has no refresh under way, and overtakes those
\* of the others.
LEMMA CommitKeepsViews ==
  ASSUME ViewInv, TypeInv, SwitchInv, Watch, NEW r \in Recomputes, Frame(r), CommitRun(r)
  PROVE  ViewInv'
<1>0. r \in Jobs
  BY DEF Jobs
<1>1. /\ pc[r] = "commit" /\ pc'[r] = "view person"
      /\ snapshot' = snapshot /\ counters' = counters
  BY <1>0 DEF CommitRun, CommitSwitch, Goto, TypeInv, Functions
<1>2. snapshot[r] = None /\ counters[r] = None
  <2>1. snapshot[r] # None => pc[r] \in {"view person", "view mandat"}
    BY DEF TypeInv, RunTyped
  <2>2. counters[r] # None => pc[r] = "done"
    BY DEF ViewInv, CountersLast
  <2> QED
    BY <1>1, <2>1, <2>2
<1>3. current'["score_run"] = {r} /\ r \notin current["score_run"]
  BY <1>0, <1>1, CommitGives DEF CommitRun, TableOf, RowOf, ViewInv, Follows, Published
<1>4. \A q \in Recomputes \ {r} : pc'[q] = pc[q]
  BY DEF Frame, Jobs
<1>5. Follows(r)'
  BY <1>1, <1>2 DEF Follows, Published
<1>6. ASSUME NEW q \in Recomputes PROVE Timely(q)'
  <2>1. snapshot'[q] # None => q \in overtaken'
    BY <1>1, <1>3 DEF Watch
  <2> QED
    BY <2>1 DEF Timely
<1>7. CountersLast'
  BY <1>1, <1>2, <1>4 DEF ViewInv, CountersLast
<1> QED
  BY <1>3, <1>5, <1>6, <1>7 DEF ViewInv

\* The refresh that ends fills its view with the rows of the current run, or
\* is seen to be late.
LEMMA EndRefreshKeepsViews ==
  ASSUME ViewInv, TypeInv, SwitchInv, Watch, NEW r \in Recomputes, Frame(r), EndRefresh(r),
         current["score_run"] \subseteq Recomputes
  PROVE  ViewInv'
<1>0. r \in Jobs /\ Recomputes \subseteq Jobs
  BY DEF Jobs
<1>1. /\ UNCHANGED <<rows, counters, current>>
      /\ snapshot[r] # None /\ snapshot'[r] = None
      /\ \A q \in Recomputes \ {r} : snapshot'[q] = snapshot[q] /\ pc'[q] = pc[q]
      /\ \/ pc[r] = "view person" /\ pc'[r] = "view mandat"
            /\ personView' = snapshot[r] /\ mandatView' = mandatView
         \/ pc[r] = "view mandat" /\ pc'[r] = "counters"
            /\ mandatView' = snapshot[r] /\ personView' = personView
  BY <1>0 DEF EndRefresh, Goto, TypeInv, Functions
<1>2. counters[r] = None
  BY <1>1 DEF ViewInv, CountersLast
<1>3. \A p, name : Table(p, name)' = Table(p, name)
  BY <1>1 DEF Table
<1>4. \A view \in Views : view \in late' <=> IF view = pc[r] THEN r \in overtaken ELSE view \in late
  <2>1. \A q \in Recomputes : \A view : Fills(q, view) <=> q = r /\ view = pc[r]
    BY <1>1 DEF Fills
  <2> QED
    BY <2>1 DEF Watch
<1>5. ASSUME NEW p \in current["score_run"] PROVE Follows(p)'
  <2>1. p \in Recomputes /\ Follows(p) /\ Timely(r)
    BY DEF ViewInv
  <2>2. r \notin overtaken => snapshot[r] = Table(p, About(pc[r]))
    BY <1>1, <2>1 DEF Timely
  <2>3. CASE pc[r] = "view person"
    <3>1. Settled(p, "view person")'
      BY <1>1, <1>3, <1>4, <2>2, <2>3 DEF Settled, Shows, About, Views
    <3>2. Settled(p, "view mandat") => Settled(p, "view mandat")'
      BY <1>1, <1>3, <1>4, <2>3 DEF Settled, Shows, About, Views
    <3> QED
      BY <1>1, <1>2, <2>1, <2>3, <3>1, <3>2 DEF Follows, Published
  <2>4. CASE pc[r] = "view mandat"
    <3>1. Settled(p, "view mandat")'
      BY <1>1, <1>3, <1>4, <2>2, <2>4 DEF Settled, Shows, About, Views
    <3>2. Settled(p, "view person") => Settled(p, "view person")'
      BY <1>1, <1>3, <1>4, <2>4 DEF Settled, Shows, About, Views
    <3> QED
      BY <1>1, <1>2, <2>1, <2>4, <3>1, <3>2 DEF Follows, Published
  <2> QED
    BY <1>1, <2>3, <2>4
<1>6. ASSUME NEW q \in Recomputes PROVE Timely(q)'
  BY <1>1, <1>3 DEF ViewInv, Timely, Watch, About
<1>7. CountersLast'
  BY <1>1, <1>2 DEF ViewInv, CountersLast
<1> QED
  BY <1>1, <1>5, <1>6, <1>7 DEF ViewInv

LEMMA RecomputeKeepsViews ==
  ASSUME ViewInv, TypeInv, SwitchInv, LockInv, Watch, NEW r \in Recomputes, Recompute(r)
  PROVE  ViewInv'
<1>1. /\ Frame(r) /\ r \in Jobs /\ current["score_run"] \subseteq Recomputes /\ Functions
      /\ Recomputes \subseteq Jobs
  BY RecomputeFrame DEF TypeInv, LockInv, Jobs
<1>2. CASE CommitRun(r)
  BY <1>1, <1>2, CommitKeepsViews
<1>3. CASE EndRefresh(r)
  BY <1>1, <1>3, EndRefreshKeepsViews
<1>4. \A q \in Recomputes \ {r} : /\ pc'[q] = pc[q] /\ snapshot'[q] = snapshot[q]
                                  /\ rows'[q] = rows[q] /\ counters'[q] = counters[q]
  BY <1>1 DEF Frame
<1>5. \A q \in Recomputes : snapshot[q] # None => pc[q] \in Views
  BY DEF TypeInv, RunTyped, Views
<1>6. \A q \in Recomputes \ {r} : ~ Fills(q, "view person") /\ ~ Fills(q, "view mandat")
  BY <1>4 DEF Fills
<1>7. \A p \in current["score_run"] : pc[p] \in Published
  BY DEF ViewInv, Follows
<1>8. CASE StartRefresh(r)
  <2>1. /\ UNCHANGED <<pc, rows, counters, current, personView, mandatView>>
        /\ snapshot[r] = None /\ snapshot'[r] = Viewed(About(pc[r])) /\ pc[r] \in Views
    BY <1>1, <1>8 DEF StartRefresh, tables, Functions, About
  <2>2. CountersLast'
    BY <2>1 DEF ViewInv, CountersLast
  <2>3. ~ Fills(r, "view person") /\ ~ Fills(r, "view mandat")
    BY <2>1 DEF Fills
  <2> QED
    BY <1>1, <1>4, <1>5, <1>6, <1>7, <2>1, <2>2, <2>3, ElsewhereKeepsViews
<1>9. CASE EndRun(r) \/ Fail(r)
  <2>1. /\ UNCHANGED <<rows, current, personView, mandatView>> /\ snapshot'[r] = None
        /\ \/ pc[r] = "counters" /\ pc'[r] = "done"
           \/ pc[r] # "done" /\ pc'[r] = "failed" /\ counters'[r] = counters[r]
    BY <1>1, <1>9 DEF EndRun, Fail, Forget, Without, Over, Goto, tables, Frame, Functions
  <2>2. CountersLast'
    BY <1>4, <2>1 DEF ViewInv, CountersLast
  <2>3. ~ Fills(r, "view person") /\ ~ Fills(r, "view mandat")
    BY <2>1 DEF Fills
  <2> QED
    BY <1>1, <1>4, <1>5, <1>6, <1>7, <2>1, <2>2, <2>3, ElsewhereKeepsViews DEF Published
<1>10. CASE \/ StartRun(r) \/ ReadAxis(r) \/ ReadThemes(r) \/ Compute(r) \/ Flush(r) \/ EndStage(r)
            \/ Aim(r) \/ Clear(r) \/ (Set(r) /\ ~ Fail(r))
  <2>1. /\ UNCHANGED <<personView, mandatView, current, counters, snapshot>>
        /\ pc[r] \notin Published
    BY <1>10 DEF StartRun, ReadAxis, ReadThemes, Compute, Flush, EndStage, Aim, Clear, Set,
                Stages, Published, tables, memory
  <2>2. r \notin current["score_run"] /\ snapshot[r] = None
    BY <1>5, <1>7, <2>1 DEF Published, Views
  <2>3. CountersLast'
    BY <1>4, <2>1 DEF ViewInv, CountersLast, Published
  <2>4. ~ Fills(r, "view person") /\ ~ Fills(r, "view mandat")
    BY <2>2 DEF Fills
  <2> QED
    BY <1>1, <1>4, <1>5, <1>6, <1>7, <2>1, <2>2, <2>3, <2>4, ElsewhereKeepsViews
<1> QED
  BY <1>2, <1>3, <1>8, <1>9, <1>10 DEF Recompute

LEMMA LoadKeepsViews ==
  ASSUME ViewInv, TypeInv, SwitchInv, LockInv, Watch, NEW x \in Loads, Load(x)
  PROVE  ViewInv'
<1>1. /\ Frame(x) /\ x \in Jobs /\ x \notin Recomputes /\ current["score_run"] \subseteq Recomputes
      /\ UNCHANGED <<rows, counters, snapshot, personView, mandatView>>
  BY LoadFrame, RunAssumption DEF TypeInv, LockInv, Jobs
<1>2. current'["score_run"] = current["score_run"]
  <2>1. CASE CommitLoad(x)
    BY <1>1, <2>1, CommitGives DEF CommitLoad, TableOf, Tables
  <2>2. CASE ~ CommitLoad(x)
    BY <2>2 DEF Load, StartLoad, CheckContent, InsertVersion, Aim, Clear, Set, Estimate, EndLoad,
                Fail, tables
  <2> QED
    BY <2>1, <2>2
<1>3. \A q \in Recomputes : pc'[q] = pc[q]
  BY <1>1 DEF Frame, Jobs
<1>4. \A q \in Recomputes : /\ snapshot[q] # None => pc[q] \in Views
                            /\ ~ Fills(q, "view person") /\ ~ Fills(q, "view mandat")
  BY <1>1 DEF TypeInv, RunTyped, Views, Fills
<1>5. CountersLast'
  BY <1>1, <1>3 DEF ViewInv, CountersLast
<1>6. \A p \in current["score_run"] : pc[p] \in Published
  BY DEF ViewInv, Follows
<1> QED
  BY <1>1, <1>2, <1>3, <1>4, <1>5, <1>6, ElsewhereKeepsViews

LEMMA NextKeepsViews ==
  ViewInv /\ TypeInv /\ SwitchInv /\ LockInv /\ [Next]_vars => ViewInv'
<1> SUFFICES ASSUME ViewInv, TypeInv, SwitchInv, LockInv, [Next]_vars PROVE ViewInv'
  OBVIOUS
<1>1. CASE Watch /\ \E r \in Recomputes : Recompute(r)
  BY <1>1, RecomputeKeepsViews
<1>2. CASE Watch /\ \E x \in Loads : Load(x)
  BY <1>2, LoadKeepsViews
<1>3. CASE Watch /\ SaveLabels
  <2>1. UNCHANGED <<personView, mandatView, rows, pc, snapshot, counters, current>>
    BY <1>3 DEF SaveLabels, memory
  <2>2. \A q \in Recomputes : /\ snapshot[q] # None => pc[q] \in Views
                              /\ ~ Fills(q, "view person") /\ ~ Fills(q, "view mandat")
    BY <2>1 DEF TypeInv, RunTyped, Views, Fills
  <2>3. CountersLast'
    BY <2>1 DEF ViewInv, CountersLast
  <2>4. /\ current["score_run"] \subseteq Recomputes
        /\ \A p \in current["score_run"] : pc[p] \in Published
    BY DEF ViewInv, Follows, LockInv
  <2> QED
    BY <1>3, <2>1, <2>2, <2>3, <2>4, ElsewhereKeepsViews
<1>4. CASE UNCHANGED vars
  <2>1. UNCHANGED <<personView, mandatView, rows, pc, snapshot, counters, current, overtaken, late>>
    BY <1>4 DEF vars, tables, memory, past
  <2>2. \A r, name : Table(r, name)' = Table(r, name)
    BY <2>1 DEF Table
  <2>3. \A r, view : Settled(r, view) => Settled(r, view)'
    BY <2>1, <2>2 DEF Settled, Shows
  <2>4. \A r : (Follows(r) => Follows(r)') /\ (Timely(r) => Timely(r)')
    BY <2>1, <2>2, <2>3 DEF Follows, Timely
  <2>5. CountersLast'
    BY <2>1 DEF ViewInv, CountersLast
  <2> QED
    BY <2>1, <2>4, <2>5 DEF ViewInv
<1> QED
  BY <1>1, <1>2, <1>3, <1>4 DEF Next, Act

(* ViewsFollowRun, for any executions: a run that says it is finished is     *)
(* what both views show, whoever refreshes them at the same time or dies in  *)
(* the middle, unless the last to fill the view had read it before the run   *)
(* was published (recompute_scores.rs:182-198).                              *)
THEOREM ViewsFollowRunCorrect == Spec => []ViewsFollowRun
<1>1. ViewInv => ViewsFollowRun
  BY DEF ViewInv, Follows, Settled, Shows, About, ViewsFollowRun
<1> QED
  BY <1>1, InitSwitch, NextKeeps, InitContent, NextKeepsContent, InitTypes, NextKeepsTypes,
     InitLocks, NextKeepsLocks, InitViews, NextKeepsViews, PTL DEF Spec
-----------------------------------------------------------------------------
(* Complete rows: the scores of a run rest on all the contributions it lists.*)

Listed(X, t)  == {x \in X : x.table = "contribution" /\ x.theme = t}
ScoresOf(X, t) == {x \in X : x.table = "person" /\ x.theme = t}
ProofOf(X, t) == Weigh(t, UNION {x.basis : x \in Listed(X, t)})

Complete(X) ==
  \A t \in Themes :
    ScoresOf(X, t) = IF Cardinality(ProofOf(X, t)) >= ContributionsMin
                     THEN {Row("person", t, ProofOf(X, t))} ELSE {}

LEMMA CompleteEmpty == Complete({})
<1> SUFFICES ASSUME NEW t \in Themes
             PROVE  ScoresOf({}, t) = {} /\ ~(Cardinality(ProofOf({}, t)) >= ContributionsMin)
  BY DEF Complete
<1>1. ScoresOf({}, t) = {} /\ ProofOf({}, t) = {}
  BY DEF ScoresOf, Listed, ProofOf, Weigh
<1>2. Cardinality(ProofOf({}, t)) = 0
  BY <1>1, FS_EmptySet, Zenon
<1>3. ~(0 >= ContributionsMin)
  BY RunAssumption
<1> QED
  BY <1>1, <1>2, <1>3, Zenon

\* The other tables change nothing to that.
LEMMA CompleteWithOthers ==
  ASSUME NEW X, NEW Y, Complete(X), \A y \in Y : y.table \notin {"contribution", "person"}
  PROVE  Complete(X \cup Y)
<1>1. \A t : ScoresOf(X \cup Y, t) = ScoresOf(X, t) /\ Listed(X \cup Y, t) = Listed(X, t)
  BY DEF ScoresOf, Listed
<1>2. ASSUME NEW t PROVE ProofOf(X \cup Y, t) = ProofOf(X, t)
  <2>1. Listed(X \cup Y, t) = Listed(X, t)
    BY <1>1
  <2> QED
    BY <2>1, Zenon DEF ProofOf
<1>3. ASSUME NEW t \in Themes
      PROVE  ScoresOf(X \cup Y, t) =
               IF Cardinality(ProofOf(X \cup Y, t)) >= ContributionsMin
               THEN {Row("person", t, ProofOf(X \cup Y, t))} ELSE {}
  <2>1. /\ ScoresOf(X \cup Y, t) = ScoresOf(X, t)
        /\ ProofOf(X \cup Y, t) = ProofOf(X, t)
    BY <1>1, <1>2
  <2> QED
    BY <2>1 DEF Complete
<1> QED
  BY <1>3 DEF Complete

\* What a run lists for a theme is all it measured for it...
LEMMA ListedInPersonRows ==
  ASSUME NEW r, NEW t
  PROVE  UNION {x.basis : x \in Listed(PersonRows(r), t)} =
           IF t \in eligible[r] THEN Measured(r, t) ELSE {}
<1> DEFINE Found == UNION {x.basis : x \in Listed(PersonRows(r), t)}
<1>1. ASSUME NEW e \in Found PROVE t \in eligible[r] /\ e \in Measured(r, t)
  <2>1. PICK x \in Listed(PersonRows(r), t) : e \in x.basis
    BY Zenon
  <2>2. x \in PersonRows(r) /\ x.table = "contribution" /\ x.theme = t
    BY <2>1 DEF Listed
  <2>3. ASSUME NEW u \in eligible[r], NEW d \in Measured(r, u), x = Row("contribution", u, {d})
        PROVE  t \in eligible[r] /\ e \in Measured(r, t)
    BY <2>1, <2>2, <2>3, RowFields
  <2>4. ASSUME NEW u \in eligible[r], x = Row("person", u, Weigh(u, Measured(r, u))) PROVE FALSE
    BY <2>2, <2>4, RowFields
  <2> QED
    BY <2>2, <2>3, <2>4, PersonRowsAre
<1>2. ASSUME t \in eligible[r], NEW e \in Measured(r, t) PROVE e \in Found
  <2>1. Row("contribution", t, {e}) \in PersonRows(r)
    BY <1>2, PersonRowsAre
  <2>2. Row("contribution", t, {e}) \in Listed(PersonRows(r), t)
    BY <2>1, RowFields DEF Listed
  <2>3. e \in Row("contribution", t, {e}).basis
    BY RowFields
  <2> QED
    BY <2>2, <2>3, Zenon
<1> HIDE DEF Found
<1>3. Found = IF t \in eligible[r] THEN Measured(r, t) ELSE {}
  BY <1>1, <1>2
<1> QED
  BY <1>3 DEF Found

\* ... and its score rests on what weighs of it.
LEMMA CompletePersonRows ==
  ASSUME NEW r
  PROVE  Complete(PersonRows(r))
<1> SUFFICES ASSUME NEW t \in Themes
             PROVE  ScoresOf(PersonRows(r), t) =
                      IF Cardinality(ProofOf(PersonRows(r), t)) >= ContributionsMin
                      THEN {Row("person", t, ProofOf(PersonRows(r), t))} ELSE {}
  BY DEF Complete
<1> DEFINE X == PersonRows(r)
           Own == Weigh(t, Measured(r, t))
<1>1. ASSUME NEW x \in ScoresOf(X, t)
      PROVE  t \in eligible[r] /\ x = Row("person", t, Own) /\ Cardinality(Own) >= ContributionsMin
  <2>1. x \in PersonRows(r) /\ x.table = "person" /\ x.theme = t
    BY DEF ScoresOf
  <2>2. ASSUME NEW u \in eligible[r], NEW d \in Measured(r, u), x = Row("contribution", u, {d})
        PROVE  FALSE
    BY <2>1, <2>2, RowFields
  <2>3. ASSUME NEW u \in eligible[r], x = Row("person", u, Weigh(u, Measured(r, u)))
        PROVE  u = t
    BY <2>1, <2>3, RowFields
  <2> QED
    BY <2>1, <2>2, <2>3, PersonRowsAre
<1>2. CASE t \in eligible[r]
  <2>1. ProofOf(X, t) = Own
    BY <1>2, ListedInPersonRows DEF ProofOf
  <2>2. CASE Cardinality(Own) >= ContributionsMin
    <3>1. Row("person", t, Own) \in X
      BY <1>2, <2>2, PersonRowsAre
    <3>2. Row("person", t, Own) \in ScoresOf(X, t)
      BY <3>1, RowFields DEF ScoresOf
    <3>3. ScoresOf(X, t) = {Row("person", t, Own)}
      BY <1>1, <3>2
    <3> QED
      BY <2>1, <2>2, <3>3
  <2>3. CASE ~(Cardinality(Own) >= ContributionsMin)
    <3>1. ScoresOf(X, t) = {}
      BY <1>1, <2>3
    <3> QED
      BY <2>1, <2>3, <3>1
  <2> QED
    BY <2>2, <2>3
<1>3. CASE t \notin eligible[r]
  <2>1. ProofOf(X, t) = {}
    BY <1>3, ListedInPersonRows DEF ProofOf, Weigh
  <2>2. ScoresOf(X, t) = {}
    BY <1>1, <1>3
  <2>3. ~(Cardinality({}) >= ContributionsMin)
    BY FS_EmptySet, RunAssumption
  <2> QED
    BY <2>1, <2>2, <2>3
<1> QED
  BY <1>2, <1>3

-----------------------------------------------------------------------------
(* How far a run is, and what it has inserted by then.                       *)

\* NULL is no set of rows: a stage that is computed is told from one that is not.
NullIsNoSet == None \notin SUBSET ScoreRows

Later(X) == \A x \in X : x.table \notin {"contribution", "person"}

Progress(r) ==
  /\ pc[r] \in {"new", "axis", "themes"} => rows[r] = {}
  /\ pc[r] = "person" => IF todo[r] = None THEN rows[r] = {} ELSE Complete(rows[r] \cup todo[r])
  /\ pc[r] \in {"groupe", "mandat"} => Complete(rows[r]) /\ (todo[r] # None => Later(todo[r]))
  /\ pc[r] \notin {"new", "axis", "themes", "failed"} \cup Stages => Complete(rows[r])
  /\ r \in current["score_run"] => pc[r] \in Published /\ Complete(rows[r])

CompleteInv == NullIsNoSet /\ \A r \in Recomputes : Progress(r)

LEMMA InitComplete == NullIsNoSet /\ Init => CompleteInv
BY DEF Init, CompleteInv, Progress, Stages, Tables, Jobs
\* A step of x is about its own rows, and makes no other run current.
LEMMA OthersProgress ==
  ASSUME CompleteInv, NEW x \in Jobs, Frame(x),
         \A q \in Recomputes \ {x} : q \in current'["score_run"] => q \in current["score_run"],
         x \in Recomputes => Progress(x)'
  PROVE  CompleteInv'
<1>1. ASSUME NEW q \in Recomputes \ {x} PROVE Progress(q)'
  <2>1. /\ rows'[q] = rows[q] /\ pc'[q] = pc[q] /\ todo'[q] = todo[q]
        /\ q \in current'["score_run"] => q \in current["score_run"]
    BY DEF Frame, Jobs
  <2>2. Progress(q)
    BY DEF CompleteInv
  <2> QED
    BY <2>1, <2>2 DEF Progress
<1>2. NullIsNoSet'
  BY DEF CompleteInv, NullIsNoSet, ScoreRows, Measures, Versions
<1> QED
  BY <1>1, <1>2 DEF CompleteInv

\* A stage that ends has inserted all it computed.
LEMMA StagesProgress ==
  ASSUME CompleteInv, TypeInv, RunInv, NEW r \in Recomputes,
         Compute(r) \/ Flush(r) \/ EndStage(r)
  PROVE  Progress(r)'
<1>0. r \in Jobs /\ Progress(r) /\ RunTyped(r)
  BY DEF Jobs, CompleteInv, TypeInv
<1>1. r \notin current["score_run"] /\ pc[r] \in Stages /\ current' = current
  BY <1>0 DEF Progress, Published, Compute, Flush, EndStage, Stages, tables
<1>2. CASE Compute(r)
  <2>1. todo[r] = None /\ rows' = rows /\ pc' = pc
    BY <1>2 DEF Compute, tables
  <2>2. CASE pc[r] = "person"
    <3>1. todo'[r] = PersonRows(r)
      BY <1>0, <1>2, <2>2 DEF Compute, TypeInv, Functions
    <3>2. todo'[r] # None
      BY <3>1, StageTyped DEF CompleteInv, NullIsNoSet, TypeInv, RunTyped
    <3>3. rows[r] = {} /\ Complete(rows[r] \cup todo'[r])
      BY <1>0, <2>1, <2>2, <3>1, CompletePersonRows DEF Progress
    <3> QED
      BY <1>1, <2>1, <2>2, <3>2, <3>3 DEF Progress, Stages
  <2>3. CASE pc[r] # "person"
    <3>1. todo'[r] \in {GroupeRows(r), MandatRows(r)} /\ pc[r] \in {"groupe", "mandat"}
      BY <1>0, <1>2, <2>3 DEF Compute, TypeInv, Functions, Stages
    <3>2. Later(GroupeRows(r) \cup MandatRows(r))
      BY LaterRowsAre, RowFields DEF Later
    <3>3. Later(todo'[r])
      BY <3>1, <3>2 DEF Later
    <3> QED
      BY <1>0, <1>1, <2>1, <3>1, <3>3 DEF Progress, Stages
  <2> QED
    BY <2>2, <2>3
<1>3. CASE Flush(r)
  <2>1. todo[r] # None /\ pc' = pc
    BY <1>3 DEF Flush
  <2>2. PICK batch \in SUBSET todo[r] :
          rows'[r] = rows[r] \cup batch /\ todo'[r] = todo[r] \ batch
    BY <1>0, <1>3 DEF Flush, TypeInv, Functions
  <2>3. todo'[r] # None
    BY <1>0, <2>1, <2>2 DEF RunTyped, CompleteInv, NullIsNoSet
  <2>4. rows'[r] \cup todo'[r] = rows[r] \cup todo[r]
    BY <2>2
  <2>5. CASE pc[r] = "person"
    BY <1>0, <1>1, <2>1, <2>3, <2>4, <2>5 DEF Progress, Stages
  <2>6. CASE pc[r] # "person"
    <3>1. pc[r] \in {"groupe", "mandat"} /\ Later(todo[r]) /\ Complete(rows[r])
      BY <1>0, <1>1, <2>1, <2>6 DEF Progress, Stages
    <3>2. Later(todo'[r]) /\ Complete(rows'[r])
      <4>1. \A y \in todo[r] : y.table \notin {"contribution", "person"}
        BY <3>1 DEF Later
      <4>2. Complete(rows[r] \cup batch)
        BY <3>1, <4>1, CompleteWithOthers
      <4> QED
        BY <2>2, <4>1, <4>2 DEF Later
    <3> QED
      BY <1>1, <2>1, <3>1, <3>2 DEF Progress, Stages
  <2> QED
    BY <2>5, <2>6
<1>4. CASE EndStage(r)
  <2>1. todo[r] = {} /\ todo[r] # None /\ rows' = rows
    BY <1>4 DEF EndStage, tables, CompleteInv, NullIsNoSet
  <2>2. /\ todo'[r] = None
        /\ pc[r] = "person" => pc'[r] = "groupe"
        /\ pc[r] = "groupe" => pc'[r] = "mandat"
        /\ pc[r] = "mandat" => pc'[r] = "aim"
    BY <1>0, <1>4 DEF EndStage, AfterStage, Goto, TypeInv, Functions
  <2>3. Complete(rows[r])
    <3>1. rows[r] \cup todo[r] = rows[r]
      BY <2>1
    <3> QED
      BY <1>0, <1>1, <2>1, <3>1 DEF Progress, Stages
  <2> QED
    BY <1>1, <2>1, <2>2, <2>3 DEF Progress, Stages
<1> QED
  BY <1>2, <1>3, <1>4

LEMMA RecomputeKeepsComplete ==
  ASSUME CompleteInv, TypeInv, RunInv, SwitchInv, NEW r \in Recomputes, Recompute(r)
  PROVE  CompleteInv'
<1>0. r \in Jobs /\ Progress(r)
  BY DEF Jobs, CompleteInv
<1>1. Frame(r) /\ Functions
  BY RecomputeFrame DEF TypeInv
<1>2. CASE Compute(r) \/ Flush(r) \/ EndStage(r)
  <2>1. current' = current
    BY <1>2 DEF Compute, Flush, EndStage, tables
  <2> QED
    BY <1>0, <1>1, <1>2, <2>1, StagesProgress, OthersProgress
<1>3. CASE CommitRun(r)
  <2>1. current'["score_run"] = {r}
    BY <1>0, <1>3, CommitGives DEF CommitRun, TableOf, RowOf
  <2>2. rows' = rows /\ pc[r] = "commit" /\ pc'[r] = "view person"
    BY <1>0, <1>1, <1>3 DEF CommitRun, CommitSwitch, Goto, Functions
  <2>3. Progress(r)'
    BY <1>0, <2>2 DEF Progress, Published, Stages
  <2> QED
    BY <1>0, <1>1, <2>1, <2>3, OthersProgress
<1>4. CASE \/ StartRun(r) \/ ReadAxis(r) \/ ReadThemes(r) \/ Aim(r) \/ Clear(r) \/ Set(r) \/ Fail(r)
           \/ StartRefresh(r) \/ EndRefresh(r) \/ EndRun(r)
  <2>1. rows' = rows /\ current' = current
    BY <1>4 DEF StartRun, ReadAxis, ReadThemes, Aim, Clear, Set, Fail, StartRefresh, EndRefresh,
                EndRun, tables, memory
  <2>2. Progress(r)'
    <3>1. CASE StartRun(r) \/ ReadAxis(r)
      <4>1. pc[r] \in {"new", "axis"} /\ pc'[r] \in {"axis", "themes"}
        BY <1>0, <1>1, <3>1 DEF StartRun, ReadAxis, Goto, Functions
      <4> QED
        BY <1>0, <2>1, <4>1 DEF Progress, Published, Stages
    <3>2. CASE ReadThemes(r)
      <4>1. pc[r] = "themes" /\ pc'[r] \in {"aim", "person"} /\ todo' = todo
        BY <1>0, <1>1, <3>2 DEF ReadThemes, Goto, Functions
      <4>2. rows[r] = {} /\ todo[r] = None
        BY <4>1 DEF RunInv, OwnRows
      <4> QED
        BY <1>0, <2>1, <4>1, <4>2, CompleteEmpty DEF Progress, Published, Stages
    <3>3. CASE Fail(r)
      <4>1. pc'[r] = "failed"
        BY <1>0, <1>1, <3>3 DEF Fail, Goto, Functions
      <4> QED
        BY <1>0, <2>1, <4>1 DEF Progress, Published, Stages
    <3>4. CASE Aim(r) \/ Clear(r) \/ (Set(r) /\ ~ Fail(r))
      <4>1. pc[r] \in {"aim", "clear", "set"} /\ pc'[r] \in {"clear", "set", "commit"}
        BY <1>0, <1>1, <3>4 DEF Aim, Clear, Set, Goto, Functions
      <4> QED
        BY <1>0, <2>1, <4>1 DEF Progress, Published, Stages
    <3>5. CASE StartRefresh(r) \/ EndRefresh(r) \/ EndRun(r)
      <4>1. /\ pc[r] \in {"view person", "view mandat", "counters"}
            /\ pc'[r] \in {"view person", "view mandat", "counters", "done"}
        BY <1>0, <1>1, <3>5 DEF StartRefresh, EndRefresh, EndRun, Views, Goto, Functions
      <4> QED
        BY <1>0, <2>1, <4>1 DEF Progress, Published, Stages
    <3> QED
      BY <1>4, <3>1, <3>2, <3>3, <3>4, <3>5
  <2> QED
    BY <1>0, <1>1, <2>1, <2>2, OthersProgress
<1> QED
  BY <1>2, <1>3, <1>4 DEF Recompute

LEMMA LoadKeepsComplete ==
  ASSUME CompleteInv, TypeInv, SwitchInv, NEW x \in Loads, Load(x)
  PROVE  CompleteInv'
<1>1. Frame(x) /\ x \in Jobs /\ x \notin Recomputes
  BY LoadFrame, RunAssumption DEF TypeInv, Jobs
<1>2. current'["score_run"] = current["score_run"]
  <2>1. CASE CommitLoad(x)
    BY <1>1, <2>1, CommitGives DEF CommitLoad, TableOf, Tables
  <2>2. CASE ~ CommitLoad(x)
    BY <2>2 DEF Load, StartLoad, CheckContent, InsertVersion, Aim, Clear, Set, Estimate, EndLoad,
                Fail, tables
  <2> QED
    BY <2>1, <2>2
<1> QED
  BY <1>1, <1>2, OthersProgress

LEMMA NextKeepsComplete ==
  CompleteInv /\ TypeInv /\ RunInv /\ SwitchInv /\ [Next]_vars => CompleteInv'
<1> SUFFICES ASSUME CompleteInv, TypeInv, RunInv, SwitchInv, [Next]_vars PROVE CompleteInv'
  OBVIOUS
<1>1. CASE \E r \in Recomputes : Recompute(r)
  BY <1>1, RecomputeKeepsComplete
<1>2. CASE \E x \in Loads : Load(x)
  BY <1>2, LoadKeepsComplete
<1>3. CASE SaveLabels \/ UNCHANGED vars
  <2>1. UNCHANGED <<rows, pc, todo, current>>
    BY <1>3 DEF SaveLabels, vars, tables, memory
  <2> QED
    BY <2>1 DEF CompleteInv, NullIsNoSet, ScoreRows, Measures, Versions, Progress
<1> QED
  BY <1>1, <1>2, <1>3 DEF Next, Act

\* What PublishedComplete says of one run.
LEMMA CompleteSays ==
  ASSUME NEW r, Complete(rows[r]), NEW t \in Themes
  PROVE  LET proof == Weigh(t, UNION {x.basis : x \in {y \in Table(r, "contribution") : y.theme = t}})
         IN  {x \in Table(r, "person") : x.theme = t} =
               IF Cardinality(proof) >= ContributionsMin THEN {Row("person", t, proof)} ELSE {}
<1>1. /\ {y \in Table(r, "contribution") : y.theme = t} = Listed(rows[r], t)
      /\ {x \in Table(r, "person") : x.theme = t} = ScoresOf(rows[r], t)
  BY DEF Table, Listed, ScoresOf
<1> QED
  BY <1>1 DEF Complete, ProofOf

(* PublishedComplete, for any executions and any thresholds: however labels, *)
(* estimates and the axis change while a run reads them, and wherever runs   *)
(* fail, the current one has a score exactly where its contributions are     *)
(* enough, resting on all of them (0009_scores.sql:54).                      *)
THEOREM PublishedCompleteCorrect == NullIsNoSet /\ Spec => []PublishedComplete
<1>1. ASSUME CompleteInv, LockInv PROVE PublishedComplete
  BY <1>1, CompleteSays DEF CompleteInv, Progress, LockInv, PublishedComplete
<1>2. CompleteInv /\ LockInv => PublishedComplete
  BY <1>1
<1> QED
  BY <1>2, InitSwitch, NextKeeps, InitContent, NextKeepsContent, InitRun, NextKeepsRun, InitTypes,
     NextKeepsTypes, InitLocks, NextKeepsLocks, InitComplete, NextKeepsComplete, PTL DEF Spec

(* VerdictHasProof, for any executions: a page that reads the counters, the  *)
(* view and the contributions at one moment finds for each theme it shows    *)
(* the score of the contributions it lists (get_person_orientations), unless *)
(* the view was last filled by a refresh that a switch had overtaken.        *)
THEOREM VerdictHasProofCorrect == NullIsNoSet /\ Spec => []VerdictHasProof
<1>1. ASSUME CompleteInv, LockInv, ViewInv, SwitchInv PROVE VerdictHasProof
  <2> SUFFICES ASSUME "view person" \notin late, NEW t \in Shown
               PROVE  LET proof == Weigh(t, Contributions(t))
                      IN  {x \in personView : x.theme = t} =
                            IF Cardinality(proof) >= ContributionsMin
                            THEN {Row("person", t, proof)} ELSE {}
    BY DEF VerdictHasProof
  <2>1. PICK r \in current["score_run"] :
          t \in IF counters[r] = None THEN {} ELSE counters[r] \cap LeftRight
    BY Zenon DEF Shown
  <2>2. counters[r] # None /\ t \in Themes /\ r \in Recomputes
    BY <1>1, <2>1, RunAssumption DEF LockInv
  <2>3. current["score_run"] = {r}
    BY <1>1, <2>1 DEF SwitchInv, OneCurrent, Tables
  <2>4. personView = Table(r, "person")
    BY <1>1, <2>1, <2>2 DEF ViewInv, Follows, Settled, Shows, About
  <2>5. Contributions(t) = UNION {x.basis : x \in {y \in Table(r, "contribution") : y.theme = t}}
    BY <2>3 DEF Contributions
  <2>6. Complete(rows[r])
    BY <1>1, <2>1, <2>2 DEF CompleteInv, Progress
  <2> QED
    BY <2>2, <2>4, <2>5, <2>6, CompleteSays
<1>2. CompleteInv /\ LockInv /\ ViewInv /\ SwitchInv => VerdictHasProof
  BY <1>1
<1> QED
  BY <1>2, InitSwitch, NextKeeps, InitContent, NextKeepsContent, InitRun, NextKeepsRun, InitTypes,
     NextKeepsTypes, InitLocks, NextKeepsLocks, InitViews, NextKeepsViews, InitComplete,
     NextKeepsComplete, PTL DEF Spec
=============================================================================
