------------------------------ MODULE ScoreRun ------------------------------
(***************************************************************************)
(* The two jobs behind the published scores, and what the pages read.      *)
(*                                                                         *)
(* label_scrutins_heuristic loads a version of the left-right axis, makes  *)
(* it current, then estimates each scrutin on it.  recompute_scores reads  *)
(* labels and estimates, writes all the scores of a new score_run, makes   *)
(* it current, refreshes two materialised views, and last writes the       *)
(* counters, where the pages find the themes to show.  Several executions  *)
(* run at once, on several workers, while admins save labels; each SQL     *)
(* statement is one action.                                                *)
(***************************************************************************)
EXTENDS Integers, FiniteSets

CONSTANTS
  Themes,           \* themes with two poles
  LeftRight,        \* those whose axis reads left to right (axe_gauche_droite)
  Scrutins,
  Weighing,         \* pairs <<theme, scrutin>> whose votes weigh: neither bipolar
                    \* nor contradicted by the measure
  Period,           \* scrutins during the mandate
  ScrutinsMin,      \* score_parametre.scrutins_min_par_theme
  ContributionsMin, \* score_parametre.contributions_min
  SeedFiles,        \* what group_axis.toml may hold: [version, hash]
  Recomputes,       \* executions of recompute_scores, and the score_run of each
  Loads,            \* executions of label_scrutins_heuristic
  StartLabels,      \* rows of scrutin_label at the start
  StartFiles,       \* the axis already loaded and measured at the start, or None
  None,             \* NULL
  Workers,          \* bound: executions at once, one for each worker
  MaxExecutions,    \* bound: executions in all
  MaxSaves          \* bound: saves of labels by the admins

ASSUME RunAssumption ==
  /\ LeftRight \subseteq Themes /\ Period \subseteq Scrutins
  /\ Weighing \subseteq Themes \X Scrutins /\ StartLabels \subseteq Themes \X Scrutins
  /\ \A f \in SeedFiles : f # None /\ f.hash # None
  /\ Recomputes \cap Loads = {} /\ StartFiles \subseteq SeedFiles \cup {None}
  /\ ScrutinsMin \in Nat \ {0} /\ ContributionsMin \in Nat \ {0}

Jobs     == Recomputes \cup Loads
Versions == {f.version : f \in SeedFiles}
Tables   == {"score_run", "group_axis"}

VARIABLES
  label,      \* scrutin_label: pairs <<theme, scrutin>> with a position
  saves,      \* what was used of MaxSaves
  content,    \* group_axis: the content_hash of each version, or None
  estimate,   \* scrutin_axis_estimate: [version, scrutin, hash]
  rows,       \* the four score tables, for each run: [table, theme, basis]
  counters,   \* score_run.counters: the eligible themes, None before the end
  current,    \* the rows with is_current, for score_run and for group_axis
  personView, \* person_theme_score_courant
  mandatView, \* mandat_theme_score_courant
  pc,         \* where each execution is
  file,       \* load: the seed file
  version,    \* recompute: the axis it read
  eligible,   \* recompute: the themes it read
  todo,       \* rows computed and not yet inserted, None before they are read
  inserted,   \* the loads that inserted their version, not committed
  target,     \* the rows its first UPDATE found current
  cleared,    \* the rows it made not current, not committed
  snapshot,   \* what its REFRESH read, None outside of one
  overtaken,  \* for the properties: the executions whose REFRESH read before
              \* the last switch of score_run
  late        \* for the properties: the views last filled by one of those

tables == <<label, saves, content, estimate, rows, counters, current, personView, mandatView>>
memory == <<file, version, eligible, todo, inserted, target, cleared, snapshot>>
past   == <<overtaken, late>>
vars   == <<tables, pc, memory, past>>

Estimated(f, s) == [version |-> f.version, scrutin |-> s, hash |-> f.hash]
Table(r, name) == {x \in rows[r] : x.table = name}

Init ==
  /\ label = StartLabels /\ saves = 0
  /\ \E f \in StartFiles :
       LET loaded == {f} \ {None} IN
       /\ content = [v \in Versions |-> IF \E g \in loaded : g.version = v THEN f.hash ELSE None]
       /\ estimate = UNION {{Estimated(g, s) : s \in Scrutins} : g \in loaded}
       /\ current = [t \in Tables |-> IF t = "group_axis" THEN {g.version : g \in loaded} ELSE {}]
  /\ rows = [r \in Recomputes |-> {}]
  /\ counters = [r \in Recomputes |-> None]
  /\ personView = {} /\ mandatView = {}
  /\ pc = [x \in Jobs |-> "new"]
  /\ file = [x \in Loads |-> None]
  /\ version = [r \in Recomputes |-> None]
  /\ eligible = [r \in Recomputes |-> {}]
  /\ todo = [x \in Jobs |-> None]
  /\ inserted = {}
  /\ target = [x \in Jobs |-> {}]
  /\ cleared = [x \in Jobs |-> {}]
  /\ snapshot = [r \in Recomputes |-> None]
  /\ overtaken = {} /\ late = {}

Over(x) == pc[x] \in {"done", "failed"}
Goto(x, step) == pc' = [pc EXCEPT ![x] = step]

\* A worker executes one job at a time.
WorkerFree ==
  /\ Cardinality({x \in Jobs : pc[x] # "new" /\ ~Over(x)}) < Workers
  /\ Cardinality({x \in Jobs : pc[x] # "new"}) < MaxExecutions

\* An admin saves or removes the labels of a scrutin (replace_labels).
SaveLabels ==
  /\ saves < MaxSaves
  /\ saves' = saves + 1
  /\ \E s \in Scrutins, T \in SUBSET Themes :
       label' = {l \in label : l[2] # s} \cup (T \X {s})
  /\ UNCHANGED <<content, estimate, rows, counters, current, personView, mandatView, pc, memory>>

\* What an execution read or held is gone when it is over.
Without(f, x, value) == [y \in DOMAIN f |-> IF y = x THEN value ELSE f[y]]
Forget(x) ==
  /\ file' = Without(file, x, None) /\ version' = Without(version, x, None)
  /\ eligible' = Without(eligible, x, {}) /\ todo' = Without(todo, x, None)
  /\ inserted' = inserted \ {x}
  /\ target' = Without(target, x, {}) /\ cleared' = Without(cleared, x, {})
  /\ snapshot' = Without(snapshot, x, None)

\* A statement fails, or the worker dies: the transaction is rolled back,
\* what was committed before stays.  The retry is another execution.
Fail_KeepsLocks(x) ==
  /\ pc[x] # "new" /\ ~Over(x)
  /\ Goto(x, "failed")
  /\ todo' = Without(todo, x, None) /\ snapshot' = Without(snapshot, x, None)
  /\ UNCHANGED <<tables, file, version, eligible, inserted, target, cleared>>

Fail(x) ==
  /\ pc[x] # "new" /\ ~Over(x)
  /\ Goto(x, "failed")
  /\ Forget(x)
  /\ UNCHANGED tables

-----------------------------------------------------------------------------
(* load_axis: is the version known, and with this content?                   *)

StartLoad(x) ==
  /\ pc[x] = "new" /\ WorkerFree
  /\ \E f \in SeedFiles : file' = [file EXCEPT ![x] = f]
  /\ Goto(x, "check")
  /\ UNCHANGED <<tables, version, eligible, todo, inserted, target, cleared, snapshot>>

CheckContent_AnyContent(x) ==
  /\ pc[x] = "check"
  /\ Goto(x, IF content[file[x].version] = None THEN "insert" ELSE "aim")
  /\ UNCHANGED <<tables, memory>>

CheckContent(x) ==
  LET known == content[file[x].version] IN
  /\ pc[x] = "check"
  /\ IF known \in {None, file[x].hash}
     THEN Goto(x, IF known = None THEN "insert" ELSE "aim") /\ UNCHANGED <<tables, memory>>
     ELSE Fail(x)

\* The primary key: wait for another transaction that inserts the version,
\* fail if the version is there.
InsertVersion(x) ==
  /\ pc[x] = "insert"
  /\ \A y \in inserted : file[y].version # file[x].version
  /\ IF content[file[x].version] = None
     THEN /\ Goto(x, "aim")
          /\ inserted' = inserted \cup {x}
          /\ UNCHANGED <<tables, file, version, eligible, todo, target, cleared, snapshot>>
     ELSE Fail(x)

\* compute_estimates, a batch: the rows replace those of the same version.
\* Its coordinates are those of the file, not those of the database.
Estimate(x) ==
  /\ pc[x] = "estimate"
  /\ \E s \in todo[x] :
       LET row == Estimated(file[x], s) IN
       /\ estimate' = {e \in estimate : e.version # row.version \/ e.scrutin # s} \cup {row}
       /\ todo' = [todo EXCEPT ![x] = @ \ {s}]
  /\ UNCHANGED <<label, saves, content, rows, counters, current, personView, mandatView, pc,
                 file, version, eligible, inserted, target, cleared, snapshot>>

EndLoad(x) ==
  /\ pc[x] = "estimate" /\ todo[x] = {}
  /\ Goto(x, "done")
  /\ Forget(x)
  /\ UNCHANGED tables

-----------------------------------------------------------------------------
(* recompute: the reads, and the rows they give.                             *)

\* The row of score_run is inserted; then the axis and the themes are read.
StartRun(r) ==
  /\ pc[r] = "new" /\ WorkerFree
  /\ Goto(r, "axis")
  /\ UNCHANGED <<tables, memory>>

ReadAxis(r) ==
  /\ pc[r] = "axis"
  /\ version' = [version EXCEPT ![r] =
       IF current["group_axis"] = {} THEN None ELSE CHOOSE v \in current["group_axis"] : TRUE]
  /\ Goto(r, "themes")
  /\ UNCHANGED <<tables, file, eligible, todo, inserted, target, cleared, snapshot>>

\* Without an axis or a theme nothing is computed, and the run is published.
ReadThemes(r) ==
  LET found == {t \in Themes : Cardinality({l \in label : l[1] = t}) >= ScrutinsMin} IN
  /\ pc[r] = "themes"
  /\ eligible' = [eligible EXCEPT ![r] = found]
  /\ Goto(r, IF version[r] = None \/ found = {} THEN "aim" ELSE "person")
  /\ UNCHANGED <<tables, file, version, todo, inserted, target, cleared, snapshot>>

\* The estimates of the scrutins labelled with a theme, on the axis of the run.
Measured_CurrentAxis(r, t) ==
  {e \in estimate : <<t, e.scrutin>> \in label /\ e.version \in current["group_axis"]}

Measured(r, t) ==
  {e \in estimate : <<t, e.scrutin>> \in label /\ e.version = version[r]}

Weigh(t, measures) == {e \in measures : <<t, e.scrutin>> \in Weighing}

Row(name, t, basis) == [table |-> name, theme |-> t, basis |-> basis]

\* Somebody who votes on every scrutin: each vote leaves a contribution, and
\* a score needs enough of those that weigh.
PersonRows(r) ==
  (UNION {{Row("contribution", t, {e}) : e \in Measured(r, t)} : t \in eligible[r]})
  \cup {Row("person", t, Weigh(t, Measured(r, t))) :
          t \in {u \in eligible[r] :
                   Cardinality(Weigh(u, Measured(r, u))) >= ContributionsMin}}

\* A group, and a mandate in it: one weighing vote is enough.
GroupeRows(r) ==
  {Row("groupe", t, Weigh(t, Measured(r, t))) :
     t \in {u \in eligible[r] : Weigh(u, Measured(r, u)) # {}}}

During(measures) == {e \in measures : e.scrutin \in Period}
MandatRows(r) ==
  {Row("mandat", t, During(Weigh(t, Measured(r, t)))) :
     t \in {u \in eligible[r] : During(Weigh(u, Measured(r, u))) # {}}}

Stages == {"person", "groupe", "mandat"}

\* One statement reads all that a stage needs.
Compute(r) ==
  /\ pc[r] \in Stages /\ todo[r] = None
  /\ todo' = [todo EXCEPT ![r] = CASE pc[r] = "person" -> PersonRows(r)
                                   [] pc[r] = "groupe" -> GroupeRows(r)
                                   [] pc[r] = "mandat" -> MandatRows(r)]
  /\ UNCHANGED <<tables, pc, file, version, eligible, inserted, target, cleared, snapshot>>

\* A batch: what one table gets for one theme, as soon as it is computed or later.
Flush(r) ==
  /\ pc[r] \in Stages /\ todo[r] # None
  /\ \E x \in todo[r] :
       LET batch == {y \in todo[r] : y.table = x.table /\ y.theme = x.theme} IN
       /\ rows' = [rows EXCEPT ![r] = @ \cup batch]
       /\ todo' = [todo EXCEPT ![r] = @ \ batch]
  /\ UNCHANGED <<label, saves, content, estimate, counters, current, personView, mandatView,
                 pc, file, version, eligible, inserted, target, cleared, snapshot>>

AfterStage(r) == CASE pc[r] = "person" -> "groupe"
                   [] pc[r] = "groupe" -> "mandat"
                   [] pc[r] = "mandat" -> "aim"

EndStage_ScoresLeft(r) ==
  /\ pc[r] \in Stages /\ todo[r] # None
  /\ \A x \in todo[r] : x.table # "contribution"
  /\ Goto(r, AfterStage(r))
  /\ todo' = [todo EXCEPT ![r] = None]
  /\ UNCHANGED <<tables, file, version, eligible, inserted, target, cleared, snapshot>>

\* The last flush left nothing.
EndStage(r) ==
  /\ pc[r] \in Stages /\ todo[r] = {}
  /\ Goto(r, AfterStage(r))
  /\ todo' = [todo EXCEPT ![r] = None]
  /\ UNCHANGED <<tables, file, version, eligible, inserted, target, cleared, snapshot>>

-----------------------------------------------------------------------------
(* The switch of is_current, the same in both jobs: two UPDATEs in one       *)
(* transaction, on a table whose partial unique index allows one current row.*)

TableOf(x) == IF x \in Recomputes THEN "score_run" ELSE "group_axis"
RowOf(x)   == IF x \in Recomputes THEN x ELSE file[x].version
Rivals(x)  == {y \in Jobs \ {x} : TableOf(y) = TableOf(x)}

\* SET is_current = false WHERE is_current: its snapshot.
Aim(x) ==
  /\ pc[x] = "aim"
  /\ target' = [target EXCEPT ![x] = current[TableOf(x)]]
  /\ Goto(x, "clear")
  /\ UNCHANGED <<tables, file, version, eligible, todo, inserted, cleared, snapshot>>

Clear_Autocommit(x) ==
  /\ pc[x] = "clear"
  /\ \A y \in Rivals(x) : cleared[y] \cap target[x] = {}
  /\ current' = [current EXCEPT ![TableOf(x)] = @ \ target[x]]
  /\ Goto(x, "set")
  /\ UNCHANGED <<label, saves, content, estimate, rows, counters, personView, mandatView, memory>>

\* It waits for a transaction that updated one of them, and looks again.
Clear(x) ==
  /\ pc[x] = "clear"
  /\ \A y \in Rivals(x) : cleared[y] \cap target[x] = {}
  /\ cleared' = [cleared EXCEPT ![x] = target[x] \cap current[TableOf(x)]]
  /\ Goto(x, "set")
  /\ UNCHANGED <<tables, file, version, eligible, todo, inserted, target, snapshot>>

Set_NoIndex(x) ==
  /\ pc[x] = "set"
  /\ Goto(x, "commit")
  /\ UNCHANGED <<tables, memory>>

\* SET is_current = true on its row: the index makes it wait for transactions
\* that change current rows, and fail if another row is current after that.
Set(x) ==
  /\ pc[x] = "set"
  /\ \A y \in Rivals(x) : pc[y] # "commit" /\ cleared[y] = {}
  /\ IF current[TableOf(x)] \subseteq cleared[x] \cup {RowOf(x)}
     THEN Goto(x, "commit") /\ UNCHANGED <<tables, memory>>
     ELSE Fail(x)

Switched(x) ==
  [current EXCEPT ![TableOf(x)] = (@ \ cleared[x]) \cup {RowOf(x)}]

CommitSwitch(x) ==
  /\ pc[x] = "commit"
  /\ current' = Switched(x)
  /\ target' = [target EXCEPT ![x] = {}]
  /\ cleared' = [cleared EXCEPT ![x] = {}]

CommitRun_WithCounters(r) ==
  /\ CommitSwitch(r)
  /\ Goto(r, "view person")
  /\ counters' = [counters EXCEPT ![r] = eligible[r]]
  /\ UNCHANGED <<label, saves, content, estimate, rows, personView, mandatView,
                 file, version, eligible, todo, inserted, snapshot>>

CommitRun(r) ==
  /\ CommitSwitch(r)
  /\ Goto(r, "view person")
  /\ UNCHANGED <<label, saves, content, estimate, rows, counters, personView, mandatView,
                 file, version, eligible, todo, inserted, snapshot>>

\* The estimates come after the switch.
CommitLoad(x) ==
  /\ CommitSwitch(x)
  /\ Goto(x, "estimate")
  /\ content' = IF x \in inserted THEN [content EXCEPT ![file[x].version] = file[x].hash]
                                  ELSE content
  /\ inserted' = inserted \ {x}
  /\ todo' = [todo EXCEPT ![x] = Scrutins]
  /\ UNCHANGED <<label, saves, estimate, rows, counters, personView, mandatView,
                 file, version, eligible, snapshot>>

-----------------------------------------------------------------------------
(* The end of recompute: REFRESH MATERIALIZED VIEW CONCURRENTLY, twice, and  *)
(* the counters.                                                             *)

Viewed(name) == UNION {Table(r, name) : r \in current["score_run"]}

Views == {"view person", "view mandat"}

\* The snapshot of the statement comes first, and then its wait for the lock
\* of the view.
StartRefresh(r) ==
  /\ pc[r] \in Views /\ snapshot[r] = None
  /\ snapshot' = [snapshot EXCEPT ![r] =
       Viewed(IF pc[r] = "view person" THEN "person" ELSE "mandat")]
  /\ UNCHANGED <<tables, pc, file, version, eligible, todo, inserted, target, cleared>>

EndRefresh_Swallowed(r) ==
  /\ snapshot[r] # None
  /\ Goto(r, IF pc[r] = "view person" THEN "view mandat" ELSE "counters")
  /\ snapshot' = [snapshot EXCEPT ![r] = None]
  /\ UNCHANGED <<tables, file, version, eligible, todo, inserted, target, cleared>>

\* It has the lock, one execution after the other, and the view becomes what
\* the snapshot says, whatever another put there in between.
EndRefresh(r) ==
  /\ snapshot[r] # None
  /\ \/ /\ pc[r] = "view person"
        /\ personView' = snapshot[r] /\ UNCHANGED mandatView
        /\ Goto(r, "view mandat")
     \/ /\ pc[r] = "view mandat"
        /\ mandatView' = snapshot[r] /\ UNCHANGED personView
        /\ Goto(r, "counters")
  /\ snapshot' = [snapshot EXCEPT ![r] = None]
  /\ UNCHANGED <<label, saves, content, estimate, rows, counters, current,
                 file, version, eligible, todo, inserted, target, cleared>>

EndRun(r) ==
  /\ pc[r] = "counters"
  /\ counters' = [counters EXCEPT ![r] = eligible[r]]
  /\ Goto(r, "done")
  /\ Forget(r)
  /\ UNCHANGED <<label, saves, content, estimate, rows, current, personView, mandatView>>

-----------------------------------------------------------------------------
Recompute(r) ==
  \/ StartRun(r) \/ ReadAxis(r) \/ ReadThemes(r)
  \/ Compute(r) \/ Flush(r) \/ EndStage(r)
  \/ Aim(r) \/ Clear(r) \/ Set(r) \/ CommitRun(r)
  \/ StartRefresh(r) \/ EndRefresh(r) \/ EndRun(r)
  \/ Fail(r)

Load(x) ==
  \/ StartLoad(x) \/ CheckContent(x) \/ InsertVersion(x)
  \/ Aim(x) \/ Clear(x) \/ Set(x) \/ CommitLoad(x)
  \/ Estimate(x) \/ EndLoad(x)
  \/ Fail(x)

Act ==
  \/ \E r \in Recomputes : Recompute(r)
  \/ \E x \in Loads : Load(x)
  \/ SaveLabels

\* What the properties remember of a step: it constrains nothing.
Fills(r, view) ==
  pc[r] = view /\ snapshot[r] # None /\ snapshot'[r] = None /\ pc'[r] # "failed"

Watch ==
  /\ overtaken' = {r \in Recomputes :
       /\ snapshot'[r] # None
       /\ \/ r \in overtaken
          \/ snapshot[r] # None /\ current'["score_run"] # current["score_run"]}
  /\ late' = {view \in Views : \E r \in Recomputes : Fills(r, view) /\ r \in overtaken}
             \cup {view \in late : \A r \in Recomputes : ~ Fills(r, view)}

Next == Act /\ Watch

Spec == Init /\ [][Next]_vars

-----------------------------------------------------------------------------
(* What the pages read.                                                      *)

\* get_person_orientations: the themes it shows.
Shown ==
  UNION {IF counters[r] = None THEN {} ELSE counters[r] \cap LeftRight : r \in current["score_run"]}

\* get_person_theme_contributions, of which those that weigh.
Contributions(t) ==
  UNION {UNION {x.basis : x \in {y \in Table(r, "contribution") : y.theme = t}} :
           r \in current["score_run"]}

-----------------------------------------------------------------------------
(* Properties.                                                               *)

InSwitch == {"clear", "set", "commit"}
IsEstimate(e) == e.version \in Versions /\ e.scrutin \in Scrutins

(* The types.  What an execution holds uncommitted lasts no longer than its  *)
(* transaction (recompute_scores.rs:167-177, load_axis): nothing is left     *)
(* locked or half inserted by one that failed.                               *)
TypeOK ==
  /\ label \subseteq Themes \X Scrutins
  /\ \A e \in estimate : IsEstimate(e)
  /\ \A r \in Recomputes : \A x \in rows[r] : x.theme \in Themes /\ \A e \in x.basis : IsEstimate(e)
  /\ current["score_run"] \subseteq Recomputes
  /\ \A v \in current["group_axis"] : content[v] # None
  /\ \A x \in Jobs : /\ target[x] # {} => pc[x] \in InSwitch
                     /\ cleared[x] # {} => pc[x] \in {"set", "commit"}
                     /\ cleared[x] \subseteq current[TableOf(x)]
  /\ \A x \in inserted : pc[x] = "aim" \/ pc[x] \in InSwitch
  /\ \A r \in Recomputes : snapshot[r] # None => pc[r] \in Views

(* There is one published run and one axis at most, whatever executions      *)
(* switch together (the indexes score_run_courant_idx, group_axis_courant_idx*)
(* and the two UPDATEs that never overlap).                                  *)
OneCurrent == \A t \in Tables : \A a, b \in current[t] : a = b

(* "un instant ou aucune ligne n'est courante, invisible aux lecteurs"       *)
(* (recompute_scores.rs:165): once a run or an axis is current, readers find *)
(* one at every moment.                                                      *)
StaysPublished ==
  [][\A t \in Tables : current[t] # {} => current'[t] # {}]_vars

(* A published run is complete: it has the score of a theme exactly when the *)
(* contributions it lists are enough, and the score rests on all of them     *)
(* ("sans elle, on affiche un verdict sans preuve", 0009_scores.sql:54).     *)
PublishedComplete ==
  \A r \in current["score_run"] : \A t \in Themes :
    LET proof == Weigh(t, UNION {x.basis : x \in {y \in Table(r, "contribution") : y.theme = t}})
    IN  {x \in Table(r, "person") : x.theme = t} =
          IF Cardinality(proof) >= ContributionsMin THEN {Row("person", t, proof)} ELSE {}

(* A refresh waits for another with the snapshot it has: if a run is         *)
(* published meanwhile, it then puts back the rows of an older one (section  *)
(* "A refresh that waited" of the README).  The two properties below say     *)
(* that this is the only way for a view to be of another run.                *)

(* The same for what a page gets from three tables and a view: the score of  *)
(* a theme it shows is that of the contributions it lists next to it, even   *)
(* while a run is being published (get_person_orientations).                 *)
VerdictHasProof ==
  "view person" \notin late =>
    \A t \in Shown :
      LET proof == Weigh(t, Contributions(t))
      IN  {x \in personView : x.theme = t} =
            IF Cardinality(proof) >= ContributionsMin THEN {Row("person", t, proof)} ELSE {}

(* A run that says it is finished is what both views show, even if another   *)
(* execution was refreshing them at the same time (recompute_scores.rs:182). *)
ViewsFollowRun ==
  \A r \in current["score_run"] :
    counters[r] # None =>
      /\ "view person" \in late \/ personView = Table(r, "person")
      /\ "view mandat" \in late \/ mandatView = Table(r, "mandat")

(* All the scores of a run come from one version of the axis, even if the    *)
(* axis changes during the run (recompute_scores.rs:119, read once).         *)
OneVersionPerRun ==
  \A r \in Recomputes : \A x, y \in rows[r] : \A e \in x.basis, f \in y.basis :
    e.version = f.version /\ e.hash = f.hash

(* "une coordonnee modifiee exige une nouvelle chaine version" (load_axis):  *)
(* the estimates of a version come from the contents recorded for it.        *)
OneContentPerVersion ==
  \A e \in estimate : e.hash = content[e.version]

(* The explanation page answers 404 for a theme that is not shown, since "il *)
(* n'existe alors aucune contribution a montrer" (routers/pages.py:104).      *)
NotFoundMeansNoContribution ==
  \A t \in LeftRight : t \notin Shown => Contributions(t) = {}
=============================================================================
