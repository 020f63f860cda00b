--------------------------- MODULE Categorisation ---------------------------
(***************************************************************************)
(* The back-office of the backend: admins categorise scrutins by a form,   *)
(* or by an import that is deposited, previewed, then applied or rejected. *)
(* A request is one HTTP handler; each of its SQL statements is one action *)
(* and requests interleave between any two of them.                        *)
(*                                                                         *)
(* PostgreSQL runs the transactions at READ COMMITTED: a statement sees    *)
(* what was committed when it started, a DELETE waits for rows that others *)
(* are deleting, an INSERT waits for rows that others insert under the     *)
(* same key, and a deferred trigger runs just before the commit.           *)
(***************************************************************************)
EXTENDS Integers, FiniteSetsExt, SequencesExt

CONSTANTS
  Scrutins,
  Contents,     \* the ways to categorise one scrutin: functions themes -> poids
  Whole,        \* what the poids of a scrutin must add up to (1.000)
  Files,        \* the import files: functions scrutins -> [weights, spelled], where
                \* a number is spelled "exact" (1.000) or "short" (1)
  Imports,      \* ids of label_import
  Requests,     \* the HTTP requests of the admins
  StartLabels,  \* rows of scrutin_label at the start
  MaxOpen       \* bound: requests handled at once

\* The form and the import refuse anything else (categorisation.py:82-91,
\* import_validation.py:149-164); <<>> is what `supprimer` asks for.
ASSUME ContentsAssumption ==
  \A c \in Contents : c = <<>> \/ FoldFunction(+, 0, c) = Whole

VARIABLES
  labels,    \* the committed rows of scrutin_label
  history,   \* the committed rows of label_revision, for each scrutin
  file,      \* label_import.contenu
  apercu,    \* label_import.apercu
  istatus,   \* label_import.status, "none" before the deposit
  pc,        \* where each request is
  input,     \* what each request asks
  loaded,    \* apercu as the request read it
  plan,      \* what the request is about to write, with what it replaces
  targets,   \* rows its DELETE found
  deleted,   \* rows it deleted, not committed
  inserted,  \* rows it inserted, not committed
  missed,    \* for the properties: the scrutins that others committed since
             \* each request read what its plan replaces
  blind      \* for the properties: the scrutins that some request committed
             \* although it had missed a commit on them

tables  == <<labels, history, file, apercu, istatus>>
request == <<pc, input, loaded, plan, targets, deleted, inserted>>
past    == <<missed, blind>>
vars    == <<tables, request, past>>

Empty == <<>>   \* no category: the function without arguments

\* What the columns of a scrutin hold, as the code reads them back.
Weights(rows, s) ==
  LET own == {x \in rows : x.scrutin = s}
  IN  [t \in {x.theme : x \in own} |-> (CHOOSE x \in own : x.theme = t).poids]
Exact(weights) == [weights |-> weights, spelled |-> "exact"]

-----------------------------------------------------------------------------
(* build_plan.  Here and below, X_Slip is X with a plausible slip.           *)

Classement(avant, apres, rows) ==
  CASE avant = apres          -> "inchange"
    [] rows = {}              -> "creation"
    [] \E x \in rows : x.method = "manual" -> "conflit"
    [] OTHER                  -> "modification"

PlanOf(f, rows) ==
  [s \in DOMAIN f |->
     LET avant == Exact(Weights(rows, s))
     IN  [avant |-> avant, apres |-> f[s],
          classement |-> Classement(avant, f[s], {x \in rows : x.scrutin = s})]]

\* What a request writes: a form its scrutin, an import what changes, and
\* the conflicts only if the box is ticked.
Touched_ConflictsToo(r) ==
  IF input[r].kind = "save" THEN DOMAIN plan[r]
  ELSE {s \in DOMAIN plan[r] : plan[r][s].classement # "inchange"}

Touched_NeverConflicts(r) ==
  IF input[r].kind = "save" THEN DOMAIN plan[r]
  ELSE {s \in DOMAIN plan[r] : plan[r][s].classement \notin {"inchange", "conflit"}}

Touched(r) ==
  IF input[r].kind = "save" THEN DOMAIN plan[r]
  ELSE {s \in DOMAIN plan[r] :
          /\ plan[r][s].classement # "inchange"
          /\ plan[r][s].classement = "conflit" => input[r].box}

\* The rows it inserts; numeric(4,3) stores a weight however it was spelled.
NewRows(r) ==
  UNION {{[scrutin |-> s, theme |-> t, poids |-> plan[r][s].apres.weights[t],
           method |-> IF input[r].kind = "save" THEN "manual" ELSE "import", by |-> r]
          : t \in DOMAIN plan[r][s].apres.weights} : s \in Touched(r)}

SameKey(x, y) == x.scrutin = y.scrutin /\ x.theme = y.theme

\* scrutin_label_coherence, once for each row written: the sum of the weights
\* is counted, each row holding so many units (thousandths) of its scrutin.
Units(rows) == UNION {{x} \X (1..x.poids) : x \in rows}

Coherent(rows, s) ==
  LET own == {x \in rows : x.scrutin = s}
  IN  own = {} \/ Cardinality(Units(own)) = Whole

\* What was categorised before obeys the columns, the primary key and the
\* trigger, each scrutin by one decision; a file that validates is not empty.
IsWeights(w) == w = [t \in DOMAIN w |-> w[t]] /\ \A t \in DOMAIN w : w[t] \in 1..Whole
IsRow(x) == /\ x.scrutin \in Scrutins
            /\ x.poids \in 1..Whole
            /\ x.method \in {"manual", "import"}

ASSUME StartAssumption ==
  /\ Whole \in Nat \ {0} /\ IsFiniteSet(StartLabels)
  /\ \A c \in Contents : IsWeights(c)
  /\ \A f \in Files : /\ f # <<>> /\ DOMAIN f \subseteq Scrutins
                      /\ \A s \in DOMAIN f : IsWeights(f[s].weights) /\ DOMAIN f[s].weights # {}
  /\ \A x \in StartLabels : IsRow(x) /\ x.by \notin Requests
  /\ \A x, y \in StartLabels : (SameKey(x, y) => x = y) /\ (x.scrutin = y.scrutin => x.by = y.by)
  /\ \A s \in Scrutins : Coherent(StartLabels, s)

-----------------------------------------------------------------------------
Init ==
  /\ labels = StartLabels
  /\ history = [s \in Scrutins |-> <<>>]
  /\ file = [i \in Imports |-> Empty]
  /\ apercu = [i \in Imports |-> Empty]
  /\ istatus = [i \in Imports |-> "none"]
  /\ pc = [r \in Requests |-> "new"]
  /\ input = [r \in Requests |-> [kind |-> "none"]]
  /\ loaded = [r \in Requests |-> Empty]
  /\ plan = [r \in Requests |-> Empty]
  /\ targets = [r \in Requests |-> {}]
  /\ deleted = [r \in Requests |-> {}]
  /\ inserted = [r \in Requests |-> {}]
  /\ missed = [r \in Requests |-> {}]
  /\ blind = {}

Over(r) == pc[r] \in {"done", "failed"}
Goto(r, step) == pc' = [pc EXCEPT ![r] = step]

\* The response is sent; nothing of the request is left.
Leave(r, how) ==
  /\ pc' = [pc EXCEPT ![r] = how]
  /\ loaded' = [loaded EXCEPT ![r] = Empty]
  /\ plan' = [plan EXCEPT ![r] = Empty]
  /\ targets' = [targets EXCEPT ![r] = {}]
  /\ deleted' = [deleted EXCEPT ![r] = {}]
  /\ inserted' = [inserted EXCEPT ![r] = {}]
  /\ UNCHANGED input

Open(r, asked, step) ==
  /\ pc[r] = "new"
  /\ Cardinality({q \in Requests : pc[q] # "new" /\ ~Over(q)}) < MaxOpen
  /\ pc' = [pc EXCEPT ![r] = step]
  /\ input' = [input EXCEPT ![r] = asked]
  /\ UNCHANGED <<tables, loaded, plan, targets, deleted, inserted>>

\* The form, and `supprimer` with Empty.
OpenSave(r) ==
  \E s \in Scrutins, c \in Contents :
    Open(r, [kind |-> "save", scrutin |-> s, weights |-> c], "read")
OpenDeposit(r) ==
  \E f \in Files :
    /\ \E i \in Imports : istatus[i] = "none"   \* bound: the ids left
    /\ Open(r, [kind |-> "deposit", file |-> f], "plan")
OpenApply(r) ==
  \E i \in Imports, box \in BOOLEAN :
    Open(r, [kind |-> "apply", import |-> i, box |-> box], "load")
OpenReject(r) ==
  \E i \in Imports : Open(r, [kind |-> "reject", import |-> i], "load")

-----------------------------------------------------------------------------
(* Imports: deposit_import, apply_import and reject_import.                  *)

Load_AnyStatus(r) ==
  LET i == input[r].import IN
  /\ pc[r] = "load"
  /\ loaded' = [loaded EXCEPT ![r] = apercu[i]]
  /\ Goto(r, IF input[r].kind = "apply" THEN "plan" ELSE "mark")
  /\ UNCHANGED <<tables, input, plan, targets, deleted, inserted>>

\* get_label_import; 404 or 400 unless the import is pending.
Load(r) ==
  LET i == input[r].import IN
  /\ pc[r] = "load"
  /\ IF istatus[i] # "pending" THEN Leave(r, "done")
     ELSE /\ loaded' = [loaded EXCEPT ![r] = apercu[i]]
          /\ Goto(r, IF input[r].kind = "apply" THEN "plan" ELSE "mark")
          /\ UNCHANGED <<input, plan, targets, deleted, inserted>>
  /\ UNCHANGED tables

BuildPlan(r) ==
  /\ pc[r] = "plan"
  /\ plan' = [plan EXCEPT ![r] =
       PlanOf(IF input[r].kind = "deposit" THEN input[r].file ELSE file[input[r].import],
              labels)]
  /\ Goto(r, IF input[r].kind = "deposit" THEN "store" ELSE "compare")
  /\ UNCHANGED <<tables, input, loaded, targets, deleted, inserted>>

\* create_label_import
Store(r) ==
  \E i \in Imports :
    /\ pc[r] = "store"
    /\ istatus[i] = "none"
    /\ istatus' = [istatus EXCEPT ![i] = "pending"]
    /\ file' = [file EXCEPT ![i] = input[r].file]
    /\ apercu' = [apercu EXCEPT ![i] = plan[r]]
    /\ Leave(r, "done")
    /\ UNCHANGED <<labels, history>>

Compare_Never(r) ==
  /\ pc[r] = "compare"
  /\ Goto(r, IF Touched(r) = {} THEN "mark" ELSE "delete")
  /\ UNCHANGED <<tables, input, loaded, plan, targets, deleted, inserted>>

\* The base changed since the aperçu: it is replaced, and nothing applied.
Compare(r) ==
  LET i == input[r].import IN
  /\ pc[r] = "compare"
  /\ IF plan[r] # loaded[r]
     THEN /\ apercu' = [apercu EXCEPT ![i] = plan[r]]
          /\ Leave(r, "done")
     ELSE /\ Goto(r, IF Touched(r) = {} THEN "mark" ELSE "delete")
          /\ UNCHANGED <<apercu, input, loaded, plan, targets, deleted, inserted>>
  /\ UNCHANGED <<labels, history, file, istatus>>

\* mark_applied or mark_rejected, outside of the transaction.
Mark(r) ==
  /\ pc[r] = "mark"
  /\ istatus' = [istatus EXCEPT ![input[r].import] =
       IF input[r].kind = "apply" THEN "applied" ELSE "rejected"]
  /\ Leave(r, "done")
  /\ UNCHANGED <<labels, history, file, apercu>>

-----------------------------------------------------------------------------
(* The transaction of replace_labels and of apply_plan.                      *)

\* BEGIN, and what replace_labels reads first.
Read(r) ==
  LET s == input[r].scrutin IN
  /\ pc[r] = "read"
  /\ plan' = [plan EXCEPT ![r] =
       [x \in {s} |-> [avant |-> Exact(Weights(labels, s)), apres |-> Exact(input[r].weights)]]]
  /\ Goto(r, "delete")
  /\ UNCHANGED <<tables, input, loaded, targets, deleted, inserted>>

\* The DELETE starts: its snapshot.
Aim_OwnThemes(r) ==
  /\ pc[r] = "delete"
  /\ targets' = [targets EXCEPT ![r] = {x \in labels : \E y \in NewRows(r) : SameKey(x, y)}]
  /\ Goto(r, "wait")
  /\ UNCHANGED <<tables, input, loaded, plan, deleted, inserted>>

Aim(r) ==
  /\ pc[r] = "delete"
  /\ targets' = [targets EXCEPT ![r] = {x \in labels : x.scrutin \in Touched(r)}]
  /\ Goto(r, "wait")
  /\ UNCHANGED <<tables, input, loaded, plan, deleted, inserted>>

\* It ends once no other transaction holds any of those rows, and skips the
\* rows that are gone by then.
Delete(r) ==
  /\ pc[r] = "wait"
  /\ \A q \in Requests \ {r} : deleted[q] \cap targets[r] = {}
  /\ deleted' = [deleted EXCEPT ![r] = targets[r] \cap labels]
  /\ Goto(r, "insert")
  /\ UNCHANGED <<tables, input, loaded, plan, targets, inserted>>

\* As if each row were committed on its own.
Insert_Autocommit(r) ==
  /\ pc[r] = "insert"
  /\ \E x \in NewRows(r) \ inserted[r] :
    /\ \A q \in Requests \ {r} : \A y \in inserted[q] \cup deleted[q] : ~SameKey(x, y)
    /\ \A y \in labels \ deleted[r] : ~SameKey(x, y)
    /\ labels' = labels \cup {x}
    /\ inserted' = [inserted EXCEPT ![r] = @ \cup {x}]
  /\ UNCHANGED <<history, file, apercu, istatus, pc, input, loaded, plan, targets, deleted>>

\* An INSERT waits while another transaction inserts or deletes a row under
\* the key (the primary key of scrutin_label).
Insert(r) ==
  /\ pc[r] = "insert"
  /\ \E x \in NewRows(r) \ inserted[r] :
    /\ \A q \in Requests \ {r} : \A y \in inserted[q] \cup deleted[q] : ~SameKey(x, y)
    /\ IF \E y \in labels \ deleted[r] : SameKey(x, y)
       THEN Leave(r, "failed")
       ELSE /\ inserted' = [inserted EXCEPT ![r] = @ \cup {x}]
            /\ UNCHANGED <<pc, input, loaded, plan, targets, deleted>>
    /\ UNCHANGED tables

Check_Skipped(r) ==
  /\ pc[r] = "insert" /\ inserted[r] = NewRows(r)
  /\ Goto(r, "commit")
  /\ UNCHANGED <<input, loaded, plan, targets, deleted, inserted>>
  /\ UNCHANGED tables

Check(r) ==
  /\ pc[r] = "insert" /\ inserted[r] = NewRows(r)
  /\ IF \A x \in deleted[r] \cup inserted[r] :
          Coherent((labels \ deleted[r]) \cup inserted[r], x.scrutin)
     THEN Goto(r, "commit") /\ UNCHANGED <<input, loaded, plan, targets, deleted, inserted>>
     ELSE Leave(r, "failed")
  /\ UNCHANGED tables

Revisions_NotOfRemovals(r, s) ==
  IF s \in Touched(r) /\ plan[r][s].apres.weights # Empty
  THEN <<[avant |-> plan[r][s].avant, apres |-> plan[r][s].apres]>>
  ELSE <<>>

Revisions_IgnoredConflicts(r, s) ==
  IF s \in DOMAIN plan[r] /\ plan[r][s].avant # plan[r][s].apres
  THEN <<[avant |-> plan[r][s].avant, apres |-> plan[r][s].apres]>>
  ELSE <<>>

\* The row of label_revision, if the state changed for this request.
Revisions(r, s) ==
  IF s \in Touched(r) /\ plan[r][s].avant # plan[r][s].apres
  THEN <<[avant |-> plan[r][s].avant, apres |-> plan[r][s].apres]>>
  ELSE <<>>

Commit(r) ==
  /\ pc[r] = "commit"
  /\ labels' = (labels \ deleted[r]) \cup inserted[r]
  /\ history' = [s \in Scrutins |-> history[s] \o Revisions(r, s)]
  /\ IF input[r].kind = "save" THEN Leave(r, "done")
     ELSE /\ Goto(r, "mark")
          /\ targets' = [targets EXCEPT ![r] = {}]
          /\ deleted' = [deleted EXCEPT ![r] = {}]
          /\ inserted' = [inserted EXCEPT ![r] = {}]
          /\ UNCHANGED <<input, loaded, plan>>
  /\ UNCHANGED <<file, apercu, istatus>>

\* A statement fails, a deadlock is broken, the backend restarts: the request
\* ends there, and its transaction is rolled back.
Fail(r) ==
  /\ pc[r] # "new" /\ ~Over(r)
  /\ Leave(r, "failed")
  /\ UNCHANGED tables

-----------------------------------------------------------------------------
Handle(r) ==
  \/ OpenSave(r) \/ OpenDeposit(r) \/ OpenApply(r) \/ OpenReject(r)
  \/ Load(r) \/ BuildPlan(r) \/ Store(r) \/ Compare(r) \/ Mark(r)
  \/ Read(r) \/ Aim(r) \/ Delete(r) \/ Insert(r) \/ Check(r) \/ Commit(r)
  \/ Fail(r)

\* What the properties remember of a step: it constrains nothing.
Watch(r) ==
  LET committed == IF pc[r] = "commit" /\ pc'[r] # "failed" THEN Touched(r) ELSE {}
  IN  /\ missed' = [q \in Requests |->
                      IF plan'[q] = Empty THEN {}
                      ELSE IF q = r THEN missed[q] ELSE missed[q] \cup committed]
      /\ blind' = blind \cup (committed \cap missed[r])

Next == \E r \in Requests : Handle(r) /\ Watch(r)

Spec == Init /\ [][Next]_vars

-----------------------------------------------------------------------------
(* Properties.                                                               *)

(* The types; a row being deleted is a committed row, and has one deleter; a *)
(* decided import was deposited first (label_import has one row per deposit, *)
(* and apply_import and reject_import refuse an id without a row).           *)
TypeOK ==
  /\ \A x \in labels : IsRow(x)
  /\ DOMAIN history = Scrutins
  /\ \A i \in Imports :
       /\ istatus[i] \in {"none", "pending", "applied", "rejected"}
       /\ istatus[i] = "none" <=> file[i] = Empty
       /\ DOMAIN apercu[i] = DOMAIN file[i]
  /\ \A r \in Requests :
       /\ pc[r] \in {"new", "load", "plan", "store", "compare", "mark", "read", "delete",
                    "wait", "insert", "commit", "done", "failed"}
       /\ DOMAIN plan[r] \subseteq Scrutins
       /\ deleted[r] \subseteq labels
       /\ \A q \in Requests \ {r} : deleted[q] \cap deleted[r] = {}

(* "La somme des poids d'un scrutin vaut exactement 1" in what is committed, *)
(* whatever requests run together (0007_categorisation.sql, section 9: the   *)
(* deferred trigger checks a transaction that does not see the others).      *)
WeightsCoherent == \A s \in Scrutins : Coherent(labels, s)

(* A revision is "l'etat complet avant et apres" (0007, section 8): when one *)
(* is committed, what is committed with it for its scrutin is its `apres`.   *)
RevisionTellsTruth ==
  [][\A s \in Scrutins :
       history'[s] # history[s] => Weights(labels', s) = Last(history'[s]).apres.weights]_vars

(* The set of rows of one scrutin is one decision: an import or a form never *)
(* leaves its rows mixed with those of another (replace_labels "remplace     *)
(* integralement", apply_plan deletes by scrutin and not by theme).          *)
OneDecision ==
  \A x, y \in labels : x.scrutin = y.scrutin => x.by = y.by

(* Requests that overlap may write a scrutin without having seen what another *)
(* just committed: they hold no lock between the read and the write (section  *)
(* "Requests that miss a commit" of the README).  The properties below say    *)
(* that nothing else can go wrong, however many requests overlap, labels are  *)
(* removed or requests fail.                                                  *)

(* The history of a scrutin is a chain: each revision starts from the state  *)
(* the one before left (queries/labels.py and queries/imports.py take        *)
(* `avant` from a read that precedes the write).                             *)
HistoryChain ==
  \A s \in Scrutins \ blind : \A n \in DOMAIN history[s] :
    history[s][n].avant.weights =
      IF n = 1 THEN Weights(StartLabels, s) ELSE history[s][n - 1].apres.weights

(* The history is complete: the labels of a scrutin are what its last        *)
(* revision says, and the initial ones if it has none, removals included.    *)
LastRevisionIsCurrent ==
  \A s \in Scrutins \ blind :
    Weights(labels, s) =
      IF history[s] = <<>> THEN Weights(StartLabels, s) ELSE Last(history[s]).apres.weights

(* The labels of a scrutin add up and are one decision, even where rows were *)
(* removed or there were none to lock (WeightsCoherent and OneDecision ask   *)
(* the same of all scrutins, and fail there).                                *)
WholeUnlessBlind ==
  \A s \in Scrutins \ blind :
    /\ Coherent(labels, s)
    /\ \A x, y \in labels : x.scrutin = s /\ y.scrutin = s => x.by = y.by

(* A categorisation someone made by hand is replaced by an import only if    *)
(* the admin ticked `ecraser_conflits`, whatever happened to the base        *)
(* between the deposit, the apercu, and the application (apply_import).      *)
ReviewedKept ==
  [][\A r \in Requests :
       (input[r].kind = "apply" /\ pc[r] = "commit" /\ pc'[r] = "mark" /\ ~input[r].box) =>
         \A x \in labels \ labels' : x.scrutin \notin missed[r] => x.method # "manual"]_vars

(* What an import writes is what its apercu said when the request loaded it: *)
(* at the commit, the plan of its file against the labels it replaces is the *)
(* one that was loaded, scrutin by scrutin (apply_import, the comparison).   *)
AppliedAsLoaded ==
  [][\A r \in Requests :
       (input[r].kind = "apply" /\ pc[r] = "commit" /\ pc'[r] = "mark") =>
         LET f == file[input[r].import]
         IN  \A s \in DOMAIN f \ missed[r] : PlanOf(f, labels)[s] = loaded[r][s]]_vars

(* "Ce qui a ete applique est bien ce qui a ete relu" (0007:127-130): at the *)
(* commit of an import, the plan of its file against the labels it replaces  *)
(* is the apercu on record, the one an admin could read, whatever others do. *)
AppliedAsReviewed ==
  [][\A r \in Requests :
       (input[r].kind = "apply" /\ pc[r] = "commit" /\ pc'[r] = "mark") =>
         PlanOf(file[input[r].import], labels) = apercu[input[r].import]]_vars

(* An import marked applied left its mark: if it was applied with the box    *)
(* ticked, each scrutin of its file holds the weights of the file, unless    *)
(* somebody else wrote it since (step 4 of apply_import comes after step 3;  *)
(* a failure between them leaves "pending").                                 *)
AppliedIsWritten ==
  [][\A r \in Requests :
       (pc[r] = "mark" /\ pc'[r] = "done" /\ input[r].kind = "apply" /\ input[r].box) =>
         LET f == file[input[r].import]
         IN  \A s \in DOMAIN f \ missed[r] : Weights(labels, s) = f[s].weights]_vars
=============================================================================
