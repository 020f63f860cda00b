---------------------------- MODULE Referentiel ----------------------------
(***************************************************************************)
(* The tables the ingestion jobs of the worker fill, and how an execution  *)
(* of one of these jobs begins and ends (worker/src/run.rs).  Every        *)
(* statement commits by itself, unless an action says otherwise.           *)
(*                                                                         *)
(* A job is executed by a worker of JobQueue: two of the same kind may run *)
(* at once, and one that was robbed of its job goes on.                    *)
(***************************************************************************)
EXTENDS Integers, Sequences, FiniteSets, SequencesExt, FiniteSetsExt, TLC

CONSTANTS
  Execs,  \* bound: the executions open at once
  Tasks,  \* bound: a sequence of sets of [kind, input]; the n-th execution is
          \* given one of the n-th set
  None    \* NULL

FirstStep == [acteurs |-> "archive_organes", scrutins |-> "archive", slugs |-> "persons",
              candidates |-> "file", wikidata |-> "qids"]

ASSUME ReferentielAssumption ==
  /\ Tasks \in Seq(ToSet(Tasks))
  /\ \A n \in DOMAIN Tasks : \A t \in Tasks[n] : t.kind \in DOMAIN FirstStep

Inputs(kind) == {t.input : t \in {u \in UNION ToSet(Tasks) : u.kind = kind}}

VARIABLES
  base,   \* the tables
  exec,   \* each execution: its kind, its input, where it is, what it has read
  begun,  \* how many began
  last    \* the execution that began last, if it began alone, and whether it
          \* ended well; for the properties
vars == <<base, exec, begun, last>>

Sources == {"an_organe", "an_acteur", "an_scrutin"}
NoRow   == <<>>

\* A table is a function from its key to its rows.
Tables ==
  [documents  |-> [s \in Sources |-> <<>>],  \* source_document, by fetched_at, then id
   organes    |-> NoRow,   \* an_uid -> code_type
   persons    |-> NoRow,   \* id -> [an, qid, nom]
   mandats    |-> NoRow,   \* an_uid -> [uid, person, type, organe, debut, fin]
   scrutins   |-> NoRow,   \* an_uid -> [content, document]
   groupes    |-> NoRow,   \* scrutin, rang -> [organe, line]
   votes      |-> NoRow,   \* scrutin, person -> [position, organe, fromMandat]
   mises      |-> NoRow,   \* scrutin, person, position -> document
   slugs      |-> NoRow,   \* slug -> person
   candidates |-> {},      \* persons
   photos     |-> NoRow]   \* person -> image

\* How an execution ends, as far as another one, or a property, can tell: nobody
\* reads the status in ingestion_run.
Outcomes  == {"over", "refused"}
Over(how) == [kind |-> None, input |-> None, pc |-> how, mem |-> NoRow]

Init ==
  /\ base = Tables
  /\ exec = [e \in Execs |-> Over("over")]
  /\ begun = 0 /\ last = None

Upsert(rows, table) ==
  [k \in DOMAIN rows \cup DOMAIN table |-> IF k \in DOMAIN rows THEN rows[k] ELSE table[k]]

\* An id is the identifier a person was created with: neither ever changes.
IdOf(person)  == IF person.an # None THEN person.an ELSE person.qid
PersonsAN     == {p \in DOMAIN base.persons : base.persons[p].an # None}

At(e, kind, pc) == exec[e].kind = kind /\ exec[e].pc = pc
Active(e)       == exec[e].pc \notin Outcomes
Goto(e, pc)     == exec' = [exec EXCEPT ![e].pc = pc] /\ UNCHANGED <<begun, last>>
Remember(e, pc, facts) ==
  exec' = [exec EXCEPT ![e].pc = pc, ![e].mem = Upsert(facts, @)] /\ UNCHANGED <<begun, last>>
Fill(tables)    == base' = Upsert(tables, base)

IsLast(e) == last # None /\ last.exec = e

\* finish_err, when a constraint refuses a statement or for any other error.
Abort(e, how) ==
  /\ exec' = [exec EXCEPT ![e] = Over(how)]
  /\ last' = IF IsLast(e) THEN None ELSE last
  /\ UNCHANGED <<base, begun>>
Refuse(e) == Abort(e, "refused")
Fail(e)   == Abort(e, "over")

\* run::start.
Start(e) ==
  /\ ~Active(e) /\ begun < Len(Tasks)
  /\ \E t \in Tasks[begun + 1] :
       /\ exec' = [exec EXCEPT ![e] = [kind |-> t.kind, input |-> t.input,
                                       pc |-> FirstStep[t.kind], mem |-> NoRow]]
       /\ last' = IF \E f \in Execs : Active(f) THEN None
                  ELSE [exec |-> e, kind |-> t.kind, input |-> t.input, done |-> FALSE]
  /\ begun' = begun + 1 /\ UNCHANGED base

\* run::finish_ok.
Finish(e) ==
  /\ exec[e].pc = "finish"
  /\ exec' = [exec EXCEPT ![e] = Over("over")]
  /\ last' = IF IsLast(e) THEN [last EXCEPT !.done = TRUE] ELSE last
  /\ UNCHANGED <<base, begun>>

\* A download or a statement fails, PostgreSQL ends a deadlock, or the process
\* dies: the row in ingestion_run then stays in `running`.
Break(e) == Active(e) /\ Fail(e)
=============================================================================
