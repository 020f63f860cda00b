--------------------------- MODULE IngestActeurs ---------------------------
(***************************************************************************)
(* The job ingest_acteurs (worker/src/jobs/ingest_acteurs.rs): organes,    *)
(* persons and mandates of one AMO30 archive.  Its input is                *)
(*   [organes : Seq([uid, type]), acteurs : Seq([an, nom, mandats])]       *)
(* where a mandate is [uid, type, organe, debut, fin].  Organes and days   *)
(* are integers, and Ongoing is the end of a mandate without end.          *)
(***************************************************************************)
EXTENDS Referentiel, Mandats

CONSTANTS
  MandatBatch  \* bound: BATCH_SIZE, mandates written by one statement

Retained == {"GP", "PARPOL", "ASSEMBLEE"}  \* RETAINED_CODE_TYPES

\* archive_documents: a content that is already there adds no row, the others
\* follow in the order of the archive.
ArchiveDocuments(source, documents) ==
  LET stored       == base.documents[source]
      Sooner(c, d) == \E i \in DOMAIN documents : documents[i] = c /\ d \notin ToSet(SubSeq(documents, 1, i))
  IN  \E new \in SetToSeqs(ToSet(documents) \ ToSet(stored)) :
        /\ \A i, j \in DOMAIN new : i < j => Sooner(new[i], new[j])
        /\ Fill([documents |-> [base.documents EXCEPT ![source] = stored \o new]])

ArchiveOrganes(e) ==
  /\ At(e, "acteurs", "archive_organes")
  /\ ArchiveDocuments("an_organe", exec[e].input.organes)
  /\ Goto(e, "archive_acteurs")

ArchiveActeurs(e) ==
  /\ At(e, "acteurs", "archive_acteurs")
  /\ ArchiveDocuments("an_acteur", exec[e].input.acteurs)
  /\ Goto(e, "organes")

RetainedOrganes(archive) == {o \in ToSet(archive.organes) : o.type \in Retained}

UpsertOrganes(e) ==
  LET retained == RetainedOrganes(exec[e].input)
      rows     == [u \in {o.uid : o \in retained} |-> (CHOOSE o \in retained : o.uid = u).type]
  IN  /\ At(e, "acteurs", "organes")
      /\ Fill([organes |-> Upsert(rows, base.organes)])
      /\ Goto(e, "organe_ids")

FetchOrganeIds(e) ==
  /\ At(e, "acteurs", "organe_ids")
  /\ Remember(e, "persons", [organes |-> DOMAIN base.organes])
  /\ UNCHANGED base

\* The mandates of a list that are in a set, in their order.
Only(mandats, set) ==
  FlattenSeq([i \in DOMAIN mandats |-> IF mandats[i] \in set THEN <<mandats[i]>> ELSE <<>>])

\* upsert_mandats, before it writes: the mandates of an acteur, those of a group
\* first and normalised; then those of all acteurs.
MandatRows(acteur, organes) ==
  LET valid == {m \in ToSet(acteur.mandats) :
                  m.type \in Retained /\ m.organe \in organes /\ m.debut # None /\ m.debut <= m.fin}
      gp    == {m \in valid : m.type = "GP"}
      rows  == Normalize(Only(acteur.mandats, gp)).retained \o Only(acteur.mandats, valid \ gp)
  IN  [i \in DOMAIN rows |-> Upsert([person |-> acteur.an], rows[i])]

ToWrite(archive, organes) ==
  FlattenSeq([i \in DOMAIN archive.acteurs |-> MandatRows(archive.acteurs[i], organes)])

\* An archive has one file for each acteur, and one entry for each mandate.
ASSUME ActeursAssumption ==
  /\ MandatBatch \in Nat \ {0}
  /\ \A archive \in Inputs("acteurs") :
       /\ archive.acteurs \in Seq(ToSet(archive.acteurs))
       /\ \A a, b \in ToSet(archive.acteurs) :
            /\ a.an # None /\ (a.an = b.an => a = b)
            /\ \A i \in DOMAIN a.mandats, j \in DOMAIN b.mandats :
                 a.mandats[i].uid = b.mandats[j].uid => a = b /\ i = j
       /\ \A a \in ToSet(archive.acteurs) :
            /\ a.mandats \in Seq(ToSet(a.mandats))
            /\ \A m \in ToSet(a.mandats) :
                 /\ DOMAIN m = {"uid", "type", "organe", "debut", "fin"}
                 /\ m.organe \in Int /\ m.fin \in Int /\ (m.debut = None \/ m.debut \in Int)

Named(archive) ==
  [p \in {a.an : a \in ToSet(archive.acteurs)} |->
     [an  |-> p,
      qid |-> IF p \in DOMAIN base.persons THEN base.persons[p].qid ELSE None,
      nom |-> (CHOOSE a \in ToSet(archive.acteurs) : a.an = p).nom]]

\* A person already there keeps its row.
UpsertPersons_KeepsRow(e) ==
  /\ At(e, "acteurs", "persons")
  /\ Fill([persons |-> Upsert(base.persons, Named(exec[e].input))])
  /\ Remember(e, "mandats", [todo |-> ToWrite(exec[e].input, exec[e].mem.organes)])

\* The ids it reads next are those of all its acteurs: no person is deleted.
UpsertPersons(e) ==
  /\ At(e, "acteurs", "persons")
  /\ Fill([persons |-> Upsert(Named(exec[e].input), base.persons)])
  /\ Remember(e, "mandats", [todo |-> ToWrite(exec[e].input, exec[e].mem.organes)])

\* mandat_gp_sans_chevauchement, checked row by row.
Excludes(row, m) ==
  /\ row.uid # m.uid /\ row.type = "GP" /\ m.type = "GP"
  /\ row.person = m.person /\ row.organe = m.organe /\ Overlap(row, m)
Excluded(table, m) == \E u \in DOMAIN table : Excludes(table[u], m)

\* The table once these mandates are written.
With(mandats, table) ==
  Upsert([u \in {m.uid : m \in ToSet(mandats)} |-> CHOOSE m \in ToSet(mandats) : m.uid = u], table)

UpsertMandats(e) ==
  LET todo     == exec[e].mem.todo
      size     == Min({MandatBatch, Len(todo)})
      batch    == SubSeq(todo, 1, size)
      accepted == \A i \in DOMAIN batch :
                    ~Excluded(With(SubSeq(batch, 1, i - 1), base.mandats), batch[i])
  IN  /\ At(e, "acteurs", "mandats")
      /\ \/ /\ todo = <<>>
            /\ Goto(e, "finish") /\ UNCHANGED base
         \/ /\ todo # <<>> /\ accepted
            /\ Fill([mandats |-> With(batch, base.mandats)])
            /\ Remember(e, "mandats", [todo |-> SubSeq(todo, size + 1, Len(todo))])
         \/ /\ todo # <<>> /\ ~accepted
            /\ Refuse(e)

Acteurs(e) ==
  \/ ArchiveOrganes(e) \/ ArchiveActeurs(e)
  \/ UpsertOrganes(e) \/ FetchOrganeIds(e) \/ UpsertPersons(e)
  \/ UpsertMandats(e)
=============================================================================
