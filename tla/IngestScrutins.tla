--------------------------- MODULE IngestScrutins ---------------------------
(***************************************************************************)
(* The job ingest_scrutins (worker/src/jobs/ingest_scrutins.rs): scrutins, *)
(* their groups and their votes, chunk by chunk.  Its input is             *)
(*   [archive : Seq(scrutin), since]                                       *)
(* where a scrutin is [uid, date, titre, groupes, mises], a group is       *)
(* [organe, votes], and a vote or a mise au point is [acteur, position].   *)
(* The batches of a table are one step, except those of the votes and of   *)
(* the mises au point, whose statements the data may have refused.         *)
(***************************************************************************)
EXTENDS IngestActeurs

CONSTANTS
  ChunkSize,  \* bound: PROGRESS_EVERY, scrutins written between two progresses
  InsertBatch \* bound: INSERT_BATCH, votes or mises au point of one statement

\* read_scrutin_docs, `since` included.
Docs(input) == SelectSeq(input.archive, LAMBDA d : d.date >= input.since)

Archive(e) ==
  /\ At(e, "scrutins", "archive")
  /\ ArchiveDocuments("an_scrutin", Docs(exec[e].input))
  /\ Goto(e, "document_ids")

\* The oldest document of each scrutin.
Latest_Oldest(documents) ==
  [u \in {d.uid : d \in ToSet(documents)} |-> Min({i \in DOMAIN documents : documents[i].uid = u})]

Latest(documents) ==
  [u \in {d.uid : d \in ToSet(documents)} |-> Max({i \in DOMAIN documents : documents[i].uid = u})]

FetchLatestDocumentIds(e) ==
  /\ At(e, "scrutins", "document_ids")
  /\ Remember(e, "person_ids", [documents |-> Latest(base.documents["an_scrutin"])])
  /\ UNCHANGED base

Votes(docs)  == UNION {UNION {ToSet(g.votes) : g \in ToSet(d.groupes)} : d \in ToSet(docs)}
Cited(docs)  == {v.acteur : v \in Votes(docs) \cup UNION {ToSet(d.mises) : d \in ToSet(docs)}}

\* An archive has one file for each scrutin.
ASSUME ScrutinsAssumption ==
  /\ ChunkSize \in Nat \ {0} /\ InsertBatch \in Nat \ {0}
  /\ \A input \in Inputs("scrutins") :
       /\ Docs(input) \in Seq(ToSet(Docs(input)))
       /\ \A i, j \in DOMAIN Docs(input) : Docs(input)[i].uid = Docs(input)[j].uid => i = j
       /\ \A d \in ToSet(Docs(input)) :
            /\ d.groupes \in Seq(ToSet(d.groupes)) /\ d.mises \in Seq(ToSet(d.mises))
            /\ \A g \in ToSet(d.groupes) : g.votes \in Seq(ToSet(g.votes))
       /\ IsFiniteSet(Cited(Docs(input))) /\ None \notin Cited(Docs(input))

FetchPersonIds(e) ==
  /\ At(e, "scrutins", "person_ids")
  /\ Remember(e, "unknown", [missing |-> Cited(Docs(exec[e].input)) \ PersonsAN])
  /\ UNCHANGED base

\* A row that ingest_acteurs wrote since then is kept.
ResolveUnknownActeurs(e) ==
  /\ At(e, "scrutins", "unknown")
  /\ Fill([persons |-> Upsert(base.persons, [p \in exec[e].mem.missing |->
                                                [an |-> p, qid |-> None, nom |-> None]])])
  /\ Remember(e, "organe_ids", [missing |-> {}])

FetchOrganeIdsOfGroupes(e) ==
  /\ At(e, "scrutins", "organe_ids")
  /\ Remember(e, "chunk", [organes |-> DOMAIN base.organes, todo |-> Docs(exec[e].input)])
  /\ UNCHANGED base

Chunk(e) == SubSeq(exec[e].mem.todo, 1, Min({ChunkSize, Len(exec[e].mem.todo)}))

Fantome(g, organes) == g.organe \notin organes  \* is_groupe_fantome

\* The mandates among which the group of a vote is looked for: those of its
\* author on that day that began last.
Candidats(acteur, date) ==
  LET on == {m \in {base.mandats[u] : u \in DOMAIN base.mandats} :
               m.person = acteur /\ m.type = "GP" /\ m.debut <= date /\ date <= m.fin}
  IN  {m.organe : m \in {n \in on : \A o \in on : o.debut <= n.debut}}

LookupKeys(chunk, organes) ==
  UNION {UNION {{<<v.acteur, d.date>> : v \in ToSet(g.votes)} :
                  g \in {h \in ToSet(d.groupes) : Fantome(h, organes)}} : d \in ToSet(chunk)}

ResolveGroupesFromMandats(e) ==
  LET keys  == LookupKeys(Chunk(e), exec[e].mem.organes)
      found == {k \in keys : Candidats(k[1], k[2]) # {}}
  IN  /\ At(e, "scrutins", "chunk") /\ exec[e].mem.todo # <<>>
      /\ \E resolved \in [found -> UNION {Candidats(k[1], k[2]) : k \in found}] :
           /\ \A k \in found : resolved[k] \in Candidats(k[1], k[2])
           /\ Remember(e, "scrutins", [resolved |-> resolved])
      /\ UNCHANGED base

EndChunks(e) ==
  /\ At(e, "scrutins", "chunk") /\ exec[e].mem.todo = <<>>
  /\ Goto(e, "finish") /\ UNCHANGED base

OfUid(u, chunk) == CHOOSE d \in ToSet(chunk) : d.uid = u

ScrutinRows(chunk, documents) ==
  [u \in {d.uid : d \in ToSet(chunk)} |-> [content |-> OfUid(u, chunk), document |-> documents[u]]]

UpsertScrutins(e) ==
  /\ At(e, "scrutins", "scrutins")
  /\ Fill([scrutins |-> Upsert(ScrutinRows(Chunk(e), exec[e].mem.documents), base.scrutins)])
  /\ Goto(e, "groupes")

Known(organe, organes) == IF organe \in organes THEN organe ELSE None

GroupeRows(chunk, organes) ==
  [k \in UNION {{d.uid} \X DOMAIN d.groupes : d \in ToSet(chunk)} |->
     LET line == OfUid(k[1], chunk).groupes[k[2]]
     IN  [organe |-> Known(line.organe, organes), line |-> line]]

\* The votes of a scrutin, in the order of the file.
Lines(d) ==
  FlattenSeq([i \in DOMAIN d.groupes |->
    [j \in DOMAIN d.groupes[i].votes |->
      [scrutin |-> d.uid, date |-> d.date, groupe |-> d.groupes[i], vote |-> d.groupes[i].votes[j]]]])

AllLines(chunk) == FlattenSeq([i \in DOMAIN chunk |-> Lines(chunk[i])])

KeyOf(line) == <<line.scrutin, line.vote.acteur>>
\* Two lines of one person: PostgreSQL refuses to write a row twice in a statement.
TwiceNamed(lines) == \E i, j \in DOMAIN lines : i < j /\ KeyOf(lines[i]) = KeyOf(lines[j])

VoteRow(line, organes, resolved) ==
  LET key   == <<line.vote.acteur, line.date>>
      found == Fantome(line.groupe, organes) /\ key \in DOMAIN resolved
  IN  [position   |-> line.vote.position,
       organe     |-> IF found THEN resolved[key] ELSE Known(line.groupe.organe, organes),
       fromMandat |-> found]

VoteRows(lines, organes, resolved) ==
  [k \in {KeyOf(l) : l \in ToSet(lines)} |->
     VoteRow(CHOOSE l \in ToSet(lines) : KeyOf(l) = k, organes, resolved)]

Batch(lines) == SubSeq(lines, 1, Min({InsertBatch, Len(lines)}))
NewVotes(e)  == VoteRows(Batch(exec[e].mem.lines), exec[e].mem.organes, exec[e].mem.resolved)

UpsertGroupes(e) ==
  /\ At(e, "scrutins", "groupes")
  /\ Fill([groupes |-> Upsert(GroupeRows(Chunk(e), exec[e].mem.organes), base.groupes)])
  /\ Remember(e, "votes", [lines |-> AllLines(Chunk(e))])

\* The rows of the mises au point, in the order of the files, what a file gives
\* twice included: parse_mise_au_point keeps it.
Corrections(d) == [i \in DOMAIN d.mises |-> <<d.uid, d.mises[i].acteur, d.mises[i].position>>]

AllCorrections(chunk) == FlattenSeq([i \in DOMAIN chunk |-> Corrections(chunk[i])])

TwiceCorrected(rows) == \E i, j \in DOMAIN rows : i < j /\ rows[i] = rows[j]

\* A vote already there is kept.
UpsertVotes_KeepsRow(e) ==
  LET lines == exec[e].mem.lines IN
  /\ At(e, "scrutins", "votes")
  /\ \/ /\ lines = <<>>
        /\ Remember(e, "mises", [corrections |-> AllCorrections(Chunk(e))]) /\ UNCHANGED base
     \/ /\ lines # <<>> /\ ~TwiceNamed(Batch(lines))
        /\ Fill([votes |-> Upsert(base.votes, NewVotes(e))])
        /\ Remember(e, "votes", [lines |-> SubSeq(lines, Len(Batch(lines)) + 1, Len(lines))])
     \/ /\ lines # <<>> /\ TwiceNamed(Batch(lines))
        /\ Refuse(e)

UpsertVotes(e) ==
  LET lines == exec[e].mem.lines IN
  /\ At(e, "scrutins", "votes")
  /\ \/ /\ lines = <<>>
        /\ Remember(e, "mises", [corrections |-> AllCorrections(Chunk(e))]) /\ UNCHANGED base
     \/ /\ lines # <<>> /\ ~TwiceNamed(Batch(lines))
        /\ Fill([votes |-> Upsert(NewVotes(e), base.votes)])
        /\ Remember(e, "votes", [lines |-> SubSeq(lines, Len(Batch(lines)) + 1, Len(lines))])
     \/ /\ lines # <<>> /\ TwiceNamed(Batch(lines))
        /\ Refuse(e)

MiseRows(rows, documents) == [k \in ToSet(rows) |-> documents[k[1]]]

\* upsert_mise_au_point ends the chunk.
UpsertMiseAuPoint(e) ==
  LET rows  == exec[e].mem.corrections
      batch == Batch(rows)
      todo  == exec[e].mem.todo
  IN  /\ At(e, "scrutins", "mises")
      /\ \/ /\ rows = <<>>
            /\ Remember(e, "chunk", [resolved |-> NoRow,
                                     todo     |-> SubSeq(todo, Len(Chunk(e)) + 1, Len(todo))])
            /\ UNCHANGED base
         \/ /\ rows # <<>> /\ ~TwiceCorrected(batch)
            /\ Fill([mises |-> Upsert(MiseRows(batch, exec[e].mem.documents), base.mises)])
            /\ Remember(e, "mises", [corrections |-> SubSeq(rows, Len(batch) + 1, Len(rows))])
         \/ /\ rows # <<>> /\ TwiceCorrected(batch)
            /\ Refuse(e)

Scrutins(e) ==
  \/ Archive(e) \/ FetchLatestDocumentIds(e)
  \/ FetchPersonIds(e) \/ ResolveUnknownActeurs(e) \/ FetchOrganeIdsOfGroupes(e)
  \/ ResolveGroupesFromMandats(e)
  \/ UpsertScrutins(e) \/ UpsertGroupes(e) \/ UpsertVotes(e) \/ UpsertMiseAuPoint(e)
  \/ EndChunks(e)
=============================================================================
