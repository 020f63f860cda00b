-------------------------- MODULE IngestionProofs --------------------------
(***************************************************************************)
(* Theorems about Ingestion, for any executions and any inputs that        *)
(* satisfy its assumptions: what a scrutin was parsed from is archived,    *)
(* nobody is left behind by a seed, and a qid belongs to one person.       *)
(***************************************************************************)
EXTENDS Ingestion, MandatsProofs, FiniteSetTheorems

-----------------------------------------------------------------------------
(* Types.                                                                    *)

Stored == base.documents["an_scrutin"]

TableTyped ==
  /\ DOMAIN base = DOMAIN Tables
  /\ DOMAIN base.documents = Sources /\ Stored \in Seq(ToSet(Stored))

ExecTyped ==
  /\ begun \in Nat
  /\ DOMAIN exec = Execs
  /\ \A e \in Execs : exec[e] = [kind |-> exec[e].kind, input |-> exec[e].input,
                               pc |-> exec[e].pc, mem |-> exec[e].mem]
  /\ \A e \in Execs : Active(e) => exec[e].input \in Inputs(exec[e].kind)

TypeInv == TableTyped /\ ExecTyped

-----------------------------------------------------------------------------
(* Documents: where an execution of ingest_scrutins is tells what it has     *)
(* archived, and what the documents it has read are worth.                   *)

Chunking  == {"chunk", "scrutins", "groupes", "votes", "mises"}
Located   == {"person_ids", "unknown", "organe_ids"} \cup Chunking
Archiving == {"document_ids"} \cup Located

\* The i-th document is one of the scrutin `d`, no older than `d` itself.
Stands(i, d) ==
  i \in DOMAIN Stored /\ Stored[i].uid = d.uid /\ \E j \in 1..i : Stored[j] = d

Parsed(e) ==
  LET x == exec[e] IN
  x.kind = "scrutins" =>
    /\ x.pc \in Archiving => ToSet(Docs(x.input)) \subseteq ToSet(Stored)
    /\ x.pc \in Located => /\ "documents" \in DOMAIN x.mem
                           /\ \A d \in ToSet(Docs(x.input)) : Stands(x.mem.documents[d.uid], d)
    /\ x.pc \in Chunking => "todo" \in DOMAIN x.mem /\ x.mem.todo \in Seq(ToSet(Docs(x.input)))

Placed(u, row) == row.content.uid = u /\ Stands(row.document, row.content)

DocumentInv ==
  /\ \A e \in Execs : Parsed(e)
  /\ \A u \in DOMAIN base.scrutins : Placed(u, base.scrutins[u])

-----------------------------------------------------------------------------
(* Seeds: what the transaction of a seed has written so far.                 *)

Facts == {"todo", "persons", "created", "written", "deleted"}

\* What the transaction has read and written, of a file with these entries.
Seeded(pc, mem, entries) ==
  /\ pc \in {"lookup", "insert", "delete", "deleting", "commit", "finish"} =>
       /\ Facts \subseteq DOMAIN mem
       /\ mem.todo \in Seq(entries)
       /\ mem.persons \in Seq(ToSet(mem.persons))
       /\ \A q \in mem.created : q # None /\ \E d \in entries : d.qid = q
  /\ pc = "insert" => mem.todo # <<>> /\ Head(mem.todo).qid # None
  /\ pc \in {"lookup", "insert"} => mem.created \subseteq ToSet(mem.persons)
  /\ pc \in {"delete", "deleting", "commit"} => mem.created \subseteq mem.written
  /\ pc = "deleting" => "aim" \in DOMAIN mem

Seeding(e) ==
  exec[e].kind = "candidates" => Seeded(exec[e].pc, exec[e].mem, ToSet(exec[e].input.entries))

\* The persons an execution of ingest_scrutins is about to create.
Missing(e) ==
  LET x == exec[e] IN
  x.kind = "scrutins" /\ x.pc = "unknown" =>
    "missing" \in DOMAIN x.mem /\ x.mem.missing \subseteq Cited(Docs(x.input))

SeedInv == \A e \in Execs : Seeding(e) /\ Missing(e)

-----------------------------------------------------------------------------
(* Persons: their keys, their qids, and those a seed is about to commit.     *)

SeedQid(q) ==
  q # None /\ \E file \in Inputs("candidates") : \E d \in ToSet(file.entries) : d.qid = q

Identified(p, row) ==
  /\ {"an", "qid", "nom"} \subseteq DOMAIN row
  /\ row.an # None => row.an = p /\ ~SeedQid(p)
  /\ row.an = None => row.qid = p /\ SeedQid(p)

QidOfOne ==
  \A p, q \in DOMAIN base.persons :
    base.persons[p].qid = base.persons[q].qid /\ base.persons[p].qid # None => p = q

\* Nobody has, nor is about to get, the qid of a person a seed creates.
Reserved ==
  \A e \in Execs : \A q \in Pending(e, "created") :
    /\ q # None
    /\ \A f \in Execs \ {e} : q \notin Pending(f, "created")
    /\ \A p \in DOMAIN base.persons : base.persons[p].qid # q

PersonInv ==
  /\ IsFiniteSet(DOMAIN base.persons)
  /\ \A p \in DOMAIN base.persons : Identified(p, base.persons[p])
  /\ QidOfOne /\ Reserved

-----------------------------------------------------------------------------
(* What the shared steps of the actions give.                                *)

Others(e) == DOMAIN exec' = Execs /\ \A f \in Execs \ {e} : exec'[f] = exec[f]

Moves(e, pc, mem) ==
  /\ exec'[e] = [kind |-> exec[e].kind, input |-> exec[e].input, pc |-> pc, mem |-> mem]
  /\ Others(e) /\ begun' = begun /\ last' = last

Leaves(e) ==
  /\ \E how \in Outcomes : exec'[e] = Over(how)
  /\ Others(e) /\ begun' = begun

Aborts(e) == Leaves(e) /\ last' = IF IsLast(e) THEN None ELSE last

Keeps(tables) ==
  DOMAIN base' = DOMAIN base /\ \A t \in DOMAIN base \ tables : base'[t] = base[t]

LEMMA ExecDomain ==
  ASSUME ExecTyped, NEW e \in Execs
  PROVE  DOMAIN exec = Execs /\ DOMAIN exec[e] = {"kind", "input", "pc", "mem"}
BY DEF ExecTyped

LEMMA GotoGives ==
  ASSUME ExecTyped, NEW e \in Execs, NEW pc, Goto(e, pc)
  PROVE  Moves(e, pc, exec[e].mem)
<1>1. exec' = [exec EXCEPT ![e].pc = pc]
  BY DEF Goto
<1>2. DOMAIN exec = Execs /\ exec[e] = [kind |-> exec[e].kind, input |-> exec[e].input,
                                        pc |-> exec[e].pc, mem |-> exec[e].mem]
  BY DEF ExecTyped
<1>3. exec'[e] = [exec[e] EXCEPT !.pc = pc]
  BY <1>1, <1>2
<1>4. exec'[e] = [kind |-> exec[e].kind, input |-> exec[e].input, pc |-> pc, mem |-> exec[e].mem]
  BY <1>2, <1>3
<1> QED
  BY <1>1, <1>2, <1>4 DEF Moves, Others, Goto

LEMMA RememberGives ==
  ASSUME ExecTyped, NEW e \in Execs, NEW pc, NEW facts, Remember(e, pc, facts)
  PROVE  Moves(e, pc, Upsert(facts, exec[e].mem))
<1>1. exec' = [exec EXCEPT ![e].pc = pc, ![e].mem = Upsert(facts, @)]
  BY DEF Remember
<1>2. DOMAIN exec = Execs /\ exec[e] = [kind |-> exec[e].kind, input |-> exec[e].input,
                                        pc |-> exec[e].pc, mem |-> exec[e].mem]
  BY DEF ExecTyped
<1>3. exec'[e] = [[exec[e] EXCEPT !.pc = pc] EXCEPT !.mem = Upsert(facts, exec[e].mem)]
  BY <1>1, <1>2
<1>4. exec'[e] = [kind |-> exec[e].kind, input |-> exec[e].input, pc |-> pc,
                  mem |-> Upsert(facts, exec[e].mem)]
  BY <1>2, <1>3
<1> QED
  BY <1>1, <1>2, <1>4 DEF Moves, Others, Remember

LEMMA AbortGives ==
  ASSUME ExecTyped, NEW e \in Execs, NEW how \in Outcomes, Abort(e, how)
  PROVE  Aborts(e) /\ Leaves(e) /\ base' = base
<1>1. DOMAIN exec = Execs
  BY DEF ExecTyped
<1> QED
  BY <1>1 DEF Abort, Aborts, Leaves, Others

LEMMA RefuseGives == ASSUME ExecTyped, NEW e \in Execs, Refuse(e)
                     PROVE  Aborts(e) /\ Leaves(e) /\ base' = base
BY AbortGives DEF Refuse, Outcomes

LEMMA FailGives == ASSUME ExecTyped, NEW e \in Execs, Fail(e)
                   PROVE  Aborts(e) /\ Leaves(e) /\ base' = base
BY AbortGives DEF Fail, Outcomes

LEMMA FillGives ==
  ASSUME NEW tables, DOMAIN tables \subseteq DOMAIN base, Fill(tables)
  PROVE  Keeps(DOMAIN tables) /\ \A t \in DOMAIN tables : base'[t] = tables[t]
BY DEF Fill, Keeps, Upsert

LEMMA TypeFrame ==
  ASSUME TypeInv, Keeps({"organes", "persons", "mandats", "scrutins", "groupes", "votes",
                         "mises", "slugs", "candidates", "photos"})
  PROVE  TableTyped' /\ Stored' = Stored /\ base'.documents = base.documents
<1>1. "documents" \in DOMAIN base
  BY DEF TypeInv, TableTyped, Tables
<1>2. base'["documents"] = base["documents"]
  BY <1>1 DEF Keeps
<1> QED
  BY <1>2 DEF TypeInv, TableTyped, Keeps, Stored
-----------------------------------------------------------------------------
(* What each job may write, and how it moves.                                *)

Advances(e) == (\E pc, mem : Moves(e, pc, mem)) \/ Aborts(e)

LEMMA ArchiveGives ==
  ASSUME TypeInv, NEW source \in Sources, NEW documents, ArchiveDocuments(source, documents)
  PROVE  /\ Keeps({"documents"})
         /\ \E new \in SetToSeqs(ToSet(documents) \ ToSet(base.documents[source])) :
              base'.documents = [base.documents EXCEPT ![source] = base.documents[source] \o new]
<1>1. PICK new \in SetToSeqs(ToSet(documents) \ ToSet(base.documents[source])) :
        Fill([documents |-> [base.documents EXCEPT ![source] = base.documents[source] \o new]])
  BY DEF ArchiveDocuments
<1>2. "documents" \in DOMAIN base
  BY DEF TypeInv, TableTyped, Tables
<1> DEFINE v == [base.documents EXCEPT ![source] = base.documents[source] \o new]
<1>3. Keeps({"documents"}) /\ base'.documents = v
  <2> HIDE DEF v
  <2>1. Fill([documents |-> v])
    BY <1>1 DEF v
  <2> QED
    BY <1>2, <2>1, FillGives
<1> QED
  BY <1>3

LEMMA TablesExist ==
  ASSUME TypeInv
  PROVE  {"documents", "organes", "persons", "mandats", "scrutins", "groupes", "votes",
          "mises", "slugs", "candidates", "photos"} = DOMAIN base
BY DEF TypeInv, TableTyped, Tables

LEMMA KeepsMore == ASSUME NEW X, NEW Y, X \subseteq Y, Keeps(X) PROVE Keeps(Y)
BY DEF Keeps

LEMMA KeepsAll == ASSUME base' = base, NEW X PROVE Keeps(X)
BY DEF Keeps

LEMMA ActeursGive ==
  ASSUME TypeInv, NEW e \in Execs, Acteurs(e)
  PROVE  /\ exec[e].kind = "acteurs" /\ Active(e) /\ Advances(e)
         /\ Keeps({"documents", "organes", "persons", "mandats"}) /\ Stored' = Stored
         /\ DOMAIN base'.documents = Sources
<1> DEFINE Goal == /\ exec[e].kind = "acteurs" /\ Active(e) /\ Advances(e)
                   /\ Keeps({"documents", "organes", "persons", "mandats"}) /\ Stored' = Stored
                   /\ DOMAIN base'.documents = Sources
<1> USE TablesExist
<1>0. DOMAIN base.documents = Sources
  BY DEF TypeInv, TableTyped
<1>1. CASE ArchiveOrganes(e)
  <2>1. ArchiveDocuments("an_organe", exec[e].input.organes) /\ Goto(e, "archive_acteurs")
    BY <1>1 DEF ArchiveOrganes
  <2>2. Keeps({"documents"}) /\ Stored' = Stored /\ DOMAIN base'.documents = Sources
    BY <1>0, <2>1, ArchiveGives DEF Sources, Stored
  <2> QED
    BY <1>1, <2>1, <2>2, GotoGives, KeepsMore DEF ArchiveOrganes, At, Active, Outcomes, Advances, TypeInv
<1>2. CASE ArchiveActeurs(e)
  <2>1. ArchiveDocuments("an_acteur", exec[e].input.acteurs) /\ Goto(e, "organes")
    BY <1>2 DEF ArchiveActeurs
  <2>2. Keeps({"documents"}) /\ Stored' = Stored /\ DOMAIN base'.documents = Sources
    BY <1>0, <2>1, ArchiveGives DEF Sources, Stored
  <2> QED
    BY <1>2, <2>1, <2>2, GotoGives, KeepsMore DEF ArchiveActeurs, At, Active, Outcomes, Advances, TypeInv
<1>3. CASE UpsertOrganes(e)
  <2>1. \E v : Fill([organes |-> v])
    BY <1>3 DEF UpsertOrganes
  <2>2. Keeps({"organes"})
    BY <2>1, FillGives
  <2>3. Goto(e, "organe_ids")
    BY <1>3 DEF UpsertOrganes
  <2>4. base'.documents = base.documents
    BY <2>2 DEF Keeps
  <2> QED
    BY <1>0, <1>3, <2>2, <2>3, <2>4, GotoGives, KeepsMore
    DEF UpsertOrganes, At, Active, Outcomes, Advances, TypeInv, Stored
<1>4. CASE FetchOrganeIds(e)
  <2>1. Remember(e, "persons", [organes |-> DOMAIN base.organes]) /\ base' = base
    BY <1>4 DEF FetchOrganeIds
  <2> QED
    BY <1>0, <1>4, <2>1, RememberGives, KeepsAll
    DEF FetchOrganeIds, At, Active, Outcomes, Advances, TypeInv, Stored
<1>5. CASE UpsertPersons(e)
  <2>1. \E v : Fill([persons |-> v])
    BY <1>5 DEF UpsertPersons
  <2>2. Keeps({"persons"})
    BY <2>1, FillGives
  <2>3. \E facts : Remember(e, "mandats", facts)
    BY <1>5 DEF UpsertPersons
  <2>4. base'.documents = base.documents
    BY <2>2 DEF Keeps
  <2> QED
    BY <1>0, <1>5, <2>2, <2>3, <2>4, RememberGives, KeepsMore
    DEF UpsertPersons, At, Active, Outcomes, Advances, TypeInv, Stored
<1>6. CASE UpsertMandats(e)
  <2>1. At(e, "acteurs", "mandats")
    BY <1>6 DEF UpsertMandats
  <2>2. \/ Goto(e, "finish") /\ base' = base
        \/ (\E v : Fill([mandats |-> v])) /\ (\E facts : Remember(e, "mandats", facts))
        \/ Refuse(e)
    BY <1>6 DEF UpsertMandats
  <2>3. CASE Goto(e, "finish") /\ base' = base
    BY <1>0, <2>1, <2>3, GotoGives, KeepsAll DEF At, Active, Outcomes, Advances, TypeInv, Stored
  <2>4. CASE (\E v : Fill([mandats |-> v])) /\ (\E facts : Remember(e, "mandats", facts))
    <3>1. Keeps({"mandats"})
      BY <2>4, FillGives
    <3>2. base'.documents = base.documents
      BY <3>1 DEF Keeps
    <3> QED
      BY <1>0, <2>1, <2>4, <3>1, <3>2, RememberGives, KeepsMore
      DEF At, Active, Outcomes, Advances, TypeInv, Stored
  <2>5. CASE Refuse(e)
    BY <1>0, <2>1, <2>5, RefuseGives, KeepsAll DEF At, Active, Outcomes, Advances, TypeInv, Stored
  <2> QED
    BY <2>2, <2>3, <2>4, <2>5
<1> QED
  BY <1>1, <1>2, <1>3, <1>4, <1>5, <1>6 DEF Acteurs

LEMMA ScrutinsGive ==
  ASSUME TypeInv, NEW e \in Execs, Scrutins(e)
  PROVE  /\ exec[e].kind = "scrutins" /\ Active(e) /\ Advances(e)
         /\ Keeps({"documents", "persons", "scrutins", "groupes", "votes", "mises"})
<1> DEFINE Mine == {"documents", "persons", "scrutins", "groupes", "votes", "mises"}
<1> USE TablesExist
<1>a. ASSUME NEW pc, At(e, "scrutins", pc), pc \notin Outcomes,
             Keeps(Mine),
             \/ \E to : Goto(e, to)
             \/ \E to, facts : Remember(e, to, facts)
             \/ Refuse(e)
      PROVE  exec[e].kind = "scrutins" /\ Active(e) /\ Advances(e) /\ Keeps(Mine)
  BY <1>a, GotoGives, RememberGives, RefuseGives DEF At, Active, Advances, TypeInv
<1>1. CASE Archive(e)
  <2>1. Keeps({"documents"})
    BY <1>1, ArchiveGives DEF Archive, Sources
  <2>2. At(e, "scrutins", "archive") /\ Goto(e, "document_ids")
    BY <1>1 DEF Archive
  <2> QED
    BY <1>a, <2>1, <2>2, KeepsMore DEF Outcomes
<1>2. CASE FetchLatestDocumentIds(e)
  <2>1. At(e, "scrutins", "document_ids") /\ base' = base /\ \E to, facts : Remember(e, to, facts)
    BY <1>2 DEF FetchLatestDocumentIds
  <2> QED
    BY <1>a, <2>1, KeepsAll DEF Outcomes
<1>3. CASE FetchPersonIds(e)
  <2>1. At(e, "scrutins", "person_ids") /\ base' = base /\ \E to, facts : Remember(e, to, facts)
    BY <1>3 DEF FetchPersonIds
  <2> QED
    BY <1>a, <2>1, KeepsAll DEF Outcomes
<1>4. CASE ResolveUnknownActeurs(e)
  <2>1. At(e, "scrutins", "unknown") /\ \E to, facts : Remember(e, to, facts)
    BY <1>4 DEF ResolveUnknownActeurs
  <2>2. \E v : Fill([persons |-> v])
    BY <1>4 DEF ResolveUnknownActeurs
  <2> QED
    BY <1>a, <2>1, <2>2, FillGives, KeepsMore DEF Outcomes
<1>5. CASE FetchOrganeIdsOfGroupes(e)
  <2>1. At(e, "scrutins", "organe_ids") /\ base' = base /\ \E to, facts : Remember(e, to, facts)
    BY <1>5 DEF FetchOrganeIdsOfGroupes
  <2> QED
    BY <1>a, <2>1, KeepsAll DEF Outcomes
<1>6. CASE ResolveGroupesFromMandats(e)
  <2>1. At(e, "scrutins", "chunk") /\ base' = base /\ \E to, facts : Remember(e, to, facts)
    BY <1>6 DEF ResolveGroupesFromMandats
  <2> QED
    BY <1>a, <2>1, KeepsAll DEF Outcomes
<1>7. CASE UpsertScrutins(e)
  <2>1. At(e, "scrutins", "scrutins") /\ \E to : Goto(e, to)
    BY <1>7 DEF UpsertScrutins
  <2>2. \E v : Fill([scrutins |-> v])
    BY <1>7 DEF UpsertScrutins
  <2> QED
    BY <1>a, <2>1, <2>2, FillGives, KeepsMore DEF Outcomes
<1>8. CASE UpsertGroupes(e)
  <2>1. At(e, "scrutins", "groupes") /\ \E to, facts : Remember(e, to, facts)
    BY <1>8 DEF UpsertGroupes
  <2>2. \E v : Fill([groupes |-> v])
    BY <1>8 DEF UpsertGroupes
  <2> QED
    BY <1>a, <2>1, <2>2, FillGives, KeepsMore DEF Outcomes
<1>9. CASE UpsertVotes(e)
  <2>1. At(e, "scrutins", "votes")
    BY <1>9 DEF UpsertVotes
  <2>2. \/ (\E to, facts : Remember(e, to, facts)) /\ base' = base
        \/ (\E to, facts : Remember(e, to, facts)) /\ \E v : Fill([votes |-> v])
        \/ Refuse(e)
    BY <1>9 DEF UpsertVotes
  <2>3. CASE (\E to, facts : Remember(e, to, facts)) /\ base' = base
    BY <1>a, <2>1, <2>3, KeepsAll DEF Outcomes
  <2>4. CASE (\E to, facts : Remember(e, to, facts)) /\ \E v : Fill([votes |-> v])
    BY <1>a, <2>1, <2>4, FillGives, KeepsMore DEF Outcomes
  <2>5. CASE Refuse(e)
    BY <1>a, <2>1, <2>5, RefuseGives, KeepsAll DEF Outcomes, TypeInv
  <2> QED
    BY <2>2, <2>3, <2>4, <2>5
<1>10. CASE UpsertMiseAuPoint(e)
  <2>1. At(e, "scrutins", "mises")
    BY <1>10 DEF UpsertMiseAuPoint
  <2>2. \/ (\E to, facts : Remember(e, to, facts)) /\ base' = base
        \/ (\E to, facts : Remember(e, to, facts)) /\ \E v : Fill([mises |-> v])
        \/ Refuse(e)
    BY <1>10 DEF UpsertMiseAuPoint
  <2>3. CASE (\E to, facts : Remember(e, to, facts)) /\ base' = base
    BY <1>a, <2>1, <2>3, KeepsAll DEF Outcomes
  <2>4. CASE (\E to, facts : Remember(e, to, facts)) /\ \E v : Fill([mises |-> v])
    BY <1>a, <2>1, <2>4, FillGives, KeepsMore DEF Outcomes
  <2>5. CASE Refuse(e)
    BY <1>a, <2>1, <2>5, RefuseGives, KeepsAll DEF Outcomes, TypeInv
  <2> QED
    BY <2>2, <2>3, <2>4, <2>5
<1>11. CASE EndChunks(e)
  <2>1. At(e, "scrutins", "chunk") /\ base' = base /\ \E to : Goto(e, to)
    BY <1>11 DEF EndChunks
  <2> QED
    BY <1>a, <2>1, KeepsAll DEF Outcomes
<1> QED
  BY <1>1, <1>2, <1>3, <1>4, <1>5, <1>6, <1>7, <1>8, <1>9, <1>10, <1>11 DEF Scrutins

LEMMA SlugsGive ==
  ASSUME TypeInv, NEW e \in Execs, Slugs(e)
  PROVE  /\ exec[e].kind = "slugs" /\ Active(e) /\ Advances(e)
         /\ Keeps({"slugs"})
<1> USE TablesExist
<1>a. ASSUME NEW pc, At(e, "slugs", pc), pc \notin Outcomes, Keeps({"slugs"}),
             \/ \E to : Goto(e, to)
             \/ \E to, facts : Remember(e, to, facts)
             \/ Refuse(e)
      PROVE  exec[e].kind = "slugs" /\ Active(e) /\ Advances(e) /\ Keeps({"slugs"})
  BY <1>a, GotoGives, RememberGives, RefuseGives DEF At, Active, Advances, TypeInv
<1>1. CASE ReadSansSlug(e)
  <2>1. At(e, "slugs", "persons") /\ base' = base /\ \E to, facts : Remember(e, to, facts)
    BY <1>1 DEF ReadSansSlug
  <2> QED
    BY <1>a, <2>1, KeepsAll DEF Outcomes
<1>2. CASE ReadTaken(e)
  <2>1. At(e, "slugs", "taken") /\ base' = base /\ \E to, facts : Remember(e, to, facts)
    BY <1>2 DEF ReadTaken
  <2> QED
    BY <1>a, <2>1, KeepsAll DEF Outcomes
<1>3. CASE InsertSlug(e)
  <2>1. At(e, "slugs", "slugs")
    BY <1>3 DEF InsertSlug
  <2>2. \/ (\E to : Goto(e, to)) /\ base' = base
        \/ (\E to, facts : Remember(e, to, facts)) /\ \E v : Fill([slugs |-> v])
        \/ Refuse(e)
    BY <1>3 DEF InsertSlug
  <2>3. CASE (\E to : Goto(e, to)) /\ base' = base
    BY <1>a, <2>1, <2>3, KeepsAll DEF Outcomes
  <2>4. CASE (\E to, facts : Remember(e, to, facts)) /\ \E v : Fill([slugs |-> v])
    BY <1>a, <2>1, <2>4, FillGives, KeepsMore DEF Outcomes
  <2>5. CASE Refuse(e)
    BY <1>a, <2>1, <2>5, RefuseGives, KeepsAll DEF Outcomes, TypeInv
  <2> QED
    BY <2>2, <2>3, <2>4, <2>5
<1> QED
  BY <1>1, <1>2, <1>3 DEF Slugs

LEMMA CandidatesGive ==
  ASSUME TypeInv, NEW e \in Execs, Candidates(e)
  PROVE  /\ exec[e].kind = "candidates" /\ Active(e) /\ Advances(e)
         /\ Keeps({"persons", "candidates"})
         /\ base' = base \/ CommitSeed(e)
<1> DEFINE Mine == {"persons", "candidates"}
<1> USE TablesExist
<1>a. ASSUME NEW pc, At(e, "candidates", pc), pc \notin Outcomes,
             \/ (\E to : Goto(e, to)) /\ base' = base
             \/ (\E to, facts : Remember(e, to, facts)) /\ base' = base
             \/ Refuse(e)
             \/ Fail(e)
      PROVE  exec[e].kind = "candidates" /\ Active(e) /\ Advances(e) /\ Keeps(Mine) /\ base' = base
  BY <1>a, GotoGives, RememberGives, RefuseGives, FailGives, KeepsAll DEF At, Active, Advances, TypeInv
<1>1. CASE ReadFile(e)
  <2>1. At(e, "candidates", "file")
    BY <1>1 DEF ReadFile
  <2>2. Fail(e) \/ ((\E to, facts : Remember(e, to, facts)) /\ base' = base)
    BY <1>1 DEF ReadFile
  <2> QED
    BY <1>a, <2>1, <2>2 DEF Outcomes
<1>2. CASE LookupPerson(e)
  <2>1. At(e, "candidates", "lookup")
    BY <1>2 DEF LookupPerson
  <2>2. \/ (\E to : Goto(e, to)) /\ base' = base
        \/ (\E to, facts : Remember(e, to, facts)) /\ base' = base
        \/ Fail(e)
    BY <1>2 DEF LookupPerson
  <2> QED
    BY <1>a, <2>1, <2>2 DEF Outcomes
<1>3. CASE InsertPerson(e)
  <2>1. At(e, "candidates", "insert")
    BY <1>3 DEF InsertPerson
  <2>2. Refuse(e) \/ ((\E to, facts : Remember(e, to, facts)) /\ base' = base)
    BY <1>3 DEF InsertPerson
  <2> QED
    BY <1>a, <2>1, <2>2 DEF Outcomes
<1>4. CASE UpsertCandidates(e)
  <2>1. At(e, "candidates", "lookup")
    BY <1>4 DEF UpsertCandidates
  <2>2. Fail(e) \/ ((\E to, facts : Remember(e, to, facts)) /\ base' = base)
    BY <1>4 DEF UpsertCandidates
  <2> QED
    BY <1>a, <2>1, <2>2 DEF Outcomes
<1>5. CASE DeleteOthers(e)
  <2>1. At(e, "candidates", "delete") /\ base' = base /\ \E to, facts : Remember(e, to, facts)
    BY <1>5 DEF DeleteOthers
  <2> QED
    BY <1>a, <2>1 DEF Outcomes
<1>6. CASE EndDelete(e)
  <2>1. At(e, "candidates", "deleting") /\ base' = base /\ \E to, facts : Remember(e, to, facts)
    BY <1>6 DEF EndDelete
  <2> QED
    BY <1>a, <2>1 DEF Outcomes
<1>7. CASE CommitSeed(e)
  <2>1. At(e, "candidates", "commit") /\ \E to, facts : Remember(e, to, facts)
    BY <1>7 DEF CommitSeed
  <2>2. \E v, w : Fill([persons |-> v, candidates |-> w])
    BY <1>7 DEF CommitSeed
  <2>3. Keeps(Mine)
    BY <2>2, FillGives
  <2> QED
    BY <1>7, <2>1, <2>3, RememberGives DEF At, Active, Outcomes, Advances, TypeInv
<1> QED
  BY <1>1, <1>2, <1>3, <1>4, <1>5, <1>6, <1>7 DEF Candidates

LEMMA WikidataGive ==
  ASSUME TypeInv, NEW e \in Execs, Wikidata(e)
  PROVE  /\ exec[e].kind = "wikidata" /\ Active(e) /\ Advances(e)
         /\ Keeps({"persons", "photos"})
<1> DEFINE Mine == {"persons", "photos"}
<1> USE TablesExist
<1>a. ASSUME NEW pc, At(e, "wikidata", pc), pc \notin Outcomes, Keeps(Mine),
             \/ \E to : Goto(e, to)
             \/ \E to, facts : Remember(e, to, facts)
             \/ Refuse(e)
      PROVE  exec[e].kind = "wikidata" /\ Active(e) /\ Advances(e) /\ Keeps(Mine)
  BY <1>a, GotoGives, RememberGives, RefuseGives DEF At, Active, Advances, TypeInv
<1>1. CASE UpdateQids(e)
  <2>1. At(e, "wikidata", "qids")
    BY <1>1 DEF UpdateQids
  <2>2. \/ (\E to : Goto(e, to)) /\ base' = base
        \/ (\E to, facts : Remember(e, to, facts)) /\ \E v : Fill([persons |-> v])
        \/ Refuse(e)
    BY <1>1 DEF UpdateQids, UpdateBatch
  <2>3. CASE (\E to, facts : Remember(e, to, facts)) /\ \E v : Fill([persons |-> v])
    BY <1>a, <2>1, <2>3, FillGives, KeepsMore DEF Outcomes
  <2>4. CASE Refuse(e)
    BY <1>a, <2>1, <2>4, RefuseGives, KeepsAll DEF Outcomes, TypeInv
  <2>5. CASE (\E to : Goto(e, to)) /\ base' = base
    BY <1>a, <2>1, <2>5, KeepsAll DEF Outcomes
  <2> QED
    BY <2>2, <2>3, <2>4, <2>5
<1>2. CASE FetchKnown(e)
  <2>1. At(e, "wikidata", "known") /\ base' = base /\ \E to, facts : Remember(e, to, facts)
    BY <1>2 DEF FetchKnown
  <2> QED
    BY <1>a, <2>1, KeepsAll DEF Outcomes
<1>3. CASE UpsertPhotos(e)
  <2>1. At(e, "wikidata", "photos") /\ \E to : Goto(e, to)
    BY <1>3 DEF UpsertPhotos
  <2>2. \E v : Fill([photos |-> v])
    BY <1>3 DEF UpsertPhotos
  <2> QED
    BY <1>a, <2>1, <2>2, FillGives, KeepsMore DEF Outcomes
<1> QED
  BY <1>1, <1>2, <1>3 DEF Wikidata

LEMMA ListsAll ==
  ASSUME NEW S, IsFiniteSet(S), NEW s \in SetToSeqs(S)
  PROVE  s \in Seq(S) /\ ToSet(s) = S /\ Len(s) = Cardinality(S)
<1> DEFINE n == Cardinality(S)
<1>1. n \in Nat
  BY FS_CardinalityType
<1>2. s \in [1..n -> S] /\ \A i, j \in 1..n : i # j => s[i] # s[j]
  BY DEF SetToSeqs
<1> HIDE DEF n
<1>3. s \in Seq(S) /\ Len(s) = n
  BY <1>1, <1>2
<1>4. s \in Injection(1..n, S)
  BY <1>2 DEF Injection, IsInjective
<1>5. Cardinality(1..n) = n
  BY <1>1, FS_Interval
<1>6. s \in Surjection(1..n, S)
  BY <1>4, <1>5, FS_Injection DEF n
<1>7. ToSet(s) = S
  BY <1>2, <1>6 DEF ToSet, Surjection
<1> QED
  BY <1>3, <1>7 DEF n

LEMMA OwnElements ==
  ASSUME NEW S, NEW s \in Seq(S)
  PROVE  s \in Seq(ToSet(s))
<1>1. Len(s) \in Nat /\ DOMAIN s = 1..Len(s) /\ s \in [1..Len(s) -> S]
  OBVIOUS
<1>2. s \in [1..Len(s) -> ToSet(s)]
  BY <1>1 DEF ToSet
<1> QED
  BY <1>1, <1>2

LEMMA SequenceIsFinite ==
  ASSUME NEW s, s \in Seq(ToSet(s))
  PROVE  IsFiniteSet(ToSet(s))
<1>1. Len(s) \in Nat /\ DOMAIN s = 1..Len(s) /\ s \in [1..Len(s) -> ToSet(s)]
  OBVIOUS
<1>2. IsFiniteSet(1..Len(s))
  BY <1>1, FS_Interval
<1>3. s \in Surjection(1..Len(s), ToSet(s))
  BY <1>1 DEF ToSet, Surjection
<1> QED
  BY <1>2, <1>3, FS_Surjection

LEMMA MaxOf ==
  ASSUME NEW S \in SUBSET Int, IsFiniteSet(S), S # {}
  PROVE  Max(S) \in S /\ \A x \in S : x <= Max(S)
<1> DEFINE Above(i) == {j \in S : j > i}
           R == StrictSubsetOrdering(S)
           T == {Above(i) : i \in S}
<1>1. IsWellFoundedOn(R, FiniteSubsetsOf(S))
  BY FS_StrictSubsetOrderingWellFounded
<1>2. T \subseteq FiniteSubsetsOf(S) /\ T # {}
  <2>1. \A i \in S : Above(i) \in SUBSET S /\ IsFiniteSet(Above(i))
    BY FS_Subset
  <2> QED
    BY <2>1 DEF FiniteSubsetsOf
<1>3. \E x \in T : \A y \in T : ~(<<y, x>> \in R)
  <2> HIDE DEF R, T
  <2> QED
    BY <1>1, <1>2, WFMin
<1>4. PICK i \in S : \A j \in S : <<Above(j), Above(i)>> \notin R
  BY <1>3
<1>5. ASSUME NEW j \in S, j > i
      PROVE  FALSE
  <2>1. i \in Int /\ j \in Int
    OBVIOUS
  <2>2. ASSUME NEW k \in S, k > j
        PROVE  k > i
    BY <1>5, <2>1, <2>2
  <2>3. j \in Above(i) /\ j \notin Above(j)
    BY <1>5, <2>1
  <2> QED
    BY <1>4, <2>2, <2>3 DEF StrictSubsetOrdering
<1>6. \E z \in S : \A y \in S : z >= y
  BY <1>5
<1> QED
  BY <1>6 DEF Max

-----------------------------------------------------------------------------
(* Types.                                                                    *)

Begins(e) ==
  /\ \E kind \in DOMAIN FirstStep : \E input \in Inputs(kind) :
       exec'[e] = [kind |-> kind, input |-> input, pc |-> FirstStep[kind], mem |-> NoRow]
  /\ Others(e) /\ begun' = begun + 1

LEMMA BeginsAt ==
  ASSUME NEW e, Begins(e)
  PROVE  /\ exec'[e].pc \in {"archive_organes", "archive", "persons", "file", "qids"}
         /\ exec'[e].mem = NoRow
<1>1. PICK kind \in DOMAIN FirstStep : \E input :
        exec'[e] = [kind |-> kind, input |-> input, pc |-> FirstStep[kind], mem |-> NoRow]
  BY DEF Begins
<1>2. exec'[e].pc = FirstStep[kind] /\ exec'[e].mem = NoRow
  BY <1>1
<1>3. kind \in {"acteurs", "scrutins", "slugs", "candidates", "wikidata"}
  BY DEF FirstStep
<1> QED
  BY <1>2, <1>3 DEF FirstStep

LEMMA StartGives ==
  ASSUME TypeInv, NEW e \in Execs, Start(e)
  PROVE  ~Active(e) /\ Begins(e) /\ base' = base
<1>1. begun + 1 \in DOMAIN Tasks
  BY ReferentielAssumption DEF TypeInv, ExecTyped, Start
<1>2. PICK t \in Tasks[begun + 1] :
        exec' = [exec EXCEPT ![e] = [kind |-> t.kind, input |-> t.input,
                                     pc |-> FirstStep[t.kind], mem |-> NoRow]]
  BY DEF Start
<1>3. t.kind \in DOMAIN FirstStep
  BY <1>1, ReferentielAssumption
<1>4. Tasks[begun + 1] \in ToSet(Tasks)
  BY <1>1 DEF ToSet
<1>5. t.input \in Inputs(t.kind)
  BY <1>4 DEF Inputs
<1>6. DOMAIN exec = Execs
  BY DEF TypeInv, ExecTyped
<1> QED
  BY <1>2, <1>3, <1>5, <1>6 DEF Start, Begins, Others

LEMMA FinishGives ==
  ASSUME TypeInv, NEW e \in Execs, Finish(e)
  PROVE  Active(e) /\ Leaves(e) /\ base' = base
<1>1. DOMAIN exec = Execs
  BY DEF TypeInv, ExecTyped
<1> QED
  BY <1>1 DEF Finish, Active, Leaves, Others, Outcomes

LEMMA BreakGives ==
  ASSUME TypeInv, NEW e \in Execs, Break(e)
  PROVE  Active(e) /\ Aborts(e) /\ Leaves(e) /\ base' = base
BY FailGives DEF Break, TypeInv

LEMMA ArchiveScrutinsGives ==
  ASSUME TypeInv, NEW e \in Execs, Archive(e)
  PROVE  /\ Keeps({"documents"}) /\ DOMAIN base'.documents = Sources
         /\ Stored' \in Seq(ToSet(Stored')) /\ Len(Stored') >= Len(Stored)
         /\ \A i \in DOMAIN Stored : Stored'[i] = Stored[i]
         /\ ToSet(Docs(exec[e].input)) \subseteq ToSet(Stored')
<1> DEFINE docs == Docs(exec[e].input)
<1>1. ArchiveDocuments("an_scrutin", docs) /\ exec[e].kind = "scrutins" /\ Active(e)
  BY DEF Archive, At, Active, Outcomes
<1>2. docs \in Seq(ToSet(docs))
  BY <1>1, ScrutinsAssumption DEF TypeInv, ExecTyped
<1>3. PICK new \in SetToSeqs(ToSet(docs) \ ToSet(Stored)) :
        base'.documents = [base.documents EXCEPT !["an_scrutin"] = Stored \o new]
  BY <1>1, ArchiveGives DEF Sources, Stored
<1>4. Keeps({"documents"})
  BY <1>1, ArchiveGives DEF Sources
<1>5. IsFiniteSet(ToSet(docs) \ ToSet(Stored))
  BY <1>2, SequenceIsFinite, FS_Subset
<1>6. new \in Seq(ToSet(docs)) /\ ToSet(new) = ToSet(docs) \ ToSet(Stored)
  BY <1>3, <1>5, ListsAll
<1>7. DOMAIN base.documents = Sources /\ Stored \in Seq(ToSet(Stored))
  BY DEF TypeInv, TableTyped
<1>8. Stored' = Stored \o new /\ DOMAIN base'.documents = Sources
  BY <1>3, <1>7 DEF Stored, Sources
<1> HIDE DEF docs
<1>9. /\ DOMAIN (Stored \o new) = 1..(Len(Stored) + Len(new))
      /\ \A i \in 1..Len(Stored) : (Stored \o new)[i] = Stored[i]
      /\ \A i \in 1..Len(new) : (Stored \o new)[Len(Stored) + i] = new[i]
      /\ Len(Stored \o new) = Len(Stored) + Len(new)
      /\ Stored \o new \in Seq(ToSet(Stored) \cup ToSet(docs))
  BY <1>6, <1>7
<1>10. ToSet(Stored) \subseteq ToSet(Stored \o new)
  BY <1>7, <1>9 DEF ToSet
<1>11. ToSet(new) \subseteq ToSet(Stored \o new)
  <2> SUFFICES ASSUME NEW i \in 1..Len(new)
               PROVE  new[i] \in ToSet(Stored \o new)
    BY <1>6 DEF ToSet
  <2>1. Len(Stored) + i \in 1..(Len(Stored) + Len(new))
    BY <1>6, <1>7
  <2> QED
    BY <1>9, <2>1 DEF ToSet
<1>12. Stored \o new \in Seq(ToSet(Stored \o new))
  BY <1>9, OwnElements
<1> QED
  BY <1>4, <1>6, <1>7, <1>8, <1>9, <1>10, <1>11, <1>12 DEF docs

LEMMA TypeInit == Init => TypeInv
<1> SUFFICES ASSUME Init
             PROVE  TypeInv
  OBVIOUS
<1>1. TableTyped
  <2>0. DOMAIN base = DOMAIN Tables
    BY DEF Init
  <2>1. base.documents = [s \in Sources |-> <<>>]
    BY DEF Init, Tables
  <2>2. Stored = <<>> /\ <<>> \in Seq(ToSet(<<>>))
    BY <2>1 DEF Stored, Sources
  <2>3. DOMAIN base.documents = Sources
    BY <2>1
  <2>4. Stored \in Seq(ToSet(Stored))
    BY <2>2
  <2> QED
    BY <2>0, <2>3, <2>4 DEF TableTyped
<1>2. ExecTyped
  BY DEF Init, ExecTyped, Over, Active, Outcomes
<1> QED
  BY <1>1, <1>2 DEF TypeInv

LEMMA ExecStep ==
  ASSUME TypeInv, NEW e \in Execs, Begins(e) \/ Leaves(e) \/ (Active(e) /\ Advances(e))
  PROVE  ExecTyped'
<1>1. exec'[e] = [kind |-> exec'[e].kind, input |-> exec'[e].input,
                  pc |-> exec'[e].pc, mem |-> exec'[e].mem]
  BY DEF Begins, Leaves, Over, Advances, Aborts, Moves
<1>2. Others(e) /\ begun' \in Nat
  <2>1. begun \in Nat
    BY DEF TypeInv, ExecTyped
  <2>2. CASE Begins(e)
    BY <2>1, <2>2 DEF Begins
  <2>3. CASE Leaves(e)
    BY <2>1, <2>3 DEF Leaves
  <2>4. CASE Advances(e)
    BY <2>1, <2>4 DEF Advances, Aborts, Moves, Leaves
  <2> QED
    BY <2>2, <2>3, <2>4
<1>3. Active(e)' => exec'[e].input \in Inputs(exec'[e].kind)
  <2>1. CASE Begins(e)
    BY <2>1 DEF Begins
  <2>2. CASE Leaves(e)
    BY <2>2 DEF Leaves, Over, Active
  <2>3. CASE Active(e) /\ \E pc, mem : Moves(e, pc, mem)
    BY <2>3 DEF Moves, TypeInv, ExecTyped
  <2> QED
    BY <2>1, <2>2, <2>3 DEF Advances, Aborts
<1>4. ASSUME NEW f \in Execs, f # e
      PROVE  /\ exec'[f] = [kind |-> exec'[f].kind, input |-> exec'[f].input,
                            pc |-> exec'[f].pc, mem |-> exec'[f].mem]
             /\ Active(f)' => exec'[f].input \in Inputs(exec'[f].kind)
  BY <1>2, <1>4 DEF Others, TypeInv, ExecTyped, Active
<1>5. (exec')[e] = exec'[e]
  OBVIOUS
<1> QED
  BY <1>1, <1>2, <1>3, <1>4 DEF ExecTyped, Others

\* A job archives nothing but its own documents, and only ingest_scrutins those
\* of scrutins.
LEMMA TablesStep ==
  ASSUME TypeInv, NEW e \in Execs,
         \/ Start(e) \/ Finish(e) \/ Break(e)
         \/ Acteurs(e) \/ Scrutins(e)
         \/ Slugs(e) \/ Candidates(e) \/ Wikidata(e)
  PROVE  TableTyped' /\ (Stored' = Stored \/ Archive(e))
<1> DEFINE Rest == {"organes", "persons", "mandats", "scrutins", "groupes", "votes",
                    "mises", "slugs", "candidates", "photos"}
<1>1. CASE Start(e) \/ Finish(e) \/ Break(e)
  BY <1>1, StartGives, FinishGives, BreakGives, KeepsAll, TypeFrame
<1>2. CASE Acteurs(e)
  <2>1. Keeps({"documents", "organes", "persons", "mandats"}) /\ Stored' = Stored
        /\ DOMAIN base'.documents = Sources
    BY <1>2, ActeursGive
  <2> QED
    BY <2>1 DEF TypeInv, TableTyped, Keeps
<1>3. CASE Slugs(e) \/ Candidates(e) \/ Wikidata(e)
  <2>1. Keeps(Rest)
    BY <1>3, SlugsGive, CandidatesGive, WikidataGive, KeepsMore
  <2> QED
    BY <2>1, TypeFrame
<1>4. CASE Archive(e)
  BY <1>4, ArchiveScrutinsGives DEF TypeInv, TableTyped, Keeps
<1>5. CASE Scrutins(e) /\ ~Archive(e)
  <2>0. "documents" \in DOMAIN base
    BY TablesExist
  <2>1. Keeps({"documents", "persons", "scrutins", "groupes", "votes", "mises"})
    BY <1>5, ScrutinsGive
  <2>2. base' = base \/ \E t \in {"persons", "scrutins", "groupes", "votes", "mises"} : \E v :
                          \/ t = "persons" /\ Fill([persons |-> v])
                          \/ t = "scrutins" /\ Fill([scrutins |-> v])
                          \/ t = "groupes" /\ Fill([groupes |-> v])
                          \/ t = "votes" /\ Fill([votes |-> v])
                          \/ t = "mises" /\ Fill([mises |-> v])
    <3>1. CASE ResolveUnknownActeurs(e)
      BY <3>1 DEF ResolveUnknownActeurs
    <3>2. CASE UpsertScrutins(e)
      BY <3>2 DEF UpsertScrutins
    <3>3. CASE UpsertGroupes(e)
      BY <3>3 DEF UpsertGroupes
    <3>4. CASE UpsertVotes(e)
      BY <3>4 DEF UpsertVotes, Refuse, Abort
    <3>5. CASE UpsertMiseAuPoint(e)
      BY <3>5 DEF UpsertMiseAuPoint, Refuse, Abort
    <3>6. CASE FetchLatestDocumentIds(e) \/ FetchPersonIds(e) \/ FetchOrganeIdsOfGroupes(e)
               \/ ResolveGroupesFromMandats(e) \/ EndChunks(e)
      BY <3>6 DEF FetchLatestDocumentIds, FetchPersonIds, FetchOrganeIdsOfGroupes,
                  ResolveGroupesFromMandats, EndChunks
    <3> QED
      BY <1>5, <3>1, <3>2, <3>3, <3>4, <3>5, <3>6 DEF Scrutins
  <2>3. base'["documents"] = base["documents"]
    BY <2>0, <2>2 DEF Fill, Upsert
  <2> QED
    BY <2>1, <2>3 DEF TypeInv, TableTyped, Keeps, Stored
<1> QED
  BY <1>1, <1>2, <1>3, <1>4, <1>5 DEF Scrutins

LEMMA TypeStep == TypeInv /\ [Next]_vars => TypeInv'
<1> SUFFICES ASSUME TypeInv, [Next]_vars
             PROVE  TypeInv'
  OBVIOUS
<1>1. CASE UNCHANGED vars
  BY <1>1 DEF vars, TypeInv, TableTyped, ExecTyped, Stored, Active
<1>2. ASSUME NEW e \in Execs,
             \/ Start(e) \/ Finish(e) \/ Break(e)
             \/ Acteurs(e) \/ Scrutins(e)
             \/ Slugs(e) \/ Candidates(e) \/ Wikidata(e)
      PROVE  TypeInv'
  <2>1. TableTyped'
    BY <1>2, TablesStep
  <2>2. Begins(e) \/ Leaves(e) \/ (Active(e) /\ Advances(e))
    BY <1>2, StartGives, FinishGives, BreakGives, ActeursGive, ScrutinsGive, SlugsGive,
       CandidatesGive, WikidataGive
  <2>3. ExecTyped'
    BY <2>2, ExecStep
  <2> QED
    BY <2>1, <2>3 DEF TypeInv
<1> QED
  BY <1>1, <1>2 DEF Next
-----------------------------------------------------------------------------
(* Documents.                                                                *)

LEMMA UpsertKeeps ==
  ASSUME NEW rows, NEW table, NEW k \in DOMAIN table, k \notin DOMAIN rows
  PROVE  k \in DOMAIN Upsert(rows, table) /\ Upsert(rows, table)[k] = table[k]
BY DEF Upsert

LEMMA UpsertWrites ==
  ASSUME NEW rows, NEW table, NEW k \in DOMAIN rows
  PROVE  k \in DOMAIN Upsert(rows, table) /\ Upsert(rows, table)[k] = rows[k]
BY DEF Upsert

LEMMA MinOfTwo ==
  ASSUME NEW a \in Int, NEW b \in Int
  PROVE  Min({a, b}) = IF a <= b THEN a ELSE b
<1> DEFINE m == IF a <= b THEN a ELSE b
<1>1. m \in {a, b} /\ \A y \in {a, b} : m <= y
  OBVIOUS
<1>2. \A x \in {a, b} : (\A y \in {a, b} : x <= y) => x = m
  OBVIOUS
<1> HIDE DEF m
<1>3. Min({a, b}) = m
  BY <1>1, <1>2 DEF Min
<1> QED
  BY <1>3 DEF m

LEMMA Within ==
  ASSUME NEW S, NEW s \in Seq(S), NEW m \in Int, NEW n \in Int, m >= 1, n <= Len(s)
  PROVE  SubSeq(s, m, n) \in Seq(S) /\ ToSet(SubSeq(s, m, n)) \subseteq ToSet(s)
<1>0. Len(s) \in Nat /\ DOMAIN s = 1..Len(s)
  OBVIOUS
<1>1. \A i \in m..n : s[i] \in ToSet(s) /\ s[i] \in S
  BY <1>0 DEF ToSet
<1>2. SubSeq(s, m, n) \in Seq(ToSet(s))
  BY <1>1, SubSeqProperties
<1>3. SubSeq(s, m, n) \in Seq(S)
  BY <1>1, SubSeqProperties
<1>4. ToSet(SubSeq(s, m, n)) \subseteq ToSet(s)
  BY <1>2 DEF ToSet
<1> QED
  BY <1>3, <1>4

Grows == \A i \in DOMAIN Stored : i \in DOMAIN Stored' /\ Stored'[i] = Stored[i]

LEMMA StoredGrows ==
  ASSUME TypeInv, NEW e \in Execs, Stored' = Stored \/ Archive(e)
  PROVE  Grows
<1>1. CASE Stored' = Stored
  BY <1>1 DEF Grows
<1>2. CASE Archive(e)
  <2>1. /\ Stored' \in Seq(ToSet(Stored')) /\ Len(Stored') >= Len(Stored)
        /\ \A i \in DOMAIN Stored : Stored'[i] = Stored[i]
    BY <1>2, ArchiveScrutinsGives
  <2>2. /\ DOMAIN Stored = 1..Len(Stored) /\ Len(Stored) \in Nat
        /\ DOMAIN Stored' = 1..Len(Stored') /\ Len(Stored') \in Nat
    BY <2>1 DEF TypeInv, TableTyped
  <2> QED
    BY <2>1, <2>2 DEF Grows
<1> QED
  BY <1>1, <1>2

LEMMA StandsStays ==
  ASSUME TypeInv, Grows, NEW i, NEW d, Stands(i, d)
  PROVE  Stands(i, d)'
<1>1. DOMAIN Stored = 1..Len(Stored) /\ Len(Stored) \in Nat
  BY DEF TypeInv, TableTyped
<1>2. PICK j \in 1..i : Stored[j] = d
  BY DEF Stands
<1>3. i \in DOMAIN Stored /\ j \in DOMAIN Stored /\ Stored[i].uid = d.uid
  BY <1>1, <1>2 DEF Stands
<1> QED
  BY <1>2, <1>3 DEF Grows, Stands

LEMMA ToSetGrows ==
  ASSUME Grows
  PROVE  ToSet(Stored) \subseteq ToSet(Stored')
BY DEF Grows, ToSet

LEMMA ParsedStays ==
  ASSUME TypeInv, Grows, NEW f \in Execs, exec'[f] = exec[f], Parsed(f)
  PROVE  Parsed(f)'
<1>1. \A i, d : Stands(i, d) => Stands(i, d)'
  BY StandsStays
<1> QED
  BY <1>1, ToSetGrows DEF Parsed

\* The latest document of a scrutin is no older than any document it has.
LEMMA LatestStands ==
  ASSUME TypeInv, NEW d \in ToSet(Stored)
  PROVE  Stands(Latest(Stored)[d.uid], d)
<1> DEFINE S == {i \in DOMAIN Stored : Stored[i].uid = d.uid}
<1>1. DOMAIN Stored = 1..Len(Stored) /\ Len(Stored) \in Nat
  BY DEF TypeInv, TableTyped
<1>2. PICK j \in DOMAIN Stored : Stored[j] = d
  BY DEF ToSet
<1>3. S \in SUBSET Int /\ j \in S
  BY <1>1, <1>2
<1>4. IsFiniteSet(S)
  <2>1. IsFiniteSet(DOMAIN Stored) /\ S \subseteq DOMAIN Stored
    BY <1>1, FS_Interval
  <2> HIDE DEF S
  <2> QED
    BY <2>1, FS_Subset
<1>5. Max(S) \in S /\ j <= Max(S)
  <2> HIDE DEF S
  <2> QED
    BY <1>3, <1>4, MaxOf
<1>6. Latest(Stored)[d.uid] = Max(S)
  BY DEF Latest
<1>7. j \in 1..Max(S)
  BY <1>1, <1>5
<1> QED
  BY <1>2, <1>5, <1>6, <1>7 DEF Stands
\* An execution of ingest_scrutins that has read its documents, and stays among
\* its chunks or reaches them.
LEMMA ParsedOn ==
  ASSUME TypeInv, NEW e \in Execs, Parsed(e), exec[e].kind = "scrutins", Stored' = Stored,
         NEW pc, NEW mem, Moves(e, pc, mem), exec[e].pc \in Located, pc \in Located,
         "documents" \in DOMAIN mem, mem.documents = exec[e].mem.documents,
         pc \in Chunking => "todo" \in DOMAIN mem /\ mem.todo \in Seq(ToSet(Docs(exec[e].input)))
  PROVE  Parsed(e)'
<1>1. exec'[e] = [kind |-> "scrutins", input |-> exec[e].input, pc |-> pc, mem |-> mem]
  BY DEF Moves
<1>2. ToSet(Docs(exec[e].input)) \subseteq ToSet(Stored)
  BY DEF Parsed, Archiving
<1>3. \A d \in ToSet(Docs(exec[e].input)) : Stands(mem.documents[d.uid], d)
  BY DEF Parsed
<1>4. \A i, d : Stands(i, d)' <=> Stands(i, d)
  BY DEF Stands
<1> QED
  BY <1>1, <1>2, <1>3, <1>4 DEF Parsed

LEMMA ParsedOver ==
  ASSUME NEW e \in Execs, exec'[e].kind # "scrutins" \/ exec'[e].pc \notin Archiving
  PROVE  Parsed(e)'
BY DEF Parsed, Archiving, Located

LEMMA ChunkWithin ==
  ASSUME NEW e \in Execs, NEW S, exec[e].mem.todo \in Seq(S)
  PROVE  /\ ToSet(Chunk(e)) \subseteq ToSet(exec[e].mem.todo)
         /\ Chunk(e) \in Seq(S) /\ ToSet(Chunk(e)) \subseteq S
<1> DEFINE todo == exec[e].mem.todo
           m == Min({ChunkSize, Len(todo)})
<1>1. ChunkSize \in Int /\ Len(todo) \in Nat
  BY ScrutinsAssumption
<1>2. m \in Int /\ m <= Len(todo)
  BY <1>1, MinOfTwo
<1> HIDE DEF m
<1>3. SubSeq(todo, 1, m) \in Seq(S) /\ ToSet(SubSeq(todo, 1, m)) \subseteq ToSet(todo)
  BY <1>2, Within
<1>4. ToSet(todo) \subseteq S
  BY DEF ToSet
<1>5. Chunk(e) = SubSeq(todo, 1, m)
  BY DEF Chunk, m
<1> QED
  BY <1>3, <1>4, <1>5

LEMMA ParsedStep ==
  ASSUME TypeInv, NEW e \in Execs, Parsed(e), Scrutins(e), Stored' = Stored \/ Archive(e)
  PROVE  Parsed(e)'
<1> DEFINE mem == exec[e].mem
           docs == Docs(exec[e].input)
<1>0. ExecTyped /\ exec[e].kind = "scrutins"
  BY ScrutinsGive DEF TypeInv
<1>a. ASSUME exec[e].pc \in Located
      PROVE  /\ "documents" \in DOMAIN mem
             /\ exec[e].pc \in Chunking => "todo" \in DOMAIN mem /\ mem.todo \in Seq(ToSet(docs))
  BY <1>0, <1>a DEF Parsed
<1>b. ASSUME Leaves(e)
      PROVE  Parsed(e)'
  <2>1. exec'[e].pc \in Outcomes
    BY <1>b DEF Leaves, Over
  <2> QED
    BY <2>1, ParsedOver DEF Outcomes, Archiving, Located, Chunking
\* The steps between two chunks, or within one, that keep what was read.
<1>c. ASSUME NEW from \in Located, At(e, "scrutins", from), NEW pc \in Located,
             NEW facts, Remember(e, pc, facts), "documents" \notin DOMAIN facts,
             Stored' = Stored,
             IF "todo" \in DOMAIN facts THEN facts.todo \in Seq(ToSet(docs))
                                        ELSE pc \in Chunking => from \in Chunking
      PROVE  Parsed(e)'
  <2> DEFINE after == Upsert(facts, mem)
  <2>1. Moves(e, pc, after)
    BY <1>0, <1>c, RememberGives
  <2>2. "documents" \in DOMAIN mem /\ (from \in Chunking => "todo" \in DOMAIN mem /\ mem.todo \in Seq(ToSet(docs)))
    BY <1>a, <1>c DEF At
  <2>3. "documents" \in DOMAIN after /\ after.documents = mem.documents
    BY <1>c, <2>2, UpsertKeeps
  <2>4. pc \in Chunking => "todo" \in DOMAIN after /\ after.todo \in Seq(ToSet(docs))
    <3>1. CASE "todo" \in DOMAIN facts
      BY <1>c, <3>1, UpsertWrites
    <3>2. CASE "todo" \notin DOMAIN facts
      BY <1>c, <2>2, <3>2, UpsertKeeps
    <3> QED
      BY <3>1, <3>2
  <2> HIDE DEF after
  <2> QED
    BY <1>0, <1>c, <2>1, <2>3, <2>4, ParsedOn DEF At
<1>d. ASSUME NEW from \in Chunking, At(e, "scrutins", from), NEW pc \in Chunking, Goto(e, pc),
             Stored' = Stored
      PROVE  Parsed(e)'
  <2>1. Moves(e, pc, mem)
    BY <1>0, <1>d, GotoGives
  <2>2. from \in Located /\ pc \in Located
    BY DEF Located
  <2> QED
    BY <1>0, <1>a, <1>d, <2>1, <2>2, ParsedOn DEF At
<1>e. ASSUME Goto(e, "finish")
      PROVE  Parsed(e)'
  <2>1. Moves(e, "finish", mem)
    BY <1>0, <1>e, GotoGives
  <2>2. exec'[e].pc = "finish"
    BY <2>1 DEF Moves
  <2> QED
    BY <2>2, ParsedOver DEF Archiving, Located, Chunking
<1>f. Archive(e) \/ Stored' = Stored
  OBVIOUS
<1>1. CASE Archive(e)
  <2>1. ToSet(docs) \subseteq ToSet(Stored')
    BY <1>1, ArchiveScrutinsGives
  <2>2. Moves(e, "document_ids", mem)
    BY <1>0, <1>1, GotoGives DEF Archive
  <2>3. exec'[e] = [kind |-> "scrutins", input |-> exec[e].input, pc |-> "document_ids", mem |-> mem]
    BY <1>0, <2>2 DEF Moves
  <2>4. "document_ids" \notin Located /\ "document_ids" \notin Chunking
    BY DEF Located, Chunking
  <2> QED
    BY <2>1, <2>3, <2>4 DEF Parsed
<1>2. CASE FetchLatestDocumentIds(e)
  <2>1. At(e, "scrutins", "document_ids") /\ base' = base
        /\ Remember(e, "person_ids", [documents |-> Latest(Stored)])
    BY <1>2 DEF FetchLatestDocumentIds, Stored
  <2> DEFINE after == Upsert([documents |-> Latest(Stored)], mem)
  <2>2. Moves(e, "person_ids", after)
    BY <1>0, <2>1, RememberGives
  <2>3. "documents" \in DOMAIN after /\ after.documents = Latest(Stored)
    BY DEF Upsert
  <2>4. ToSet(docs) \subseteq ToSet(Stored)
    BY <1>0, <2>1 DEF Parsed, At, Archiving
  <2>5. \A d \in ToSet(docs) : Stands(Latest(Stored)[d.uid], d)
    BY <2>4, LatestStands
  <2> HIDE DEF after
  <2>6. exec'[e] = [kind |-> "scrutins", input |-> exec[e].input, pc |-> "person_ids", mem |-> after]
    BY <1>0, <2>2 DEF Moves
  <2>7. Stored' = Stored /\ \A i, d : Stands(i, d)' <=> Stands(i, d)
    BY <2>1 DEF Stored, Stands
  <2> QED
    BY <2>3, <2>4, <2>5, <2>6, <2>7 DEF Parsed, Chunking
<1>3. CASE FetchPersonIds(e)
  <2>1. At(e, "scrutins", "person_ids")
        /\ Remember(e, "unknown", [missing |-> Cited(docs) \ PersonsAN]) /\ Stored' = Stored
    BY <1>3 DEF FetchPersonIds, Stored
  <2> QED
    BY <1>c, <2>1 DEF Located, Chunking
<1>4. CASE ResolveUnknownActeurs(e)
  <2>1. At(e, "scrutins", "unknown") /\ Remember(e, "organe_ids", [missing |-> {}])
    BY <1>4 DEF ResolveUnknownActeurs
  <2>2. Stored' = Stored
    BY <1>f, <2>1 DEF Archive, At
  <2> QED
    BY <1>c, <2>1, <2>2 DEF Located, Chunking
<1>5. CASE FetchOrganeIdsOfGroupes(e)
  <2>1. At(e, "scrutins", "organe_ids") /\ Stored' = Stored
        /\ Remember(e, "chunk", [organes |-> DOMAIN base.organes, todo |-> docs])
    BY <1>5 DEF FetchOrganeIdsOfGroupes, Stored
  <2>2. docs \in Seq(ToSet(docs))
    BY <1>0, <2>1, ScrutinsAssumption DEF ExecTyped, At, Active, Outcomes
  <2> HIDE DEF docs
  <2> DEFINE facts == [organes |-> DOMAIN base.organes, todo |-> docs]
  <2>3. "todo" \in DOMAIN facts /\ facts.todo = docs /\ "documents" \notin DOMAIN facts
    OBVIOUS
  <2>4. Remember(e, "chunk", facts)
    BY <2>1
  <2> HIDE DEF facts
  <2> QED
    BY <1>c, <2>1, <2>2, <2>3, <2>4 DEF Located, Chunking
<1>6. CASE ResolveGroupesFromMandats(e)
  <2>1. PICK facts : DOMAIN facts = {"resolved"} /\ Remember(e, "scrutins", facts)
    BY <1>6 DEF ResolveGroupesFromMandats
  <2>2. At(e, "scrutins", "chunk") /\ Stored' = Stored
    BY <1>6 DEF ResolveGroupesFromMandats, Stored
  <2> QED
    BY <1>c, <2>1, <2>2 DEF Located, Chunking
<1>7. CASE UpsertScrutins(e)
  <2>1. At(e, "scrutins", "scrutins") /\ Goto(e, "groupes")
    BY <1>7 DEF UpsertScrutins
  <2>2. Stored' = Stored
    BY <1>f, <2>1 DEF Archive, At
  <2> QED
    BY <1>d, <2>1, <2>2 DEF Chunking
<1>8. CASE UpsertGroupes(e)
  <2>1. PICK facts : DOMAIN facts = {"lines"} /\ Remember(e, "votes", facts)
    BY <1>8 DEF UpsertGroupes
  <2>2. At(e, "scrutins", "groupes")
    BY <1>8 DEF UpsertGroupes
  <2>3. Stored' = Stored
    BY <1>f, <2>2 DEF Archive, At
  <2> QED
    BY <1>c, <2>1, <2>2, <2>3 DEF Located, Chunking
<1>9. CASE UpsertVotes(e)
  <2>1. At(e, "scrutins", "votes")
    BY <1>9 DEF UpsertVotes
  <2>2. Stored' = Stored
    BY <1>f, <2>1 DEF Archive, At
  <2>3. \/ \E facts : DOMAIN facts = {"corrections"} /\ Remember(e, "mises", facts)
        \/ \E facts : DOMAIN facts = {"lines"} /\ Remember(e, "votes", facts)
        \/ Refuse(e)
    BY <1>9 DEF UpsertVotes
  <2>4. CASE \E facts : DOMAIN facts = {"corrections"} /\ Remember(e, "mises", facts)
    BY <1>c, <2>1, <2>2, <2>4 DEF Located, Chunking
  <2>5. CASE \E facts : DOMAIN facts = {"lines"} /\ Remember(e, "votes", facts)
    BY <1>c, <2>1, <2>2, <2>5 DEF Located, Chunking
  <2>6. CASE Refuse(e)
    BY <1>0, <1>b, <2>6, RefuseGives
  <2> QED
    BY <2>3, <2>4, <2>5, <2>6
<1>10. CASE UpsertMiseAuPoint(e)
  <2> DEFINE rest == SubSeq(mem.todo, Len(Chunk(e)) + 1, Len(mem.todo))
             facts == [resolved |-> NoRow, todo |-> rest]
  <2>1. /\ At(e, "scrutins", "mises")
        /\ \/ Remember(e, "chunk", facts)
           \/ \E more : DOMAIN more = {"corrections"} /\ Remember(e, "mises", more)
           \/ Refuse(e)
    BY <1>10 DEF UpsertMiseAuPoint
  <2>2. Stored' = Stored
    BY <1>f, <2>1 DEF Archive, At
  <2>3. mem.todo \in Seq(ToSet(docs))
    BY <1>a, <2>1 DEF At, Located, Chunking
  <2> HIDE DEF docs
  <2>4. Chunk(e) \in Seq(ToSet(docs))
    BY <2>3, ChunkWithin
  <2>5. rest \in Seq(ToSet(docs))
    BY <2>3, <2>4, Within
  <2> HIDE DEF rest
  <2>6. "todo" \in DOMAIN facts /\ facts.todo = rest /\ "documents" \notin DOMAIN facts
    OBVIOUS
  <2> HIDE DEF facts
  <2>7. CASE Remember(e, "chunk", facts)
    BY <1>c, <2>1, <2>2, <2>5, <2>6, <2>7 DEF Located, Chunking
  <2>8. CASE \E more : DOMAIN more = {"corrections"} /\ Remember(e, "mises", more)
    BY <1>c, <2>1, <2>2, <2>8 DEF Located, Chunking
  <2>9. CASE Refuse(e)
    BY <1>0, <1>b, <2>9, RefuseGives
  <2> QED
    BY <2>1, <2>7, <2>8, <2>9
<1>11. CASE EndChunks(e)
  BY <1>e, <1>11 DEF EndChunks
<1> QED
  BY <1>1, <1>2, <1>3, <1>4, <1>5, <1>6, <1>7, <1>8, <1>9, <1>10, <1>11 DEF Scrutins
\* The rows a chunk writes name documents that stand for their scrutins.
LEMMA ScrutinsRows ==
  ASSUME TypeInv, DocumentInv, NEW e \in Execs, UpsertScrutins(e), Stored' = Stored
  PROVE  \A u \in DOMAIN base'.scrutins : Placed(u, base'.scrutins[u])
<1> DEFINE mem  == exec[e].mem
           docs == ToSet(Docs(exec[e].input))
           of(u) == OfUid(u, Chunk(e))
           rows == [u \in {d.uid : d \in ToSet(Chunk(e))} |->
                      [content |-> of(u), document |-> mem.documents[u]]]
<1>1. At(e, "scrutins", "scrutins") /\ Fill([scrutins |-> Upsert(rows, base.scrutins)])
  BY DEF UpsertScrutins, ScrutinRows
<1>2. mem.todo \in Seq(docs) /\ \A d \in docs : Stands(mem.documents[d.uid], d)
  BY <1>1 DEF DocumentInv, Parsed, At, Located, Chunking
<1>3. ToSet(Chunk(e)) \subseteq docs
  <2> HIDE DEF docs
  <2> QED
    BY <1>2, ChunkWithin
<1>4. ASSUME NEW u \in DOMAIN rows
      PROVE  Placed(u, rows[u])
  <2>1. of(u) \in ToSet(Chunk(e)) /\ of(u).uid = u
    BY <1>4 DEF OfUid
  <2>2. rows[u].content = of(u) /\ rows[u].document = mem.documents[of(u).uid]
    BY <1>4, <2>1
  <2> HIDE DEF of, rows, docs
  <2> QED
    BY <1>2, <1>3, <2>1, <2>2 DEF Placed
<1> HIDE DEF rows
<1>5. base'.scrutins = Upsert(rows, base.scrutins)
  <2> DEFINE t == [scrutins |-> Upsert(rows, base.scrutins)]
  <2>1. DOMAIN t \subseteq DOMAIN base /\ "scrutins" \in DOMAIN t /\ t["scrutins"] = Upsert(rows, base.scrutins)
    BY TablesExist
  <2>2. Fill(t)
    BY <1>1
  <2> HIDE DEF t
  <2> QED
    BY <2>1, <2>2, FillGives
<1> SUFFICES ASSUME NEW u \in DOMAIN Upsert(rows, base.scrutins)
             PROVE  Placed(u, Upsert(rows, base.scrutins)[u])
  BY <1>5
<1>6. CASE u \in DOMAIN rows
  BY <1>4, <1>6, UpsertWrites
<1>7. CASE u \notin DOMAIN rows
  BY <1>7 DEF Upsert, DocumentInv
<1> QED
  BY <1>6, <1>7

\* Only UpsertScrutins writes the rows of scrutins.
LEMMA ScrutinsKept ==
  ASSUME TypeInv, NEW e \in Execs, ~UpsertScrutins(e),
         \/ Start(e) \/ Finish(e) \/ Break(e)
         \/ Acteurs(e) \/ Scrutins(e)
         \/ Slugs(e) \/ Candidates(e) \/ Wikidata(e)
  PROVE  base'.scrutins = base.scrutins
<1>0. "scrutins" \in DOMAIN base
  BY TablesExist
<1>1. CASE Start(e) \/ Finish(e) \/ Break(e)
  BY <1>1, StartGives, FinishGives, BreakGives
<1>2. CASE Acteurs(e) \/ Slugs(e) \/ Candidates(e) \/ Wikidata(e)
  <2>1. Keeps(DOMAIN base \ {"scrutins"})
    BY <1>2, TablesExist, ActeursGive, SlugsGive, CandidatesGive, WikidataGive, KeepsMore
  <2> QED
    BY <1>0, <2>1 DEF Keeps
<1>3. CASE Archive(e)
  BY <1>0, <1>3, ArchiveScrutinsGives DEF Keeps
<1>4. CASE ResolveUnknownActeurs(e)
  BY <1>0, <1>4 DEF ResolveUnknownActeurs, Fill, Upsert
<1>5. CASE UpsertGroupes(e)
  BY <1>0, <1>5 DEF UpsertGroupes, Fill, Upsert
<1>6. CASE UpsertVotes(e)
  BY <1>0, <1>6 DEF UpsertVotes, Refuse, Abort, Fill, Upsert
<1>7. CASE UpsertMiseAuPoint(e)
  BY <1>0, <1>7 DEF UpsertMiseAuPoint, Refuse, Abort, Fill, Upsert
<1>8. CASE FetchLatestDocumentIds(e) \/ FetchPersonIds(e) \/ FetchOrganeIdsOfGroupes(e)
           \/ ResolveGroupesFromMandats(e) \/ EndChunks(e)
  BY <1>8 DEF FetchLatestDocumentIds, FetchPersonIds, FetchOrganeIdsOfGroupes,
              ResolveGroupesFromMandats, EndChunks
<1> QED
  BY <1>1, <1>2, <1>3, <1>4, <1>5, <1>6, <1>7, <1>8 DEF Scrutins

LEMMA DocumentInit == Init => DocumentInv
<1> SUFFICES ASSUME Init
             PROVE  DocumentInv
  OBVIOUS
<1>1. \A e \in Execs : exec[e].kind = None /\ exec[e].pc = "over"
  BY DEF Init, Over
<1>2. \A e \in Execs : Parsed(e)
  BY <1>1 DEF Parsed, Archiving, Located, Chunking
<1>3. DOMAIN base.scrutins = {}
  BY DEF Init, Tables, NoRow
<1> QED
  BY <1>2, <1>3 DEF DocumentInv

LEMMA DocumentStep == TypeInv /\ DocumentInv /\ [Next]_vars => DocumentInv'
<1> SUFFICES ASSUME TypeInv, DocumentInv, [Next]_vars
             PROVE  DocumentInv'
  OBVIOUS
<1>1. CASE UNCHANGED vars
  BY <1>1 DEF vars, DocumentInv, Placed, Parsed, Stands, Stored
<1>2. ASSUME NEW e \in Execs,
             \/ Start(e) \/ Finish(e) \/ Break(e)
             \/ Acteurs(e) \/ Scrutins(e)
             \/ Slugs(e) \/ Candidates(e) \/ Wikidata(e)
      PROVE  DocumentInv'
  <2>1. Stored' = Stored \/ Archive(e)
    BY <1>2, TablesStep
  <2>2. Grows
    BY <2>1, StoredGrows
  <2>3. Parsed(e)'
    <3>0. Parsed(e)
      BY DEF DocumentInv
    <3>1. CASE Start(e)
      <4>0. Begins(e)
        BY <3>1, StartGives
      <4>1. exec'[e].pc \in {"archive_organes", "archive", "persons", "file", "qids"}
        BY <4>0, BeginsAt
      <4>2. exec'[e].pc \notin Archiving
        BY <4>1 DEF FirstStep, Archiving, Located, Chunking
      <4> QED
        BY <4>2, ParsedOver
    <3>2. CASE Leaves(e)
      BY <3>2, ParsedOver DEF Leaves, Over, Outcomes, Archiving, Located, Chunking
    <3>3. CASE Scrutins(e)
      BY <2>1, <3>0, <3>3, ParsedStep
    <3>4. CASE Acteurs(e) \/ Slugs(e) \/ Candidates(e) \/ Wikidata(e)
      <4>1. exec[e].kind # "scrutins" /\ Advances(e)
        BY <3>4, ActeursGive, SlugsGive, CandidatesGive, WikidataGive
      <4>2. CASE \E pc, mem : Moves(e, pc, mem)
        BY <4>1, <4>2, ParsedOver DEF Moves
      <4> QED
        BY <3>2, <4>1, <4>2 DEF Advances, Aborts
    <3> QED
      BY <1>2, <3>1, <3>2, <3>3, <3>4, FinishGives, BreakGives
  <2>4. Others(e)
    BY <1>2, StartGives, FinishGives, BreakGives, ActeursGive, ScrutinsGive, SlugsGive,
       CandidatesGive, WikidataGive DEF Begins, Leaves, Advances, Aborts, Moves
  <2>5. \A f \in Execs \ {e} : Parsed(f)'
    BY <2>2, <2>4, ParsedStays DEF DocumentInv, Others
  <2>6. \A u, row : Placed(u, row) => Placed(u, row)'
    BY <2>2, StandsStays DEF Placed
  <2>7. \A u \in DOMAIN base'.scrutins : Placed(u, base'.scrutins[u])
    <3>1. CASE UpsertScrutins(e)
      <4>1. ~Archive(e)
        BY <3>1 DEF UpsertScrutins, Archive, At
      <4> QED
        BY <2>1, <3>1, <4>1, ScrutinsRows
    <3>2. CASE ~UpsertScrutins(e)
      <4>1. base'.scrutins = base.scrutins
        BY <1>2, <3>2, ScrutinsKept
      <4> QED
        BY <4>1 DEF DocumentInv
    <3> QED
      BY <3>1, <3>2
  <2>8. (\A u \in DOMAIN base.scrutins : Placed(u, base.scrutins[u]))'
    BY <2>6, <2>7
  <2> QED
    BY <2>3, <2>5, <2>8 DEF DocumentInv
<1> QED
  BY <1>1, <1>2 DEF Next

\* ArchivedFirst: in every reachable state the payload a scrutin was parsed from
\* is archived, and the document its row names is that payload or a later one of
\* the same scrutin, however the executions of ingest_scrutins overlap, fail and
\* are executed again (archive, fetch_latest_document_ids, upsert_scrutins).
THEOREM ArchivedFirstCorrect == Spec => []ArchivedFirst
<1>1. Init => TypeInv /\ DocumentInv
  BY TypeInit, DocumentInit
<1>2. TypeInv /\ DocumentInv /\ [Next]_vars => (TypeInv /\ DocumentInv)'
  BY TypeStep, DocumentStep
<1>3. DocumentInv => ArchivedFirst
  <2> SUFFICES ASSUME DocumentInv, NEW u \in DOMAIN base.scrutins
               PROVE  LET row == base.scrutins[u]
                      IN  /\ Stored[row.document].uid = u
                          /\ \E i \in 1..row.document : Stored[i] = row.content
    BY DEF ArchivedFirst, Stored
  <2> QED
    BY DEF DocumentInv, Placed, Stands
<1> QED
  BY <1>1, <1>2, <1>3, PTL DEF Spec
-----------------------------------------------------------------------------
(* Seeds.                                                                    *)

LEMMA AppendElements ==
  ASSUME NEW s, s \in Seq(ToSet(s)), NEW v
  PROVE  /\ Append(s, v) \in Seq(ToSet(Append(s, v)))
         /\ ToSet(Append(s, v)) = ToSet(s) \cup {v}
         /\ Len(Append(s, v)) = Len(s) + 1
<1> DEFINE S == ToSet(s) \cup {v}
           t == Append(s, v)
<1>1. s \in Seq(S) /\ v \in S
  <2>1. ToSet(s) \subseteq S
    OBVIOUS
  <2> HIDE DEF S
  <2>2. s \in Seq(S)
    BY <2>1
  <2> QED
    BY <2>2 DEF S
<1> HIDE DEF S
<1>2. t \in Seq(S) /\ Len(t) = Len(s) + 1 /\ DOMAIN t = 1..(Len(s) + 1)
      /\ t[Len(s) + 1] = v /\ \A i \in 1..Len(s) : t[i] = s[i]
  BY <1>1
<1>3. Len(s) \in Nat /\ DOMAIN s = 1..Len(s)
  BY <1>1
<1> HIDE DEF t
<1>4. t \in Seq(ToSet(t))
  BY <1>2, OwnElements
<1>5. ToSet(t) = S
  <2>1. \A i \in DOMAIN t : i \in DOMAIN s \/ i = Len(s) + 1
    BY <1>2, <1>3
  <2>2. ToSet(t) \subseteq S
    BY <1>2, <1>3, <2>1 DEF ToSet, S
  <2>3. \A i \in DOMAIN s : i \in DOMAIN t /\ t[i] = s[i]
    BY <1>2, <1>3
  <2>4. Len(s) + 1 \in DOMAIN t
    BY <1>2, <1>3
  <2> QED
    BY <1>2, <2>2, <2>3, <2>4 DEF ToSet, S
<1> QED
  BY <1>2, <1>4, <1>5 DEF t, S

LEMMA SeedingOver ==
  ASSUME NEW e \in Execs,
         exec'[e].kind # "candidates"
           \/ exec'[e].pc \notin {"lookup", "insert", "delete", "deleting", "commit", "finish"}
  PROVE  Seeding(e)'
BY DEF Seeding, Seeded

LEMMA MissingOver ==
  ASSUME NEW e \in Execs, exec'[e].kind # "scrutins" \/ exec'[e].pc # "unknown"
  PROVE  Missing(e)'
BY DEF Missing

LEMMA SeedingAt ==
  ASSUME NEW e \in Execs, NEW pc, NEW mem,
         exec'[e] = [kind |-> "candidates", input |-> exec[e].input, pc |-> pc, mem |-> mem],
         Seeded(pc, mem, ToSet(exec[e].input.entries))
  PROVE  Seeding(e)'
BY DEF Seeding

LEMMA SeedingStep ==
  ASSUME TypeInv, NEW e \in Execs, Seeding(e), Candidates(e)
  PROVE  Seeding(e)'
<1> DEFINE mem     == exec[e].mem
           entries == exec[e].input.entries
<1>0. ExecTyped /\ exec[e].kind = "candidates" /\ exec[e].input \in Inputs("candidates")
  BY CandidatesGive DEF TypeInv, ExecTyped
<1>a. ASSUME exec[e].pc \in {"lookup", "insert", "delete", "deleting", "commit"}
      PROVE  /\ Facts \subseteq DOMAIN mem
             /\ mem.todo \in Seq(ToSet(entries))
             /\ mem.persons \in Seq(ToSet(mem.persons))
             /\ \A q \in mem.created : q # None /\ \E d \in ToSet(entries) : d.qid = q
  BY <1>0, <1>a DEF Seeding, Seeded
<1>b. ASSUME Leaves(e)
      PROVE  Seeding(e)'
  <2>1. exec'[e].pc \in Outcomes
    BY <1>b DEF Leaves, Over
  <2> QED
    BY <2>1, SeedingOver DEF Outcomes
<1>c. ASSUME NEW pc, NEW facts, Remember(e, pc, facts)
      PROVE  exec'[e] = [kind |-> "candidates", input |-> exec[e].input, pc |-> pc,
                         mem |-> Upsert(facts, mem)]
  BY <1>0, <1>c, RememberGives DEF Moves
<1>1. CASE ReadFile(e)
  <2>1. CASE Fail(e)
    BY <1>0, <1>b, <2>1, FailGives
  <2>2. CASE ~Fail(e)
    <3> DEFINE facts == [todo |-> entries, persons |-> <<>>,
                         created |-> {}, written |-> {}, deleted |-> {}]
               after == Upsert(facts, mem)
    <3>1. Remember(e, "lookup", facts)
      BY <1>1, <2>2 DEF ReadFile
    <3>2. exec'[e] = [kind |-> "candidates", input |-> exec[e].input, pc |-> "lookup", mem |-> after]
      BY <1>c, <3>1
    <3>3. DOMAIN facts = Facts /\ facts.todo = entries /\ facts.persons = <<>> /\ facts.created = {}
      BY DEF Facts
    <3> HIDE DEF facts
    <3>4. /\ Facts \subseteq DOMAIN after
          /\ after.todo = entries /\ after.persons = <<>> /\ after.created = {}
      BY <3>3 DEF Upsert, Facts
    <3>5. entries \in Seq(ToSet(entries)) /\ <<>> \in Seq(ToSet(<<>>))
      BY <1>0, PersonnesAssumption
    <3>6. Seeded("lookup", after, ToSet(entries))
      BY <3>4, <3>5 DEF Seeded
    <3> HIDE DEF after
    <3> QED
      BY <3>2, <3>6, SeedingAt
  <2> QED
    BY <2>1, <2>2
<1>2. CASE LookupPerson(e)
  <2>1. exec[e].pc = "lookup" /\ mem.todo # <<>>
    BY <1>2 DEF LookupPerson, At
  <2>2. \/ \E v : Remember(e, "lookup", [todo |-> Tail(mem.todo), persons |-> Append(mem.persons, v)])
        \/ Head(mem.todo).qid # None /\ Goto(e, "insert")
        \/ Fail(e)
    BY <1>2 DEF LookupPerson
  <2>3. ASSUME NEW v, Remember(e, "lookup", [todo |-> Tail(mem.todo), persons |-> Append(mem.persons, v)])
        PROVE  Seeding(e)'
    <3> DEFINE facts == [todo |-> Tail(mem.todo), persons |-> Append(mem.persons, v)]
               after == Upsert(facts, mem)
    <3>1. exec'[e] = [kind |-> "candidates", input |-> exec[e].input, pc |-> "lookup", mem |-> after]
      BY <1>c, <2>3
    <3>2. DOMAIN facts = {"todo", "persons"} /\ facts.todo = Tail(mem.todo)
          /\ facts.persons = Append(mem.persons, v)
      OBVIOUS
    <3> HIDE DEF facts
    <3>3. /\ Facts \subseteq DOMAIN after /\ after.created = mem.created
          /\ after.todo = Tail(mem.todo) /\ after.persons = Append(mem.persons, v)
      BY <1>a, <2>1, <3>2 DEF Upsert, Facts
    <3>4. Tail(mem.todo) \in Seq(ToSet(entries))
      BY <1>a, <2>1, HeadTailProperties
    <3>5. /\ Append(mem.persons, v) \in Seq(ToSet(Append(mem.persons, v)))
          /\ ToSet(mem.persons) \subseteq ToSet(Append(mem.persons, v))
      BY <1>a, <2>1, AppendElements
    <3>6. mem.created \subseteq ToSet(mem.persons)
      BY <1>0, <2>1 DEF Seeding, Seeded
    <3>7. /\ after.todo \in Seq(ToSet(entries)) /\ after.persons \in Seq(ToSet(after.persons))
          /\ after.created \subseteq ToSet(after.persons)
      BY <3>3, <3>4, <3>5, <3>6
    <3>8. \A q \in after.created : q # None /\ \E d \in ToSet(entries) : d.qid = q
      BY <1>a, <2>1, <3>3
    <3> HIDE DEF after
    <3>9. Seeded("lookup", after, ToSet(entries))
      BY <3>3, <3>7, <3>8 DEF Seeded
    <3> QED
      BY <3>1, <3>9, SeedingAt
  <2>4. CASE Head(mem.todo).qid # None /\ Goto(e, "insert")
    <3>1. exec'[e] = [kind |-> "candidates", input |-> exec[e].input, pc |-> "insert", mem |-> mem]
      BY <1>0, <2>4, GotoGives DEF Moves
    <3>2. mem.created \subseteq ToSet(mem.persons)
      BY <1>0, <2>1 DEF Seeding, Seeded
    <3> QED
      BY <1>a, <2>1, <2>4, <3>1, <3>2 DEF Seeding, Seeded
  <2> QED
    BY <1>0, <1>b, <2>2, <2>3, <2>4, FailGives
<1>3. CASE InsertPerson(e)
  <2>1. exec[e].pc = "insert"
    BY <1>3 DEF InsertPerson, At
  <2> DEFINE q     == Head(mem.todo).qid
             facts == [todo |-> Tail(mem.todo), persons |-> Append(mem.persons, q),
                       created |-> mem.created \cup {q}]
             after == Upsert(facts, mem)
  <2>2. Remember(e, "lookup", facts) \/ Refuse(e)
    BY <1>3 DEF InsertPerson
  <2>3. CASE Remember(e, "lookup", facts)
    <3>1. exec'[e] = [kind |-> "candidates", input |-> exec[e].input, pc |-> "lookup", mem |-> after]
      BY <1>c, <2>3
    <3>2. DOMAIN facts = {"todo", "persons", "created"} /\ facts.todo = Tail(mem.todo)
          /\ facts.persons = Append(mem.persons, q) /\ facts.created = mem.created \cup {q}
      OBVIOUS
    <3> HIDE DEF facts
    <3>3. /\ Facts \subseteq DOMAIN after /\ after.created = mem.created \cup {q}
          /\ after.todo = Tail(mem.todo) /\ after.persons = Append(mem.persons, q)
      BY <1>a, <2>1, <3>2 DEF Upsert, Facts
    <3>4. /\ mem.todo # <<>> /\ q # None
          /\ mem.created \subseteq ToSet(mem.persons)
      BY <1>0, <2>1 DEF Seeding, Seeded
    <3>5. Tail(mem.todo) \in Seq(ToSet(entries)) /\ Head(mem.todo) \in ToSet(entries)
      BY <1>a, <2>1, <3>4, HeadTailProperties
    <3>6. /\ Append(mem.persons, q) \in Seq(ToSet(Append(mem.persons, q)))
          /\ ToSet(Append(mem.persons, q)) = ToSet(mem.persons) \cup {q}
      BY <1>a, <2>1, AppendElements
    <3>7. \A r \in after.created : r # None /\ \E d \in ToSet(entries) : d.qid = r
      BY <1>a, <2>1, <3>3, <3>4, <3>5
    <3>8. /\ after.todo \in Seq(ToSet(entries)) /\ after.persons \in Seq(ToSet(after.persons))
          /\ after.created \subseteq ToSet(after.persons)
      BY <3>3, <3>4, <3>5, <3>6
    <3> HIDE DEF after, q
    <3>9. Seeded("lookup", after, ToSet(entries))
      BY <3>3, <3>7, <3>8 DEF Seeded
    <3> QED
      BY <3>1, <3>9, SeedingAt
  <2> QED
    BY <1>0, <1>b, <2>2, <2>3, RefuseGives
<1>4. CASE UpsertCandidates(e)
  <2>1. exec[e].pc = "lookup"
    BY <1>4 DEF UpsertCandidates, At
  <2> DEFINE facts == [written |-> ToSet(mem.persons)]
             after == Upsert(facts, mem)
  <2>2. Remember(e, "delete", facts) \/ Fail(e)
    BY <1>4 DEF UpsertCandidates
  <2>3. CASE Remember(e, "delete", facts)
    <3>1. exec'[e] = [kind |-> "candidates", input |-> exec[e].input, pc |-> "delete", mem |-> after]
      BY <1>c, <2>3
    <3>2. DOMAIN facts = {"written"} /\ facts.written = ToSet(mem.persons)
      OBVIOUS
    <3> HIDE DEF facts
    <3>3. /\ Facts \subseteq DOMAIN after /\ after.created = mem.created /\ after.todo = mem.todo
          /\ after.persons = mem.persons /\ after.written = ToSet(mem.persons)
      BY <1>a, <2>1, <3>2 DEF Upsert, Facts
    <3>4. mem.created \subseteq ToSet(mem.persons)
      BY <1>0, <2>1 DEF Seeding, Seeded
    <3> HIDE DEF after
    <3> QED
      BY <1>a, <2>1, <3>1, <3>3, <3>4 DEF Seeding, Seeded
  <2> QED
    BY <1>0, <1>b, <2>2, <2>3, FailGives
\* The steps that only add to what the transaction locks.
<1>d. ASSUME exec[e].pc \in {"delete", "deleting"}, NEW field \in {"aim", "deleted"}, NEW v,
             Remember(e, IF field = "aim" THEN "deleting" ELSE "commit", [k \in {field} |-> v])
      PROVE  Seeding(e)'
  <2> DEFINE pc    == IF field = "aim" THEN "deleting" ELSE "commit"
             facts == [k \in {field} |-> v]
             after == Upsert(facts, mem)
  <2>1. exec'[e] = [kind |-> "candidates", input |-> exec[e].input, pc |-> pc, mem |-> after]
    BY <1>c, <1>d
  <2>2. /\ Facts \subseteq DOMAIN after /\ after.created = mem.created /\ after.todo = mem.todo
        /\ after.persons = mem.persons /\ after.written = mem.written
        /\ field \in DOMAIN after
    BY <1>a, <1>d DEF Upsert, Facts
  <2>3. mem.created \subseteq mem.written
    BY <1>0, <1>d DEF Seeding, Seeded
  <2>4. pc = "commit" \/ (pc = "deleting" /\ field = "aim")
    BY <1>d
  <2> HIDE DEF after, pc
  <2> QED
    BY <1>a, <1>d, <2>1, <2>2, <2>3, <2>4 DEF Seeding, Seeded
<1>5. CASE DeleteOthers(e)
  <2>1. Remember(e, "deleting", [k \in {"aim"} |-> base.candidates \ mem.written]) /\ exec[e].pc = "delete"
    BY <1>5 DEF DeleteOthers, At
  <2> QED
    BY <1>d, <2>1
<1>6. CASE EndDelete(e)
  <2>1. Remember(e, "commit", [k \in {"deleted"} |-> mem.aim]) /\ exec[e].pc = "deleting"
    BY <1>6 DEF EndDelete, At
  <2> QED
    BY <1>d, <2>1
<1>7. CASE CommitSeed(e)
  <2> DEFINE facts == [created |-> {}, written |-> {}, deleted |-> {}]
             after == Upsert(facts, mem)
  <2>1. Remember(e, "finish", facts) /\ exec[e].pc = "commit"
    BY <1>7 DEF CommitSeed, At
  <2>2. exec'[e] = [kind |-> "candidates", input |-> exec[e].input, pc |-> "finish", mem |-> after]
    BY <1>c, <2>1
  <2>3. DOMAIN facts = {"created", "written", "deleted"} /\ facts.created = {}
    OBVIOUS
  <2> HIDE DEF facts
  <2>4. /\ Facts \subseteq DOMAIN after /\ after.created = {} /\ after.todo = mem.todo
        /\ after.persons = mem.persons
    BY <1>a, <2>1, <2>3 DEF Upsert, Facts
  <2> HIDE DEF after
  <2> QED
    BY <1>a, <2>1, <2>2, <2>4 DEF Seeding, Seeded
<1> QED
  BY <1>1, <1>2, <1>3, <1>4, <1>5, <1>6, <1>7 DEF Candidates
LEMMA MissingStep ==
  ASSUME TypeInv, NEW e \in Execs, Scrutins(e)
  PROVE  Missing(e)'
<1>0. ExecTyped /\ exec[e].kind = "scrutins"
  BY ScrutinsGive DEF TypeInv
<1>a. ASSUME NEW pc, NEW mem, Moves(e, pc, mem), pc # "unknown"
      PROVE  Missing(e)'
  BY <1>a, MissingOver DEF Moves
<1>b. ASSUME NEW pc, pc # "unknown", Goto(e, pc) \/ \E facts : Remember(e, pc, facts)
      PROVE  Missing(e)'
  BY <1>0, <1>a, <1>b, GotoGives, RememberGives
<1>c. ASSUME Refuse(e)
      PROVE  Missing(e)'
  BY <1>0, <1>c, RefuseGives, MissingOver DEF Leaves, Over, Outcomes
<1>1. CASE FetchPersonIds(e)
  <2> DEFINE facts == [missing |-> Cited(Docs(exec[e].input)) \ PersonsAN]
             after == Upsert(facts, exec[e].mem)
  <2>1. Moves(e, "unknown", after)
    BY <1>0, <1>1, RememberGives DEF FetchPersonIds
  <2>2. "missing" \in DOMAIN after /\ after.missing \subseteq Cited(Docs(exec[e].input))
    BY DEF Upsert
  <2> HIDE DEF after
  <2>3. exec'[e] = [kind |-> exec[e].kind, input |-> exec[e].input, pc |-> "unknown", mem |-> after]
    BY <2>1 DEF Moves
  <2> QED
    BY <2>2, <2>3 DEF Missing
<1>2. CASE Archive(e) \/ FetchLatestDocumentIds(e) \/ ResolveUnknownActeurs(e)
           \/ FetchOrganeIdsOfGroupes(e)
  BY <1>b, <1>2 DEF Archive, FetchLatestDocumentIds, ResolveUnknownActeurs, FetchOrganeIdsOfGroupes
<1>3. CASE ResolveGroupesFromMandats(e)
  <2>1. \E facts : Remember(e, "scrutins", facts)
    BY <1>3 DEF ResolveGroupesFromMandats
  <2> QED
    BY <1>b, <2>1
<1>4. CASE UpsertScrutins(e) \/ UpsertGroupes(e) \/ EndChunks(e)
  BY <1>b, <1>4 DEF UpsertScrutins, UpsertGroupes, EndChunks
<1>5. CASE UpsertVotes(e) \/ UpsertMiseAuPoint(e)
  <2>1. \/ \E facts : Remember(e, "chunk", facts)
        \/ \E facts : Remember(e, "mises", facts)
        \/ \E facts : Remember(e, "votes", facts)
        \/ Refuse(e)
    BY <1>5 DEF UpsertVotes, UpsertMiseAuPoint
  <2> QED
    BY <1>b, <1>c, <2>1
<1> QED
  BY <1>1, <1>2, <1>3, <1>4, <1>5 DEF Scrutins

LEMMA SeedInit == Init => SeedInv
<1> SUFFICES ASSUME Init, NEW e \in Execs
             PROVE  Seeding(e) /\ Missing(e)
  BY DEF SeedInv
<1>1. exec[e].pc = "over"
  BY DEF Init, Over
<1> QED
  BY <1>1 DEF Seeding, Seeded, Missing

\* What one execution does leaves alone what the others know.
LEMMA OthersStay ==
  ASSUME NEW e \in Execs,
         \/ Start(e) \/ Finish(e) \/ Break(e)
         \/ Acteurs(e) \/ Scrutins(e)
         \/ Slugs(e) \/ Candidates(e) \/ Wikidata(e),
         TypeInv
  PROVE  Others(e)
BY StartGives, FinishGives, BreakGives, ActeursGive, ScrutinsGive, SlugsGive,
   CandidatesGive, WikidataGive DEF Begins, Leaves, Advances, Aborts, Moves

LEMMA SeedStep == TypeInv /\ SeedInv /\ [Next]_vars => SeedInv'
<1> SUFFICES ASSUME TypeInv, SeedInv, [Next]_vars
             PROVE  SeedInv'
  OBVIOUS
<1>1. CASE UNCHANGED vars
  BY <1>1 DEF vars, SeedInv, Seeding, Seeded, Missing
<1>2. ASSUME NEW e \in Execs,
             \/ Start(e) \/ Finish(e) \/ Break(e)
             \/ Acteurs(e) \/ Scrutins(e)
             \/ Slugs(e) \/ Candidates(e) \/ Wikidata(e)
      PROVE  SeedInv'
  <2>1. Seeding(e)' /\ Missing(e)'
    <3>0. Seeding(e)
      BY DEF SeedInv
    <3>1. CASE Start(e)
      <4>1. Begins(e)
        BY <3>1, StartGives
      <4>2. exec'[e].pc \in {"archive_organes", "archive", "persons", "file", "qids"}
        BY <4>1, BeginsAt
      <4> QED
        BY <4>2, SeedingOver, MissingOver
    <3>2. CASE Leaves(e)
      <4>1. exec'[e].pc \in Outcomes
        BY <3>2 DEF Leaves, Over
      <4> QED
        BY <4>1, SeedingOver, MissingOver DEF Outcomes
    <3>3. ASSUME Acteurs(e) \/ Slugs(e) \/ Wikidata(e) \/ Scrutins(e) \/ Candidates(e)
          PROVE  Leaves(e) \/ (exec'[e].kind = exec[e].kind)
      <4>1. Advances(e)
        BY <3>3, ActeursGive, SlugsGive, WikidataGive, ScrutinsGive, CandidatesGive
      <4>2. ASSUME NEW pc, NEW mem, Moves(e, pc, mem)
            PROVE  exec'[e].kind = exec[e].kind
        BY <4>2 DEF Moves
      <4> QED
        BY <4>1, <4>2 DEF Advances, Aborts
    <3>4. CASE Acteurs(e) \/ Slugs(e) \/ Wikidata(e)
      <4>1. exec[e].kind \notin {"scrutins", "candidates"}
        BY <3>4, ActeursGive, SlugsGive, WikidataGive
      <4> QED
        BY <3>2, <3>3, <3>4, <4>1, SeedingOver, MissingOver
    <3>5. CASE Scrutins(e)
      BY <3>2, <3>3, <3>5, ScrutinsGive, SeedingOver, MissingStep
    <3>6. CASE Candidates(e)
      BY <3>0, <3>2, <3>3, <3>6, CandidatesGive, SeedingStep, MissingOver
    <3> QED
      BY <1>2, <3>1, <3>2, <3>4, <3>5, <3>6, FinishGives, BreakGives
  <2>2. Others(e)
    BY <1>2, OthersStay
  <2>3. \A f \in Execs \ {e} : Seeding(f)' /\ Missing(f)'
    BY <2>2 DEF Others, SeedInv, Seeding, Missing
  <2> QED
    BY <2>1, <2>3 DEF SeedInv
<1> QED
  BY <1>1, <1>2 DEF Next
-----------------------------------------------------------------------------
(* Persons.                                                                  *)

\* An UPDATE of qids that is accepted.
UpdatesBatch(e, batch) ==
  /\ UpdateQids(e) /\ UpdateBatch(e, batch) /\ ~Refuse(e)
  /\ batch \subseteq Resolved(exec[e].input) \ Sent(e)

LEMMA PersonsFilled ==
  ASSUME TypeInv, NEW v, Fill([persons |-> v])
  PROVE  base'.persons = v
BY TablesExist DEF Fill, Upsert

LEMMA PersonsOnly ==
  ASSUME TypeInv, NEW e \in Execs,
         \/ Start(e) \/ Finish(e) \/ Break(e)
         \/ Acteurs(e) \/ Scrutins(e)
         \/ Slugs(e) \/ Candidates(e) \/ Wikidata(e)
  PROVE  \/ base'.persons = base.persons
         \/ UpsertPersons(e) \/ ResolveUnknownActeurs(e) \/ CommitSeed(e)
         \/ \E batch : UpdatesBatch(e, batch)
<1>0. "persons" \in DOMAIN base
  BY TablesExist
<1>1. CASE Start(e) \/ Finish(e) \/ Break(e)
  BY <1>1, StartGives, FinishGives, BreakGives
<1>2. CASE Slugs(e)
  BY <1>0, <1>2, SlugsGive DEF Keeps
<1>3. CASE Candidates(e)
  BY <1>3, CandidatesGive
<1>4. CASE ArchiveOrganes(e) \/ ArchiveActeurs(e) \/ Archive(e)
  <2>1. Keeps({"documents"})
    BY <1>4, ArchiveGives DEF ArchiveOrganes, ArchiveActeurs, Archive, Sources
  <2> QED
    BY <1>0, <2>1 DEF Keeps
<1>5. CASE UpsertOrganes(e)
  BY <1>0, <1>5 DEF UpsertOrganes, Fill, Upsert
<1>6. CASE FetchOrganeIds(e) \/ FetchKnown(e)
  BY <1>6 DEF FetchOrganeIds, FetchKnown
<1>7. CASE UpsertMandats(e)
  BY <1>0, <1>7 DEF UpsertMandats, Refuse, Abort, Fill, Upsert
<1>8. CASE UpsertPhotos(e)
  <2>1. \E v : Fill([photos |-> v])
    BY <1>8 DEF UpsertPhotos
  <2> QED
    BY <1>0, <2>1 DEF Fill, Upsert
<1>9. CASE UpsertScrutins(e) \/ UpsertGroupes(e)
  BY <1>0, <1>9 DEF UpsertScrutins, UpsertGroupes, Fill, Upsert
<1>10. CASE UpsertVotes(e) \/ UpsertMiseAuPoint(e)
  BY <1>0, <1>10 DEF UpsertVotes, UpsertMiseAuPoint, Refuse, Abort, Fill, Upsert
<1>11. CASE FetchLatestDocumentIds(e) \/ FetchPersonIds(e) \/ FetchOrganeIdsOfGroupes(e)
            \/ ResolveGroupesFromMandats(e) \/ EndChunks(e)
  BY <1>11 DEF FetchLatestDocumentIds, FetchPersonIds, FetchOrganeIdsOfGroupes,
               ResolveGroupesFromMandats, EndChunks
<1>12. CASE Refuse(e)
  BY <1>12, RefuseGives DEF TypeInv
<1>13. CASE UpdateQids(e) /\ ~Refuse(e)
  <2>1. \/ base' = base
        \/ \E batch : UpdateBatch(e, batch) /\ batch \subseteq Resolved(exec[e].input) \ Sent(e)
    BY <1>13 DEF UpdateQids, kSubset
  <2> QED
    BY <1>13, <2>1 DEF UpdatesBatch
<1> QED
  BY <1>1, <1>2, <1>3, <1>4, <1>5, <1>6, <1>7, <1>8, <1>9, <1>10, <1>11, <1>12, <1>13
  DEF Acteurs, Scrutins, Wikidata

\* The rows a seed, and an execution of ingest_scrutins, are about to create.
Created(e) ==
  [q \in exec[e].mem.created |-> CHOOSE entry \in ToSet(exec[e].input.entries) : entry.qid = q]
Unknown(e) ==
  [p \in exec[e].mem.missing |-> [an |-> p, qid |-> None, nom |-> None]]

LEMMA CommitGives ==
  ASSUME TypeInv, SeedInv, NEW e \in Execs, CommitSeed(e)
  PROVE  /\ base'.persons = Upsert(base.persons, Created(e))
         /\ base'.candidates = (base.candidates \ exec[e].mem.deleted) \cup exec[e].mem.written
         /\ exec[e].mem.created \subseteq exec[e].mem.written
         /\ DOMAIN Created(e) = exec[e].mem.created
         /\ \A q \in exec[e].mem.created :
              /\ SeedQid(q) /\ Created(e)[q].qid = q /\ Created(e)[q].an = None
              /\ DOMAIN Created(e)[q] = {"an", "qid", "nom"}
<1> DEFINE mem == exec[e].mem
           entries == ToSet(exec[e].input.entries)
           entryOf(q) == CHOOSE entry \in entries : entry.qid = q
           candidates == (base.candidates \ mem.deleted) \cup mem.written
<1>1. exec[e].kind = "candidates" /\ exec[e].pc = "commit"
      /\ Fill([persons |-> Upsert(base.persons, Created(e)), candidates |-> candidates])
  BY DEF CommitSeed, At, Created
<1>2. base'.persons = Upsert(base.persons, Created(e)) /\ base'.candidates = candidates
  <2> DEFINE persons == Upsert(base.persons, Created(e))
  <2> HIDE DEF persons, candidates
  <2>1. Fill([persons |-> persons, candidates |-> candidates])
    BY <1>1 DEF persons
  <2>2. base'.persons = persons /\ base'.candidates = candidates
    BY <2>1, TablesExist DEF Fill, Upsert
  <2> QED
    BY <2>2 DEF persons
<1>3. /\ mem.created \subseteq mem.written
      /\ \A q \in mem.created : q # None /\ \E d \in entries : d.qid = q
  BY <1>1 DEF SeedInv, Seeding, Seeded
<1>4. exec[e].input \in Inputs("candidates")
  BY <1>1 DEF TypeInv, ExecTyped, Active, Outcomes
<1>5. ASSUME NEW q \in mem.created
      PROVE  /\ SeedQid(q) /\ Created(e)[q].qid = q /\ Created(e)[q].an = None
             /\ DOMAIN Created(e)[q] = {"an", "qid", "nom"}
  <2>1. q # None /\ entryOf(q) \in entries /\ entryOf(q).qid = q
    BY <1>3, <1>5
  <2>2. Created(e)[q] = entryOf(q)
    BY <1>5 DEF Created
  <2> HIDE DEF entryOf
  <2>3. SeedQid(q)
    BY <1>4, <2>1 DEF SeedQid
  <2> QED
    BY <1>4, <2>1, <2>2, <2>3, PersonnesAssumption
<1>6. DOMAIN Created(e) = mem.created
  BY DEF Created
<1> QED
  BY <1>2, <1>3, <1>5, <1>6

LEMMA FiniteImage ==
  ASSUME NEW S, IsFiniteSet(S), NEW f, DOMAIN f = S
  PROVE  IsFiniteSet({f[x] : x \in S})
<1> DEFINE T == {f[x] : x \in S}
           g == [x \in S |-> f[x]]
<1>1. g \in Surjection(S, T)
  BY DEF Surjection
<1> HIDE DEF g, T
<1>2. IsFiniteSet(T)
  BY <1>1, FS_Surjection
<1> QED
  BY <1>2 DEF T

LEMMA NamedGives ==
  ASSUME TypeInv, NEW e \in Execs, UpsertPersons(e)
  PROVE  /\ base'.persons = Upsert(Named(exec[e].input), base.persons)
         /\ exec[e].input \in Inputs("acteurs")
         /\ IsFiniteSet(DOMAIN Named(exec[e].input))
         /\ \A p \in DOMAIN Named(exec[e].input) :
              /\ p # None /\ DOMAIN Named(exec[e].input)[p] = {"an", "qid", "nom"}
              /\ \E a \in ToSet(exec[e].input.acteurs) : a.an = p
              /\ Named(exec[e].input)[p].an = p
              /\ p \in DOMAIN base.persons => Named(exec[e].input)[p].qid = base.persons[p].qid
              /\ p \notin DOMAIN base.persons => Named(exec[e].input)[p].qid = None
<1> DEFINE acteurs == ToSet(exec[e].input.acteurs)
           named == Named(exec[e].input)
<1>1. exec[e].kind = "acteurs" /\ exec[e].pc = "persons" /\ Fill([persons |-> Upsert(named, base.persons)])
  BY DEF UpsertPersons, At
<1>2. exec[e].input \in Inputs("acteurs")
  BY <1>1 DEF TypeInv, ExecTyped, Active, Outcomes
<1>3. base'.persons = Upsert(named, base.persons)
  <2> HIDE DEF named
  <2> QED
    BY <1>1, PersonsFilled
<1>4. DOMAIN named = {a.an : a \in acteurs}
  BY DEF Named
<1>5. \A p \in DOMAIN named :
        /\ DOMAIN named[p] = {"an", "qid", "nom"}
        /\ named[p].an = p
        /\ named[p].qid = IF p \in DOMAIN base.persons THEN base.persons[p].qid ELSE None
  BY DEF Named
<1>6. \A p \in DOMAIN named : p # None
  BY <1>2, <1>4, ActeursAssumption
<1>7. IsFiniteSet(acteurs)
  BY <1>2, ActeursAssumption, SequenceIsFinite
<1>8. IsFiniteSet({a.an : a \in acteurs})
  <2> DEFINE f == [a \in acteurs |-> a.an]
  <2> HIDE DEF acteurs
  <2>1. IsFiniteSet({f[a] : a \in acteurs})
    <3>1. DOMAIN f = acteurs
      OBVIOUS
    <3> HIDE DEF f
    <3> QED
      BY <1>7, <3>1, FiniteImage
  <2>2. {f[a] : a \in acteurs} = {a.an : a \in acteurs}
    OBVIOUS
  <2> QED
    BY <2>1, <2>2
<1> HIDE DEF named
<1> QED
  BY <1>2, <1>3, <1>4, <1>5, <1>6, <1>8 DEF named

LEMMA UnknownGives ==
  ASSUME TypeInv, SeedInv, NEW e \in Execs, ResolveUnknownActeurs(e)
  PROVE  /\ base'.persons = Upsert(base.persons, Unknown(e))
         /\ exec[e].input \in Inputs("scrutins")
         /\ DOMAIN Unknown(e) \subseteq Cited(Docs(exec[e].input))
         /\ IsFiniteSet(DOMAIN Unknown(e))
         /\ \A p \in DOMAIN Unknown(e) :
              p # None /\ Unknown(e)[p] = [an |-> p, qid |-> None, nom |-> None]
<1> DEFINE missing == exec[e].mem.missing
<1>1. exec[e].kind = "scrutins" /\ exec[e].pc = "unknown"
      /\ Fill([persons |-> Upsert(base.persons, Unknown(e))])
  BY DEF ResolveUnknownActeurs, At, Unknown
<1>2. exec[e].input \in Inputs("scrutins")
  BY <1>1 DEF TypeInv, ExecTyped, Active, Outcomes
<1>3. base'.persons = Upsert(base.persons, Unknown(e))
  BY <1>1, PersonsFilled
<1>4. missing \subseteq Cited(Docs(exec[e].input))
  BY <1>1 DEF SeedInv, Missing
<1>5. IsFiniteSet(missing) /\ None \notin missing
  BY <1>2, <1>4, ScrutinsAssumption, FS_Subset
<1>6. DOMAIN Unknown(e) = missing
      /\ \A p \in missing : Unknown(e)[p] = [an |-> p, qid |-> None, nom |-> None]
  BY DEF Unknown
<1> QED
  BY <1>2, <1>3, <1>4, <1>5, <1>6

\* NoOrphanPerson: every person without an_uid is committed together with its
\* candidacy, whatever step of a seed is interrupted or refused: the other jobs
\* create persons with an an_uid (resolve_person and upsert_candidate, one
\* transaction; upsert_persons; resolve_unknown_acteurs).
THEOREM NoOrphanPersonCorrect == Spec => NoOrphanPerson
<1> DEFINE NoOrphan == \A p \in DOMAIN base'.persons \ DOMAIN base.persons :
                         base'.persons[p].an = None => p \in base'.candidates
<1>1. TypeInv /\ SeedInv /\ [Next]_vars => [NoOrphan]_vars
  <2> SUFFICES ASSUME TypeInv, SeedInv, NEW e \in Execs,
                      \/ Start(e) \/ Finish(e) \/ Break(e)
                      \/ Acteurs(e) \/ Scrutins(e)
                      \/ Slugs(e) \/ Candidates(e) \/ Wikidata(e),
                      NEW p \in DOMAIN base'.persons \ DOMAIN base.persons,
                      base'.persons[p].an = None
               PROVE  p \in base'.candidates
    BY DEF Next
  <2>a. ASSUME NEW rows, NEW table, base'.persons = Upsert(rows, table)
        PROVE  \/ p \in DOMAIN rows /\ base'.persons[p] = rows[p]
               \/ p \notin DOMAIN rows /\ p \in DOMAIN table /\ base'.persons[p] = table[p]
    BY <2>a DEF Upsert
  <2>1. CASE UpsertPersons(e)
    <3>1. p \in DOMAIN Named(exec[e].input) /\ base'.persons[p] = Named(exec[e].input)[p]
      BY <2>1, <2>a, NamedGives
    <3> QED
      BY <2>1, <3>1, NamedGives
  <2>2. CASE ResolveUnknownActeurs(e)
    <3>1. p \in DOMAIN Unknown(e) /\ base'.persons[p] = Unknown(e)[p]
      BY <2>2, <2>a, UnknownGives
    <3> QED
      BY <2>2, <3>1, UnknownGives
  <2>3. CASE CommitSeed(e)
    <3>1. p \in exec[e].mem.created
      BY <2>3, <2>a, CommitGives
    <3> QED
      BY <2>3, <3>1, CommitGives
  <2>4. CASE \E batch : UpdatesBatch(e, batch)
    <3>1. PICK hits : Fill([persons |-> WithQids(hits)])
      BY <2>4 DEF UpdatesBatch, UpdateBatch
    <3>2. base'.persons = WithQids(hits)
      BY <3>1, PersonsFilled
    <3> QED
      BY <3>2 DEF WithQids
  <2> QED
    BY <2>1, <2>2, <2>3, <2>4, PersonsOnly
<1>2. TypeInv /\ SeedInv /\ [Next]_vars => (TypeInv /\ SeedInv)'
  BY TypeStep, SeedStep
<1>3. Init => TypeInv /\ SeedInv
  BY TypeInit, SeedInit
<1> QED
  BY <1>1, <1>2, <1>3, PTL DEF Spec, NoOrphanPerson
-----------------------------------------------------------------------------
(* Qids.                                                                     *)

LEMMA PersonInit == Init => PersonInv
<1> SUFFICES ASSUME Init
             PROVE  PersonInv
  OBVIOUS
<1>1. DOMAIN base.persons = {} /\ \A e \in Execs : exec[e].pc = "over"
  BY DEF Init, Tables, NoRow, Over
<1>2. Reserved
  BY <1>1 DEF Reserved, Pending, Active, Outcomes
<1> QED
  BY <1>1, <1>2, FS_EmptySet DEF PersonInv, QidOfOne

LEMMA PendingOver ==
  ASSUME NEW e \in Execs,
         \/ exec'[e].kind # "candidates" \/ exec'[e].pc \in Outcomes
         \/ "created" \notin DOMAIN exec'[e].mem
  PROVE  Pending(e, "created")' = {}
BY DEF Pending, Active

LEMMA PendingKept ==
  ASSUME NEW e \in Execs, NEW pc, NEW facts, ExecTyped, Active(e), Remember(e, pc, facts),
         exec[e].kind = "candidates", "created" \notin DOMAIN facts
  PROVE  Pending(e, "created")' \subseteq Pending(e, "created")
<1> DEFINE after == Upsert(facts, exec[e].mem)
<1>1. exec'[e] = [kind |-> "candidates", input |-> exec[e].input, pc |-> pc, mem |-> after]
  BY RememberGives DEF Moves
<1>2. "created" \in DOMAIN after <=> "created" \in DOMAIN exec[e].mem
  BY DEF Upsert
<1>3. "created" \in DOMAIN exec[e].mem => after.created = exec[e].mem.created
  BY UpsertKeeps
<1> HIDE DEF after
<1> QED
  BY <1>1, <1>2, <1>3 DEF Pending

LEMMA PendingSet ==
  ASSUME NEW e \in Execs, NEW pc, NEW facts, ExecTyped, Remember(e, pc, facts),
         exec[e].kind = "candidates", "created" \in DOMAIN facts
  PROVE  Pending(e, "created")' \subseteq facts.created
<1> DEFINE after == Upsert(facts, exec[e].mem)
<1>1. exec'[e] = [kind |-> "candidates", input |-> exec[e].input, pc |-> pc, mem |-> after]
  BY RememberGives DEF Moves
<1>2. "created" \in DOMAIN after /\ after.created = facts.created
  BY UpsertWrites
<1> HIDE DEF after
<1> QED
  BY <1>1, <1>2 DEF Pending

LEMMA PendingOthers ==
  ASSUME NEW e, Others(e), NEW f \in Execs \ {e}
  PROVE  Pending(f, "created")' = Pending(f, "created")
BY DEF Others, Pending, Active

LEMMA PendingStep ==
  ASSUME TypeInv, NEW e \in Execs, ~InsertPerson(e),
         \/ Start(e) \/ Finish(e) \/ Break(e)
         \/ Acteurs(e) \/ Scrutins(e)
         \/ Slugs(e) \/ Candidates(e) \/ Wikidata(e)
  PROVE  Pending(e, "created")' \subseteq Pending(e, "created")
<1>0. ExecTyped
  BY DEF TypeInv
<1>a. ASSUME Leaves(e)
      PROVE  Pending(e, "created")' = {}
  BY <1>a, PendingOver DEF Leaves, Over
<1>1. CASE Start(e)
  <2>1. exec'[e].mem = NoRow
    BY <1>1, StartGives, BeginsAt
  <2> QED
    BY <2>1, PendingOver DEF NoRow
<1>2. CASE Finish(e) \/ Break(e)
  BY <1>a, <1>2, FinishGives, BreakGives
<1>3. CASE Acteurs(e) \/ Scrutins(e) \/ Slugs(e) \/ Wikidata(e)
  <2>1. exec[e].kind # "candidates" /\ Advances(e)
    BY <1>3, ActeursGive, ScrutinsGive, SlugsGive, WikidataGive
  <2>2. ASSUME NEW pc, NEW mem, Moves(e, pc, mem)
        PROVE  exec'[e].kind # "candidates"
    BY <2>1, <2>2 DEF Moves
  <2> QED
    BY <1>a, <2>1, <2>2, PendingOver DEF Advances, Aborts
<1>4. CASE Candidates(e)
  <2>0. exec[e].kind = "candidates" /\ Active(e)
    BY <1>4, CandidatesGive
  <2>1. CASE ReadFile(e)
    <3>1. Fail(e) \/ \E facts : /\ Remember(e, "lookup", facts)
                                /\ "created" \in DOMAIN facts /\ facts.created = {}
      BY <2>1 DEF ReadFile
    <3> QED
      BY <1>0, <1>a, <2>0, <3>1, FailGives, PendingSet
  <2>2. CASE LookupPerson(e)
    <3>1. \/ \E facts : Remember(e, "lookup", facts) /\ "created" \notin DOMAIN facts
          \/ Goto(e, "insert")
          \/ Fail(e)
      BY <2>2 DEF LookupPerson
    <3>2. CASE Goto(e, "insert")
      <4>0. Moves(e, "insert", exec[e].mem)
        BY <1>0, <3>2, GotoGives
      <4>1. exec'[e].kind = exec[e].kind /\ exec'[e].mem = exec[e].mem
        BY <4>0 DEF Moves
      <4> QED
        BY <2>0, <4>1 DEF Pending
    <3> QED
      BY <1>0, <1>a, <2>0, <3>1, <3>2, FailGives, PendingKept
  <2>3. CASE UpsertCandidates(e)
    <3>1. \/ \E facts : Remember(e, "delete", facts) /\ "created" \notin DOMAIN facts
          \/ Fail(e)
      BY <2>3 DEF UpsertCandidates
    <3> QED
      BY <1>0, <1>a, <2>0, <3>1, FailGives, PendingKept
  <2>4. CASE DeleteOthers(e) \/ EndDelete(e)
    <3>1. \E pc, facts : Remember(e, pc, facts) /\ "created" \notin DOMAIN facts
      BY <2>4 DEF DeleteOthers, EndDelete
    <3> QED
      BY <1>0, <2>0, <3>1, PendingKept
  <2>5. CASE CommitSeed(e)
    <3>1. \E facts : /\ Remember(e, "finish", facts)
                     /\ "created" \in DOMAIN facts /\ facts.created = {}
      BY <2>5 DEF CommitSeed
    <3> QED
      BY <1>0, <2>0, <3>1, PendingSet
  <2> QED
    BY <1>4, <2>1, <2>2, <2>3, <2>4, <2>5 DEF Candidates
<1> QED
  BY <1>1, <1>2, <1>3, <1>4
\* A step that gives nobody a qid.
LEMMA HarmlessStep ==
  ASSUME PersonInv, NEW e \in Execs, Others(e),
         Pending(e, "created")' \subseteq Pending(e, "created"),
         IsFiniteSet(DOMAIN base'.persons),
         \A p \in DOMAIN base'.persons : Identified(p, base'.persons[p]),
         \A p \in DOMAIN base'.persons :
           \/ base'.persons[p].qid = None
           \/ p \in DOMAIN base.persons /\ base'.persons[p].qid = base.persons[p].qid
  PROVE  PersonInv'
<1>1. QidOfOne'
  BY DEF PersonInv, QidOfOne
<1>2. \A f \in Execs : Pending(f, "created")' \subseteq Pending(f, "created")
  BY PendingOthers
<1>3. Reserved'
  BY <1>2 DEF PersonInv, Reserved
<1>4. (\A p \in DOMAIN base.persons : Identified(p, base.persons[p]))'
  BY DEF Identified, SeedQid
<1> QED
  BY <1>1, <1>3, <1>4 DEF PersonInv

LEMMA UpsertFinite ==
  ASSUME NEW rows, NEW table, IsFiniteSet(DOMAIN rows), IsFiniteSet(DOMAIN table)
  PROVE  IsFiniteSet(DOMAIN Upsert(rows, table))
<1>1. DOMAIN Upsert(rows, table) = DOMAIN rows \cup DOMAIN table
  BY DEF Upsert
<1> QED
  BY <1>1, FS_Union

LEMMA UpsertPersonsStep ==
  ASSUME TypeInv, PersonInv, NEW e \in Execs, UpsertPersons(e), Acteurs(e)
  PROVE  PersonInv'
<1> DEFINE named == Named(exec[e].input)
<1>1. /\ base'.persons = Upsert(named, base.persons)
      /\ exec[e].input \in Inputs("acteurs")
      /\ IsFiniteSet(DOMAIN named)
      /\ \A p \in DOMAIN named :
           /\ p # None /\ DOMAIN named[p] = {"an", "qid", "nom"}
           /\ \E a \in ToSet(exec[e].input.acteurs) : a.an = p
           /\ named[p].an = p
           /\ p \in DOMAIN base.persons => named[p].qid = base.persons[p].qid
           /\ p \notin DOMAIN base.persons => named[p].qid = None
  BY NamedGives
<1> HIDE DEF named
<1>2. IsFiniteSet(DOMAIN base'.persons)
  BY <1>1, UpsertFinite DEF PersonInv
<1>3. ASSUME NEW p \in DOMAIN named
      PROVE  ~SeedQid(p)
  BY <1>1, IdentifiersAssumption DEF SeedQid
<1>4. ASSUME NEW p \in DOMAIN base'.persons
      PROVE  /\ Identified(p, base'.persons[p])
             /\ \/ base'.persons[p].qid = None
                \/ p \in DOMAIN base.persons /\ base'.persons[p].qid = base.persons[p].qid
  <2>1. CASE p \in DOMAIN named
    <3>1. base'.persons[p] = named[p]
      BY <1>1, <2>1 DEF Upsert
    <3> QED
      BY <1>1, <1>3, <2>1, <3>1 DEF Identified
  <2>2. CASE p \notin DOMAIN named
    <3>1. base'.persons[p] = base.persons[p] /\ p \in DOMAIN base.persons
      BY <1>1, <1>4, <2>2 DEF Upsert
    <3> QED
      BY <3>1 DEF PersonInv
  <2> QED
    BY <2>1, <2>2
<1>5. Others(e) /\ Pending(e, "created")' \subseteq Pending(e, "created")
  <2>1. ~InsertPerson(e)
    BY ActeursGive DEF InsertPerson, At
  <2> QED
    BY <2>1, OthersStay, PendingStep
<1> QED
  BY <1>2, <1>4, <1>5, HarmlessStep

LEMMA UnknownStep ==
  ASSUME TypeInv, SeedInv, PersonInv, NEW e \in Execs, ResolveUnknownActeurs(e), Scrutins(e)
  PROVE  PersonInv'
<1> DEFINE new == Unknown(e)
<1>1. /\ base'.persons = Upsert(base.persons, new)
      /\ exec[e].input \in Inputs("scrutins")
      /\ DOMAIN new \subseteq Cited(Docs(exec[e].input)) /\ IsFiniteSet(DOMAIN new)
      /\ \A p \in DOMAIN new : p # None /\ new[p] = [an |-> p, qid |-> None, nom |-> None]
  BY UnknownGives
<1> HIDE DEF new
<1>2. IsFiniteSet(DOMAIN base'.persons)
  BY <1>1, UpsertFinite DEF PersonInv
<1>3. ASSUME NEW p \in DOMAIN new
      PROVE  ~SeedQid(p)
  BY <1>1, IdentifiersAssumption DEF SeedQid
<1>4. ASSUME NEW p \in DOMAIN base'.persons
      PROVE  /\ Identified(p, base'.persons[p])
             /\ \/ base'.persons[p].qid = None
                \/ p \in DOMAIN base.persons /\ base'.persons[p].qid = base.persons[p].qid
  <2>1. CASE p \in DOMAIN base.persons
    <3>1. base'.persons[p] = base.persons[p]
      BY <1>1, <2>1 DEF Upsert
    <3> QED
      BY <2>1, <3>1 DEF PersonInv
  <2>2. CASE p \notin DOMAIN base.persons
    <3>1. base'.persons[p] = new[p] /\ p \in DOMAIN new
      BY <1>1, <1>4, <2>2 DEF Upsert
    <3> QED
      BY <1>1, <1>3, <3>1 DEF Identified
  <2> QED
    BY <2>1, <2>2
<1>5. Others(e) /\ Pending(e, "created")' \subseteq Pending(e, "created")
  <2>1. ~InsertPerson(e)
    BY ScrutinsGive DEF InsertPerson, At
  <2> QED
    BY <2>1, OthersStay, PendingStep
<1> QED
  BY <1>2, <1>4, <1>5, HarmlessStep

\* A seed creates persons whose qids it has reserved.
LEMMA CommitStep ==
  ASSUME TypeInv, SeedInv, PersonInv, NEW e \in Execs, CommitSeed(e), Candidates(e)
  PROVE  PersonInv'
<1> DEFINE new == Created(e)
           created == exec[e].mem.created
<1>1. /\ base'.persons = Upsert(base.persons, new)
      /\ DOMAIN new = created
      /\ \A q \in created : /\ SeedQid(q) /\ new[q].qid = q /\ new[q].an = None
                            /\ DOMAIN new[q] = {"an", "qid", "nom"}
  BY CommitGives
<1>0. ExecTyped /\ exec[e].kind = "candidates" /\ exec[e].pc = "commit"
  BY DEF CommitSeed, At, TypeInv
<1>2. Pending(e, "created") = created
  <2>1. "created" \in DOMAIN exec[e].mem
    BY <1>0 DEF SeedInv, Seeding, Seeded, Facts
  <2> QED
    BY <1>0, <2>1 DEF Pending, Active, Outcomes
<1>3. Pending(e, "created")' = {}
  <2>1. \E facts : /\ Remember(e, "finish", facts)
                   /\ "created" \in DOMAIN facts /\ facts.created = {}
    BY DEF CommitSeed
  <2> QED
    BY <1>0, <2>1, PendingSet
<1>4. Others(e)
  BY OthersStay
<1> HIDE DEF new
<1>5. IsFiniteSet(created)
  <2> DEFINE entries == ToSet(exec[e].input.entries)
             f == [d \in entries |-> d.qid]
             qids == {f[d] : d \in entries}
  <2>1. exec[e].input \in Inputs("candidates")
    BY <1>0 DEF ExecTyped, Active, Outcomes
  <2>2. IsFiniteSet(entries)
    BY <2>1, PersonnesAssumption, SequenceIsFinite
  <2>3. \A q \in created : \E d \in entries : d.qid = q
    BY <1>0 DEF SeedInv, Seeding, Seeded
  <2> HIDE DEF entries
  <2>4. created \subseteq qids /\ DOMAIN f = entries
    BY <2>3
  <2> HIDE DEF f
  <2>5. IsFiniteSet(qids)
    BY <2>2, <2>4, FiniteImage
  <2> QED
    BY <2>4, <2>5, FS_Subset
<1>6. IsFiniteSet(DOMAIN base'.persons)
  BY <1>1, <1>5, UpsertFinite DEF PersonInv
<1>7. /\ \A q \in created : q # None /\ q \notin DOMAIN base.persons
      /\ \A q \in created : \A p \in DOMAIN base.persons : base.persons[p].qid # q
      /\ \A q \in created : \A f \in Execs \ {e} : q \notin Pending(f, "created")
  BY <1>1, <1>2 DEF PersonInv, Reserved, Identified, SeedQid
<1>8. ASSUME NEW p \in DOMAIN base'.persons
      PROVE  \/ p \in DOMAIN base.persons /\ base'.persons[p] = base.persons[p]
             \/ p \in created /\ base'.persons[p] = new[p] /\ base'.persons[p].qid = p
  BY <1>1, <1>8 DEF Upsert
<1>9. \A p \in DOMAIN base'.persons : Identified(p, base'.persons[p])
  BY <1>1, <1>8 DEF PersonInv, Identified
<1>10. ASSUME NEW p \in DOMAIN base'.persons, NEW q \in DOMAIN base'.persons,
              base'.persons[p].qid = base'.persons[q].qid, base'.persons[p].qid # None
       PROVE  p = q
  BY <1>7, <1>8, <1>10 DEF PersonInv, QidOfOne
<1>11. Reserved'
  <2> SUFFICES ASSUME NEW f \in Execs, NEW q \in Pending(f, "created")'
               PROVE  /\ q # None
                      /\ \A g \in Execs \ {f} : q \notin Pending(g, "created")'
                      /\ \A p \in DOMAIN base'.persons : base'.persons[p].qid # q
    BY DEF Reserved
  <2>1. f # e /\ q \in Pending(f, "created")
    BY <1>3, <1>4, PendingOthers
  <2>2. q # None /\ (\A g \in Execs \ {f} : q \notin Pending(g, "created"))
        /\ \A p \in DOMAIN base.persons : base.persons[p].qid # q
    BY <2>1 DEF PersonInv, Reserved
  <2>3. \A g \in Execs \ {f} : q \notin Pending(g, "created")'
    BY <1>3, <1>4, <2>2, PendingOthers
  <2>4. \A p \in DOMAIN base'.persons : base'.persons[p].qid # q
    BY <1>2, <1>8, <2>1, <2>2
  <2> QED
    BY <2>2, <2>3, <2>4
<1>12. QidOfOne' /\ (\A p \in DOMAIN base.persons : Identified(p, base.persons[p]))'
  BY <1>9, <1>10 DEF QidOfOne, Identified, SeedQid
<1> QED
  BY <1>6, <1>11, <1>12 DEF PersonInv

\* A seed reserves the qid of a person it creates: nobody has it, and no other
\* transaction has reserved it (the INSERT waits for those).
LEMMA InsertStep ==
  ASSUME TypeInv, SeedInv, PersonInv, NEW e \in Execs, InsertPerson(e), Candidates(e)
  PROVE  PersonInv'
<1> DEFINE mem == exec[e].mem
           q == Head(mem.todo).qid
<1>0. ExecTyped /\ exec[e].kind = "candidates" /\ exec[e].pc = "insert"
  BY DEF InsertPerson, At, TypeInv
<1>1. Others(e)
  BY OthersStay
<1>2. base' = base
  <2>1. ~CommitSeed(e)
    BY <1>0 DEF CommitSeed, At
  <2> QED
    BY <2>1, CandidatesGive
<1>3. q # None /\ "created" \in DOMAIN mem
  BY <1>0 DEF SeedInv, Seeding, Seeded, Facts
<1>4. Pending(e, "created") = mem.created
  BY <1>0, <1>3 DEF Pending, Active, Outcomes
<1>5. /\ Pending(e, "created")' \subseteq Pending(e, "created") \cup {q}
      /\ q \in Pending(e, "created")' => \A p \in DOMAIN base.persons : base.persons[p].qid # q
  <2>1. CASE Designated(Head(mem.todo), base.persons) = {}
    <3>1. \E facts : /\ Remember(e, "lookup", facts)
                     /\ "created" \in DOMAIN facts /\ facts.created = mem.created \cup {q}
      BY <2>1 DEF InsertPerson
    <3>2. \A p \in DOMAIN base.persons : base.persons[p].qid # q
      BY <1>3, <2>1 DEF Designated
    <3> HIDE DEF q
    <3> QED
      BY <1>0, <1>4, <3>1, <3>2, PendingSet
  <2>2. CASE Designated(Head(mem.todo), base.persons) # {}
    <3>1. Leaves(e)
      BY <1>0, <2>2, RefuseGives DEF InsertPerson
    <3>2. Pending(e, "created")' = {}
      BY <3>1, PendingOver DEF Leaves, Over
    <3> QED
      BY <3>2
  <2> QED
    BY <2>1, <2>2
<1>6. \A f \in Execs \ {e} : q \notin Pending(f, "created")
  BY DEF InsertPerson, Locked
<1> HIDE DEF q
<1>7. Reserved'
  <2> SUFFICES ASSUME NEW f \in Execs, NEW r \in Pending(f, "created")'
               PROVE  /\ r # None
                      /\ \A g \in Execs \ {f} : r \notin Pending(g, "created")'
                      /\ \A p \in DOMAIN base.persons : base.persons[p].qid # r
    BY <1>2 DEF Reserved
  <2>1. CASE r \in Pending(f, "created") /\ (f = e => r # q)
    BY <1>1, <1>5, <1>6, <2>1, PendingOthers DEF PersonInv, Reserved
  <2>2. CASE f = e /\ r = q
    BY <1>1, <1>3, <1>5, <1>6, <2>2, PendingOthers
  <2> QED
    BY <1>1, <1>5, <2>1, <2>2, PendingOthers
<1> QED
  BY <1>2, <1>7 DEF PersonInv, QidOfOne, Identified, SeedQid
\* The hits of its batch an UPDATE of update_wikidata_qids applies.
Changed(batch) == {h \in batch : h.an \in PersonsAN /\ base.persons[h.an].qid # h.qid}

LEMMA QidsGive ==
  ASSUME TypeInv, NEW e \in Execs, NEW batch, UpdatesBatch(e, batch)
  PROVE  /\ base'.persons = WithQids(Changed(batch))
         /\ \A h \in Changed(batch) : h.an \in PersonsAN /\ h.qid # None /\ h.qid \notin Locked(e, "created")
         /\ \A g, h \in Changed(batch) : g.an = h.an <=> g.qid = h.qid
         /\ \A h \in Changed(batch) : \A p \in DOMAIN base.persons :
              (\A g \in Changed(batch) : g.an # p) => base.persons[p].qid # h.qid
<1> DEFINE changed == Changed(batch)
           Done(order, i) == {order[j] : j \in 1..(i - 1)}
           Refused(hits, h) == \E p \in DOMAIN base.persons : p # h.an /\ WithQids(hits)[p].qid = h.qid
<1>1. exec[e].kind = "wikidata" /\ exec[e].pc = "qids"
      /\ {h.qid : h \in changed} \cap Locked(e, "created") = {}
  BY DEF UpdatesBatch, UpdateQids, UpdateBatch, At, Changed
<1>2. exec[e].input \in Inputs("wikidata")
  BY <1>1 DEF TypeInv, ExecTyped, Active, Outcomes
<1>3. /\ IsFiniteSet(exec[e].input.hits) /\ changed \subseteq exec[e].input.hits
      /\ \A h \in changed : h.an \in PersonsAN /\ h.qid # None
      /\ \A g, h \in changed : g.an = h.an <=> g.qid = h.qid
  BY <1>2, PersonnesAssumption DEF Changed, Resolved, UpdatesBatch
<1>4. PICK order \in SetToSeqs(changed) :
        /\ \A i \in DOMAIN order : ~Refused(Done(order, i), order[i])
        /\ Fill([persons |-> WithQids(changed)])
  BY DEF UpdatesBatch, UpdateBatch, Changed
<1>5. base'.persons = WithQids(changed)
  BY <1>4, PersonsFilled
<1>6. ToSet(order) = changed /\ DOMAIN order = 1..Len(order) /\ Len(order) \in Nat
  BY <1>3, <1>4, ListsAll, FS_Subset
<1>7. ASSUME NEW h \in changed, NEW p \in DOMAIN base.persons, \A g \in changed : g.an # p
      PROVE  base.persons[p].qid # h.qid
  <2>1. PICK i \in DOMAIN order : order[i] = h
    BY <1>6 DEF ToSet
  <2>2. Done(order, i) \subseteq changed
    BY <1>6, <2>1 DEF ToSet
  <2>3. WithQids(Done(order, i))[p] = base.persons[p]
    BY <1>7, <2>2 DEF WithQids
  <2>4. p # h.an
    BY <1>7
  <2> QED
    BY <1>4, <2>1, <2>3, <2>4
<1> QED
  BY <1>1, <1>3, <1>5, <1>7

LEMMA RowsWithQids ==
  ASSUME NEW hits, \A g, h \in hits : g.an = h.an <=> g.qid = h.qid,
         NEW p \in DOMAIN base.persons, {"an", "qid", "nom"} \subseteq DOMAIN base.persons[p]
  PROVE  /\ DOMAIN WithQids(hits)[p] = DOMAIN base.persons[p]
         /\ WithQids(hits)[p].an = base.persons[p].an
         /\ WithQids(hits)[p].nom = base.persons[p].nom
         /\ \A h \in hits : h.an = p => WithQids(hits)[p].qid = h.qid
         /\ (\A h \in hits : h.an # p) => WithQids(hits)[p] = base.persons[p]
<1> DEFINE of == CHOOSE h \in hits : h.an = p
<1>1. CASE \E h \in hits : h.an = p
  <2>1. of \in hits /\ of.an = p
    BY <1>1
  <2>2. WithQids(hits)[p] = [base.persons[p] EXCEPT !.qid = of.qid]
    BY <1>1 DEF WithQids
  <2> HIDE DEF of
  <2> QED
    BY <2>1, <2>2
<1>2. CASE \A h \in hits : h.an # p
  <2>1. WithQids(hits)[p] = base.persons[p]
    BY <1>2 DEF WithQids
  <2> QED
    BY <1>2, <2>1
<1> QED
  BY <1>1, <1>2

LEMMA QidsStep ==
  ASSUME TypeInv, PersonInv, NEW e \in Execs, NEW batch, UpdatesBatch(e, batch), Wikidata(e)
  PROVE  PersonInv'
<1> DEFINE changed == Changed(batch)
           after   == WithQids(changed)
<1>1. /\ base'.persons = after
      /\ \A h \in changed : h.an \in PersonsAN /\ h.qid # None /\ h.qid \notin Locked(e, "created")
      /\ \A g, h \in changed : g.an = h.an <=> g.qid = h.qid
      /\ \A h \in changed : \A p \in DOMAIN base.persons :
           (\A g \in changed : g.an # p) => base.persons[p].qid # h.qid
  BY QidsGive
<1>2. DOMAIN after = DOMAIN base.persons
  BY DEF WithQids
<1>3. ASSUME NEW p \in DOMAIN base.persons
      PROVE  /\ DOMAIN after[p] = DOMAIN base.persons[p] /\ after[p].an = base.persons[p].an
             /\ \A h \in changed : h.an = p => after[p].qid = h.qid
             /\ (\A h \in changed : h.an # p) => after[p].qid = base.persons[p].qid
  <2>1. {"an", "qid", "nom"} \subseteq DOMAIN base.persons[p]
    BY DEF PersonInv, Identified
  <2> HIDE DEF changed
  <2> QED
    BY <1>1, <2>1, RowsWithQids
<1> HIDE DEF changed, after
<1>4. \A p \in DOMAIN base.persons : (\A h \in changed : h.an # p) \/ \E h \in changed : h.an = p
  OBVIOUS
<1>5. \A p \in DOMAIN base.persons : Identified(p, after[p])
  <2> SUFFICES ASSUME NEW p \in DOMAIN base.persons
               PROVE  Identified(p, after[p])
    OBVIOUS
  <2>1. CASE \E h \in changed : h.an = p
    <3>1. base.persons[p].an # None
      BY <1>1, <2>1 DEF PersonsAN
    <3> QED
      BY <1>3, <3>1 DEF PersonInv, Identified
  <2>2. CASE \A h \in changed : h.an # p
    BY <1>3, <2>2 DEF PersonInv, Identified
  <2> QED
    BY <2>1, <2>2
<1>6. ASSUME NEW p \in DOMAIN base.persons, NEW q \in DOMAIN base.persons,
             after[p].qid = after[q].qid, after[p].qid # None
      PROVE  p = q
  <2>1. CASE (\E g \in changed : g.an = p) /\ \E h \in changed : h.an = q
    BY <1>1, <1>3, <1>6, <2>1
  <2>2. CASE (\E g \in changed : g.an = p) /\ \A h \in changed : h.an # q
    BY <1>1, <1>3, <1>6, <2>2
  <2>3. CASE (\A g \in changed : g.an # p) /\ \E h \in changed : h.an = q
    BY <1>1, <1>3, <1>6, <2>3
  <2>4. CASE (\A g \in changed : g.an # p) /\ \A h \in changed : h.an # q
    BY <1>3, <1>6, <2>4 DEF PersonInv, QidOfOne
  <2> QED
    BY <2>1, <2>2, <2>3, <2>4
<1>7. exec[e].kind = "wikidata" /\ Others(e) /\ Pending(e, "created")' \subseteq Pending(e, "created")
  <2>1. exec[e].kind = "wikidata" /\ ~InsertPerson(e)
    BY WikidataGive DEF InsertPerson, At
  <2> QED
    BY <2>1, OthersStay, PendingStep
<1>8. Pending(e, "created") = {} /\ Pending(e, "created")' = {}
  BY <1>7 DEF Pending
<1>9. Reserved'
  <2> SUFFICES ASSUME NEW f \in Execs, NEW q \in Pending(f, "created")'
               PROVE  /\ q # None
                      /\ \A g \in Execs \ {f} : q \notin Pending(g, "created")'
                      /\ \A p \in DOMAIN base.persons : after[p].qid # q
    BY <1>1, <1>2 DEF Reserved
  <2>1. f # e /\ q \in Pending(f, "created")
    BY <1>7, <1>8, PendingOthers
  <2>2. q # None /\ (\A g \in Execs \ {f} : q \notin Pending(g, "created"))
        /\ \A p \in DOMAIN base.persons : base.persons[p].qid # q
    BY <2>1 DEF PersonInv, Reserved
  <2>3. \A g \in Execs \ {f} : q \notin Pending(g, "created")'
    BY <1>7, <1>8, <2>2, PendingOthers
  <2>4. q \in Locked(e, "created")
    BY <2>1 DEF Locked
  <2>5. \A p \in DOMAIN base.persons : after[p].qid # q
    BY <1>1, <1>3, <1>4, <2>2, <2>4
  <2> QED
    BY <2>2, <2>3, <2>5
<1>10. QidOfOne' /\ (\A p \in DOMAIN base.persons : Identified(p, base.persons[p]))'
  BY <1>1, <1>2, <1>5, <1>6 DEF QidOfOne, Identified, SeedQid
<1>11. IsFiniteSet(DOMAIN base'.persons)
  BY <1>1, <1>2 DEF PersonInv
<1> QED
  BY <1>9, <1>10, <1>11 DEF PersonInv

LEMMA PersonStep == TypeInv /\ SeedInv /\ PersonInv /\ [Next]_vars => PersonInv'
<1> SUFFICES ASSUME TypeInv, SeedInv, PersonInv, [Next]_vars
             PROVE  PersonInv'
  OBVIOUS
<1>1. CASE UNCHANGED vars
  BY <1>1 DEF vars, PersonInv, Identified, SeedQid, QidOfOne, Reserved, Pending, Active
<1>2. ASSUME NEW e \in Execs,
             \/ Start(e) \/ Finish(e) \/ Break(e)
             \/ Acteurs(e) \/ Scrutins(e)
             \/ Slugs(e) \/ Candidates(e) \/ Wikidata(e)
      PROVE  PersonInv'
  <2>1. CASE base'.persons = base.persons /\ ~InsertPerson(e)
    <3>1. Others(e) /\ Pending(e, "created")' \subseteq Pending(e, "created")
      BY <1>2, <2>1, OthersStay, PendingStep
    <3> QED
      BY <2>1, <3>1, HarmlessStep DEF PersonInv
  <2>2. CASE UpsertPersons(e)
    BY <2>2, UpsertPersonsStep DEF Acteurs
  <2>3. CASE ResolveUnknownActeurs(e)
    BY <2>3, UnknownStep DEF Scrutins
  <2>4. CASE CommitSeed(e)
    BY <2>4, CommitStep DEF Candidates
  <2>5. CASE InsertPerson(e)
    BY <2>5, InsertStep DEF Candidates
  <2>6. CASE \E batch : UpdatesBatch(e, batch)
    BY <2>6, QidsStep DEF Wikidata, UpdatesBatch
  <2> QED
    BY <1>2, <2>1, <2>2, <2>3, <2>4, <2>5, <2>6, PersonsOnly
<1> QED
  BY <1>1, <1>2 DEF Next

\* A qid belongs to one person (the unicity of person.wikidata_qid), whatever
\* seeds and enrichments overlap: neither the swap of two qids in one statement
\* nor two transactions that create one person gets past the constraint.
THEOREM QidOfOneCorrect == Spec => []QidOfOne
<1>1. Init => TypeInv /\ SeedInv /\ PersonInv
  BY TypeInit, SeedInit, PersonInit
<1>2. TypeInv /\ SeedInv /\ PersonInv /\ [Next]_vars => (TypeInv /\ SeedInv /\ PersonInv)'
  BY TypeStep, SeedStep, PersonStep
<1>3. PersonInv => QidOfOne
  BY DEF PersonInv
<1> QED
  BY <1>1, <1>2, <1>3, PTL DEF Spec
=============================================================================
