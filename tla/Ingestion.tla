----------------------------- MODULE Ingestion -----------------------------
(***************************************************************************)
(* The jobs that fill the referential, the votes and the persons, in any   *)
(* order, overlapping, failing or dying between any two statements, and    *)
(* executed again.                                                         *)
(***************************************************************************)
EXTENDS IngestScrutins, Personnes

\* An identifier of the Assemblée is none of Wikidata.
ASSUME IdentifiersAssumption ==
  \A file \in Inputs("candidates") : \A x \in ToSet(file.entries) : x.qid # None =>
    /\ \A archive \in Inputs("acteurs") : \A a \in ToSet(archive.acteurs) : a.an # x.qid
    /\ \A input \in Inputs("scrutins") : x.qid \notin Cited(Docs(input))

Next ==
  \E e \in Execs :
    \/ Start(e) \/ Finish(e) \/ Break(e)
    \/ Acteurs(e) \/ Scrutins(e)
    \/ Slugs(e) \/ Candidates(e) \/ Wikidata(e)

Spec == Init /\ [][Next]_vars

-----------------------------------------------------------------------------
(* Properties.  What an execution leaves is judged when it began alone, ended  *)
(* well, and nothing began since: whatever others did or half did before.    *)

DoneAlone(kind) == last # None /\ last.kind = kind /\ last.done
Input == last.input

\* ScrutinsConverge: once ingest_scrutins is done, every scrutin of its archive
\* has its content, on its document unless the source came back to an earlier
\* one; every group its line; and every vote its position (the last one given), even when its author
\* was unknown, with the group of the line or else that of the mandates its
\* author has now.  No earlier failure, crash or other archive shows through.
ScrutinsConverge ==
  DoneAlone("scrutins") => \A d \in ToSet(Docs(Input)) :
    LET documents == base.documents["an_scrutin"]
        row       == base.scrutins[d.uid]
        organes   == DOMAIN base.organes
        lines     == Lines(d)
    IN  /\ row.content = d /\ row.document = Latest(documents)[d.uid]
        /\ \A i \in DOMAIN d.groupes :
             base.groupes[<<d.uid, i>>] = [organe |-> Known(d.groupes[i].organe, organes),
                                           line   |-> d.groupes[i]]
        /\ \A i \in DOMAIN lines : (\A j \in (i + 1)..Len(lines) : KeyOf(lines[j]) # KeyOf(lines[i])) =>
             LET vote     == base.votes[KeyOf(lines[i])]
                 fantome  == Fantome(lines[i].groupe, organes)
                 possible == IF fantome THEN Candidats(lines[i].vote.acteur, d.date)
                                        ELSE {lines[i].groupe.organe}
             IN  /\ lines[i].vote.acteur \in PersonsAN
                 /\ vote.position = lines[i].vote.position
                 /\ IF possible = {} THEN vote.organe = None ELSE vote.organe \in possible
                 /\ vote.fromMandat <=> (fantome /\ possible # {})
        /\ ToSet(Corrections(d)) \subseteq DOMAIN base.mises

\* ReferentielConverges: once ingest_acteurs is done, every person of its archive
\* bears its name, even if a vote had created it without one, and every mandate
\* it retains is as it retains it; once assign_slugs is done everyone has one
\* slug; once seed_candidates is done the candidates are those of its file; once
\* enrich_wikidata is done every person it is sure of has its qid, and nobody
\* else has that one.
ActeursConverge ==
  DoneAlone("acteurs") =>
    /\ \A a \in ToSet(Input.acteurs) : base.persons[a.an].nom = a.nom
    /\ \A m \in ToSet(ToWrite(Input, DOMAIN base.organes)) : base.mandats[m.uid] = m
SlugsConverge ==
  DoneAlone("slugs") =>
    \A p \in DOMAIN base.persons : Cardinality({s \in DOMAIN base.slugs : base.slugs[s] = p}) = 1
SeedConverges ==
  DoneAlone("candidates") =>
    /\ \A x \in ToSet(Input.entries) : Designated(x, base.persons) \cap base.candidates # {}
    /\ Cardinality(base.candidates) = Len(Input.entries)
WikidataConverges ==
  DoneAlone("wikidata") =>
    \A h \in Resolved(Input) : h.an \in PersonsAN =>
      {p \in DOMAIN base.persons : base.persons[p].qid = h.qid} = {h.an}
ReferentielConverges == ActeursConverge /\ SlugsConverge /\ SeedConverges /\ WikidataConverges

\* ArchivedFirst: the payload a scrutin was parsed from is archived, and the
\* document its row names is that payload or one that was archived after it: a
\* row never names an older document, even when two archives are written at
\* once.
ArchivedFirst ==
  \A u \in DOMAIN base.scrutins :
    LET documents == base.documents["an_scrutin"]
        row       == base.scrutins[u]
    IN  /\ documents[row.document].uid = u
        /\ \E i \in 1..row.document : documents[i] = row.content

\* What a constraint may refuse a statement of `e` for: a row this execution
\* would not have left so, or a vote or a correction its own archive gives twice.
Stale(e) ==
  LET x == exec[e] IN
  CASE x.kind = "acteurs" ->
         \E u \in DOMAIN base.mandats :
           /\ base.mandats[u] \notin ToSet(ToWrite(x.input, x.mem.organes))
           /\ \E m \in ToSet(x.mem.todo) : Excludes(base.mandats[u], m)
    [] x.kind = "scrutins" -> \E d \in ToSet(Docs(x.input)) :
                              TwiceNamed(Lines(d)) \/ TwiceCorrected(Corrections(d))
    [] x.kind = "slugs" ->
         \/ DOMAIN base.slugs \ x.mem.taken # {}
         \/ \E r \in ToSet(x.mem.todo) : r.id \notin SansSlug
    [] x.kind = "candidates" ->
         LET q == Head(x.mem.todo).qid IN  \* somebody has created it since it looked
         \E p \in DOMAIN base.persons : base.persons[p].qid = q
    [] x.kind = "wikidata" ->
         \E h \in Resolved(x.input) : \E p \in DOMAIN base.persons :
           /\ p # h.an /\ base.persons[p].qid = h.qid
           /\ [an |-> p, qid |-> h.qid] \notin {[an |-> g.an, qid |-> g.qid] : g \in Resolved(x.input)}

\* RefusedOnlyByStale: mandat_gp_sans_chevauchement, the unicity of a qid and
\* those of the slugs never refuse what a job writes by itself: normalisation,
\* the two-way ambiguities and the suffixes see to it.  A refusal needs a row
\* left by another archive or execution.
RefusedOnlyByStale ==
  [][\A e \in Execs : Active(e) /\ exec'[e].pc = "refused" => Stale(e)]_vars

\* NoOrphanPerson: a person without an_uid is committed together with its
\* candidacy: a seed refused or interrupted half-way leaves nobody behind.
NoOrphanPerson ==
  [][\A p \in DOMAIN base'.persons \ DOMAIN base.persons :
       base'.persons[p].an = None => p \in base'.candidates]_vars
=============================================================================
