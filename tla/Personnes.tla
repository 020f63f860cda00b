----------------------------- MODULE Personnes -----------------------------
(***************************************************************************)
(* The jobs that complete the table person: assign_slugs, seed_candidates  *)
(* and enrich_wikidata (worker/src/jobs).                                  *)
(*                                                                         *)
(* The input of seed_candidates is [entries : Seq([an, qid, nom]),         *)
(* allowEmpty], one of `an` and `qid` being None; that of enrich_wikidata  *)
(* is [hits, only]: a set of [an, qid, image], one for each pair, and the  *)
(* persons asked for, or None.  A slug is <<name, suffix>>.                *)
(***************************************************************************)
EXTENDS Referentiel

CONSTANT QidBatch  \* bound: the rows of an UPDATE of qids (UPDATE_BATCH)

\* A candidate is named by one identifier, and the qid of nobody is NULL.
ASSUME PersonnesAssumption ==
  /\ QidBatch \in Nat \ {0}
  /\ \A file \in Inputs("candidates") :
       /\ file.entries \in Seq(ToSet(file.entries))
       /\ \A x \in ToSet(file.entries) :
            DOMAIN x = {"an", "qid", "nom"} /\ (x.an = None \/ x.qid = None)
  /\ \A query \in Inputs("wikidata") :
       IsFiniteSet(query.hits) /\ \A h \in query.hits : h.an # None /\ h.qid # None

-----------------------------------------------------------------------------
(* assign_slugs.                                                             *)

SansSlug == {p \in DOMAIN base.persons : \A s \in DOMAIN base.slugs : base.slugs[s] # p}

\* In the order of their ids, that is, of their creation: any.
ReadSansSlug(e) ==
  /\ At(e, "slugs", "persons")
  /\ \E order \in SetToSeqs(SansSlug) :
       Remember(e, "taken", [todo |-> [i \in DOMAIN order |->
                               [id |-> order[i], row |-> base.persons[order[i]]]]])
  /\ UNCHANGED base

ReadTaken(e) ==
  /\ At(e, "slugs", "taken")
  /\ Remember(e, "slugs", [taken |-> DOMAIN base.slugs])
  /\ UNCHANGED base

Base(person) == IF person.nom # None THEN person.nom ELSE IdOf(person)

\* The name, or the name with the first free suffix, 2, 3...
SlugOf(person, taken) ==
  LET free == {n \in 1..(Cardinality(taken) + 1) : <<Base(person), n>> \notin taken}
  IN  <<Base(person), Min(free)>>

InsertSlug(e) ==
  LET todo   == exec[e].mem.todo
      person == Head(todo).id
      slug   == SlugOf(Head(todo).row, exec[e].mem.taken)
      free   == slug \notin DOMAIN base.slugs /\ person \in SansSlug
  IN  /\ At(e, "slugs", "slugs")
      /\ \/ /\ todo = <<>>
            /\ Goto(e, "finish") /\ UNCHANGED base
         \/ /\ todo # <<>> /\ free
            /\ Fill([slugs |-> Upsert([s \in {slug} |-> person], base.slugs)])
            /\ Remember(e, "slugs", [todo |-> Tail(todo), taken |-> exec[e].mem.taken \cup {slug}])
         \/ /\ todo # <<>> /\ ~free
            /\ Refuse(e)

Slugs(e) == ReadSansSlug(e) \/ ReadTaken(e) \/ InsertSlug(e)

-----------------------------------------------------------------------------
(* seed_candidates: one transaction, whose writes are in `mem` until it      *)
(* commits.  What it writes is locked: others wait.                          *)

Pending(e, field) ==
  IF exec[e].kind = "candidates" /\ Active(e) /\ field \in DOMAIN exec[e].mem
  THEN exec[e].mem[field] ELSE {}
Locked(e, field) == UNION {Pending(f, field) : f \in Execs \ {e}}

\* The file is read and validated before anything is written.
ReadFile(e) ==
  /\ At(e, "candidates", "file")
  /\ \/ /\ exec[e].input.entries = <<>> /\ ~exec[e].input.allowEmpty
        /\ Fail(e)
     \/ /\ exec[e].input.entries # <<>> \/ exec[e].input.allowEmpty
        /\ Remember(e, "lookup", [todo |-> exec[e].input.entries, persons |-> <<>>,
                                  created |-> {}, written |-> {}, deleted |-> {}])
        /\ UNCHANGED base

Designated(entry, persons) ==
  {p \in DOMAIN persons : \/ entry.an # None /\ persons[p].an = entry.an
                          \/ entry.qid # None /\ persons[p].qid = entry.qid}

\* resolve_person, of the next entry: its SELECT.
LookupPerson(e) ==
  LET mem   == exec[e].mem
      entry == Head(mem.todo)
      found == Designated(entry, base.persons)
  IN  /\ At(e, "candidates", "lookup") /\ mem.todo # <<>>
      /\ \/ /\ found # {}
            /\ Remember(e, "lookup", [todo |-> Tail(mem.todo),
                                      persons |-> Append(mem.persons, CHOOSE p \in found : TRUE)])
            /\ UNCHANGED base
         \/ /\ found = {} /\ entry.qid # None
            /\ Goto(e, "insert") /\ UNCHANGED base
         \/ /\ found = {} /\ entry.qid = None
            /\ Fail(e)

\* The person is committed at once.
InsertPerson_Autocommit(e) ==
  LET mem   == exec[e].mem
      entry == Head(mem.todo)
  IN  /\ At(e, "candidates", "insert")
      /\ entry.qid \notin Locked(e, "created")
      /\ \/ /\ Designated(entry, base.persons) = {}
            /\ Fill([persons |-> Upsert(base.persons, [q \in {entry.qid} |-> entry])])
            /\ Remember(e, "lookup", [todo |-> Tail(mem.todo),
                                      persons |-> Append(mem.persons, entry.qid)])
         \/ /\ Designated(entry, base.persons) # {}
            /\ Refuse(e)

\* Its INSERT, which waits for a transaction that creates the same person.
InsertPerson(e) ==
  LET mem   == exec[e].mem
      entry == Head(mem.todo)
  IN  /\ At(e, "candidates", "insert")
      /\ entry.qid \notin Locked(e, "created")
      /\ \/ /\ Designated(entry, base.persons) = {}
            /\ Remember(e, "lookup", [todo |-> Tail(mem.todo),
                                      persons |-> Append(mem.persons, entry.qid),
                                      created |-> mem.created \cup {entry.qid}])
            /\ UNCHANGED base
         \/ /\ Designated(entry, base.persons) # {}
            /\ Refuse(e)

\* reject_duplicate_persons, then the upsert of the candidates.
UpsertCandidates(e) ==
  LET mem  == exec[e].mem
      named == ToSet(mem.persons)
  IN  /\ At(e, "candidates", "lookup") /\ mem.todo = <<>>
      /\ \/ /\ Cardinality(named) < Len(mem.persons)
            /\ Fail(e)
         \/ /\ Cardinality(named) = Len(mem.persons)
            /\ named \cap (Locked(e, "written") \cup Locked(e, "deleted")) = {}
            /\ Remember(e, "delete", [written |-> named])
            /\ UNCHANGED base

\* The DELETE aims at the candidates it sees that are not in the file...
DeleteOthers(e) ==
  /\ At(e, "candidates", "delete")
  /\ Remember(e, "deleting", [aim |-> base.candidates \ exec[e].mem.written])
  /\ UNCHANGED base

\* ...and waits for those another transaction has written.
EndDelete(e) ==
  LET aim == exec[e].mem.aim
  IN  /\ At(e, "candidates", "deleting")
      /\ aim \cap (Locked(e, "written") \cup Locked(e, "deleted")) = {}
      /\ Remember(e, "commit", [deleted |-> aim])
      /\ UNCHANGED base

CommitSeed(e) ==
  LET mem == exec[e].mem
      entryOf(q) == CHOOSE entry \in ToSet(exec[e].input.entries) : entry.qid = q
  IN  /\ At(e, "candidates", "commit")
      /\ Fill([persons    |-> Upsert(base.persons, [q \in mem.created |-> entryOf(q)]),
               candidates |-> (base.candidates \ mem.deleted) \cup mem.written])
      /\ Remember(e, "finish", [created |-> {}, written |-> {}, deleted |-> {}])

Candidates(e) ==
  \/ ReadFile(e) \/ LookupPerson(e) \/ InsertPerson(e)
  \/ UpsertCandidates(e) \/ DeleteOthers(e) \/ EndDelete(e) \/ CommitSeed(e)

-----------------------------------------------------------------------------
(* enrich_wikidata.                                                          *)

\* resolve_wikidata_hits: what is ambiguous, on either side, is left out; then
\* the filter on the persons asked for.
Resolved(input) ==
  {h \in input.hits :
     /\ \A g \in input.hits : (g.an = h.an) <=> (g.qid = h.qid)
     /\ input.only = None \/ h.an \in input.only}

\* The persons once the rows of these hits are updated.
WithQids(hits) ==
  [p \in DOMAIN base.persons |->
     IF \E h \in hits : h.an = p
     THEN [base.persons[p] EXCEPT !.qid = (CHOOSE h \in hits : h.an = p).qid]
     ELSE base.persons[p]]

\* The hits whose batch has been sent, when the batches are.
Sent(e) == IF "sent" \in DOMAIN exec[e].mem THEN exec[e].mem.sent ELSE {}

\* One UPDATE of update_wikidata_qids: its rows are updated in any order, and the
\* unicity of the qid is checked at each of them.
UpdateBatch(e, batch) ==
  LET changed == {h \in batch : h.an \in PersonsAN /\ base.persons[h.an].qid # h.qid}
      Refused(hits, h) == \E p \in DOMAIN base.persons : p # h.an /\ WithQids(hits)[p].qid = h.qid
  IN  /\ {h.qid : h \in changed} \cap Locked(e, "created") = {}
      /\ \E order \in SetToSeqs(changed) :
           LET accepted == \A i \in DOMAIN order : ~Refused({order[j] : j \in 1..(i - 1)}, order[i])
           IN  \/ /\ accepted
                  /\ Fill([persons |-> WithQids(changed)])
                  /\ Remember(e, "qids", [sent |-> Sent(e) \cup batch])
               \/ ~accepted /\ Refuse(e)

\* update_wikidata_qids: the batches follow the order of the answers, any order.
\* A batch that is refused leaves those before it in place.
UpdateQids(e) ==
  LET hits == Resolved(exec[e].input) \ Sent(e)
  IN  /\ At(e, "wikidata", "qids")
      /\ \/ hits = {} /\ Goto(e, "known") /\ UNCHANGED base
         \/ /\ hits # {}
            /\ \E batch \in kSubset(Min({QidBatch, Cardinality(hits)}), hits) : UpdateBatch(e, batch)

\* enrich_photos, of the persons it knows.
FetchKnown(e) ==
  /\ At(e, "wikidata", "known")
  /\ Remember(e, "photos", [known |-> {h \in Resolved(exec[e].input) :
                                         h.image # None /\ h.an \in PersonsAN}])
  /\ UNCHANGED base

\* Commons gives the licence of an image, or not: none, no photo.  An image that
\* two persons share is the photo of one of them (of the last one, in the code).
UpsertPhotos(e) ==
  LET known  == exec[e].mem.known
      images == {h.image : h \in known}
  IN  /\ At(e, "wikidata", "photos")
      /\ \E owner \in [images -> {h.an : h \in known}], licensed \in SUBSET images :
           /\ \A i \in images : \E h \in known : h.an = owner[i] /\ h.image = i
           /\ Fill([photos |-> Upsert([p \in {owner[i] : i \in licensed} |->
                                         CHOOSE i \in licensed : owner[i] = p], base.photos)])
      /\ Goto(e, "finish")

Wikidata(e) == UpdateQids(e) \/ FetchKnown(e) \/ UpsertPhotos(e)
=============================================================================
