--------------------- MODULE IngestionConvergenceProofs ---------------------
(***************************************************************************)
(* ReferentielConverges, for any executions and any inputs: what an        *)
(* execution of ingest_acteurs, assign_slugs, seed_candidates or           *)
(* enrich_wikidata leaves when it ran alone.                               *)
(***************************************************************************)
EXTENDS IngestionProofs

-----------------------------------------------------------------------------
(* The execution that began alone: nobody else is active as long as `last`     *)
(* names it, and nobody at all once it is done.                              *)

LastInv ==
  last # None =>
    /\ DOMAIN last = {"exec", "kind", "input", "done"}
    /\ last.exec \in Execs /\ last.done \in BOOLEAN
    /\ \A f \in Execs : Active(f) => f = last.exec /\ ~last.done
    /\ ~last.done => exec[last.exec].kind = last.kind /\ exec[last.exec].input = last.input

-----------------------------------------------------------------------------
(* What holds whoever is active.                                             *)

SlugOfOne == \A s, t \in DOMAIN base.slugs : base.slugs[s] = base.slugs[t] => s = t

AlwaysInv == TypeInv /\ SeedInv /\ PersonInv /\ SlugOfOne

-----------------------------------------------------------------------------
(* Where the execution that is alone stands.                                 *)

BearsName(a) == a.an \in DOMAIN base.persons /\ base.persons[a.an].nom = a.nom
Written(m)   == m.uid \in DOMAIN base.mandats /\ base.mandats[m.uid] = m

ActeursProgress(pc, mem, archive) ==
  /\ pc \in {"persons", "mandats"} => "organes" \in DOMAIN mem /\ mem.organes = DOMAIN base.organes
  /\ pc \in {"mandats", "finish"} => \A a \in ToSet(archive.acteurs) : BearsName(a)
  /\ pc = "mandats" =>
       LET mandats == ToSet(ToWrite(archive, mem.organes))
       IN  /\ "todo" \in DOMAIN mem /\ mem.todo \in Seq(mandats)
           /\ \A m \in mandats : m \in ToSet(mem.todo) \/ Written(m)
  /\ pc = "finish" => \A m \in ToSet(ToWrite(archive, DOMAIN base.organes)) : Written(m)

SlugsProgress(pc, mem) ==
  /\ pc \in {"taken", "slugs"} =>
       /\ "todo" \in DOMAIN mem /\ mem.todo \in Seq(ToSet(mem.todo))
       /\ \A p \in SansSlug : \E r \in ToSet(mem.todo) : r.id = p
  /\ pc = "finish" => SansSlug = {}

\* `p` is the person of the entry `x`, among those of the table and those the
\* transaction creates.
Resolves(p, x, created) ==
  p \in Designated(x, base.persons) \/ (p \in created /\ x.qid = p)

AllResolve(persons, entries, created) ==
  \A i \in 1..Len(persons) : Resolves(persons[i], entries[i], created)

SeedProgress(pc, mem, entries) ==
  /\ pc \in {"lookup", "insert", "delete", "deleting", "commit"} =>
       /\ Len(mem.persons) <= Len(entries)
       /\ AllResolve(mem.persons, entries, mem.created)
  /\ pc \in {"lookup", "insert"} =>
       mem.todo = SubSeq(entries, Len(mem.persons) + 1, Len(entries))
  /\ pc \in {"delete", "deleting", "commit"} =>
       /\ Len(mem.persons) = Len(entries) /\ mem.written = ToSet(mem.persons)
       /\ Cardinality(mem.written) = Len(entries)
  /\ pc = "deleting" => mem.aim = base.candidates \ mem.written
  /\ pc = "commit" => mem.deleted = base.candidates \ mem.written
  /\ pc = "finish" =>
       /\ \A x \in ToSet(entries) : Designated(x, base.persons) \cap base.candidates # {}
       /\ Cardinality(base.candidates) = Len(entries)

HasQid(h) == {p \in DOMAIN base.persons : base.persons[p].qid = h.qid} = {h.an}

WikidataProgress(pc, mem, input) ==
  /\ pc = "qids" /\ "sent" \in DOMAIN mem =>
       /\ mem.sent \subseteq Resolved(input)
       /\ \A h \in mem.sent : h.an \in PersonsAN => HasQid(h)
  /\ pc \in {"known", "photos", "finish"} =>
       \A h \in Resolved(input) : h.an \in PersonsAN => HasQid(h)

Progress(e) ==
  LET x == exec[e] IN
  /\ x.kind = "acteurs" => ActeursProgress(x.pc, x.mem, x.input)
  /\ x.kind = "slugs" => SlugsProgress(x.pc, x.mem)
  /\ x.kind = "candidates" => SeedProgress(x.pc, x.mem, x.input.entries)
  /\ x.kind = "wikidata" => WikidataProgress(x.pc, x.mem, x.input)

ConvergeInv ==
  last # None => IF last.done THEN ReferentielConverges ELSE Progress(last.exec)
-----------------------------------------------------------------------------
(* The execution that is alone.                                              *)

Jobs(e) == Acteurs(e) \/ Scrutins(e) \/ Slugs(e) \/ Candidates(e) \/ Wikidata(e)

LEMMA JobsGive ==
  ASSUME TypeInv, NEW e \in Execs, Jobs(e)
  PROVE  Active(e) /\ Advances(e)
BY ActeursGive, ScrutinsGive, SlugsGive, CandidatesGive, WikidataGive DEF Jobs

LEMMA StartLast ==
  ASSUME TypeInv, NEW e \in Execs, Start(e)
  PROVE  /\ Others(e) /\ base' = base
         /\ \E kind \in DOMAIN FirstStep : \E input :
              /\ exec'[e] = [kind |-> kind, input |-> input, pc |-> FirstStep[kind], mem |-> NoRow]
              /\ last' = IF \E f \in Execs : Active(f) THEN None
                         ELSE [exec |-> e, kind |-> kind, input |-> input, done |-> FALSE]
<1>1. begun + 1 \in DOMAIN Tasks
  BY ReferentielAssumption DEF TypeInv, ExecTyped, Start
<1>2. PICK t \in Tasks[begun + 1] :
        /\ exec' = [exec EXCEPT ![e] = [kind |-> t.kind, input |-> t.input,
                                        pc |-> FirstStep[t.kind], mem |-> NoRow]]
        /\ last' = IF \E f \in Execs : Active(f) THEN None
                   ELSE [exec |-> e, kind |-> t.kind, input |-> t.input, done |-> FALSE]
  BY DEF Start
<1>3. t.kind \in DOMAIN FirstStep
  BY <1>1, ReferentielAssumption
<1>4. DOMAIN exec = Execs
  BY DEF TypeInv, ExecTyped
<1>5. Others(e) /\ base' = base
  BY StartGives DEF Begins
<1> QED
  BY <1>2, <1>3, <1>4, <1>5

LEMMA LastStep == TypeInv /\ LastInv /\ [Next]_vars => LastInv'
<1> SUFFICES ASSUME TypeInv, LastInv, [Next]_vars, last' # None
             PROVE  LastInv'
  BY DEF LastInv
<1>1. CASE UNCHANGED vars
  BY <1>1 DEF vars, LastInv, Active
<1>2. ASSUME NEW e \in Execs, Start(e)
      PROVE  LastInv'
  <2>1. PICK kind \in DOMAIN FirstStep : \E input :
          /\ exec'[e] = [kind |-> kind, input |-> input, pc |-> FirstStep[kind], mem |-> NoRow]
          /\ last' = IF \E f \in Execs : Active(f) THEN None
                     ELSE [exec |-> e, kind |-> kind, input |-> input, done |-> FALSE]
    BY <1>2, StartLast
  <2>2. PICK input :
          /\ exec'[e] = [kind |-> kind, input |-> input, pc |-> FirstStep[kind], mem |-> NoRow]
          /\ last' = [exec |-> e, kind |-> kind, input |-> input, done |-> FALSE]
    BY <2>1
  <2>3. \A f \in Execs : ~Active(f)
    BY <2>1
  <2>4. \A f \in Execs \ {e} : ~Active(f)'
    BY <1>2, <2>3, StartLast DEF Others, Active
  <2>5. /\ DOMAIN last' = {"exec", "kind", "input", "done"}
        /\ last'.exec = e /\ last'.done = FALSE /\ last'.kind = kind /\ last'.input = input
        /\ exec'[e].kind = kind /\ exec'[e].input = input
    BY <2>2
  <2> QED
    BY <2>4, <2>5 DEF LastInv
<1>3. ASSUME NEW e \in Execs, Finish(e)
      PROVE  LastInv'
  <2>1. Active(e) /\ Leaves(e)
    BY <1>3, FinishGives
  <2>2. last # None
    BY <1>3 DEF Finish, IsLast
  <2>3. last.exec = e /\ \A f \in Execs \ {e} : ~Active(f)
    BY <2>1, <2>2 DEF LastInv
  <2>4. last' = [last EXCEPT !.done = TRUE]
    BY <1>3, <2>2, <2>3 DEF Finish, IsLast
  <2>5. \A f \in Execs : ~Active(f)'
    BY <2>1, <2>3 DEF Leaves, Others, Over, Active
  <2>6. DOMAIN last' = {"exec", "kind", "input", "done"} /\ last'.exec = e /\ last'.done = TRUE
    BY <2>2, <2>3, <2>4 DEF LastInv
  <2> QED
    BY <2>5, <2>6 DEF LastInv
<1>4. ASSUME NEW e \in Execs, Break(e) \/ Jobs(e)
      PROVE  LastInv'
  <2>1. Active(e) /\ Advances(e)
    BY <1>4, BreakGives, JobsGive DEF Advances
  <2>2. CASE Aborts(e)
    <3>1. last' = last /\ last.exec # e
      BY <2>2 DEF Aborts, IsLast
    <3> QED
      BY <2>1, <3>1 DEF LastInv
  <2>3. CASE \E pc, mem : Moves(e, pc, mem)
    <3>1. /\ exec'[e].kind = exec[e].kind /\ exec'[e].input = exec[e].input
          /\ Others(e) /\ last' = last
      BY <2>3 DEF Moves
    <3>2. last.exec = e /\ ~last.done /\ \A f \in Execs \ {e} : ~Active(f)
      BY <2>1, <3>1 DEF LastInv
    <3>3. \A f \in Execs \ {e} : ~Active(f)'
      BY <3>1, <3>2 DEF Others, Active
    <3> QED
      BY <3>1, <3>2, <3>3 DEF LastInv
  <2> QED
    BY <2>1, <2>2, <2>3 DEF Advances
<1> QED
  BY <1>1, <1>2, <1>3, <1>4 DEF Next, Jobs
-----------------------------------------------------------------------------
(* Organes and slugs.                                                        *)

LEMMA OrganesOnly ==
  ASSUME TypeInv, NEW e \in Execs, Jobs(e), ~UpsertOrganes(e)
  PROVE  base'.organes = base.organes
<1>0. "organes" \in DOMAIN base
  BY TablesExist
<1>1. CASE Scrutins(e) \/ Slugs(e) \/ Candidates(e) \/ Wikidata(e)
  BY <1>0, <1>1, ScrutinsGive, SlugsGive, CandidatesGive, WikidataGive DEF Keeps
<1>2. CASE ArchiveOrganes(e) \/ ArchiveActeurs(e)
  <2>1. Keeps({"documents"})
    BY <1>2, ArchiveGives DEF ArchiveOrganes, ArchiveActeurs, Sources
  <2> QED
    BY <1>0, <2>1 DEF Keeps
<1>3. CASE FetchOrganeIds(e)
  BY <1>3 DEF FetchOrganeIds
<1>4. CASE UpsertPersons(e)
  BY <1>0, <1>4 DEF UpsertPersons, Fill, Upsert
<1>5. CASE UpsertMandats(e)
  BY <1>0, <1>5 DEF UpsertMandats, Refuse, Abort, Fill, Upsert
<1> QED
  BY <1>1, <1>2, <1>3, <1>4, <1>5 DEF Jobs, Acteurs

\* A slug is written for a person that has none, and is nobody's.
InsertsSlug(e, person, slug) ==
  /\ exec[e].kind = "slugs" /\ exec[e].pc = "slugs" /\ exec[e].mem.todo # <<>>
  /\ person = Head(exec[e].mem.todo).id
  /\ slug \notin DOMAIN base.slugs /\ person \in SansSlug
  /\ base'.slugs = Upsert([s \in {slug} |-> person], base.slugs)
  /\ base'.persons = base.persons
  /\ Remember(e, "slugs", [todo |-> Tail(exec[e].mem.todo), taken |-> exec[e].mem.taken \cup {slug}])

LEMMA InsertSlugGives ==
  ASSUME TypeInv, NEW e \in Execs, InsertSlug(e)
  PROVE  \/ base' = base /\ (Refuse(e) \/ (exec[e].mem.todo = <<>> /\ Goto(e, "finish")))
         \/ \E person, slug : InsertsSlug(e, person, slug)
<1> DEFINE todo   == exec[e].mem.todo
           person == Head(todo).id
           slug   == SlugOf(Head(todo).row, exec[e].mem.taken)
<1>0. ExecTyped
  BY DEF TypeInv
<1>1. CASE todo = <<>>
  BY <1>1 DEF InsertSlug
<1>2. CASE Refuse(e)
  BY <1>0, <1>2, RefuseGives
<1>3. CASE todo # <<>> /\ slug \notin DOMAIN base.slugs /\ person \in SansSlug
  <2> DEFINE table == Upsert([s \in {slug} |-> person], base.slugs)
  <2>1. Fill([slugs |-> table])
        /\ Remember(e, "slugs", [todo |-> Tail(todo), taken |-> exec[e].mem.taken \cup {slug}])
        /\ At(e, "slugs", "slugs")
    BY <1>3 DEF InsertSlug
  <2>2. base'.slugs = table /\ base'.persons = base.persons
    <3> HIDE DEF table
    <3> QED
      BY <2>1, TablesExist DEF Fill, Upsert
  <2> HIDE DEF slug
  <2>3. InsertsSlug(e, person, slug)
    BY <1>3, <2>1, <2>2 DEF InsertsSlug, At
  <2> QED
    BY <2>3
<1> QED
  BY <1>1, <1>2, <1>3 DEF InsertSlug

LEMMA SlugsOnly ==
  ASSUME TypeInv, NEW e \in Execs, Jobs(e), ~InsertSlug(e)
  PROVE  base'.slugs = base.slugs
<1>0. "slugs" \in DOMAIN base
  BY TablesExist
<1>1. CASE Acteurs(e) \/ Scrutins(e) \/ Candidates(e) \/ Wikidata(e)
  BY <1>0, <1>1, ActeursGive, ScrutinsGive, CandidatesGive, WikidataGive DEF Keeps
<1>2. CASE ReadSansSlug(e) \/ ReadTaken(e)
  BY <1>2 DEF ReadSansSlug, ReadTaken
<1> QED
  BY <1>1, <1>2 DEF Jobs, Slugs

LEMMA OneMoreSlug ==
  ASSUME NEW e \in Execs, NEW person, NEW slug, InsertsSlug(e, person, slug)
  PROVE  /\ DOMAIN base'.slugs = DOMAIN base.slugs \cup {slug} /\ base'.slugs[slug] = person
         /\ \A s \in DOMAIN base.slugs : s # slug /\ base'.slugs[s] = base.slugs[s]
         /\ \A s \in DOMAIN base.slugs : base.slugs[s] # person
BY DEF InsertsSlug, Upsert, SansSlug

LEMMA SlugOfOneStep ==
  ASSUME TypeInv, SlugOfOne, NEW e \in Execs, Jobs(e)
  PROVE  SlugOfOne'
<1>1. CASE base'.slugs = base.slugs
  BY <1>1 DEF SlugOfOne
<1>2. ASSUME NEW person, NEW slug, InsertsSlug(e, person, slug)
      PROVE  SlugOfOne'
  BY <1>2, OneMoreSlug DEF SlugOfOne
<1> QED
  BY <1>1, <1>2, SlugsOnly, InsertSlugGives

LEMMA AlwaysInit == Init => AlwaysInv
<1> SUFFICES ASSUME Init
             PROVE  AlwaysInv
  OBVIOUS
<1>1. DOMAIN base.slugs = {}
  BY DEF Init, Tables, NoRow
<1> QED
  BY <1>1, TypeInit, SeedInit, PersonInit DEF AlwaysInv, SlugOfOne

LEMMA AlwaysStep == AlwaysInv /\ [Next]_vars => AlwaysInv'
<1> SUFFICES ASSUME AlwaysInv, [Next]_vars
             PROVE  AlwaysInv'
  OBVIOUS
<1>0. TypeInv
  BY DEF AlwaysInv
<1>1. TypeInv' /\ SeedInv' /\ PersonInv'
  BY TypeStep, SeedStep, PersonStep DEF AlwaysInv
<1>2. SlugOfOne'
  <2>1. CASE base' = base
    BY <2>1 DEF AlwaysInv, SlugOfOne
  <2>2. ASSUME NEW e \in Execs, Jobs(e)
        PROVE  SlugOfOne'
    BY <1>0, <2>2, SlugOfOneStep DEF AlwaysInv
  <2>3. CASE UNCHANGED vars
    BY <2>1, <2>3 DEF vars
  <2>4. ASSUME NEW e \in Execs, Start(e) \/ Finish(e) \/ Break(e)
        PROVE  base' = base
    BY <1>0, <2>4, StartGives, FinishGives, BreakGives
  <2> QED
    BY <2>1, <2>2, <2>3, <2>4 DEF Next, Jobs
<1> QED
  BY <1>1, <1>2 DEF AlwaysInv
-----------------------------------------------------------------------------
(* What ingest_acteurs is to write.                                          *)

\* The members of a list that are in a set, as many times as there.
LEMMA OnlyGives ==
  ASSUME NEW X, NEW s \in Seq(X), NEW S
  PROVE  /\ Only(s, S) \in Seq(ToSet(s) \cap S)
         /\ OneUid(s) => OneUid(Only(s, S))
<1> DEFINE Y == ToSet(s) \cap S
           ss == [i \in DOMAIN s |-> IF s[i] \in S THEN <<s[i]>> ELSE <<>>]
           T  == {t \in Nat \X Seq(Y) :
                    /\ \A i \in 1..Len(t[2]) : \E j \in 1..t[1] : t[2][i] = s[j]
                    /\ OneUid(s) => OneUid(t[2])}
<1>1. Len(s) \in Nat /\ DOMAIN s = 1..Len(s) /\ \A i \in 1..Len(s) : s[i] \in ToSet(s)
  BY DEF ToSet
<1>2. ss \in Seq(Seq(Y)) /\ Len(ss) = Len(s)
  <2>1. ASSUME NEW i \in 1..Len(s)
        PROVE  ss[i] \in Seq(Y)
    <3>1. CASE s[i] \in S
      <4>1. s[i] \in Y /\ ss[i] = <<s[i]>>
        BY <1>1, <3>1
      <4> HIDE DEF Y, ss
      <4> QED
        BY <4>1
    <3>2. CASE s[i] \notin S
      <4>1. ss[i] = <<>>
        BY <1>1, <3>2
      <4> HIDE DEF Y, ss
      <4> QED
        BY <4>1
    <3> QED
      BY <3>1, <3>2
  <2>2. DOMAIN ss = 1..Len(s)
    BY <1>1
  <2>3. ss = [i \in 1..Len(s) |-> ss[i]]
    BY <1>1
  <2> HIDE DEF Y, ss
  <2> QED
    BY <1>1, <2>1, <2>2, <2>3
<1>3. <<0, <<>>>> \in T
  <2>1. OneUid(<<>>)
    BY DEF OneUid
  <2> HIDE DEF Y
  <2> DEFINE none == <<>>
           zero == 0
  <2>2. none \in Seq(Y) /\ Len(none) = 0 /\ OneUid(none)
    BY <2>1
  <2>3. zero \in Nat /\ \A i \in 1..Len(none) : \E j \in 1..zero : none[i] = s[j]
    BY <2>2
  <2>4. none \in Seq(Y) /\ OneUid(none)
    BY <2>2
  <2> HIDE DEF none, zero
  <2>5. <<zero, none>> \in T
    BY <2>3, <2>4
  <2> QED
    BY <2>5 DEF none, zero
<1>4. ASSUME NEW n \in 0..(Len(ss) - 1), NEW r \in Seq(Y), <<n, r>> \in T
      PROVE  <<n + 1, r \o ss[n + 1]>> \in T
  <2>1. n + 1 \in 1..Len(s) /\ n + 1 \in Nat /\ n \in Nat /\ Len(r) \in Nat
    BY <1>1, <1>2
  <2>2. /\ \A i \in 1..Len(r) : \E j \in 1..n : r[i] = s[j]
        /\ OneUid(s) => OneUid(r)
    BY <1>4
  <2>3. \A j \in 1..n : j \in 1..(n + 1) /\ j \in 1..Len(s) /\ j # n + 1
    BY <2>1
  <2>4. CASE s[n + 1] \notin S
    <3>1. ss[n + 1] = <<>>
      BY <1>1, <2>1, <2>4
    <3>2. \A i \in 1..Len(r) : \E j \in 1..(n + 1) : r[i] = s[j]
      BY <2>2, <2>3
    <3> HIDE DEF ss, Y
    <3>3. r \o ss[n + 1] = r
      BY <3>1
    <3> QED
      BY <2>1, <2>2, <3>2, <3>3
  <2>5. CASE s[n + 1] \in S
    <3> DEFINE u == Append(r, s[n + 1])
    <3>1. s[n + 1] \in Y
      BY <1>1, <2>1, <2>5
    <3>2. ss[n + 1] = <<s[n + 1]>>
      BY <1>1, <2>1, <2>5
    <3> HIDE DEF ss, Y
    <3>3. r \o ss[n + 1] = u
      BY <3>1, <3>2
    <3>4. /\ u \in Seq(Y) /\ Len(u) = Len(r) + 1 /\ u[Len(r) + 1] = s[n + 1]
          /\ \A i \in 1..Len(r) : u[i] = r[i]
      BY <3>1, Appended
    <3> HIDE DEF u
    <3>5. \A i \in 1..Len(u) : i \in 1..Len(r) \/ i = Len(r) + 1
      BY <2>1, <3>4
    <3>6. \A i \in 1..Len(u) : \E j \in 1..(n + 1) : u[i] = s[j]
      <4> TAKE i \in 1..Len(u)
      <4>1. CASE i = Len(r) + 1
        BY <2>1, <3>4, <4>1
      <4>2. CASE i \in 1..Len(r)
        BY <2>2, <2>3, <3>4, <4>2
      <4> QED
        BY <3>5, <4>1, <4>2
    <3>7. ASSUME OneUid(s)
          PROVE  OneUid(u)
      <4>1. \A i \in 1..Len(r) : r[i].uid # s[n + 1].uid
        BY <2>1, <2>2, <2>3, <3>7 DEF OneUid
      <4>2. OneUid(r)
        BY <2>2, <3>7
      <4> QED
        BY <3>4, <3>5, <4>1, <4>2 DEF OneUid
    <3> QED
      BY <2>1, <3>3, <3>4, <3>6, <3>7
  <2> QED
    BY <2>4, <2>5
<1> HIDE DEF T
<1>5. FlattenSeq(ss) \in Seq(Y) /\ <<Len(ss), FlattenSeq(ss)>> \in T
  <2> HIDE DEF ss, Y
  <2> QED
    BY <1>2, <1>3, <1>4, FlattenInvariant
<1>6. Only(s, S) = FlattenSeq(ss)
  BY DEF Only
<1> HIDE DEF ss
<1> QED
  BY <1>5, <1>6 DEF T

\* The fields of a mandate, and a mandate as it is written for a person.
MandatFields == {"uid", "type", "organe", "debut", "fin"}

LEMMA RowFields ==
  ASSUME NEW p, NEW m, DOMAIN m = MandatFields
  PROVE  LET row == Upsert([person |-> p], m)
         IN  /\ row.person = p /\ row.uid = m.uid /\ row.type = m.type
             /\ row.organe = m.organe /\ row.debut = m.debut /\ row.fin = m.fin
BY DEF Upsert, MandatFields

\* A cut mandate keeps everything but its end.
LEMMA CutKeeps ==
  ASSUME NEW S, \A m \in S : DOMAIN m = MandatFields /\ m.type = "GP", NEW c \in Cut(S)
  PROVE  DOMAIN c = MandatFields /\ c.type = "GP"
<1>1. CASE c \in S
  BY <1>1
<1>2. CASE \E m \in S : \E d \in Int : c = CutTo(m, d)
  <2>1. PICK m \in S : \E d \in Int : c = CutTo(m, d)
    BY <1>2
  <2>2. PICK d \in Int : c = CutTo(m, d)
    BY <2>1
  <2>3. DOMAIN m = MandatFields /\ m.type = "GP"
    OBVIOUS
  <2> QED
    BY <2>2, <2>3 DEF CutTo, MandatFields
<1> QED
  BY <1>1, <1>2 DEF Cut

\* A list of mandates none of which excludes another: those of a group, the only
\* ones whose days matter, are accepted together.
Harmonious(rows) == \A i, j \in 1..Len(rows) : ~Excludes(rows[i], rows[j])

\* Mandates as they are written for a person.
RowsFor(p, mandats) == [i \in DOMAIN mandats |-> Upsert([person |-> p], mandats[i])]

\* The mandates `kept` of the groups of an acteur, and its `others`.
Apart(kept, others, X) ==
  /\ kept \in Seq(X) /\ others \in Seq(X) /\ \A m \in X : DOMAIN m = MandatFields
  /\ \A i, j \in 1..Len(kept) : i # j =>
       /\ kept[i].uid # kept[j].uid
       /\ kept[i].organe = kept[j].organe => ~Overlap(kept[i], kept[j])
  /\ OneUid(others) /\ \A i \in 1..Len(others) : others[i].type # "GP"
  /\ \A i \in 1..Len(kept), j \in 1..Len(others) : kept[i].uid # others[j].uid

\* Put one after the other they are rows of the acteur `a`.
LEMMA JoinedRows ==
  ASSUME NEW a, NEW X, NEW kept, NEW others, Apart(kept, others, X)
  PROVE  LET list == RowsFor(a, kept \o others)
         IN  /\ list \in Seq(ToSet(list)) /\ OneUid(list) /\ Harmonious(list)
             /\ \A i \in 1..Len(list) : list[i].person = a /\ \E m \in X :
                  m \in ToSet(kept) \cup ToSet(others) /\ list[i].uid = m.uid
<1> DEFINE rows == kept \o others
           list == [i \in DOMAIN rows |-> Upsert([person |-> a], rows[i])]
           k    == Len(kept)
           n    == Len(kept) + Len(others)
<1> USE DEF Apart
<1>1. /\ k \in Nat /\ Len(others) \in Nat /\ rows \in Seq(X) /\ Len(rows) = n
      /\ \A i \in 1..k : rows[i] = kept[i]
      /\ \A i \in (k + 1)..n : i - k \in 1..Len(others) /\ rows[i] = others[i - k]
  BY ConcatProperties
<1>2. DOMAIN rows = 1..n /\ n \in Nat
  BY <1>1
<1> HIDE DEF rows
<1>3. /\ \A i \in 1..n : i \in 1..k \/ i \in (k + 1)..n
      /\ \A i \in 1..n : rows[i] \in X /\ DOMAIN rows[i] = MandatFields
  BY <1>1
<1>3b. ASSUME NEW i \in (k + 1)..n
      PROVE  rows[i].type # "GP" /\ \A j \in 1..k : rows[j].uid # rows[i].uid
  <2>1. i - k \in 1..Len(others) /\ rows[i] = others[i - k]
    BY <1>1
  <2> QED
    BY <1>1, <2>1
<1>4. list \in Seq(ToSet(list)) /\ Len(list) = n
  <2>1. DOMAIN list = 1..n
    BY <1>2
  <2>2. list = [i \in 1..n |-> list[i]]
    BY <1>2
  <2> HIDE DEF list
  <2> QED
    BY <1>2, <2>1, <2>2 DEF ToSet
<1>5. \A i \in 1..n : /\ list[i].person = a /\ list[i].uid = rows[i].uid /\ list[i].type = rows[i].type
                      /\ list[i].organe = rows[i].organe
                      /\ list[i].debut = rows[i].debut /\ list[i].fin = rows[i].fin
  <2>1. \A i \in 1..n : list[i] = Upsert([person |-> a], rows[i])
    BY <1>2
  <2> HIDE DEF list
  <2> QED
    BY <1>3, <2>1, RowFields
<1> HIDE DEF list
<1>6. OneUid(rows)
  <2> SUFFICES ASSUME NEW i \in 1..n, NEW j \in 1..n, rows[i].uid = rows[j].uid
               PROVE  i = j
    BY <1>1 DEF OneUid
  <2>1. CASE i \in 1..k /\ j \in 1..k
    BY <1>1, <2>1
  <2>2. CASE i \in (k + 1)..n /\ j \in (k + 1)..n
    <3>1. others[i - k].uid = others[j - k].uid
      BY <1>1, <2>2
    <3>2. i - k = j - k
      BY <1>1, <2>2, <3>1 DEF OneUid
    <3> QED
      BY <1>1, <3>2
  <2> QED
    BY <1>3, <1>3b, <2>1, <2>2
<1>7. OneUid(list)
  BY <1>1, <1>4, <1>5, <1>6 DEF OneUid
<1>8. Harmonious(list)
  <2> SUFFICES ASSUME NEW i \in 1..n, NEW j \in 1..n, Excludes(list[i], list[j])
               PROVE  FALSE
    BY <1>4 DEF Harmonious
  <2>1. /\ i # j /\ rows[i].type = "GP" /\ rows[j].type = "GP"
        /\ rows[i].organe = rows[j].organe /\ Overlap(rows[i], rows[j])
    BY <1>5 DEF Excludes, Overlap
  <2>2. i \in 1..k /\ j \in 1..k
    BY <1>3b, <1>3, <2>1
  <2>3. rows[i] = kept[i] /\ rows[j] = kept[j]
    BY <1>1, <2>2
  <2> QED
    BY <2>1, <2>2, <2>3
<1>9. ASSUME NEW i \in 1..n
      PROVE  rows[i] \in X /\ rows[i] \in ToSet(kept) \cup ToSet(others)
  <2>1. CASE i \in 1..k
    <3>1. rows[i] = kept[i] /\ i \in DOMAIN kept
      BY <1>1, <2>1
    <3>2. kept[i] \in ToSet(kept)
      BY <3>1 DEF ToSet
    <3> QED
      BY <1>3, <3>1, <3>2
  <2>2. CASE i \in (k + 1)..n
    BY <1>1, <1>3, <2>2 DEF ToSet
  <2> QED
    BY <1>3, <2>1, <2>2
<1>10. \A i \in 1..Len(list) : list[i].person = a /\ \E m \in X :
          m \in ToSet(kept) \cup ToSet(others) /\ list[i].uid = m.uid
  BY <1>4, <1>5, <1>9
<1> QED
  BY <1>4, <1>7, <1>8, <1>10 DEF list, rows, RowsFor

\* The mandates of an acteur are those of nobody else.
LEMMA ActeursAre ==
  ASSUME NEW archive \in Inputs("acteurs")
  PROVE  /\ archive.acteurs \in Seq(ToSet(archive.acteurs))
         /\ \A a \in ToSet(archive.acteurs) :
              /\ a.mandats \in Seq(ToSet(a.mandats)) /\ OneUid(a.mandats)
              /\ \A m \in ToSet(a.mandats) :
                   /\ DOMAIN m = MandatFields
                   /\ m.organe \in Int /\ m.fin \in Int /\ (m.debut = None \/ m.debut \in Int)
         /\ \A a, b \in ToSet(archive.acteurs) :
              /\ a.an = b.an => a = b
              /\ \A m \in ToSet(a.mandats), n \in ToSet(b.mandats) : m.uid = n.uid => a = b
<1> DEFINE acteurs == ToSet(archive.acteurs)
<1>1. /\ archive.acteurs \in Seq(acteurs)
      /\ \A a \in acteurs :
           /\ a.mandats \in Seq(ToSet(a.mandats))
           /\ \A m \in ToSet(a.mandats) :
                /\ DOMAIN m = MandatFields
                /\ m.organe \in Int /\ m.fin \in Int /\ (m.debut = None \/ m.debut \in Int)
      /\ \A a, b \in acteurs :
           /\ a.an = b.an => a = b
           /\ \A i \in DOMAIN a.mandats, j \in DOMAIN b.mandats :
                a.mandats[i].uid = b.mandats[j].uid => a = b /\ i = j
  BY ActeursAssumption DEF MandatFields
<1> HIDE DEF acteurs
<1>2. ASSUME NEW a \in acteurs
      PROVE  OneUid(a.mandats)
  <2>1. DOMAIN a.mandats = 1..Len(a.mandats)
    BY <1>1
  <2> QED
    BY <1>1, <2>1 DEF OneUid
<1>3. \A a, b \in acteurs : \A m \in ToSet(a.mandats), n \in ToSet(b.mandats) : m.uid = n.uid => a = b
  BY <1>1 DEF ToSet
<1> QED
  BY <1>1, <1>2, <1>3 DEF acteurs

\* What is to be written for an acteur: one row for each mandate retained, no two
\* of which exclude one another.
LEMMA RowsGive ==
  ASSUME NEW archive \in Inputs("acteurs"), NEW a \in ToSet(archive.acteurs), NEW organes
  PROVE  LET rows == MandatRows(a, organes)
         IN  /\ rows \in Seq(ToSet(rows)) /\ OneUid(rows) /\ Harmonious(rows)
             /\ \A i \in 1..Len(rows) : rows[i].person = a.an /\ \E m \in ToSet(a.mandats) : rows[i].uid = m.uid
<1> DEFINE all    == ToSet(a.mandats)
           valid  == {m \in all : /\ m.type \in Retained /\ m.organe \in organes
                                  /\ m.debut # None /\ m.debut <= m.fin}
           gp     == {m \in valid : m.type = "GP"}
           listed == Only(a.mandats, gp)
           kept   == Normalize(listed).retained
           others == Only(a.mandats, valid \ gp)
           X      == Cut(all \cap gp) \cup (all \cap (valid \ gp))
<1>1. /\ a.mandats \in Seq(all) /\ OneUid(a.mandats)
      /\ \A m \in all : /\ DOMAIN m = MandatFields
                        /\ m.organe \in Int /\ m.fin \in Int /\ (m.debut = None \/ m.debut \in Int)
  BY ActeursAre
<1>2. /\ \A m \in all \cap gp : m.type = "GP" /\ m.debut # None /\ m.debut <= m.fin
      /\ \A m \in all \cap (valid \ gp) : m.type # "GP" /\ m \notin gp
  OBVIOUS
<1>3. MandatRows(a, organes) = RowsFor(a.an, kept \o others)
  BY DEF MandatRows, RowsFor
<1> HIDE DEF valid, gp
<1> DEFINE G == all \cap gp
           O == all \cap (valid \ gp)
<1>4. /\ listed \in Seq(G) /\ OneUid(listed)
      /\ others \in Seq(O) /\ OneUid(others)
  BY <1>1, OnlyGives
<1>5. \A m \in G : IsMandat(m)
  BY <1>1, <1>2 DEF IsMandat, MandatFields
<1>6. \A m, n \in all : m.uid = n.uid => m = n
  BY <1>1 DEF OneUid, ToSet
<1>7. X = Cut(G) \cup O
  OBVIOUS
<1>8. G \subseteq all /\ O \subseteq all /\ G \cap O = {}
  BY <1>2
<1>9. \A m \in G : m.type = "GP" /\ DOMAIN m = MandatFields
  BY <1>1, <1>2
<1>10. \A m \in O : m.type # "GP" /\ DOMAIN m = MandatFields
  BY <1>1, <1>2
<1> HIDE DEF listed, others, X, G, O, all
<1>11. /\ kept \in Seq(Cut(G)) /\ Accepted(kept)
       /\ \A i \in 1..Len(kept) : \E j \in 1..Len(listed) : kept[i].uid = listed[j].uid
  BY <1>4, <1>5, RetainedAccepted
<1> HIDE DEF kept
<1>12. kept \in Seq(X) /\ others \in Seq(X)
  BY <1>4, <1>7, <1>11
<1>13. \A m \in X : DOMAIN m = MandatFields
  BY <1>7, <1>9, <1>10, CutKeeps
<1>14. \A i \in 1..Len(kept) : \E m \in G : kept[i].uid = m.uid
  BY <1>4, <1>11
<1>15. \A i \in 1..Len(others) : others[i] \in O
  BY <1>4
<1>16. \A i \in 1..Len(kept), j \in 1..Len(others) : kept[i].uid # others[j].uid
  BY <1>6, <1>8, <1>14, <1>15
<1>17. /\ \A i, j \in 1..Len(kept) : i # j =>
           /\ kept[i].uid # kept[j].uid
           /\ kept[i].organe = kept[j].organe => ~Overlap(kept[i], kept[j])
       /\ \A i \in 1..Len(others) : others[i].type # "GP"
  BY <1>10, <1>11, <1>15 DEF Accepted
<1> DEFINE rows == MandatRows(a, organes)
<1>18. /\ rows \in Seq(ToSet(rows)) /\ OneUid(rows) /\ Harmonious(rows)
       /\ \A i \in 1..Len(rows) : rows[i].person = a.an /\ \E m \in X :
            m \in ToSet(kept) \cup ToSet(others) /\ rows[i].uid = m.uid
  <2> DEFINE list == RowsFor(a.an, kept \o others)
  <2>1. rows = list
    BY <1>3
  <2>2. OneUid(others) /\ \A i, j \in 1..Len(kept) : i # j =>
           /\ kept[i].uid # kept[j].uid
           /\ kept[i].organe = kept[j].organe => ~Overlap(kept[i], kept[j])
    BY <1>4, <1>17
  <2>3. \A i \in 1..Len(others) : others[i].type # "GP"
    BY <1>17
  <2> HIDE DEF rows
  <2>4. /\ list \in Seq(ToSet(list)) /\ OneUid(list) /\ Harmonious(list)
        /\ \A i \in 1..Len(list) : list[i].person = a.an /\ \E m \in X :
             m \in ToSet(kept) \cup ToSet(others) /\ list[i].uid = m.uid
    <3>1. Apart(kept, others, X)
      BY <1>12, <1>13, <1>16, <2>2, <2>3 DEF Apart
    <3> QED
      BY <3>1, JoinedRows
  <2> QED
    BY <2>1, <2>4
<1> HIDE DEF rows
<1>19. ASSUME NEW x \in ToSet(kept) \cup ToSet(others)
       PROVE  \E m \in all : x.uid = m.uid
  <2>1. (\E i \in 1..Len(kept) : x = kept[i]) \/ (\E i \in 1..Len(others) : x = others[i])
    BY <1>4, <1>11 DEF ToSet
  <2> QED
    BY <1>8, <1>14, <1>15, <2>1
<1>20. \A i \in 1..Len(rows) : rows[i].person = a.an /\ \E m \in all : rows[i].uid = m.uid
  BY <1>18, <1>19
<1> QED
  BY <1>18, <1>20 DEF rows, all

\* What ingest_acteurs is to write: a uid is that of one row, and no row excludes
\* another.
LEMMA ToWriteGives ==
  ASSUME NEW archive \in Inputs("acteurs"), NEW organes
  PROVE  LET mandats == ToWrite(archive, organes)
         IN  /\ mandats \in Seq(ToSet(mandats))
             /\ \A m, n \in ToSet(mandats) : /\ m.uid = n.uid => m = n
                                             /\ ~Excludes(m, n)
<1> DEFINE acteurs == ToSet(archive.acteurs)
           rowsOf(a) == MandatRows(a, organes)
           S == UNION {ToSet(rowsOf(a)) : a \in acteurs}
           ss == [i \in DOMAIN archive.acteurs |-> rowsOf(archive.acteurs[i])]
           mandats == ToWrite(archive, organes)
<1>1. /\ archive.acteurs \in Seq(acteurs)
      /\ \A a, b \in acteurs :
           /\ a.an = b.an => a = b
           /\ \A m \in ToSet(a.mandats), n \in ToSet(b.mandats) : m.uid = n.uid => a = b
  BY ActeursAre
<1>2. \A a \in acteurs :
        /\ rowsOf(a) \in Seq(ToSet(rowsOf(a))) /\ OneUid(rowsOf(a)) /\ Harmonious(rowsOf(a))
        /\ \A i \in 1..Len(rowsOf(a)) : /\ rowsOf(a)[i].person = a.an
                                        /\ \E m \in ToSet(a.mandats) : rowsOf(a)[i].uid = m.uid
  BY RowsGive
<1>3. mandats = FlattenSeq(ss)
  BY DEF ToWrite
<1> HIDE DEF acteurs, rowsOf, mandats
<1>4. ASSUME NEW a \in acteurs
      PROVE  rowsOf(a) \in Seq(S)
  BY <1>2, <1>4
<1>5. ss \in Seq(Seq(S))
  <2>1. DOMAIN archive.acteurs = 1..Len(archive.acteurs) /\ Len(archive.acteurs) \in Nat
        /\ \A i \in 1..Len(archive.acteurs) : archive.acteurs[i] \in acteurs
    BY <1>1
  <2>2. \A i \in 1..Len(archive.acteurs) : rowsOf(archive.acteurs[i]) \in Seq(S)
    BY <1>4, <2>1
  <2> HIDE DEF S
  <2> QED
    BY <2>1, <2>2
<1> HIDE DEF ss
<1>6. mandats \in Seq(S)
  <2> HIDE DEF S
  <2> QED
    BY <1>3, <1>5, FlattenIsSeq
<1>7. ToSet(mandats) \subseteq S
  <2> HIDE DEF S
  <2> QED
    BY <1>6 DEF ToSet
<1>8. mandats \in Seq(ToSet(mandats))
  <2> HIDE DEF S
  <2>1. mandats = [i \in 1..Len(mandats) |-> mandats[i]] /\ Len(mandats) \in Nat
    BY <1>6
  <2>2. \A i \in 1..Len(mandats) : mandats[i] \in ToSet(mandats)
    BY <1>6 DEF ToSet
  <2> QED
    BY <2>1, <2>2
<1>9. ASSUME NEW x \in S
      PROVE  \E a \in acteurs : \E i \in 1..Len(rowsOf(a)) : x = rowsOf(a)[i]
  <2>1. PICK a \in acteurs : x \in ToSet(rowsOf(a))
    BY <1>9
  <2>2. rowsOf(a) \in Seq(ToSet(rowsOf(a)))
    BY <1>2
  <2> QED
    BY <2>1, <2>2 DEF ToSet
<1>10. ASSUME NEW x \in S, NEW y \in S
       PROVE  (x.uid = y.uid => x = y) /\ ~Excludes(x, y)
  <2>1. PICK a \in acteurs : \E i \in 1..Len(rowsOf(a)) : x = rowsOf(a)[i]
    BY <1>9
  <2>2. PICK b \in acteurs : \E j \in 1..Len(rowsOf(b)) : y = rowsOf(b)[j]
    BY <1>9
  <2>3. x.person = a.an /\ \E m \in ToSet(a.mandats) : x.uid = m.uid
    BY <1>2, <2>1
  <2>4. y.person = b.an /\ \E m \in ToSet(b.mandats) : y.uid = m.uid
    BY <1>2, <2>2
  <2>5. CASE a = b
    <3>1. OneUid(rowsOf(a)) /\ Harmonious(rowsOf(a))
      BY <1>2
    <3> QED
      BY <2>1, <2>2, <2>5, <3>1 DEF OneUid, Harmonious
  <2>6. CASE a # b
    <3>1. x.uid # y.uid /\ x.person # y.person
      BY <1>1, <2>3, <2>4, <2>6
    <3> QED
      BY <3>1 DEF Excludes
  <2> QED
    BY <2>5, <2>6
<1> QED
  BY <1>7, <1>8, <1>10 DEF mandats

-----------------------------------------------------------------------------
(* ingest_acteurs.                                                           *)

\* A batch, then what is left, is what there was.
LEMMA SplitAt ==
  ASSUME NEW S, NEW s \in Seq(S), NEW n \in 0..Len(s)
  PROVE  /\ SubSeq(s, 1, n) \in Seq(S) /\ SubSeq(s, n + 1, Len(s)) \in Seq(S)
         /\ Len(SubSeq(s, 1, n)) = n /\ \A i \in 1..n : SubSeq(s, 1, n)[i] = s[i]
         /\ Len(SubSeq(s, n + 1, Len(s))) = Len(s) - n
         /\ \A i \in 1..(Len(s) - n) : SubSeq(s, n + 1, Len(s))[i] = s[n + i]
         /\ \A x \in ToSet(s) : x \in ToSet(SubSeq(s, 1, n)) \/ x \in ToSet(SubSeq(s, n + 1, Len(s)))
<1> DEFINE a == SubSeq(s, 1, n)
           b == SubSeq(s, n + 1, Len(s))
<1>0. Len(s) \in Nat /\ DOMAIN s = 1..Len(s) /\ \A i \in 1..Len(s) : s[i] \in S
  OBVIOUS
<1>1. a \in Seq(S) /\ Len(a) = n /\ \A i \in 1..n : a[i] = s[i]
  <2>1. \A i \in 1..n : s[i] \in S
    BY <1>0
  <2>2. /\ a \in Seq(S) /\ Len(a) = IF 1 <= n THEN n - 1 + 1 ELSE 0
        /\ \A i \in 1..n - 1 + 1 : a[i] = s[1 + i - 1]
    BY <1>0, <2>1, SubSeqProperties
  <2>3. n \in Nat /\ n - 1 + 1 = n /\ \A i \in 1..n : 1 + i - 1 = i
    OBVIOUS
  <2> HIDE DEF a
  <2> QED
    BY <2>2, <2>3
<1>2. b \in Seq(S) /\ Len(b) = Len(s) - n /\ \A i \in 1..(Len(s) - n) : b[i] = s[n + i]
  <2>1. \A i \in (n + 1)..Len(s) : s[i] \in S
    BY <1>0
  <2>2. /\ b \in Seq(S) /\ Len(b) = IF n + 1 <= Len(s) THEN Len(s) - (n + 1) + 1 ELSE 0
        /\ \A i \in 1..Len(s) - (n + 1) + 1 : b[i] = s[n + 1 + i - 1]
    BY <1>0, <2>1, SubSeqProperties
  <2>3. n \in Nat /\ n <= Len(s) /\ Len(s) - (n + 1) + 1 = Len(s) - n
        /\ \A i \in 1..(Len(s) - n) : n + 1 + i - 1 = n + i
    BY <1>0
  <2> HIDE DEF b
  <2>4. Len(b) = Len(s) - n
    <3>1. CASE n + 1 <= Len(s)
      BY <2>2, <2>3, <3>1
    <3>2. CASE ~(n + 1 <= Len(s))
      <4>1. \A k \in Nat : \A j \in 0..k : ~(j + 1 <= k) => k - j = 0
        OBVIOUS
      <4>2. Len(s) - n = 0
        BY <1>0, <3>2, <4>1
      <4> QED
        BY <2>2, <3>2, <4>2
    <3> QED
      BY <3>1, <3>2
  <2>5. ASSUME NEW i \in 1..(Len(s) - n)
        PROVE  b[i] = s[n + i]
    <3>1. i \in 1..Len(s) - (n + 1) + 1 /\ n + 1 + i - 1 = n + i
      BY <2>3
    <3>2. b[i] = s[n + 1 + i - 1]
      BY <2>2, <3>1
    <3> QED
      BY <3>1, <3>2
  <2> QED
    BY <2>2, <2>4, <2>5
<1> HIDE DEF a, b
<1>3. ASSUME NEW x \in ToSet(s)
      PROVE  x \in ToSet(a) \/ x \in ToSet(b)
  <2>1. PICK i \in 1..Len(s) : s[i] = x
    BY <1>0, <1>3 DEF ToSet
  <2>2. CASE i <= n
    BY <1>1, <2>1, <2>2 DEF ToSet
  <2>3. CASE i > n
    <3>1. i - n \in 1..(Len(s) - n) /\ n + (i - n) = i
      BY <1>0, <2>1, <2>3
    <3>2. i - n \in DOMAIN b /\ b[i - n] = s[i]
      BY <1>2, <3>1
    <3> QED
      BY <2>1, <3>2 DEF ToSet
  <2> QED
    BY <1>0, <2>1, <2>2, <2>3
<1> QED
  BY <1>1, <1>2, <1>3 DEF a, b

\* No two mandates of a set bear the same identifier.
UidsDiffer(mandats) == \A m, n \in mandats : m.uid = n.uid => m = n

LEMMA BatchWritten ==
  ASSUME NEW mandats, UidsDiffer(mandats),
         NEW batch, ToSet(batch) \subseteq mandats, NEW table, NEW m \in mandats,
         m \in ToSet(batch) \/ (m.uid \in DOMAIN table /\ table[m.uid] = m)
  PROVE  m.uid \in DOMAIN With(batch, table) /\ With(batch, table)[m.uid] = m
<1> DEFINE uids == {n.uid : n \in ToSet(batch)}
           of   == CHOOSE n \in ToSet(batch) : n.uid = m.uid
<1>1. CASE m.uid \in uids
  <2>1. of \in ToSet(batch) /\ of.uid = m.uid
    BY <1>1
  <2>2. of = m
    BY <2>1 DEF UidsDiffer
  <2>3. m.uid \in DOMAIN With(batch, table) /\ With(batch, table)[m.uid] = of
    BY <1>1 DEF With, Upsert
  <2> QED
    BY <2>2, <2>3
<1>2. CASE m.uid \notin uids
  <2>1. m.uid \in DOMAIN table /\ table[m.uid] = m
    BY <1>2
  <2> QED
    BY <1>2, <2>1 DEF With, Upsert
<1> QED
  BY <1>1, <1>2

LEMMA NamedWritten ==
  ASSUME TypeInv, NEW e \in Execs, UpsertPersons(e), NEW a \in ToSet(exec[e].input.acteurs)
  PROVE  a.an \in DOMAIN base'.persons /\ base'.persons[a.an].nom = a.nom
<1> DEFINE acteurs == ToSet(exec[e].input.acteurs)
           named   == Named(exec[e].input)
           of      == CHOOSE b \in acteurs : b.an = a.an
<1>1. base'.persons = Upsert(named, base.persons) /\ exec[e].input \in Inputs("acteurs")
  BY NamedGives
<1>2. \A b, c \in acteurs : b.an = c.an => b = c
  BY <1>1, ActeursAssumption
<1>3. of = a
  BY <1>2
<1>4. a.an \in DOMAIN named /\ named[a.an].nom = of.nom
  BY DEF Named
<1> HIDE DEF named, of
<1> QED
  BY <1>1, <1>3, <1>4, UpsertWrites

LEMMA GotoIs ==
  ASSUME ExecTyped, NEW e \in Execs, NEW pc, NEW mem, Moves(e, pc, mem), NEW to, Goto(e, to)
  PROVE  pc = to /\ mem = exec[e].mem
<1>1. Moves(e, to, exec[e].mem)
  BY GotoGives
<1>2. exec'[e].pc = to /\ exec'[e].mem = exec[e].mem
  BY <1>1 DEF Moves
<1>3. exec'[e].pc = pc /\ exec'[e].mem = mem
  BY DEF Moves
<1> QED
  BY <1>2, <1>3

LEMMA RememberIs ==
  ASSUME ExecTyped, NEW e \in Execs, NEW pc, NEW mem, Moves(e, pc, mem),
         NEW to, NEW facts, Remember(e, to, facts)
  PROVE  pc = to /\ mem = Upsert(facts, exec[e].mem)
<1> DEFINE after == Upsert(facts, exec[e].mem)
<1>1. Moves(e, to, after)
  BY RememberGives
<1> HIDE DEF after
<1>2. exec'[e].pc = to /\ exec'[e].mem = after
  BY <1>1 DEF Moves
<1>3. exec'[e].pc = pc /\ exec'[e].mem = mem
  BY DEF Moves
<1> QED
  BY <1>2, <1>3 DEF after

LEMMA AbortIs ==
  ASSUME NEW e \in Execs, NEW pc, NEW mem, Moves(e, pc, mem), Leaves(e)
  PROVE  pc \in Outcomes
<1>1. exec'[e].pc = pc
  BY DEF Moves
<1>2. exec'[e].pc \in Outcomes
  BY DEF Leaves, Over
<1> QED
  BY <1>1, <1>2

LEMMA ActeursStep ==
  ASSUME AlwaysInv, NEW e \in Execs, Acteurs(e), NEW archive, archive = exec[e].input,
         ActeursProgress(exec[e].pc, exec[e].mem, archive),
         NEW pc, NEW mem, Moves(e, pc, mem)
  PROVE  ActeursProgress(pc, mem, archive)'
<1> DEFINE mem0 == exec[e].mem
<1>0. TypeInv /\ ExecTyped /\ archive \in Inputs("acteurs") /\ Jobs(e)
  BY ActeursGive DEF AlwaysInv, TypeInv, ExecTyped, Jobs
<1>1. CASE ArchiveOrganes(e) \/ ArchiveActeurs(e) \/ UpsertOrganes(e)
  <2>1. pc \in {"archive_acteurs", "organes", "organe_ids"}
    BY <1>0, <1>1, GotoIs DEF ArchiveOrganes, ArchiveActeurs, UpsertOrganes
  <2> QED
    BY <2>1 DEF ActeursProgress
<1>2. CASE FetchOrganeIds(e)
  <2>1. pc = "persons" /\ mem = Upsert([organes |-> DOMAIN base.organes], mem0) /\ base' = base
    BY <1>0, <1>2, RememberIs DEF FetchOrganeIds
  <2>2. "organes" \in DOMAIN mem /\ mem.organes = DOMAIN base.organes
    BY <2>1 DEF Upsert
  <2> QED
    BY <2>1, <2>2 DEF ActeursProgress
<1>3. CASE UpsertPersons(e)
  <2> DEFINE mandats == ToWrite(archive, mem0.organes)
  <2>1. pc = "mandats" /\ mem = Upsert([todo |-> mandats], mem0) /\ exec[e].pc = "persons"
    BY <1>0, <1>3, RememberIs DEF UpsertPersons, At
  <2>2. base'.organes = base.organes
    <3>1. ~UpsertOrganes(e)
      BY <2>1 DEF UpsertOrganes, At
    <3> QED
      BY <1>0, <3>1, OrganesOnly
  <2>3. "organes" \in DOMAIN mem0 /\ mem0.organes = DOMAIN base.organes
    BY <2>1 DEF ActeursProgress
  <2> HIDE DEF mandats
  <2>4. /\ "organes" \in DOMAIN mem /\ mem.organes = mem0.organes
        /\ "todo" \in DOMAIN mem /\ mem.todo = mandats
    BY <2>1, <2>3 DEF Upsert
  <2>5. mandats \in Seq(ToSet(mandats))
    BY <1>0, ToWriteGives DEF mandats
  <2>6. \A a \in ToSet(archive.acteurs) : BearsName(a)'
    BY <1>0, <1>3, NamedWritten DEF BearsName
  <2>7. ToWrite(archive, mem.organes) = mandats
    BY <2>4 DEF mandats
  <2> QED
    BY <2>1, <2>2, <2>3, <2>4, <2>5, <2>6, <2>7 DEF ActeursProgress
<1>4. CASE UpsertMandats(e)
  <2> DEFINE todo    == mem0.todo
             mandats == ToSet(ToWrite(archive, mem0.organes))
             size    == Min({MandatBatch, Len(todo)})
             batch   == SubSeq(todo, 1, size)
             rest    == SubSeq(todo, size + 1, Len(todo))
  <2>1. exec[e].pc = "mandats"
    BY <1>4 DEF UpsertMandats, At
  <2>2. /\ "organes" \in DOMAIN mem0 /\ mem0.organes = DOMAIN base.organes
        /\ \A a \in ToSet(archive.acteurs) : BearsName(a)
        /\ "todo" \in DOMAIN mem0 /\ todo \in Seq(mandats)
        /\ \A m \in mandats : m \in ToSet(todo) \/ Written(m)
    BY <2>1 DEF ActeursProgress
  <2>3. UidsDiffer(mandats)
    BY <1>0, ToWriteGives DEF UidsDiffer
  <2>4. base'.organes = base.organes
    <3>1. ~UpsertOrganes(e)
      BY <2>1 DEF UpsertOrganes, At
    <3> QED
      BY <1>0, <3>1, OrganesOnly
  <2>5. \/ todo = <<>> /\ Goto(e, "finish") /\ base' = base
        \/ /\ Fill([mandats |-> With(batch, base.mandats)])
           /\ Remember(e, "mandats", [todo |-> rest])
        \/ Refuse(e)
    BY <1>4 DEF UpsertMandats
  <2>6. CASE todo = <<>> /\ Goto(e, "finish") /\ base' = base
    <3>1. pc = "finish" /\ mem = mem0
      BY <1>0, <2>6, GotoIs
    <3>2. \A m \in mandats : Written(m)
      BY <2>2, <2>6 DEF ToSet
    <3> QED
      BY <2>2, <2>6, <3>1, <3>2 DEF ActeursProgress, BearsName, Written
  <2>7. CASE /\ Fill([mandats |-> With(batch, base.mandats)])
             /\ Remember(e, "mandats", [todo |-> rest])
    <3> HIDE DEF mandats
    <3>1. pc = "mandats" /\ mem = Upsert([todo |-> rest], mem0)
      BY <1>0, <2>7, RememberIs
    <3>2. size \in 0..Len(todo)
      <4>1. MandatBatch \in Nat \ {0} /\ Len(todo) \in Nat
        BY <2>2, ActeursAssumption
      <4> QED
        BY <4>1, MinOfTwo
    <3> HIDE DEF size
    <3>3. /\ batch \in Seq(mandats) /\ rest \in Seq(mandats)
          /\ \A m \in ToSet(todo) : m \in ToSet(batch) \/ m \in ToSet(rest)
      BY <2>2, <3>2, SplitAt
    <3> HIDE DEF batch, rest
    <3>4. /\ "organes" \in DOMAIN mem /\ mem.organes = mem0.organes
          /\ "todo" \in DOMAIN mem /\ mem.todo = rest
      BY <2>2, <3>1 DEF Upsert
    <3>5. ToSet(batch) \subseteq mandats
      BY <3>3 DEF ToSet
    <3>6. base'.mandats = With(batch, base.mandats) /\ base'.persons = base.persons
      <4> DEFINE table == With(batch, base.mandats)
      <4> HIDE DEF table
      <4>1. Fill([mandats |-> table])
        BY <2>7 DEF table
      <4>2. base'.mandats = table /\ base'.persons = base.persons
        BY <1>0, <4>1, TablesExist DEF Fill, Upsert
      <4> QED
        BY <4>2 DEF table
    <3>7. \A m \in mandats : m \in ToSet(rest) \/ Written(m)'
      <4> SUFFICES ASSUME NEW m \in mandats, m \notin ToSet(rest)
                   PROVE  Written(m)'
        OBVIOUS
      <4>1. m \in ToSet(batch) \/ (m.uid \in DOMAIN base.mandats /\ base.mandats[m.uid] = m)
        BY <2>2, <3>3 DEF Written
      <4> DEFINE table == base.mandats
      <4>2. m \in ToSet(batch) \/ (m.uid \in DOMAIN table /\ table[m.uid] = m)
        BY <4>1
      <4> HIDE DEF table
      <4>3. m.uid \in DOMAIN With(batch, table) /\ With(batch, table)[m.uid] = m
        BY <2>3, <3>5, <4>2, BatchWritten
      <4> QED
        BY <3>6, <4>3 DEF Written, table
    <3>8. \A a \in ToSet(archive.acteurs) : BearsName(a)'
      BY <2>2, <3>6 DEF BearsName
    <3>9. ToSet(ToWrite(archive, mem.organes)) = mandats
      BY <3>4 DEF mandats
    <3> QED
      BY <2>2, <2>4, <3>1, <3>3, <3>4, <3>7, <3>8, <3>9 DEF ActeursProgress
  <2>8. CASE Refuse(e)
    <3>1. pc \in Outcomes
      BY <1>0, <2>8, RefuseGives, AbortIs
    <3> QED
      BY <3>1 DEF ActeursProgress, Outcomes
  <2> QED
    BY <2>5, <2>6, <2>7, <2>8
<1> QED
  BY <1>1, <1>2, <1>3, <1>4 DEF Acteurs
-----------------------------------------------------------------------------
(* assign_slugs.                                                             *)

\* The first of a sequence, then the rest.
LEMMA HeadThenTail ==
  ASSUME NEW s, s \in Seq(ToSet(s)), s # <<>>
  PROVE  /\ Tail(s) \in Seq(ToSet(s)) /\ Tail(s) \in Seq(ToSet(Tail(s)))
         /\ Len(Tail(s)) = Len(s) - 1 /\ \A i \in 1..(Len(s) - 1) : Tail(s)[i] = s[i + 1]
         /\ \A x \in ToSet(s) : x = Head(s) \/ x \in ToSet(Tail(s))
<1> DEFINE S == ToSet(s)
<1> HIDE DEF S
<1>0. s \in Seq(S)
  BY DEF S
<1>1. Tail(s) \in Seq(S) /\ Len(Tail(s)) = Len(s) - 1 /\ Head(s) = s[1]
      /\ \A i \in 1..(Len(s) - 1) : Tail(s)[i] = s[i + 1]
  BY <1>0
<1>2. Tail(s) \in Seq(ToSet(Tail(s)))
  BY <1>1, OwnElements
<1>3. ASSUME NEW x \in ToSet(s)
      PROVE  x = Head(s) \/ x \in ToSet(Tail(s))
  <2>1. PICK i \in 1..Len(s) : s[i] = x
    BY <1>0 DEF ToSet
  <2>2. CASE i = 1
    BY <1>1, <2>1, <2>2
  <2>3. CASE i # 1
    <3>1. i - 1 \in 1..(Len(s) - 1) /\ (i - 1) + 1 = i
      BY <1>0, <2>1, <2>3
    <3>2. i - 1 \in DOMAIN Tail(s) /\ Tail(s)[i - 1] = x
      BY <1>1, <2>1, <3>1
    <3> QED
      BY <3>2 DEF ToSet
  <2> QED
    BY <2>2, <2>3
<1> QED
  BY <1>1, <1>2, <1>3 DEF S

LEMMA SlugsStep ==
  ASSUME AlwaysInv, NEW e \in Execs, Slugs(e), SlugsProgress(exec[e].pc, exec[e].mem),
         NEW pc, NEW mem, Moves(e, pc, mem)
  PROVE  SlugsProgress(pc, mem)'
<1> DEFINE mem0 == exec[e].mem
<1>0. TypeInv /\ ExecTyped
  BY DEF AlwaysInv, TypeInv
<1>1. CASE ReadSansSlug(e)
  <2>1. PICK order \in SetToSeqs(SansSlug) :
          Remember(e, "taken", [todo |-> [i \in DOMAIN order |->
                                  [id |-> order[i], row |-> base.persons[order[i]]]]])
    BY <1>1 DEF ReadSansSlug
  <2> DEFINE todo == [i \in DOMAIN order |-> [id |-> order[i], row |-> base.persons[order[i]]]]
  <2>2. IsFiniteSet(SansSlug)
    <3>1. SansSlug \subseteq DOMAIN base.persons
      BY DEF SansSlug
    <3> QED
      BY <3>1, FS_Subset DEF AlwaysInv, PersonInv
  <2>3. order \in Seq(SansSlug) /\ ToSet(order) = SansSlug
    BY <2>1, <2>2, ListsAll
  <2>4. todo \in Seq(ToSet(todo))
    <3>1. Len(order) \in Nat /\ DOMAIN order = 1..Len(order)
      BY <2>3
    <3>2. DOMAIN todo = 1..Len(order) /\ \A i \in 1..Len(order) : todo[i] \in ToSet(todo)
      BY <3>1 DEF ToSet
    <3>3. todo \in [1..Len(order) -> ToSet(todo)]
      BY <3>2
    <3> HIDE DEF todo
    <3> QED
      BY <3>1, <3>3
  <2>5. \A p \in SansSlug : \E r \in ToSet(todo) : r.id = p
    <3> SUFFICES ASSUME NEW p \in SansSlug
                 PROVE  \E r \in ToSet(todo) : r.id = p
      OBVIOUS
    <3>1. PICK i \in DOMAIN order : order[i] = p
      BY <2>3 DEF ToSet
    <3>2. todo[i].id = p /\ todo[i] \in ToSet(todo)
      BY <3>1 DEF ToSet
    <3> QED
      BY <3>2
  <2>6. SansSlug' = SansSlug
    BY <1>1 DEF ReadSansSlug, SansSlug
  <2> HIDE DEF todo
  <2>7. pc = "taken" /\ mem = Upsert([todo |-> todo], mem0)
    BY <1>0, <2>1, RememberIs DEF todo
  <2>8. "todo" \in DOMAIN mem /\ mem.todo = todo
    BY <2>7 DEF Upsert
  <2> QED
    BY <2>4, <2>5, <2>6, <2>7, <2>8 DEF SlugsProgress
<1>2. CASE ReadTaken(e)
  <2>1. pc = "slugs" /\ mem = Upsert([taken |-> DOMAIN base.slugs], mem0) /\ exec[e].pc = "taken"
    BY <1>0, <1>2, RememberIs DEF ReadTaken, At
  <2>2. SansSlug' = SansSlug
    BY <1>2 DEF ReadTaken, SansSlug
  <2>3. "todo" \in DOMAIN mem0
    BY <2>1 DEF SlugsProgress
  <2>4. "todo" \in DOMAIN mem /\ mem.todo = mem0.todo
    BY <2>1, <2>3 DEF Upsert
  <2> QED
    BY <2>1, <2>2, <2>4 DEF SlugsProgress
<1>3. CASE InsertSlug(e)
  <2>0. exec[e].pc = "slugs"
    BY <1>3 DEF InsertSlug, At
  <2>1. CASE Refuse(e)
    <3>1. pc \in Outcomes
      BY <1>0, <2>1, RefuseGives, AbortIs
    <3> QED
      BY <3>1 DEF SlugsProgress, Outcomes
  <2>2. CASE base' = base /\ mem0.todo = <<>> /\ Goto(e, "finish")
    <3>1. pc = "finish"
      BY <1>0, <2>2, GotoIs
    <3>2. SansSlug = {}
      BY <2>0, <2>2 DEF SlugsProgress, ToSet
    <3>3. SansSlug' = SansSlug
      BY <2>2 DEF SansSlug
    <3> QED
      BY <3>1, <3>2, <3>3 DEF SlugsProgress
  <2>3. ASSUME NEW person, NEW slug, InsertsSlug(e, person, slug)
        PROVE  SlugsProgress(pc, mem)'
    <3> DEFINE rest == Tail(mem0.todo)
    <3>1. pc = "slugs" /\ mem = Upsert([todo |-> rest, taken |-> mem0.taken \cup {slug}], mem0)
      BY <1>0, <2>3, RememberIs DEF InsertsSlug
    <3>2. /\ mem0.todo \in Seq(ToSet(mem0.todo)) /\ mem0.todo # <<>> /\ Head(mem0.todo).id = person
          /\ \A p \in SansSlug : \E r \in ToSet(mem0.todo) : r.id = p
      BY <2>0, <2>3 DEF SlugsProgress, InsertsSlug
    <3>3. /\ rest \in Seq(ToSet(rest))
          /\ \A x \in ToSet(mem0.todo) : x = Head(mem0.todo) \/ x \in ToSet(rest)
      BY <3>2, HeadThenTail
    <3> HIDE DEF rest
    <3>4. "todo" \in DOMAIN mem /\ mem.todo = rest
      BY <3>1 DEF Upsert
    <3>5. \A p \in SansSlug' : p \in SansSlug /\ p # person
      <4>1. base'.persons = base.persons
        BY <2>3 DEF InsertsSlug
      <4>2. /\ slug \in DOMAIN base'.slugs /\ base'.slugs[slug] = person
            /\ \A s \in DOMAIN base.slugs :
                 s \in DOMAIN base'.slugs /\ base'.slugs[s] = base.slugs[s]
        BY <2>3, OneMoreSlug
      <4> QED
        BY <4>1, <4>2 DEF SansSlug
    <3>6. \A p \in SansSlug' : \E r \in ToSet(rest) : r.id = p
      BY <3>2, <3>3, <3>5
    <3> QED
      BY <3>1, <3>3, <3>4, <3>6 DEF SlugsProgress
  <2> QED
    BY <1>0, <1>3, <2>1, <2>2, <2>3, InsertSlugGives
<1> QED
  BY <1>1, <1>2, <1>3 DEF Slugs
-----------------------------------------------------------------------------
(* seed_candidates.                                                          *)

\* What is left of a file once `n` entries are resolved.
LEMMA Left ==
  ASSUME NEW s, s \in Seq(ToSet(s)), NEW n \in Nat, n <= Len(s),
         NEW t, t = SubSeq(s, n + 1, Len(s))
  PROVE  /\ t = <<>> => n = Len(s)
         /\ t # <<>> => /\ n + 1 <= Len(s) /\ Head(t) = s[n + 1]
                        /\ Tail(t) = SubSeq(s, n + 1 + 1, Len(s))
<1> DEFINE S == ToSet(s)
<1> HIDE DEF S
<1>0. s \in Seq(S) /\ Len(s) \in Nat /\ DOMAIN s = 1..Len(s) /\ \A i \in 1..Len(s) : s[i] \in S
  BY DEF S
<1>1. t \in Seq(S) /\ Len(t) = Len(s) - n /\ \A i \in 1..(Len(s) - n) : t[i] = s[n + i]
  <2>1. \A i \in (n + 1)..Len(s) : s[i] \in S
    BY <1>0
  <2>2. /\ t \in Seq(S) /\ Len(t) = IF n + 1 <= Len(s) THEN Len(s) - (n + 1) + 1 ELSE 0
        /\ \A i \in 1..Len(s) - (n + 1) + 1 : t[i] = s[n + 1 + i - 1]
    BY <1>0, <2>1, SubSeqProperties
  <2>3. \A k \in Nat : n <= k => /\ k - (n + 1) + 1 = k - n
                                 /\ ~(n + 1 <= k) => k - n = 0
                                 /\ \A i \in 1..(k - n) : n + 1 + i - 1 = n + i
    OBVIOUS
  <2>4. Len(t) = Len(s) - n
    BY <1>0, <2>2, <2>3
  <2>5. ASSUME NEW i \in 1..(Len(s) - n)
        PROVE  t[i] = s[n + i]
    <3>1. i \in 1..Len(s) - (n + 1) + 1 /\ n + 1 + i - 1 = n + i
      BY <1>0, <2>3
    <3>2. t[i] = s[n + 1 + i - 1]
      BY <2>2, <3>1
    <3> QED
      BY <3>1, <3>2
  <2> QED
    BY <2>2, <2>4, <2>5
<1>a. \A k, l \in Nat : k = l - n => (k = 0 => n = l) /\ (k # 0 => k >= 1 /\ n + 1 <= l)
  OBVIOUS
<1>b. Len(t) \in Nat /\ (Len(t) = 0 <=> t = <<>>)
  <2>1. t \in Seq(S)
    BY <1>1
  <2>2. Len(t) \in Nat /\ Len(<<>>) = 0 /\ (t # <<>> => Len(t) # 0)
    BY <2>1, EmptySeq, LenProperties
  <2> QED
    BY <2>2
<1>2. CASE t = <<>>
  BY <1>0, <1>1, <1>2, <1>a, <1>b
<1>3. CASE t # <<>>
  <2>1. Len(t) >= 1 /\ n + 1 <= Len(s)
    BY <1>0, <1>1, <1>3, <1>a, <1>b
  <2>2. Head(t) = s[n + 1]
    BY <1>0, <1>1, <1>3, <2>1
  <2> DEFINE u == SubSeq(s, n + 1 + 1, Len(s))
  <2>3. /\ u \in Seq(S) /\ Len(u) = IF n + 1 + 1 <= Len(s) THEN Len(s) - (n + 1 + 1) + 1 ELSE 0
        /\ \A i \in 1..Len(s) - (n + 1 + 1) + 1 : u[i] = s[n + 1 + 1 + i - 1]
    <3>1. \A i \in (n + 1 + 1)..Len(s) : s[i] \in S
      BY <1>0
    <3> QED
      BY <1>0, <3>1, SubSeqProperties
  <2> HIDE DEF u
  <2>4. \A k \in Nat : n + 1 <= k => /\ k - (n + 1 + 1) + 1 = k - n - 1
                                     /\ ~(n + 1 + 1 <= k) => k - n - 1 = 0
                                     /\ \A i \in 1..(k - n - 1) : n + 1 + 1 + i - 1 = n + (i + 1)
    OBVIOUS
  <2>5. Len(u) = Len(s) - n - 1
    BY <1>0, <2>1, <2>3, <2>4
  <2>6. Tail(t) \in Seq(S) /\ Len(Tail(t)) = Len(s) - n - 1
        /\ \A i \in 1..(Len(s) - n - 1) : Tail(t)[i] = t[i + 1]
    BY <1>0, <1>1, <1>3, <2>1
  <2>7. ASSUME NEW i \in 1..(Len(s) - n - 1)
        PROVE  Tail(t)[i] = u[i]
    <3>1. i \in 1..Len(s) - (n + 1 + 1) + 1 /\ n + 1 + 1 + i - 1 = n + (i + 1)
      BY <1>0, <2>1, <2>4
    <3>2. i + 1 \in 1..(Len(s) - n)
      BY <1>0
    <3> QED
      BY <1>1, <2>3, <2>6, <3>1, <3>2
  <2>8. Tail(t) = u
    BY <1>0, <2>3, <2>5, <2>6, <2>7, SeqEqual
  <2> QED
    BY <1>3, <2>1, <2>2, <2>8 DEF u
<1> QED
  BY <1>2, <1>3

\* One more entry has its person.
LEMMA OneMoreResolved ==
  ASSUME NEW entries, NEW persons, persons \in Seq(ToSet(persons)), Len(persons) + 1 <= Len(entries),
         NEW created, NEW more, created \subseteq more,
         AllResolve(persons, entries, created),
         NEW v, Resolves(v, entries[Len(persons) + 1], more)
  PROVE  Len(Append(persons, v)) = Len(persons) + 1 /\ AllResolve(Append(persons, v), entries, more)
<1> DEFINE all == Append(persons, v)
           S   == ToSet(persons) \cup {v}
<1>1. persons \in Seq(S) /\ v \in S
  <2>1. ToSet(persons) \subseteq S
    OBVIOUS
  <2> HIDE DEF S
  <2>2. persons \in Seq(S)
    BY <2>1
  <2> QED
    BY <2>2 DEF S
<1> HIDE DEF S
<1>2. Len(persons) \in Nat /\ Len(all) = Len(persons) + 1
      /\ all[Len(persons) + 1] = v /\ \A i \in 1..Len(persons) : all[i] = persons[i]
  BY <1>1
<1> HIDE DEF all
<1>3. ASSUME NEW i \in 1..Len(all)
      PROVE  Resolves(all[i], entries[i], more)
  <2>1. CASE i = Len(persons) + 1
    BY <1>2, <2>1
  <2>2. CASE i \in 1..Len(persons)
    <3>1. Resolves(persons[i], entries[i], created)
      BY <2>2 DEF AllResolve
    <3> QED
      BY <1>2, <2>2, <3>1 DEF Resolves
  <2> QED
    BY <1>2, <2>1, <2>2
<1> QED
  BY <1>2, <1>3 DEF all, AllResolve
LEMMA CandidatesStep ==
  ASSUME AlwaysInv, NEW e \in Execs, Candidates(e), NEW entries, entries = exec[e].input.entries,
         SeedProgress(exec[e].pc, exec[e].mem, entries),
         NEW pc, NEW mem, Moves(e, pc, mem)
  PROVE  SeedProgress(pc, mem, entries)'
<1> DEFINE mem0 == exec[e].mem
<1>0. /\ TypeInv /\ ExecTyped /\ SeedInv /\ entries \in Seq(ToSet(entries))
      /\ Seeded(exec[e].pc, mem0, ToSet(entries))
  BY CandidatesGive, PersonnesAssumption DEF AlwaysInv, TypeInv, ExecTyped, SeedInv, Seeding
<1>a. ASSUME Leaves(e)
      PROVE  SeedProgress(pc, mem, entries)'
  <2>1. pc \in Outcomes
    BY <1>a, AbortIs
  <2> QED
    BY <2>1 DEF SeedProgress, Outcomes
<1>b. ASSUME base' = base
      PROVE  /\ base.candidates' = base.candidates
             /\ \A persons, created :
                  AllResolve(persons, entries, created)' = AllResolve(persons, entries, created)
  BY <1>b DEF AllResolve, Resolves, Designated
<1>c. ASSUME exec[e].pc \in {"lookup", "insert", "delete", "deleting", "commit"}
      PROVE  /\ Facts \subseteq DOMAIN mem0 /\ mem0.persons \in Seq(ToSet(mem0.persons))
             /\ Len(mem0.persons) \in Nat /\ Len(mem0.persons) <= Len(entries)
             /\ AllResolve(mem0.persons, entries, mem0.created)
  <2>1. Facts \subseteq DOMAIN mem0 /\ mem0.persons \in Seq(ToSet(mem0.persons))
    BY <1>0, <1>c DEF Seeded
  <2>2. Len(mem0.persons) \in Nat
    BY <2>1
  <2> QED
    BY <1>c, <2>1, <2>2 DEF SeedProgress
\* Once the next entry has its person.
<1>d. ASSUME exec[e].pc \in {"lookup", "insert"}, mem0.todo # <<>>, base' = base, pc = "lookup",
             NEW v, NEW more, mem0.created \subseteq more, Resolves(v, Head(mem0.todo), more),
             mem.persons = Append(mem0.persons, v), mem.todo = Tail(mem0.todo), mem.created = more
      PROVE  SeedProgress(pc, mem, entries)'
  <2> DEFINE n == Len(mem0.persons)
  <2>1. mem0.todo = SubSeq(entries, n + 1, Len(entries))
    BY <1>d DEF SeedProgress
  <2>2. n \in Nat /\ n <= Len(entries)
    BY <1>c, <1>d
  <2>3. n + 1 <= Len(entries) /\ Head(mem0.todo) = entries[n + 1]
        /\ Tail(mem0.todo) = SubSeq(entries, n + 1 + 1, Len(entries))
    <3> HIDE DEF n
    <3> QED
      BY <1>0, <1>d, <2>1, <2>2, Left
  <2>4. Len(mem.persons) = n + 1 /\ AllResolve(mem.persons, entries, more)
    <3> DEFINE persons == mem0.persons
               created == mem0.created
    <3>1. persons \in Seq(ToSet(persons)) /\ AllResolve(persons, entries, created)
          /\ created \subseteq more /\ mem.persons = Append(persons, v)
      BY <1>c, <1>d
    <3>2. Len(persons) + 1 <= Len(entries) /\ Resolves(v, entries[Len(persons) + 1], more)
      BY <1>d, <2>3
    <3> HIDE DEF persons, created
    <3>3. Len(Append(persons, v)) = Len(persons) + 1 /\ AllResolve(Append(persons, v), entries, more)
      BY <3>1, <3>2, OneMoreResolved
    <3> QED
      BY <3>1, <3>3 DEF persons
  <2>5. AllResolve(mem.persons, entries, mem.created)'
    BY <1>b, <1>d, <2>4
  <2> HIDE DEF n
  <2> QED
    BY <1>d, <2>3, <2>4, <2>5 DEF SeedProgress
<1>1. CASE ReadFile(e)
  <2> DEFINE facts == [todo |-> entries, persons |-> <<>>,
                       created |-> {}, written |-> {}, deleted |-> {}]
  <2>1. Fail(e) \/ (Remember(e, "lookup", facts) /\ base' = base)
    BY <1>1 DEF ReadFile
  <2>2. CASE Remember(e, "lookup", facts) /\ base' = base
    <3>1. pc = "lookup" /\ mem = Upsert(facts, mem0)
      BY <1>0, <2>2, RememberIs
    <3>2. mem.todo = entries /\ mem.persons = <<>>
      BY <3>1 DEF Upsert
    <3>3. Len(entries) \in Nat /\ SubSeq(entries, 1, Len(entries)) = entries /\ Len(<<>>) = 0
      BY <1>0
    <3>4. Len(mem.persons) = 0 /\ 0 <= Len(entries) /\ 0 + 1 = 1 /\ 1..0 = {}
      BY <3>2, <3>3
    <3>5. AllResolve(mem.persons, entries, mem.created)'
      BY <3>4 DEF AllResolve
    <3> QED
      BY <3>1, <3>2, <3>3, <3>4, <3>5 DEF SeedProgress
  <2> QED
    BY <1>0, <1>a, <2>1, <2>2, FailGives
<1>2. CASE LookupPerson(e)
  <2> DEFINE found == Designated(Head(mem0.todo), base.persons)
             p     == CHOOSE q \in found : TRUE
             facts == [todo |-> Tail(mem0.todo), persons |-> Append(mem0.persons, p)]
  <2>1. exec[e].pc = "lookup" /\ mem0.todo # <<>>
    BY <1>2 DEF LookupPerson, At
  <2>2. \/ found # {} /\ Remember(e, "lookup", facts) /\ base' = base
        \/ Goto(e, "insert") /\ base' = base
        \/ Fail(e)
    BY <1>2 DEF LookupPerson
  <2>3. CASE found # {} /\ Remember(e, "lookup", facts) /\ base' = base
    <3>1. pc = "lookup" /\ mem = Upsert(facts, mem0)
      BY <1>0, <2>3, RememberIs
    <3>2. Resolves(p, Head(mem0.todo), mem0.created)
      BY <2>3 DEF Resolves
    <3> HIDE DEF p
    <3>3. mem.todo = Tail(mem0.todo) /\ mem.persons = Append(mem0.persons, p)
          /\ mem.created = mem0.created
      BY <1>c, <2>1, <3>1 DEF Upsert, Facts
    <3> QED
      BY <1>d, <2>1, <2>3, <3>1, <3>2, <3>3
  <2>4. CASE Goto(e, "insert") /\ base' = base
    <3>1. pc = "insert" /\ mem = mem0
      BY <1>0, <2>4, GotoIs
    <3>2. AllResolve(mem.persons, entries, mem.created)'
      BY <1>b, <1>c, <2>1, <2>4, <3>1
    <3> QED
      BY <2>1, <3>1, <3>2 DEF SeedProgress
  <2> QED
    BY <1>0, <1>a, <2>2, <2>3, <2>4, FailGives
<1>3. CASE InsertPerson(e)
  <2> DEFINE q     == Head(mem0.todo).qid
             facts == [todo |-> Tail(mem0.todo), persons |-> Append(mem0.persons, q),
                       created |-> mem0.created \cup {q}]
  <2>1. exec[e].pc = "insert" /\ mem0.todo # <<>>
    BY <1>0, <1>3 DEF InsertPerson, At, Seeded
  <2>2. (Remember(e, "lookup", facts) /\ base' = base) \/ Refuse(e)
    BY <1>3 DEF InsertPerson
  <2>3. CASE Remember(e, "lookup", facts) /\ base' = base
    <3>1. pc = "lookup" /\ mem = Upsert(facts, mem0)
      BY <1>0, <2>3, RememberIs
    <3>2. Resolves(q, Head(mem0.todo), mem0.created \cup {q})
      BY DEF Resolves
    <3> HIDE DEF q
    <3>3. mem.todo = Tail(mem0.todo) /\ mem.persons = Append(mem0.persons, q)
          /\ mem.created = mem0.created \cup {q}
      BY <3>1 DEF Upsert
    <3> QED
      BY <1>d, <2>1, <2>3, <3>1, <3>2, <3>3
  <2> QED
    BY <1>0, <1>a, <2>2, <2>3, RefuseGives
<1>4. CASE UpsertCandidates(e)
  <2> DEFINE named == ToSet(mem0.persons)
  <2>1. exec[e].pc = "lookup" /\ mem0.todo = <<>>
    BY <1>4 DEF UpsertCandidates, At
  <2>2. \/ Fail(e)
        \/ /\ Cardinality(named) = Len(mem0.persons)
           /\ Remember(e, "delete", [written |-> named]) /\ base' = base
    BY <1>4 DEF UpsertCandidates
  <2>3. CASE /\ Cardinality(named) = Len(mem0.persons)
             /\ Remember(e, "delete", [written |-> named]) /\ base' = base
    <3>1. pc = "delete" /\ mem = Upsert([written |-> named], mem0)
      BY <1>0, <2>3, RememberIs
    <3>2. mem0.todo = SubSeq(entries, Len(mem0.persons) + 1, Len(entries))
      BY <2>1 DEF SeedProgress
    <3>3. Len(mem0.persons) = Len(entries)
      BY <1>0, <1>c, <2>1, <3>2, Left
    <3> HIDE DEF named
    <3>4. mem.written = named /\ mem.persons = mem0.persons /\ mem.created = mem0.created
      BY <1>c, <2>1, <3>1 DEF Upsert, Facts
    <3>5. AllResolve(mem.persons, entries, mem.created)'
      BY <1>b, <1>c, <2>1, <2>3, <3>4
    <3>6. Len(mem.persons) = Len(entries) /\ Len(mem.persons) <= Len(entries)
          /\ mem.written = ToSet(mem.persons) /\ Cardinality(mem.written) = Len(entries)
      BY <1>c, <2>1, <2>3, <3>3, <3>4 DEF named
    <3> QED
      BY <3>1, <3>5, <3>6 DEF SeedProgress
  <2> QED
    BY <1>0, <1>a, <2>2, <2>3, FailGives
<1>5. CASE DeleteOthers(e)
  <2> DEFINE aim == base.candidates \ mem0.written
  <2>1. exec[e].pc = "delete" /\ Remember(e, "deleting", [aim |-> aim]) /\ base' = base
    BY <1>5 DEF DeleteOthers, At
  <2> HIDE DEF aim
  <2>2. pc = "deleting" /\ mem = Upsert([aim |-> aim], mem0)
    BY <1>0, <2>1, RememberIs
  <2>3. mem.aim = aim /\ mem.written = mem0.written /\ mem.persons = mem0.persons
        /\ mem.created = mem0.created
    BY <1>c, <2>1, <2>2 DEF Upsert, Facts
  <2>4. AllResolve(mem.persons, entries, mem.created)'
    BY <1>b, <1>c, <2>1, <2>3
  <2>5. mem.aim = base.candidates' \ mem.written
    BY <1>b, <2>1, <2>3 DEF aim
  <2> QED
    BY <2>1, <2>2, <2>3, <2>4, <2>5 DEF SeedProgress
<1>6. CASE EndDelete(e)
  <2>1. exec[e].pc = "deleting" /\ Remember(e, "commit", [deleted |-> mem0.aim]) /\ base' = base
    BY <1>6 DEF EndDelete, At
  <2>2. pc = "commit" /\ mem = Upsert([deleted |-> mem0.aim], mem0)
    BY <1>0, <2>1, RememberIs
  <2>3. mem.deleted = mem0.aim /\ mem.written = mem0.written /\ mem.persons = mem0.persons
        /\ mem.created = mem0.created
    BY <1>c, <2>1, <2>2 DEF Upsert, Facts
  <2>4. AllResolve(mem.persons, entries, mem.created)'
    BY <1>b, <1>c, <2>1, <2>3
  <2>5. mem.deleted = base.candidates' \ mem.written
    BY <1>b, <2>1, <2>3 DEF SeedProgress
  <2> QED
    BY <2>1, <2>2, <2>3, <2>4, <2>5 DEF SeedProgress
<1>7. CASE CommitSeed(e)
  <2>1. exec[e].pc = "commit" /\ Remember(e, "finish", [created |-> {}, written |-> {}, deleted |-> {}])
    BY <1>7 DEF CommitSeed, At
  <2>2. pc = "finish"
    BY <1>0, <2>1, RememberIs
  <2>3. base'.candidates = mem0.written
    <3>1. base'.candidates = (base.candidates \ mem0.deleted) \cup mem0.written
      BY <1>0, <1>7, CommitGives
    <3>2. mem0.deleted = base.candidates \ mem0.written
      BY <2>1 DEF SeedProgress
    <3> QED
      BY <3>1, <3>2
  <2>4. /\ Len(mem0.persons) = Len(entries) /\ mem0.written = ToSet(mem0.persons)
        /\ Cardinality(mem0.written) = Len(entries)
    BY <2>1 DEF SeedProgress
  <2>5. ASSUME NEW x \in ToSet(entries)
        PROVE  Designated(x, base.persons)' \cap base'.candidates # {}
    <3>1. PICK i \in 1..Len(entries) : entries[i] = x
      BY <1>0 DEF ToSet
    <3> DEFINE p == mem0.persons[i]
    <3>2. Resolves(p, x, mem0.created)
      BY <1>c, <2>1, <2>4, <3>1 DEF AllResolve
    <3>3. p \in mem0.written
      <4>1. i \in DOMAIN mem0.persons
        BY <1>c, <2>1, <2>4
      <4> QED
        BY <2>4, <4>1 DEF ToSet
    <3> HIDE DEF p
    <3>4. CASE p \in Designated(x, base.persons)
      <4>1. p \in DOMAIN base.persons /\ base'.persons = Upsert(base.persons, Created(e))
        BY <1>0, <1>7, <3>4, CommitGives DEF Designated
      <4>2. p \in DOMAIN base'.persons /\ base'.persons[p] = base.persons[p]
        BY <4>1, UpsertWrites
      <4>3. p \in Designated(x, base.persons)'
        BY <3>4, <4>2 DEF Designated
      <4> QED
        BY <2>3, <3>3, <4>3
    <3>5. CASE p \in mem0.created /\ x.qid = p
      <4>1. /\ base'.persons = Upsert(base.persons, Created(e)) /\ p \in DOMAIN Created(e)
            /\ SeedQid(p) /\ Created(e)[p].qid = p
        BY <1>0, <1>7, <3>5, CommitGives
      <4>2. p \notin DOMAIN base.persons
        <5>1. p \in Pending(e, "created")
          BY <1>c, <2>1, <3>5, CandidatesGive, <1>0 DEF Pending, Facts
        <5>2. \A q \in DOMAIN base.persons : base.persons[q].qid # p
          BY <5>1 DEF AlwaysInv, PersonInv, Reserved
        <5> QED
          BY <4>1, <5>2 DEF AlwaysInv, PersonInv, Identified
      <4>3. p \in DOMAIN base'.persons /\ base'.persons[p].qid = p /\ p # None
        BY <4>1, <4>2, UpsertKeeps DEF SeedQid
      <4>4. p \in Designated(x, base.persons)'
        BY <3>5, <4>3 DEF Designated
      <4> QED
        BY <2>3, <3>3, <4>4
    <3> QED
      BY <3>2, <3>4, <3>5 DEF Resolves
  <2> QED
    BY <2>2, <2>3, <2>4, <2>5 DEF SeedProgress
<1> QED
  BY <1>1, <1>2, <1>3, <1>4, <1>5, <1>6, <1>7 DEF Candidates
-----------------------------------------------------------------------------
(* enrich_wikidata.                                                          *)

\* What a batch writes is written, what the batches before it wrote still is.
LEMMA QidsWritten ==
  ASSUME AlwaysInv, AlwaysInv', NEW e \in Execs, NEW batch, UpdatesBatch(e, batch)
  PROVE  \A h \in Resolved(exec[e].input) :
           /\ h \in batch \/ (h.an \in PersonsAN => HasQid(h))
           /\ h.an \in PersonsAN'
           => HasQid(h)'
<1> SUFFICES ASSUME NEW h \in Resolved(exec[e].input), h.an \in PersonsAN',
                    h \in batch \/ (h.an \in PersonsAN => HasQid(h))
             PROVE  HasQid(h)'
  OBVIOUS
<1> DEFINE changed == Changed(batch)
           after   == WithQids(changed)
           a       == h.an
<1>0. TypeInv /\ exec[e].kind = "wikidata" /\ exec[e].input \in Inputs("wikidata")
  BY WikidataGive DEF AlwaysInv, TypeInv, ExecTyped, Wikidata, UpdatesBatch
<1>1. base'.persons = after /\ \A g, k \in changed : g.an = k.an <=> g.qid = k.qid
  BY <1>0, QidsGive
<1>2. DOMAIN after = DOMAIN base.persons
  BY DEF WithQids
<1> HIDE DEF after, changed
<1>3. a \in DOMAIN base.persons /\ after[a].an # None
  BY <1>1, <1>2 DEF PersonsAN
<1>4. /\ after[a].an = base.persons[a].an
      /\ \A g \in changed : g.an = a => after[a].qid = g.qid
      /\ (\A g \in changed : g.an # a) => after[a] = base.persons[a]
  <2>1. {"an", "qid", "nom"} \subseteq DOMAIN base.persons[a]
    BY <1>3 DEF AlwaysInv, PersonInv, Identified
  <2> QED
    BY <1>1, <1>3, <2>1, RowsWithQids DEF after
<1>5. a \in PersonsAN
  BY <1>3, <1>4 DEF PersonsAN
<1>6. after[a].qid = h.qid
  <2>1. CASE h \in changed
    BY <1>4, <2>1
  <2>2. CASE h \notin changed
    <3>1. base.persons[a].qid = h.qid
      BY <1>5, <2>2 DEF Changed, changed, HasQid
    <3>2. \A g \in changed : g.an # a
      BY <3>1 DEF Changed, changed, Resolved, UpdatesBatch
    <3> QED
      BY <1>4, <3>1, <3>2
  <2> QED
    BY <2>1, <2>2
<1>7. h.qid # None
  BY <1>0, PersonnesAssumption DEF Resolved
<1>8. \A p, q \in DOMAIN after : after[p].qid = after[q].qid /\ after[p].qid # None => p = q
  BY <1>1 DEF AlwaysInv, PersonInv, QidOfOne
<1>9. {p \in DOMAIN after : after[p].qid = h.qid} = {a}
  BY <1>2, <1>3, <1>6, <1>7, <1>8
<1> QED
  BY <1>1, <1>9 DEF HasQid

LEMMA WikidataStep ==
  ASSUME AlwaysInv, AlwaysInv', NEW e \in Execs, Wikidata(e), NEW input, input = exec[e].input,
         WikidataProgress(exec[e].pc, exec[e].mem, input),
         NEW pc, NEW mem, Moves(e, pc, mem)
  PROVE  WikidataProgress(pc, mem, input)'
<1>0. TypeInv /\ ExecTyped
  BY DEF AlwaysInv, TypeInv
<1>1. ASSUME NEW batch, UpdatesBatch(e, batch)
      PROVE  WikidataProgress(pc, mem, input)'
  <2> DEFINE sent == Sent(e) \cup batch
  <2>1. exec[e].pc = "qids" /\ Remember(e, "qids", [sent |-> sent])
    BY <1>1 DEF UpdatesBatch, UpdateQids, UpdateBatch, At
  <2>2. pc = "qids" /\ mem = Upsert([sent |-> sent], exec[e].mem)
    BY <1>0, <2>1, RememberIs
  <2>3. \A h \in Sent(e) : h \in Resolved(input) /\ (h.an \in PersonsAN => HasQid(h))
    BY <2>1 DEF WikidataProgress, Sent
  <2>4. batch \subseteq Resolved(input)
    BY <1>1 DEF UpdatesBatch
  <2>5. \A h \in sent : h.an \in PersonsAN' => HasQid(h)'
    BY <1>1, <2>3, <2>4, QidsWritten
  <2> HIDE DEF sent
  <2>6. mem.sent = sent
    BY <2>2 DEF Upsert
  <2>7. sent \subseteq Resolved(input)
    BY <2>3, <2>4 DEF sent
  <2> QED
    BY <2>2, <2>5, <2>6, <2>7 DEF WikidataProgress
<1>2. CASE Refuse(e)
  <2>1. pc \in Outcomes
    BY <1>0, <1>2, RefuseGives, AbortIs
  <2> QED
    BY <2>1 DEF WikidataProgress, Outcomes
<1>3. CASE FetchKnown(e) \/ UpsertPhotos(e)
  <2>1. exec[e].pc \in {"known", "photos"}
    BY <1>3 DEF FetchKnown, UpsertPhotos, At
  <2>2. base'.persons = base.persons
    BY <1>0, <1>3, TablesExist DEF FetchKnown, UpsertPhotos, Fill, Upsert
  <2>3. (\E facts : Remember(e, "photos", facts)) \/ Goto(e, "finish")
    BY <1>3 DEF FetchKnown, UpsertPhotos
  <2>4. pc \in {"photos", "finish"}
    BY <1>0, <2>3, RememberIs, GotoIs
  <2> QED
    BY <2>1, <2>2, <2>4 DEF WikidataProgress, HasQid, PersonsAN
<1>4. ASSUME Resolved(input) \ Sent(e) = {}, At(e, "wikidata", "qids"),
             Goto(e, "known"), base' = base
      PROVE  WikidataProgress(pc, mem, input)'
  <2>1. pc = "known"
    BY <1>0, <1>4, GotoIs
  <2>2. \A h \in Sent(e) : h.an \in PersonsAN => HasQid(h)
    BY <1>4 DEF WikidataProgress, Sent, At
  <2> QED
    BY <1>4, <2>1, <2>2 DEF WikidataProgress, HasQid, PersonsAN
<1>5. CASE UpdateQids(e) /\ ~Refuse(e)
  <2>1. \/ Resolved(input) \ Sent(e) = {} /\ At(e, "wikidata", "qids") /\ Goto(e, "known") /\ base' = base
        \/ \E batch : UpdatesBatch(e, batch)
    BY <1>5 DEF UpdateQids, UpdatesBatch, kSubset
  <2> QED
    BY <1>1, <1>4, <2>1
<1> QED
  BY <1>2, <1>3, <1>5 DEF Wikidata
-----------------------------------------------------------------------------
(* The whole.                                                                *)

\* Where the execution stands when it is done is what is asked of it.
LEMMA DoneConverges ==
  ASSUME AlwaysInv, NEW e \in Execs, Progress(e), exec[e].pc = "finish", base' = base,
         last' # None, last'.kind = exec[e].kind, last'.input = exec[e].input
  PROVE  ReferentielConverges'
<1>1. ActeursConverge'
  <2>1. CASE exec[e].kind = "acteurs"
    <3>1. ActeursProgress("finish", exec[e].mem, exec[e].input)
      BY <2>1 DEF Progress
    <3>2. /\ \A a \in ToSet(exec[e].input.acteurs) : BearsName(a)
          /\ \A m \in ToSet(ToWrite(exec[e].input, DOMAIN base.organes)) : Written(m)
      BY <3>1 DEF ActeursProgress
    <3> QED
      BY <3>2 DEF ActeursConverge, Input, BearsName, Written
  <2>2. CASE exec[e].kind # "acteurs"
    BY <2>2 DEF ActeursConverge, DoneAlone
  <2> QED
    BY <2>1, <2>2
<1>2. SlugsConverge'
  <2>1. CASE exec[e].kind = "slugs"
    <3>1. SansSlug = {}
      BY <2>1 DEF Progress, SlugsProgress
    <3>2. ASSUME NEW p \in DOMAIN base.persons
          PROVE  Cardinality({s \in DOMAIN base.slugs : base.slugs[s] = p}) = 1
      <4>1. PICK s \in DOMAIN base.slugs : base.slugs[s] = p
        BY <3>1 DEF SansSlug
      <4>2. {t \in DOMAIN base.slugs : base.slugs[t] = p} = {s}
        BY <4>1 DEF AlwaysInv, SlugOfOne
      <4> QED
        BY <4>2, FS_Singleton
    <3> QED
      BY <3>2 DEF SlugsConverge
  <2>2. CASE exec[e].kind # "slugs"
    BY <2>2 DEF SlugsConverge, DoneAlone
  <2> QED
    BY <2>1, <2>2
<1>3. SeedConverges'
  <2>1. CASE exec[e].kind = "candidates"
    <3>1. LET entries == exec[e].input.entries
          IN  /\ \A x \in ToSet(entries) : Designated(x, base.persons) \cap base.candidates # {}
              /\ Cardinality(base.candidates) = Len(entries)
      BY <2>1 DEF Progress, SeedProgress
    <3> QED
      BY <3>1 DEF SeedConverges, Input
  <2>2. CASE exec[e].kind # "candidates"
    BY <2>2 DEF SeedConverges, DoneAlone
  <2> QED
    BY <2>1, <2>2
<1>4. WikidataConverges'
  <2>1. CASE exec[e].kind = "wikidata"
    <3>1. \A h \in Resolved(exec[e].input) : h.an \in PersonsAN => HasQid(h)
      BY <2>1 DEF Progress, WikidataProgress
    <3> QED
      BY <3>1 DEF WikidataConverges, Input, HasQid, PersonsAN
  <2>2. CASE exec[e].kind # "wikidata"
    BY <2>2 DEF WikidataConverges, DoneAlone
  <2> QED
    BY <2>1, <2>2
<1> QED
  BY <1>1, <1>2, <1>3, <1>4 DEF ReferentielConverges

LEMMA ProgressStep ==
  ASSUME AlwaysInv, AlwaysInv', NEW e \in Execs, Jobs(e), Progress(e),
         NEW pc, NEW mem, Moves(e, pc, mem)
  PROVE  Progress(e)'
<1> DEFINE kind  == exec[e].kind
           input == exec[e].input
<1>0. /\ TypeInv /\ exec'[e].kind = kind /\ exec'[e].input = input
      /\ exec'[e].pc = pc /\ exec'[e].mem = mem
  BY DEF Moves, AlwaysInv
<1>1. CASE Acteurs(e)
  <2>1. kind = "acteurs" /\ ActeursProgress(exec[e].pc, exec[e].mem, input)
    BY <1>0, <1>1, ActeursGive DEF Progress
  <2>2. ActeursProgress(pc, mem, exec[e].input)'
    <3>1. \A archive : archive = exec[e].input => ActeursProgress(pc, mem, archive)'
      BY <1>1, <2>1, ActeursStep
    <3>2. PICK archive : archive = exec[e].input
      OBVIOUS
    <3> QED
      BY <1>0, <3>1, <3>2
  <2> QED
    BY <1>0, <2>1, <2>2 DEF Progress
<1>2. CASE Slugs(e)
  <2>1. kind = "slugs" /\ SlugsProgress(exec[e].pc, exec[e].mem)
    BY <1>0, <1>2, SlugsGive DEF Progress
  <2>2. SlugsProgress(pc, mem)'
    BY <1>2, <2>1, SlugsStep
  <2> QED
    BY <1>0, <2>1, <2>2 DEF Progress
<1>3. CASE Candidates(e)
  <2>1. kind = "candidates" /\ SeedProgress(exec[e].pc, exec[e].mem, input.entries)
    BY <1>0, <1>3, CandidatesGive DEF Progress
  <2>2. SeedProgress(pc, mem, exec[e].input.entries)'
    <3>1. \A entries : entries = exec[e].input.entries => SeedProgress(pc, mem, entries)'
      BY <1>3, <2>1, CandidatesStep
    <3>2. PICK entries : entries = exec[e].input.entries
      OBVIOUS
    <3> QED
      BY <1>0, <3>1, <3>2
  <2> QED
    BY <1>0, <2>1, <2>2 DEF Progress
<1>4. CASE Wikidata(e)
  <2>1. kind = "wikidata" /\ WikidataProgress(exec[e].pc, exec[e].mem, input)
    BY <1>0, <1>4, WikidataGive DEF Progress
  <2>2. WikidataProgress(pc, mem, exec[e].input)'
    <3>1. \A query : query = exec[e].input => WikidataProgress(pc, mem, query)'
      BY <1>4, <2>1, WikidataStep
    <3>2. PICK query : query = exec[e].input
      OBVIOUS
    <3> QED
      BY <1>0, <3>1, <3>2
  <2> QED
    BY <1>0, <2>1, <2>2 DEF Progress
<1>5. CASE Scrutins(e)
  <2>1. kind = "scrutins"
    BY <1>0, <1>5, ScrutinsGive
  <2> QED
    BY <1>0, <2>1 DEF Progress
<1> QED
  BY <1>1, <1>2, <1>3, <1>4, <1>5 DEF Jobs

LEMMA ConvergeStep ==
  AlwaysInv /\ AlwaysInv' /\ LastInv /\ ConvergeInv /\ [Next]_vars => ConvergeInv'
<1> SUFFICES ASSUME AlwaysInv, AlwaysInv', LastInv, ConvergeInv, [Next]_vars, last' # None
             PROVE  ConvergeInv'
  BY DEF ConvergeInv
<1>0. TypeInv
  BY DEF AlwaysInv
<1>1. CASE UNCHANGED vars
  <2>1. base' = base /\ exec' = exec /\ last' = last
    BY <1>1 DEF vars
  <2>2. ReferentielConverges' = ReferentielConverges
    BY <2>1 DEF ReferentielConverges, ActeursConverge, SlugsConverge, SeedConverges,
                WikidataConverges, DoneAlone, Input, Designated, PersonsAN
  <2>3. \A e : Progress(e)' = Progress(e)
    BY <2>1 DEF Progress, ActeursProgress, SlugsProgress, SeedProgress, WikidataProgress,
                BearsName, Written, SansSlug, AllResolve, Resolves, Designated, HasQid, PersonsAN
  <2> QED
    BY <2>1, <2>2, <2>3 DEF ConvergeInv
<1>2. ASSUME NEW e \in Execs, Start(e)
      PROVE  ConvergeInv'
  <2>1. PICK kind \in DOMAIN FirstStep : \E input :
          /\ exec'[e] = [kind |-> kind, input |-> input, pc |-> FirstStep[kind], mem |-> NoRow]
          /\ last' = [exec |-> e, kind |-> kind, input |-> input, done |-> FALSE]
    BY <1>0, <1>2, StartLast
  <2>2. exec'[e].kind = kind /\ exec'[e].pc = FirstStep[kind] /\ last'.exec = e /\ last'.done = FALSE
    BY <2>1
  <2>3. Progress(e)'
    <3>1. /\ kind = "acteurs" => exec'[e].pc = "archive_organes"
          /\ kind = "slugs" => exec'[e].pc = "persons"
          /\ kind = "candidates" => exec'[e].pc = "file"
          /\ kind = "wikidata" => exec'[e].pc = "qids"
      BY <2>2 DEF FirstStep
    <3>2. kind = "acteurs" => ActeursProgress(exec[e].pc, exec[e].mem, exec[e].input)'
      BY <3>1 DEF ActeursProgress
    <3>3. kind = "slugs" => SlugsProgress(exec[e].pc, exec[e].mem)'
      BY <3>1 DEF SlugsProgress
    <3>4. kind = "candidates" => SeedProgress(exec[e].pc, exec[e].mem, exec[e].input.entries)'
      BY <3>1 DEF SeedProgress
    <3>5. kind = "wikidata" => WikidataProgress(exec[e].pc, exec[e].mem, exec[e].input)'
      BY <2>1, <3>1 DEF WikidataProgress, NoRow
    <3> QED
      BY <2>2, <3>2, <3>3, <3>4, <3>5 DEF Progress
  <2> QED
    BY <2>2, <2>3 DEF ConvergeInv
<1>3. ASSUME NEW e \in Execs, Finish(e)
      PROVE  ConvergeInv'
  <2>1. Active(e) /\ base' = base /\ exec[e].pc = "finish"
    BY <1>0, <1>3, FinishGives DEF Finish
  <2>2. last # None
    BY <1>3 DEF Finish, IsLast
  <2>3. /\ last.exec = e /\ ~last.done /\ exec[e].kind = last.kind /\ exec[e].input = last.input
        /\ DOMAIN last = {"exec", "kind", "input", "done"}
    BY <2>1, <2>2 DEF LastInv
  <2>4. last' = [last EXCEPT !.done = TRUE]
    BY <1>3, <2>2, <2>3 DEF Finish, IsLast
  <2>5. last'.kind = exec[e].kind /\ last'.input = exec[e].input /\ last'.done = TRUE
    BY <2>3, <2>4
  <2>6. ReferentielConverges'
    BY <2>1, <2>2, <2>3, <2>5, DoneConverges DEF ConvergeInv
  <2> QED
    BY <2>5, <2>6 DEF ConvergeInv
<1>4. ASSUME NEW e \in Execs, Break(e) \/ Jobs(e)
      PROVE  ConvergeInv'
  <2>1. Active(e) /\ (Aborts(e) \/ (Jobs(e) /\ \E pc, mem : Moves(e, pc, mem)))
    BY <1>0, <1>4, BreakGives, JobsGive DEF Advances
  <2>2. CASE Aborts(e)
    <3>1. last # None /\ last.exec # e
      BY <2>2 DEF Aborts, IsLast
    <3> QED
      BY <2>1, <3>1 DEF LastInv
  <2>3. ASSUME Jobs(e), NEW pc, NEW mem, Moves(e, pc, mem)
        PROVE  ConvergeInv'
    <3>1. last' = last
      BY <2>3 DEF Moves
    <3>2. last.exec = e /\ ~last.done
      BY <2>1, <3>1 DEF LastInv
    <3>3. Progress(e)
      BY <3>1, <3>2 DEF ConvergeInv
    <3>4. Progress(e)'
      BY <2>3, <3>3, ProgressStep
    <3> QED
      BY <3>1, <3>2, <3>4 DEF ConvergeInv
  <2> QED
    BY <2>1, <2>2, <2>3
<1> QED
  BY <1>1, <1>2, <1>3, <1>4 DEF Next, Jobs

\* Whatever failed, died or overlapped before, and whatever the archive, an
\* execution that runs alone to its end leaves what its input says
\* (ReferentielConverges): the upserts of ingest_acteurs, the slugs of everyone,
\* the candidates of the file, the qids of the persons Wikidata is sure of.
THEOREM ReferentielConvergesCorrect == Spec => []ReferentielConverges
<1> DEFINE Inv == AlwaysInv /\ LastInv /\ ConvergeInv
<1>1. Init => Inv
  <2> SUFFICES ASSUME Init
               PROVE  LastInv /\ ConvergeInv
    BY AlwaysInit
  <2>1. last = None
    BY DEF Init
  <2> QED
    BY <2>1 DEF LastInv, ConvergeInv
<1>2. Inv /\ [Next]_vars => Inv'
  <2> SUFFICES ASSUME Inv, [Next]_vars
               PROVE  Inv'
    OBVIOUS
  <2>1. AlwaysInv'
    BY AlwaysStep
  <2>2. LastInv'
    BY LastStep DEF AlwaysInv
  <2>3. ConvergeInv'
    BY <2>1, ConvergeStep
  <2> QED
    BY <2>1, <2>2, <2>3
<1>3. Inv => ReferentielConverges
  BY DEF ConvergeInv, ReferentielConverges, ActeursConverge, SlugsConverge, SeedConverges,
         WikidataConverges, DoneAlone
<1> QED
  BY <1>1, <1>2, <1>3, PTL DEF Spec
=============================================================================
