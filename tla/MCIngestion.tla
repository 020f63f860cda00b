---------------------------- MODULE MCIngestion ----------------------------
(* What the executions of Ingestion are given, for TLC.  Groups are 1 and 2,  *)
(* 5 is an organe of no retained type and 7 an organe the archive lacks.      *)
EXTENDS Ingestion

GP(uid, organe, debut, fin) ==
  [uid |-> uid, type |-> "GP", organe |-> organe, debut |-> debut, fin |-> fin]
Acteur(an, nom, mandats) == [an |-> an, nom |-> nom, mandats |-> mandats]
SomeOrganes == <<[uid |-> 1, type |-> "GP"], [uid |-> 2, type |-> "GP"],
                 [uid |-> 3, type |-> "ASSEMBLEE"], [uid |-> 5, type |-> "COMPER"]>>
SomeActeurs(organes, mandats1, mandats2) ==
  [kind |-> "acteurs",
   input |-> [organes |-> organes,
              acteurs |-> <<Acteur("PA1", "martin", mandats1), Acteur("PA2", "martin", mandats2)>>]]

Siege      == [uid |-> "m3", type |-> "ASSEMBLEE", organe |-> 3, debut |-> 1, fin |-> Ongoing]
Commission == [uid |-> "m5", type |-> "COMPER", organe |-> 5, debut |-> 1, fin |-> 3]

\* Two mandates that share a day; the same once their common day has moved; two
\* groups that overlap, one of which the archive of organes may lack.
Hinge == SomeActeurs(SomeOrganes, <<GP("m2", 1, 3, Ongoing), GP("m1", 1, 1, 3), Siege, Commission>>,
                     <<GP("m4", 2, 1, Ongoing)>>)
Moved == SomeActeurs(SomeOrganes, <<GP("m1", 1, 1, 4), GP("m2", 1, 5, Ongoing), GP("m6", 1, 6, 7)>>,
                     <<GP("m4", 2, 1, 2), GP("m7", 1, 2, Ongoing), GP("m8", 7, 1, Ongoing), GP("m9", 2, None, 3)>>)
Short == SomeActeurs(SubSeq(SomeOrganes, 1, 1), <<GP("m1", 1, 1, 2)>>, <<GP("m4", 2, 1, 3)>>)

Vote(acteur, position) == [acteur |-> acteur, position |-> position]
Scrutin(uid, date, titre, groupes, mises) ==
  [uid |-> uid, date |-> date, titre |-> titre, groupes |-> groupes, mises |-> mises]
Lot(organe, votes) == [organe |-> organe, votes |-> votes]

First == Scrutin("V1", 2, "a", <<Lot(1, <<Vote("PA1", "pour")>>), Lot(7, <<Vote("PA2", "contre"), Vote("PA9", "pour")>>)>>, <<>>)
FirstCorrected ==
  Scrutin("V1", 2, "b", <<Lot(7, <<Vote("PA1", "contre")>>), Lot(2, <<Vote("PA2", "contre")>>)>>, <<Vote("PA1", "pour"), Vote("PA2", "pour"), Vote("PA1", "pour")>>)
Second == Scrutin("V2", 4, "c", <<Lot(2, <<Vote("PA2", "pour")>>)>>, <<>>)
Again  == Scrutin("V3", 4, "d", <<Lot(1, <<Vote("PA1", "pour")>>)>>, <<Vote("PA1", "contre"), Vote("PA1", "contre")>>)
Twice  == Scrutin("V3", 4, "d", <<Lot(1, <<Vote("PA1", "pour"), Vote("PA1", "contre")>>)>>, <<>>)

Of(archive, since) == [kind |-> "scrutins", input |-> [archive |-> archive, since |-> since]]
Original  == Of(<<First>>, 1)
Corrected == Of(<<FirstCorrected, Second>>, 1)
Recent    == Of(<<First, Twice>>, 3)
Repeated  == Of(<<Again>>, 3)

Slug == [kind |-> "slugs", input |-> None]

Named1 == [an |-> "PA1", qid |-> None, nom |-> None]
ByQid(q) == [an |-> None, qid |-> q, nom |-> "durand"]
Seed(entries, allowEmpty) ==
  [kind |-> "candidates", input |-> [entries |-> entries, allowEmpty |-> allowEmpty]]
Seeds == {Seed(<<Named1, ByQid("Q1")>>, FALSE), Seed(<<ByQid("Q2"), ByQid("Q1")>>, FALSE),
          Seed(<<>>, TRUE), Seed(<<>>, FALSE)}

Hit(an, qid, image) == [an |-> an, qid |-> qid, image |-> image]
Wiki(hits, only) == [kind |-> "wikidata", input |-> [hits |-> hits, only |-> only]]
Wikis == {Wiki({Hit("PA1", "Q1", "i"), Hit("PA2", "Q2", "i"), Hit("PA8", "Q8", None)}, None),
          Wiki({Hit("PA1", "Q2", None), Hit("PA2", "Q1", "j")}, None),
          Wiki({Hit("PA1", "Q1", "i"), Hit("PA1", "Q2", "i"), Hit("PA2", "Q3", "j")}, {"PA2"})}

\* The archives against each other; then the jobs on persons, after a first
\* archive or on an empty base.
SomeTasks ==
  <<{Hinge, Original} \cup Seeds,
    {Slug, Moved, Corrected} \cup Seeds \cup Wikis,
    {Slug, Short, Original, Recent, Repeated} \cup Seeds \cup Wikis>>

ExecSymmetry == Permutations(Execs)
=============================================================================
