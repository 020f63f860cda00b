----------------------------- MODULE MCCalculs -----------------------------
(* The inputs of Calculs that TLC enumerates.                                *)
EXTENDS Calculs

\* Two groups besides the non-inscrits, four days.
TwoOrganes == {[organe |-> o, debut |-> d, fin |-> f] :
                 o \in {0, 1, 2}, d \in 1..4, f \in (1..4) \cup {Ongoing}}
SomeMandats == {m \in TwoOrganes : m.debut <= m.fin /\ (m.organe = 1 \/ m.debut \in {1, 3})}

\* Two days a month, three months a year, and a mandate that begins tomorrow.
SomeSegments == {s \in [piste : {"GP", "PARPOL"}, debut : 1..8, fin : (1..8) \cup {NoEnd}] :
                   /\ s.fin = NoEnd \/ s.debut <= s.fin
                   /\ s.piste = "PARPOL" => s.debut = 3}

SomeGroupes == {g \in [pour : 0..3, contre : 0..2, coordonnee : {-2, -1, 0, 2, None}] :
                  g.pour + g.contre > 0}

Scrutin(position, estimate, bipolarite, poids, votes) ==
  [position |-> position, poids |-> poids, confiance |-> Unit, bipolarite |-> bipolarite,
   estimate |-> estimate, votes |-> votes]
Ballots == {[m \in Members |-> IF m = "a" THEN v ELSE w] :
              v \in {"pour", "contre", "abstention"}, w \in {"pour", "contre", "non_votant"}}
SomeScrutins ==
  {Scrutin(l, e, b, 2, v) : l \in {-1, 0, 2}, e \in {-1, 0}, b \in {0}, v \in Ballots}
  \cup {Scrutin(-2, -1, b, 1, v) : b \in {1, 2}, v \in Ballots}

Lengths == [mandats |-> 3, segments |-> 3, groupes |-> 3, scrutins |-> 2]
=============================================================================
