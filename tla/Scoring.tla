------------------------------ MODULE Scoring ------------------------------
(***************************************************************************)
(* The arithmetic of a score (worker/src/scoring.rs), as recompute_scores  *)
(* applies it to one theme: the score of a person from its votes, and that *)
(* of its group from the counts of scrutin_groupe.                         *)
(*                                                                         *)
(* A scrutin is [position, poids, confiance, bipolarite, estimate, votes]: *)
(* what its label and its measure say, and what each member voted.  These  *)
(* are integers, Unit for 1.0; a result is a fraction <<n, d>>, the        *)
(* rounding of f64 and of numeric(4,3) is left out.  A list is any         *)
(* function: what is left out of one keeps its place, sums do not see it.  *)
(***************************************************************************)
EXTENDS Integers, FiniteSetsExt, Functions

CONSTANTS
  Unit,
  Members,           \* the members of the group
  GaucheDroite,      \* theme.axe_gauche_droite
  None               \* NULL

Sum(list, Of(_))     == SumFunction([i \in DOMAIN list |-> Of(list[i])])
Where(list, Test(_)) == RestrictDomain(list, LAMBDA i : Test(list[i]))

Apport(position, pour) ==
  CASE position = "pour" -> pour [] position = "contre" -> -pour [] OTHER -> None
Poids(s) == s.poids * s.confiance * (Unit - s.bipolarite)

\* desaccord_mesure, for the votes of persons.
DesaccordMesure(s) == GaucheDroite /\ s.estimate # 0 /\ s.position * s.estimate < 0

\* The same filter in the SQL of groups and mandates: sign = sign.
Sign(n)   == IF n > 0 THEN 1 ELSE IF n < 0 THEN -1 ELSE 0
Agrees(s) == ~GaucheDroite \/ s.estimate = 0 \/ Sign(s.position) = Sign(s.estimate)

\* The squared distances to the mean sum / weight, times weight ^ 2.
Spread_Unweighted(voted, sum, weight) ==
  Sum(voted, LAMBDA c : (c.apport * weight - sum) * (c.apport * weight - sum))
Spread(voted, sum, weight) ==
  Sum(voted, LAMBDA c : c.poids * (c.apport * weight - sum) * (c.apport * weight - sum))

\* aggregate: contributions are [apport, poids], an abstention has no apport.
\* `incertitude` is the square root of variance / contributions.
Expressed(contributions) == Where(contributions, LAMBDA c : c.apport # None)
Heavy(contributions)     == Where(contributions, LAMBDA c : c.poids > 0)
Weight(contributions)    == Sum(contributions, LAMBDA c : c.poids)
Weighted(contributions)  == Sum(contributions, LAMBDA c : c.apport * c.poids)

Aggregate(contributions) ==
  LET voted  == Expressed(contributions)
      sum    == Weighted(voted)
      weight == Weight(voted)
  IN  IF weight <= 0 THEN None
      ELSE [score         |-> <<sum, weight * Unit>>,
            variance      |-> <<Spread(voted, sum, weight),
                                weight * weight * weight * Unit * Unit>>,
            contributions |-> Cardinality(DOMAIN Heavy(voted)),
            abstentions   |-> Cardinality(DOMAIN contributions \ DOMAIN voted)]

\* process_person_theme_group: what score_contribution keeps of a vote.
Contribution(s, member) ==
  LET vote == s.votes[member] IN
  [apport |-> Apport(vote, s.position),
   poids  |-> IF vote = "abstention" \/ DesaccordMesure(s) THEN 0 ELSE Poids(s)]

Voted(scrutins, member) == Where(scrutins, LAMBDA s : s.votes[member] # "non_votant")
Person(scrutins, member) ==
  LET group == Voted(scrutins, member)
  IN  Aggregate([i \in DOMAIN group |-> Contribution(group[i], member)])

Count(s, position) == SumFunction([m \in Members |-> IF s.votes[m] = position THEN 1 ELSE 0])

Voters(s)   == Count(s, "pour") + Count(s, "contre")
Majority(s) == Max({Count(s, "pour"), Count(s, "contre")})

Cohesion(scrutins) ==
  LET majority == Sum(scrutins, Majority)
      total    == Sum(scrutins, Voters)
  IN  IF total = 0 THEN None ELSE <<majority, total>>

\* process_groupe_theme_group, and process_mandat_theme_group alike: a side
\* of a scrutin is one contribution that weighs as many times as it has votes.
Weighing(scrutins) == Where(scrutins, LAMBDA s : Poids(s) > 0)
Sides(scrutins) ==
  LET side(s, vote) == [apport |-> Apport(vote, s.position), poids |-> Poids(s) * Count(s, vote)]
  IN  Heavy([p \in (DOMAIN scrutins) \X {"pour", "contre"} |-> side(scrutins[p[1]], p[2])])

Groupe_NullWeights(scrutins) ==
  LET kept  == Where(scrutins, Agrees)
      total == Aggregate(Sides(Weighing(kept)))
  IN  IF total = None \/ Cohesion(kept) = None THEN None
      ELSE [score         |-> total.score,
            cohesion      |-> Cohesion(kept),
            contributions |-> Sum(kept, Voters)]

Groupe(scrutins) ==
  LET kept  == Where(scrutins, Agrees)
      total == Aggregate(Sides(Weighing(kept)))
  IN  IF total = None \/ Cohesion(kept) = None THEN None
      ELSE [score         |-> total.score,
            cohesion      |-> Cohesion(kept),
            contributions |-> Sum(Weighing(kept), Voters)]
=============================================================================
