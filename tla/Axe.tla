-------------------------------- MODULE Axe --------------------------------
(***************************************************************************)
(* estimate (worker/src/axis.rs): where a scrutin stands on the left-right *)
(* axis, from the votes of the groups whose coordinate is known.           *)
(*                                                                         *)
(* A group is [pour, contre, coordonnee].  Coordinates are integers within *)
(* -Unit..Unit, and a measure is a fraction <<n, d>>: the rounding of f64  *)
(* is left out.                                                            *)
(***************************************************************************)
EXTENDS Integers, FiniteSetsExt, Functions

CONSTANTS
  Unit,         \* the coordinate 1.0
  None,         \* a group absent from the axis
  CoveredNum, CoveredDen,  \* COUVERTURE_MIN = CoveredNum / CoveredDen
  VotantsCouvertsMin

Sum(groupes, Of(_)) == SumFunction([i \in DOMAIN groupes |-> Of(groupes[i])])
Pour(g)     == g.pour
Contre(g)   == g.contre
Votants(g)  == g.pour + g.contre
Covered(groupes) == RestrictDomain(groupes, LAMBDA i : groupes[i].coordonnee # None)
Clamp(n, d) == Max({-d, Min({n, d})})

\* Half the way from the mean of the votes against to the mean of those for.
PositionPour(covered) ==
  LET pour   == Sum(covered, Pour)
      contre == Sum(covered, Contre)
      for     == Sum(covered, LAMBDA g : g.pour * g.coordonnee)
      against == Sum(covered, LAMBDA g : g.contre * g.coordonnee)
      scale   == 2 * Unit * pour * contre
  IN  <<Clamp(for * contre - against * pour, scale), scale>>

\* Twice the smaller share of the votes against, on either side of the mean
\* of the votes for.
Bipolarite_AtMean(covered) ==
  LET pour == Sum(covered, Pour)
      for  == Sum(covered, LAMBDA g : g.pour * g.coordonnee)
      left  == Sum(covered, LAMBDA g : IF g.coordonnee * pour <= for THEN g.contre ELSE 0)
      right == Sum(covered, LAMBDA g : IF g.coordonnee * pour > for THEN g.contre ELSE 0)
  IN  <<2 * Min({left, right}), Sum(covered, Contre)>>

Bipolarite(covered) ==
  LET pour == Sum(covered, Pour)
      for  == Sum(covered, LAMBDA g : g.pour * g.coordonnee)
      left  == Sum(covered, LAMBDA g : IF g.coordonnee * pour < for THEN g.contre ELSE 0)
      right == Sum(covered, LAMBDA g : IF g.coordonnee * pour > for THEN g.contre ELSE 0)
  IN  <<2 * Min({left, right}), Sum(covered, Contre)>>

Coordinates(covered) == {covered[i].coordonnee : i \in DOMAIN covered}
Neighbours(S) == {p \in S \X S : p[1] < p[2] /\ ~\E c \in S : p[1] < c /\ c < p[2]}

\* Votes on the side of the majority of their own half, for the threshold
\* half-way between two neighbours.
CorrectFor(covered, pair) ==
  LET Left(g) == 2 * g.coordonnee <= pair[1] + pair[2]
      Half(Side(_), Of(_)) == Sum(covered, LAMBDA g : IF Side(g) THEN Of(g) ELSE 0)
      Right(g) == ~Left(g)
  IN  Max({Half(Left, Pour), Half(Left, Contre)}) + Max({Half(Right, Pour), Half(Right, Contre)})

Separation_OneOrientation(covered) ==
  LET votants == Sum(covered, Votants)
      Right(pair) == Sum(covered, LAMBDA g : IF 2 * g.coordonnee <= pair[1] + pair[2]
                                             THEN g.contre ELSE g.pour)
  IN  <<Max({0} \cup {2 * Right(pair) - votants : pair \in Neighbours(Coordinates(covered))}),
        votants>>

Separation(covered) ==
  LET votants == Sum(covered, Votants)
  IN  <<Max({0} \cup {2 * CorrectFor(covered, pair) - votants :
                        pair \in Neighbours(Coordinates(covered))}),
        votants>>

Refus(groupes) ==
  LET total   == Sum(groupes, Votants)
      covered == Covered(groupes)
      votants == Sum(covered, Votants)
  IN  IF total = 0 \/ votants * CoveredDen < total * CoveredNum THEN "ancrage_insuffisant"
      ELSE IF votants < VotantsCouvertsMin THEN "trop_peu_de_votants"
      ELSE IF Sum(covered, Pour) = 0 \/ Sum(covered, Contre) = 0 THEN "scrutin_unanime"
      ELSE "none"

Estimate(groupes) ==
  LET covered == Covered(groupes) IN
  IF Refus(groupes) # "none" THEN [refus |-> Refus(groupes)]
  ELSE [refus        |-> "none",
        positionPour |-> PositionPour(covered),
        separation   |-> Separation(covered),
        couverture   |-> <<Sum(covered, Votants), Sum(groupes, Votants)>>,
        bipolarite   |-> Bipolarite(covered)]
=============================================================================
