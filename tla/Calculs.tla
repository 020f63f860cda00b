------------------------------ MODULE Calculs ------------------------------
(***************************************************************************)
(* The pure algorithms of the worker and of the backend, over every input  *)
(* of bounded size.  A behaviour feeds one of them the way its caller does,*)
(* one item at a time: the mandates of a person, the segments of its page, *)
(* the groups of a scrutin, the scrutins of a theme.                       *)
(***************************************************************************)
EXTENDS Mandats, FiniteSetsExt, Functions, TLC

CONSTANTS
  Unit, None,
  DaysPerMonth, MonthsPerYear, Pistes, NoEnd, Today,    \* Frise
  CoveredNum, CoveredDen, VotantsCouvertsMin,           \* Axe
  Members, GaucheDroite,                                \* Scoring
  MandatItems, SegmentItems, GroupeItems, ScrutinItems, \* the items of an input
  MaxItems        \* bound: items of each kind in one input

\* A mandate that ends before it begins is skipped (upsert_mandats), and no page has
\* to draw one; a coordinate, a position and a bipolarity are within the CHECKs of
\* their columns (migrations 0007 and 0009); NULL is no number and no result.
ASSUME CalculsAssumption ==
  /\ Unit \in Nat \ {0} /\ Ongoing \in Nat /\ Today \in Nat
  /\ DaysPerMonth \in Nat \ {0} /\ MonthsPerYear \in Nat \ {0}
  /\ CoveredNum \in 1..CoveredDen /\ VotantsCouvertsMin \in Nat \ {0}
  /\ GaucheDroite \in BOOLEAN
  /\ MandatItems \subseteq [organe : Int, debut : Int, fin : Int]
  /\ \A m \in MandatItems : m.debut <= m.fin
  /\ SegmentItems \subseteq [piste : Pistes, debut : Int, fin : Int \cup {NoEnd}]
  /\ \A s \in SegmentItems : s.fin # NoEnd => s.debut <= s.fin
  /\ NoEnd \notin Int
  /\ None \notin Int /\ None \notin Int \X Int
  /\ None \notin [score : Int \X Int, variance : Int \X Int, contributions : Nat, abstentions : Nat]
  /\ None \notin [score : Int \X Int, cohesion : Int \X Int, contributions : Nat]
  /\ GroupeItems \subseteq [pour : Nat, contre : Nat, coordonnee : (-Unit..Unit) \cup {None}]
  /\ IsFiniteSet(Members)
  /\ \A s \in ScrutinItems :
       /\ s.position \in -Unit..Unit /\ s.estimate \in Int
       /\ s.poids \in Nat /\ s.confiance \in Nat /\ s.bipolarite \in 0..Unit
       /\ s.votes \in [Members -> {"pour", "contre", "abstention", "non_votant"}]

Frises == INSTANCE Frise
Axes   == INSTANCE Axe
Scores == INSTANCE Scoring

VARIABLES
  kind,   \* which algorithm is fed
  input   \* its input so far
vars == <<kind, input>>

Kinds == {"mandats", "segments", "groupes", "scrutins"}

Init == kind \in Kinds /\ input = <<>>

Add(k, item) ==
  /\ kind = k /\ Len(input) < MaxItems[k]
  /\ input' = Append(input, item)
  /\ UNCHANGED kind

\* An an_uid is unique; the key of a segment is one too.
AddMandat  == \E m \in MandatItems  :
  Add("mandats", [uid |-> Len(input) + 1, organe |-> m.organe, debut |-> m.debut, fin |-> m.fin])
AddSegment == \E s \in SegmentItems  :
  Add("segments", [key |-> Len(input) + 1, piste |-> s.piste, debut |-> s.debut, fin |-> s.fin])
AddGroupe  == \E g \in GroupeItems  : Add("groupes", g)
AddScrutin == \E s \in ScrutinItems : Add("scrutins", s)

Next == AddMandat \/ AddSegment \/ AddGroupe \/ AddScrutin
Spec == Init /\ [][Next]_vars

-----------------------------------------------------------------------------
(* Properties.                                                               *)

Days(m) == m.debut..m.fin

\* NoDayLostSilently: a day of a group mandate that normalize_gp_mandats
\* drops is a day of a mandate of that group it set aside with the anomaly
\* mandat_chevauchement.  Inclusions and hinges lose nothing, except inside of
\* a mandate that is itself set aside later in the same pass.
NoDayLostSilently ==
  kind = "mandats" =>
    LET result == Normalize(input)
        aside(m) == /\ Event("chevauchement", m) \in result.events
                    /\ \A i \in DOMAIN result.retained : result.retained[i].uid # m.uid
        sameOrgane(list, m) == {list[i] : i \in {j \in DOMAIN list : list[j].organe = m.organe}}
    IN  \A i \in DOMAIN input : \A d \in Days(input[i]) :
          \/ \E r \in sameOrgane(result.retained, input[i]) : d \in Days(r)
          \/ \E m \in sameOrgane(input, input[i]) : d \in Days(m) /\ aside(m)

Columns(p) == p.start..(p.end - 1)

\* FriseReadable: build_timeline draws every mandate once, in its track, two
\* mandates of one row share no column, there are as many rows as mandates in
\* the fullest column and no more, every mandate stays inside of the grid, and
\* the years cut the columns where they change, each once.  The one exception
\* is a mandate in progress that begins after the last month of the grid.
FriseReadable ==
  kind = "segments" /\ input # <<>> =>
    LET segments == {input[i] : i \in DOMAIN input}
        frise    == Frises!Timeline(segments)
        first    == Frises!FirstMonth(segments)
        future(s) == s.fin = NoEnd /\ Frises!Month(s.debut) > Frises!Month(Frises!Latest(segments))
        inside(p) == p.start \in 1..frise.total /\ p.end \in (p.start + 1)..(frise.total + 1)
    IN  /\ \A s \in segments : Cardinality({p \in frise.pistes[s.piste].placed : p.segment = s}) = 1
        /\ \A t \in Pistes : \A p \in frise.pistes[t].placed : inside(p) <=> ~future(p.segment)
        /\ (\A s \in segments : ~future(s)) =>
             \A t \in Pistes :
               LET placed == frise.pistes[t].placed
                   rows   == Len(frise.pistes[t].ends)
               IN  /\ \A p, q \in placed :
                        p # q /\ p.row = q.row => Columns(p) \cap Columns(q) = {}
                   /\ rows = Max({Cardinality({p \in placed : c \in Columns(p)}) :
                                    c \in 1..frise.total})
        /\ \A c \in 1..frise.total : \E i \in DOMAIN frise.years :
             /\ c \in Columns(frise.years[i])
             /\ frise.years[i].year = Frises!Year(first, c)
             /\ \A j \in DOMAIN frise.years : c \in Columns(frise.years[j]) => i = j
        /\ \A i, j \in DOMAIN frise.years : frise.years[i].year = frise.years[j].year => i = j

Votes(groupes, Of(_)) == Axes!Sum(groupes, Of)

\* SeparationIsBest: the separation of axis.rs is that of the best answer among
\* "to the right of t one votes for", its opposite, for any threshold t, and
\* two answers that ignore the axis, "everybody votes for" and "everybody
\* votes against" (when two coordinates differ, otherwise it is 0).  Hence a
\* lopsided scrutin has a high separation although the axis explains nothing.
SeparationIsBest ==
  kind = "groupes" /\ Axes!Refus(input) = "none" =>
    LET covered == Axes!Covered(input)
        votants == Votes(covered, Axes!Votants)
        rightFor(t) == Votes(covered, LAMBDA g : IF g.coordonnee > t THEN g.pour ELSE g.contre)
        constants == {Votes(covered, Axes!Pour), Votes(covered, Axes!Contre)}
        answers == UNION {{rightFor(t), votants - rightFor(t)} : t \in -Unit..Unit}
    IN  Axes!Estimate(input).separation =
          <<IF Cardinality(Axes!Coordinates(covered)) < 2 THEN 0
            ELSE Max({0} \cup {2 * a - votants : a \in answers \cup constants}), votants>>

Each(Change(_)) == [i \in DOMAIN input |-> Change(input[i])]
Mirrored(g) ==
  [g EXCEPT !.coordonnee = IF g.coordonnee = None THEN None ELSE -g.coordonnee]
Swapped(g)  == [g EXCEPT !.pour = g.contre, !.contre = g.pour]

\* AxisSymmetric: the measure of axis.rs favours neither side.  The mirror of
\* the axis changes the sign of the position and nothing else, the exchange of
\* the two camps changes the sign of the position and keeps the separation; and
\* every measure stays within the CHECK of its column.
AxisSymmetric ==
  kind = "groupes" =>
    LET e == Axes!Estimate(input)
        mirror == Axes!Estimate(Each(Mirrored))
        swap   == Axes!Estimate(Each(Swapped))
        negated == [e EXCEPT !.positionPour = <<-e.positionPour[1], e.positionPour[2]>>]
        share(f) == f[2] > 0 /\ f[1] \in 0..f[2]
    IN  IF e.refus # "none" THEN mirror = e /\ swap = e
        ELSE /\ mirror = negated
             /\ swap.positionPour = negated.positionPour /\ swap.separation = e.separation
             /\ share(e.separation) /\ share(e.couverture) /\ share(e.bipolarite)
             /\ e.positionPour[1] \in -e.positionPour[2]..e.positionPour[2]

Signed(c) == c.apport * c.poids

\* ScoreIsWeightedMean: a person has a score on a theme exactly when one of its
\* votes weighs; it lies among the positions these votes express, its
\* uncertainty is zero exactly when they all express the same one and is half
\* of the mean squared distance of two of them; what does not weigh (an
\* abstention, a vote the measure contradicts, a scrutin whose opposition is on
\* both sides) counts for nothing.
ScoreIsWeightedMean ==
  kind = "scrutins" => \A m \in Members :
    LET all    == Scores!Voted(input, m)
        cs     == [i \in DOMAIN all |-> Scores!Contribution(all[i], m)]
        weighs == {i \in DOMAIN all : cs[i].apport # None /\ cs[i].poids > 0}
        weight == SumFunction([i \in weighs |-> cs[i].poids])
        pairs  == SumFunction([p \in weighs \X weighs |->
                                 cs[p[1]].poids * cs[p[2]].poids
                                   * (cs[p[1]].apport - cs[p[2]].apport)
                                   * (cs[p[1]].apport - cs[p[2]].apport)])
        p == Scores!Person(input, m)
    IN  /\ (p = None) <=> (weighs = {})
        /\ p # None =>
             LET apports == {cs[i].apport : i \in weighs} IN
             /\ p.contributions = Cardinality(weighs)
             /\ p.score[1] \in (Min(apports) * weight)..(Max(apports) * weight)
             /\ p.score[2] = Unit * weight
             /\ (p.variance[1] = 0) <=> (Cardinality(apports) = 1)
             /\ 2 * weight * weight * Unit * Unit * p.variance[1] = pairs * p.variance[2]

\* A label at 0 against a measure that is not: kept by the Rust filter of the
\* persons, dropped by the SQL filter of the groups.
Neutral(s) == GaucheDroite /\ s.position = 0 /\ s.estimate # 0

\* GroupIsItsMembers: the same votes, read one by one from `vote` and counted
\* in `scrutin_groupe`, give the same result: the score of a group is the mean
\* of those of its members weighted by what they rest on, over as many
\* contributions.  It differs by the votes on labels at 0, and by nothing else.
GroupIsItsMembers ==
  kind = "scrutins" =>
    LET kept    == Scores!Where(input, LAMBDA s : ~Neutral(s))
        scored  == {m \in Members : Scores!Person(kept, m) # None}
        of(m)   == Scores!Person(kept, m)
        groupe  == Scores!Groupe(input)
    IN  /\ (groupe = None) <=> (scored = {})
        /\ groupe # None =>
             /\ groupe.score = <<SumFunction([m \in scored |-> of(m).score[1]]),
                                 SumFunction([m \in scored |-> of(m).score[2]])>>
             /\ groupe.contributions = SumFunction([m \in scored |-> of(m).contributions])
             /\ groupe.cohesion[1] \in 1..groupe.cohesion[2]
             /\ 2 * groupe.cohesion[1] >= groupe.cohesion[2]
=============================================================================
