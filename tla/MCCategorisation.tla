-------------------------- MODULE MCCategorisation --------------------------
(* The instances of Categorisation that TLC checks: the weights are in       *)
(* halves, two themes, two scrutins.                                         *)
EXTENDS Categorisation, TLC

OnA    == [a |-> 2]
OnB    == [b |-> 2]
OnBoth == [a |-> 1, b |-> 1]

Form           == {OnA, OnBoth}
FormAndRemoval == {OnBoth, Empty}
FormDisjoint   == {OnA, OnB}

FileOf(weights, spelled) == [weights |-> weights, spelled |-> spelled]

\* A file on one scrutin in another spelling, and one on two scrutins.
TwoFiles ==
  {"s1" :> FileOf(OnA, "short"),
   "s1" :> FileOf(OnB, "exact") @@ "s2" :> FileOf(OnA, "exact")}
OneFile  == {"s1" :> FileOf(OnB, "exact")}
WideFile == {"s1" :> FileOf(OnB, "exact") @@ "s2" :> FileOf(OnBoth, "exact")}

Nothing == {}
Row(s, t, how) == [scrutin |-> s, theme |-> t, poids |-> 2, method |-> how, by |-> "before"]

\* One scrutin categorised by hand, or both, by an import and by hand.
OneByHand == {Row("s1", "a", "manual")}
Both      == {Row("s1", "a", "manual"), Row("s2", "b", "import")}

RequestSymmetry == Permutations(Requests)
=============================================================================
