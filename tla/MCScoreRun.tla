----------------------------- MODULE MCScoreRun -----------------------------
(* The instance of ScoreRun that TLC checks: one theme, one scrutin whose   *)
(* votes weigh and one whose votes do not.                                   *)
EXTENDS ScoreRun, TLC

Labelled     == {<<"t1", "a">>, <<"t1", "b">>}
WeighingOnes == {<<"t1", "a">>}

FileOf(v, h) == [version |-> v, hash |-> h]

\* A second version, and another content under the name of the first.
ThreeFiles == {FileOf("v1", "h1"), FileOf("v2", "h2"), FileOf("v1", "h3")}
FirstOrNone == {FileOf("v1", "h1"), None}
OneFile    == {FileOf("v1", "h1")}

ExecutionSymmetry == Permutations(Recomputes) \cup Permutations(Loads)
=============================================================================
