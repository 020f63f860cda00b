------------------------------ MODULE Mandats ------------------------------
(***************************************************************************)
(* normalize_gp_mandats (worker/src/an/acteur.rs): what ingest_acteurs     *)
(* does to the group mandates of one person before it writes them, so that *)
(* the constraint mandat_gp_sans_chevauchement accepts them.               *)
(*                                                                         *)
(* A mandate is [uid, organe, debut, fin]: days and groups are integers,   *)
(* and Ongoing is the end of a mandate without end (NaiveDate::MAX).       *)
(***************************************************************************)
EXTENDS Integers, Sequences, SequencesExt

CONSTANTS
  Ongoing,    \* the end of an open mandate, after every day
  NonInscrit  \* the group of those who belong to none

Before(a, b) ==
  \/ a.organe < b.organe
  \/ a.organe = b.organe /\ a.debut < b.debut
  \/ a.organe = b.organe /\ a.debut = b.debut /\ a.fin < b.fin

\* A stable sort: mandates that tie keep the order of the file.
Sorted(mandats, Earlier(_, _)) ==
  LET positions   == DOMAIN mandats
      first(i, j) == \/ Earlier(mandats[i], mandats[j])
                     \/ i < j /\ ~Earlier(mandats[j], mandats[i])
      order       == CHOOSE p \in Bijection(positions, positions) :
                       \A i, j \in positions : i < j => first(p[i], p[j])
  IN  [i \in positions |-> mandats[order[i]]]

Overlap(a, b) == a.debut <= b.fin /\ b.debut <= a.fin
Duration(m)   == m.fin - m.debut

Event(kind, m) == [kind |-> kind, uid |-> m.uid]

\* A partial overlap is taken for an inclusion.
Meeting_NoPartial(cur, next) ==
  IF next.organe # cur.organe \/ next.debut > cur.fin THEN "apart"
  ELSE IF next.debut = cur.fin /\ next.debut > cur.debut /\ next.fin > cur.fin THEN "hinge"
  ELSE IF Duration(next) > Duration(cur) THEN "around" ELSE "inside"

\* How the next mandate of the sorted list meets the last one kept.
Meeting(cur, next) ==
  IF next.organe # cur.organe \/ next.debut > cur.fin THEN "apart"
  ELSE IF next.fin <= cur.fin THEN "inside"
  ELSE IF next.debut = cur.debut THEN "around"
  ELSE IF next.debut = cur.fin THEN "hinge"
  ELSE IF Duration(next) < Duration(cur) THEN "shorter"
  ELSE "longer"

\* The hinge day is left to both.
AddNext_KeepsHinge(acc, next) ==
  LET cur     == Last(acc.kept)
      meeting == IF acc.kept = <<>> THEN "apart" ELSE Meeting(cur, next)
      kept    == CASE meeting \in {"apart", "hinge"}   -> Append(acc.kept, next)
                   [] meeting \in {"inside", "shorter"} -> acc.kept
                   [] meeting \in {"around", "longer"}  -> Append(Front(acc.kept), next)
  IN  [acc EXCEPT !.kept = kept]

\* One turn of normalize_same_organe: `kept` ends with its `current`.
AddNext(acc, next) ==
  LET cur     == Last(acc.kept)
      earlier == Front(acc.kept)
      meeting == IF acc.kept = <<>> THEN "apart" ELSE Meeting(cur, next)
  IN  CASE meeting = "apart" ->
             [acc EXCEPT !.kept = Append(@, next)]
        [] meeting = "inside" ->
             [acc EXCEPT !.events = @ \cup {Event("inclus", next)}]
        [] meeting = "around" ->
             [kept   |-> Append(earlier, next),
              events |-> acc.events \cup {Event("inclus", cur)}]
        [] meeting = "hinge" ->
             [kept   |-> earlier \o <<[cur EXCEPT !.fin = next.debut - 1], next>>,
              events |-> acc.events \cup {Event("charniere", cur)}]
        [] meeting = "shorter" ->
             [acc EXCEPT !.events = @ \cup {Event("chevauchement", next)}]
        [] meeting = "longer" ->
             [kept   |-> Append(earlier, next),
              events |-> acc.events \cup {Event("chevauchement", cur)}]

\* Two groups at once: both mandates stay, the shorter one is signalled.
Signalled(kept) ==
  {IF Duration(kept[p[2]]) < Duration(kept[p[1]]) THEN Event("chevauchement", kept[p[2]])
                                                  ELSE Event("chevauchement", kept[p[1]]) :
     p \in {q \in (DOMAIN kept) \X (DOMAIN kept) :
              /\ q[1] < q[2]
              /\ NonInscrit \notin {kept[q[1]].organe, kept[q[2]].organe}
              /\ Overlap(kept[q[1]], kept[q[2]])}}

\* normalize_same_organe, group after group.
SameOrgane(sorted) ==
  LET turn[n \in 0..Len(sorted)] ==
        IF n = 0 THEN [kept |-> <<>>, events |-> {}] ELSE AddNext(turn[n - 1], sorted[n])
  IN  turn[Len(sorted)]

Normalize(mandats) ==
  LET same == SameOrgane(Sorted(mandats, Before))
      kept == Sorted(same.kept, LAMBDA a, b : a.debut < b.debut)
  IN  [retained |-> kept, events |-> same.events \cup Signalled(kept)]
=============================================================================
