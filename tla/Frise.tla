------------------------------- MODULE Frise -------------------------------
(***************************************************************************)
(* build_timeline (backend/src/kyc_api/timeline.py): where the page of a   *)
(* person draws each mandate, one column for each month and one row for    *)
(* each mandate in progress at once.                                       *)
(*                                                                         *)
(* A segment is [piste, key, debut, fin].  A date is a number of days; the *)
(* calendar is scaled down to DaysPerMonth and MonthsPerYear.              *)
(***************************************************************************)
EXTENDS Integers, Sequences, SequencesExt, FiniteSetsExt

CONSTANTS
  DaysPerMonth, MonthsPerYear,
  Pistes,  \* PISTE_ORDER
  NoEnd,   \* fin of a mandate in progress
  Today

Month(day)          == day \div DaysPerMonth
Column(first, day)  == Month(day) - first + 1   \* `first` is the first month
Year(first, column) == (first + column - 1) \div MonthsPerYear

FirstMonth(segments) == Min({Month(s.debut) : s \in segments})
Latest(segments)     == Max({IF s.fin = NoEnd THEN Today ELSE s.fin : s \in segments})
Total(segments)      == Month(Latest(segments)) + 1 - FirstMonth(segments)

Earlier(a, b) ==
  \/ a.debut < b.debut
  \/ a.debut = b.debut /\ a.fin # NoEnd /\ (b.fin = NoEnd \/ a.fin < b.fin)
  \/ a.debut = b.debut /\ a.fin = b.fin /\ a.key < b.key

\* A mandate takes one column at least, and none for the month it ends in.
ColumnEnd(s, first, total) ==
  IF s.fin = NoEnd THEN total + 1
  ELSE Max({Column(first, s.fin), Column(first, s.debut) + 1})

\* The first row that is free, of those whose last segment ends at ends[row].
FirstFree_OneMore(ends, column) ==
  Min({r \in DOMAIN ends : ends[r] <= column + 1} \cup {Len(ends) + 1})
FirstFree(ends, column) ==
  Min({r \in DOMAIN ends : ends[r] <= column} \cup {Len(ends) + 1})

\* _place_piste: greedy, by start, then end, then key.
Sorted(segments) ==
  LET positions == 1..Cardinality(segments)
  IN  CHOOSE list \in Bijection(positions, segments) :
        \A i, j \in positions : i < j => Earlier(list[i], list[j])

Put(acc, s, first, total) ==
  LET start == Column(first, s.debut)
      end   == ColumnEnd(s, first, total)
      row   == FirstFree(acc.ends, start)
  IN  [ends   |-> [r \in DOMAIN acc.ends \cup {row} |-> IF r = row THEN end ELSE acc.ends[r]],
       placed |-> acc.placed \cup {[segment |-> s, start |-> start, end |-> end, row |-> row]}]

Place(segments, first, total) ==
  LET ordered == Sorted(segments)
      turn[n \in 0..Cardinality(segments)] ==
        IF n = 0 THEN [ends |-> <<>>, placed |-> {}]
                 ELSE Put(turn[n - 1], ordered[n], first, total)
  IN  turn[Cardinality(segments)]

\* _year_markers: a marker is closed when the year changes.
NextMarker(markers, column, year) ==
  IF markers # <<>> /\ Last(markers).year = year
  THEN [markers EXCEPT ![Len(markers)].end = column + 1]
  ELSE Append(markers, [year |-> year, start |-> column, end |-> column + 1])

YearMarkers(first, total) ==
  LET turn[n \in 0..total] ==
        IF n = 0 THEN <<>> ELSE NextMarker(turn[n - 1], n, Year(first, n))
  IN  IF total <= 0 THEN <<>> ELSE turn[total]

Timeline(segments) ==
  IF segments = {} THEN [pistes |-> [p \in Pistes |-> [ends |-> <<>>, placed |-> {}]],
                         years  |-> <<>>, total |-> 0]
  ELSE LET first == FirstMonth(segments)
           total == Total(segments)
       IN  [pistes |-> [p \in Pistes |-> Place({s \in segments : s.piste = p}, first, total)],
            years  |-> YearMarkers(first, total),
            total  |-> total]
=============================================================================
