---------------------- MODULE IngestionScrutinsProofs ----------------------
(***************************************************************************)
(* ScrutinsConverge, for any executions and any inputs: what an execution  *)
(* of ingest_scrutins leaves when it ran alone.  Then RefusedOnlyByStale,  *)
(* for any number of executions of any job: what a constraint can refuse.  *)
(***************************************************************************)
EXTENDS IngestionConvergenceProofs

-----------------------------------------------------------------------------
(* The lines of votes.                                                       *)

\* `l` is the last line of its person.
LastOf(l, lines) ==
  \E i \in 1..Len(lines) : lines[i] = l /\ \A j \in (i + 1)..Len(lines) : KeyOf(lines[j]) # KeyOf(l)

LEMMA LastOfBoth ==
  ASSUME NEW S, NEW s \in Seq(S), NEW t \in Seq(S), NEW l,
         LastOf(l, t) \/ (LastOf(l, s) /\ \A m \in ToSet(t) : KeyOf(m) # KeyOf(l))
  PROVE  LastOf(l, s \o t)
<1> DEFINE u == s \o t
<1>1. /\ Len(u) = Len(s) + Len(t) /\ Len(s) \in Nat /\ Len(t) \in Nat
      /\ \A i \in 1..Len(s) : u[i] = s[i]
      /\ \A i \in 1..Len(t) : u[Len(s) + i] = t[i]
  OBVIOUS
<1> HIDE DEF u
<1>2. ASSUME NEW j \in (Len(s) + 1)..Len(u)
      PROVE  j - Len(s) \in 1..Len(t) /\ u[j] = t[j - Len(s)]
  <2>1. j - Len(s) \in 1..Len(t) /\ Len(s) + (j - Len(s)) = j
    BY <1>1
  <2> QED
    BY <1>1, <2>1
<1>3. CASE LastOf(l, t)
  <2>1. PICK i \in 1..Len(t) : t[i] = l /\ \A j \in (i + 1)..Len(t) : KeyOf(t[j]) # KeyOf(l)
    BY <1>3 DEF LastOf
  <2> DEFINE k == Len(s) + i
  <2>2. k \in 1..Len(u) /\ u[k] = l
    BY <1>1, <2>1
  <2>3. ASSUME NEW j \in (k + 1)..Len(u)
        PROVE  KeyOf(u[j]) # KeyOf(l)
    <3>1. j \in (Len(s) + 1)..Len(u) /\ j - Len(s) >= i + 1
      BY <1>1
    <3>2. j - Len(s) \in (i + 1)..Len(t) /\ u[j] = t[j - Len(s)]
      BY <1>1, <1>2, <3>1
    <3> QED
      BY <2>1, <3>2
  <2> HIDE DEF k
  <2> QED
    BY <2>2, <2>3 DEF LastOf, u
<1>4. CASE LastOf(l, s) /\ \A m \in ToSet(t) : KeyOf(m) # KeyOf(l)
  <2>1. PICK i \in 1..Len(s) : s[i] = l /\ \A j \in (i + 1)..Len(s) : KeyOf(s[j]) # KeyOf(l)
    BY <1>4 DEF LastOf
  <2>2. i \in 1..Len(u) /\ u[i] = l
    BY <1>1, <2>1
  <2>3. ASSUME NEW j \in (i + 1)..Len(u)
        PROVE  KeyOf(u[j]) # KeyOf(l)
    <3>1. CASE j <= Len(s)
      BY <1>1, <2>1, <3>1
    <3>2. CASE j > Len(s)
      <4>1. j \in (Len(s) + 1)..Len(u)
        BY <1>1, <3>2
      <4>2. u[j] = t[j - Len(s)] /\ j - Len(s) \in DOMAIN t
        BY <1>2, <4>1
      <4> QED
        BY <1>4, <4>2 DEF ToSet
    <3> QED
      BY <1>1, <3>1, <3>2
  <2> QED
    BY <2>2, <2>3 DEF LastOf, u
<1> QED
  BY <1>3, <1>4

\* The last line of a person is among those of a batch, and then no later line is
\* of that person, or among those left.
LEMMA LastOfSplit ==
  ASSUME NEW S, NEW s \in Seq(S), NEW n \in 0..Len(s), NEW l, LastOf(l, s)
  PROVE  \/ LastOf(l, SubSeq(s, n + 1, Len(s)))
         \/ /\ l \in ToSet(SubSeq(s, 1, n))
            /\ \A m \in ToSet(SubSeq(s, n + 1, Len(s))) : KeyOf(m) # KeyOf(l)
<1> DEFINE a == SubSeq(s, 1, n)
           b == SubSeq(s, n + 1, Len(s))
<1>1. /\ a \in Seq(S) /\ b \in Seq(S) /\ Len(a) = n /\ Len(b) = Len(s) - n /\ Len(s) \in Nat
      /\ \A i \in 1..n : a[i] = s[i]
      /\ \A i \in 1..(Len(s) - n) : b[i] = s[n + i]
  BY SplitAt
<1> HIDE DEF a, b
<1>2. PICK i \in 1..Len(s) : s[i] = l /\ \A j \in (i + 1)..Len(s) : KeyOf(s[j]) # KeyOf(l)
  BY DEF LastOf
<1>3. CASE i <= n
  <2>1. i \in DOMAIN a /\ a[i] = l
    BY <1>1, <1>2, <1>3
  <2>2. ASSUME NEW m \in ToSet(b)
        PROVE  KeyOf(m) # KeyOf(l)
    <3>1. PICK j \in 1..(Len(s) - n) : b[j] = m
      BY <1>1 DEF ToSet
    <3>2. n + j \in (i + 1)..Len(s) /\ s[n + j] = m
      BY <1>1, <1>3, <3>1
    <3> QED
      BY <1>2, <3>2
  <2> QED
    BY <2>1, <2>2 DEF ToSet, a, b
<1>4. CASE i > n
  <2> DEFINE k == i - n
  <2>1. k \in 1..Len(b) /\ n + k = i
    BY <1>1, <1>4
  <2>2. b[k] = l
    BY <1>1, <1>2, <2>1
  <2>3. ASSUME NEW j \in (k + 1)..Len(b)
        PROVE  KeyOf(b[j]) # KeyOf(l)
    <3>1. n + j \in (i + 1)..Len(s) /\ j \in 1..(Len(s) - n)
      BY <1>1, <2>1
    <3> QED
      BY <1>1, <1>2, <3>1
  <2> HIDE DEF k
  <2> QED
    BY <2>1, <2>2, <2>3 DEF LastOf, b
<1> QED
  BY <1>1, <1>3, <1>4
LineOf(d, g, v) == [scrutin |-> d.uid, date |-> d.date, groupe |-> g, vote |-> v]

LinesOf(d) == UNION {{LineOf(d, g, v) : v \in ToSet(g.votes)} : g \in ToSet(d.groupes)}

\* What ScrutinsAssumption says of a document.
WellFormed(d) ==
  /\ d.groupes \in Seq(ToSet(d.groupes)) /\ d.mises \in Seq(ToSet(d.mises))
  /\ \A g \in ToSet(d.groupes) : g.votes \in Seq(ToSet(g.votes))

LEMMA LinesAre ==
  ASSUME NEW d, WellFormed(d)
  PROVE  Lines(d) \in Seq(LinesOf(d))
<1> DEFINE S == LinesOf(d)
           line(i, j) == LineOf(d, d.groupes[i], d.groupes[i].votes[j])
           part(i) == [j \in DOMAIN d.groupes[i].votes |-> line(i, j)]
           parts == [i \in DOMAIN d.groupes |-> part(i)]
<1>1. DOMAIN d.groupes = 1..Len(d.groupes) /\ Len(d.groupes) \in Nat
  BY DEF WellFormed
<1>2. ASSUME NEW i \in DOMAIN d.groupes
      PROVE  part(i) \in Seq(S)
  <2> DEFINE g == d.groupes[i]
  <2>1. g \in ToSet(d.groupes)
    BY DEF ToSet
  <2>2. DOMAIN g.votes = 1..Len(g.votes) /\ Len(g.votes) \in Nat
    BY <2>1 DEF WellFormed
  <2>3. ASSUME NEW j \in DOMAIN g.votes
        PROVE  line(i, j) \in S
    <3>1. g.votes[j] \in ToSet(g.votes)
      BY DEF ToSet
    <3> QED
      BY <2>1, <3>1 DEF LinesOf
  <2> HIDE DEF S, line, g
  <2>4. part(i) = [j \in 1..Len(g.votes) |-> line(i, j)]
    BY <2>2 DEF g
  <2>5. [j \in 1..Len(g.votes) |-> line(i, j)] \in Seq(S)
    BY <2>2, <2>3 DEF g
  <2> QED
    BY <2>4, <2>5
<1> HIDE DEF S, part
<1>3. parts \in Seq(Seq(S))
  BY <1>1, <1>2
<1>4. FlattenSeq(parts) \in Seq(S)
  <2> HIDE DEF parts
  <2> QED
    BY <1>3, FlattenIsSeq
<1>5. Lines(d) = FlattenSeq(parts)
  BY DEF Lines, parts, part, line, LineOf
<1> QED
  BY <1>4, <1>5 DEF S

UidsOfOne(docs) == \A c, d \in docs : c.uid = d.uid => c = d

LEMMA AllLinesAre ==
  ASSUME NEW docs, UidsOfOne(docs), \A d \in docs : WellFormed(d), NEW chunk \in Seq(docs)
  PROVE  /\ AllLines(chunk) \in Seq(UNION {LinesOf(d) : d \in ToSet(chunk)})
         /\ \A d \in ToSet(chunk) : \A l : LastOf(l, Lines(d)) => LastOf(l, AllLines(chunk))
<1> DEFINE S == UNION {LinesOf(d) : d \in ToSet(chunk)}
           parts == [i \in DOMAIN chunk |-> Lines(chunk[i])]
           T == {t \in Nat \X Seq(S) :
                   \A i \in 1..t[1] : i \in DOMAIN chunk =>
                     \A l \in S : LastOf(l, Lines(chunk[i])) => LastOf(l, t[2])}
<1>1. DOMAIN chunk = 1..Len(chunk) /\ Len(chunk) \in Nat
  OBVIOUS
<1>2. ASSUME NEW d \in ToSet(chunk)
      PROVE  /\ d \in docs /\ Lines(d) \in Seq(LinesOf(d)) /\ Lines(d) \in Seq(S)
             /\ \A l \in ToSet(Lines(d)) : l.scrutin = d.uid
             /\ \A l : LastOf(l, Lines(d)) => l \in S /\ l.scrutin = d.uid
  <2>1. d \in docs
    BY <1>1 DEF ToSet
  <2>2. Lines(d) \in Seq(LinesOf(d))
    BY <2>1, LinesAre
  <2>3. LinesOf(d) \subseteq S /\ \A l \in LinesOf(d) : l.scrutin = d.uid
    BY DEF LinesOf, LineOf
  <2>4. Lines(d) \in Seq(S)
    <3> DEFINE s == Lines(d)
    <3> HIDE DEF s, S
    <3>1. Len(s) \in Nat /\ DOMAIN s = 1..Len(s) /\ \A i \in 1..Len(s) : s[i] \in S
      BY <2>2, <2>3 DEF s
    <3>2. s = [i \in 1..Len(s) |-> s[i]]
      BY <2>2 DEF s
    <3> QED
      BY <3>1, <3>2 DEF s
  <2>5. ToSet(Lines(d)) \subseteq LinesOf(d)
    BY <2>2 DEF ToSet
  <2>6. \A l : LastOf(l, Lines(d)) => l \in LinesOf(d)
    BY <2>2 DEF LastOf
  <2> QED
    BY <2>1, <2>2, <2>3, <2>4, <2>5, <2>6
<1> HIDE DEF S
<1>3. parts \in Seq(Seq(S)) /\ Len(parts) = Len(chunk)
  <2>1. \A i \in 1..Len(chunk) : chunk[i] \in ToSet(chunk)
    BY <1>1 DEF ToSet
  <2> QED
    BY <1>1, <1>2, <2>1
<1>4. <<0, <<>>>> \in T
  <2>1. <<0, <<>>>> \in Nat \X Seq(S)
    BY EmptySeq
  <2>2. <<0, <<>>>>[1] = 0 /\ \A i \in 1..0 : FALSE
    OBVIOUS
  <2> QED
    BY <2>1, <2>2
<1>5. ASSUME NEW n \in 0..(Len(parts) - 1), NEW s \in Seq(S), <<n, s>> \in T
      PROVE  <<n + 1, s \o parts[n + 1]>> \in T
  <2> DEFINE c == chunk[n + 1]
             u == s \o parts[n + 1]
  <2>1. n + 1 \in DOMAIN chunk /\ n + 1 \in Nat /\ c \in ToSet(chunk) /\ parts[n + 1] = Lines(c)
    BY <1>1, <1>3 DEF ToSet
  <2>2. Lines(c) \in Seq(S) /\ u \in Seq(S)
    BY <1>2, <2>1
  <2>3. ASSUME NEW i \in 1..(n + 1), i \in DOMAIN chunk, NEW l \in S, LastOf(l, Lines(chunk[i]))
        PROVE  LastOf(l, u)
    <3>1. CASE chunk[i] = c
      BY <2>1, <2>2, <2>3, <3>1, LastOfBoth
    <3>2. CASE chunk[i] # c
      <4>1. i \in 1..n
        BY <3>2
      <4>2. LastOf(l, s)
        BY <1>5, <2>3, <4>1
      <4>3. chunk[i] \in ToSet(chunk)
        BY <2>3 DEF ToSet
      <4>4. l.scrutin = chunk[i].uid /\ chunk[i].uid # c.uid
        BY <1>2, <2>1, <2>3, <3>2, <4>3 DEF UidsOfOne
      <4>5. \A m \in ToSet(Lines(c)) : KeyOf(m) # KeyOf(l)
        BY <1>2, <2>1, <4>4 DEF KeyOf
      <4> QED
        BY <2>1, <2>2, <4>2, <4>5, LastOfBoth
    <3> QED
      BY <3>1, <3>2
  <2> HIDE DEF u
  <2>4. <<n + 1, u>> \in Nat \X Seq(S)
    BY <2>1, <2>2
  <2>5. <<n + 1, u>>[1] = n + 1 /\ <<n + 1, u>>[2] = u
    OBVIOUS
  <2>6. <<n + 1, u>> \in T
    BY <2>3, <2>4, <2>5
  <2> QED
    BY <2>6 DEF u
<1> DEFINE all == FlattenSeq(parts)
<1> HIDE DEF T, parts
<1>6. all \in Seq(S) /\ <<Len(chunk), all>> \in T
  BY <1>3, <1>4, <1>5, FlattenInvariant
<1>7. AllLines(chunk) = all
  BY DEF AllLines, parts
<1>8. ASSUME NEW d \in ToSet(chunk), NEW l, LastOf(l, Lines(d))
      PROVE  LastOf(l, all)
  <2>1. PICK i \in 1..Len(chunk) : chunk[i] = d
    BY <1>1 DEF ToSet
  <2>2. l \in S
    BY <1>2, <1>8
  <2> HIDE DEF all
  <2>3. \A j \in 1..Len(chunk) : j \in DOMAIN chunk =>
          \A k \in S : LastOf(k, Lines(chunk[j])) => LastOf(k, all)
    BY <1>6 DEF T
  <2> QED
    BY <1>1, <1>8, <2>1, <2>2, <2>3
<1> QED
  BY <1>6, <1>7, <1>8 DEF S

LEMMA ToSetOfBoth ==
  ASSUME NEW S, NEW r \in Seq(S), NEW s \in Seq(S)
  PROVE  r \o s \in Seq(S) /\ ToSet(r) \subseteq ToSet(r \o s) /\ ToSet(s) \subseteq ToSet(r \o s)
<1> DEFINE u == r \o s
<1>1. /\ u \in Seq(S) /\ Len(u) = Len(r) + Len(s) /\ Len(r) \in Nat /\ Len(s) \in Nat
      /\ DOMAIN r = 1..Len(r) /\ DOMAIN s = 1..Len(s) /\ DOMAIN u = 1..Len(u)
      /\ \A i \in 1..Len(r) : u[i] = r[i]
      /\ \A i \in 1..Len(s) : u[Len(r) + i] = s[i]
  OBVIOUS
<1> HIDE DEF u
<1>2. \A i \in 1..Len(r) : i \in 1..Len(u)
  BY <1>1
<1>3. \A i \in 1..Len(s) : Len(r) + i \in 1..Len(u)
  BY <1>1
<1> QED
  BY <1>1, <1>2, <1>3 DEF ToSet, u

LEMMA CorrectionsAre ==
  ASSUME NEW d, WellFormed(d)
  PROVE  /\ Corrections(d) \in Seq(ToSet(Corrections(d)))
         /\ \A i \in 1..Len(Corrections(d)) : Corrections(d)[i][1] = d.uid
<1> DEFINE row(i) == <<d.uid, d.mises[i].acteur, d.mises[i].position>>
           S      == {row(i) : i \in DOMAIN d.mises}
<1>1. DOMAIN d.mises = 1..Len(d.mises) /\ Len(d.mises) \in Nat
  BY DEF WellFormed
<1>2. Corrections(d) = [i \in 1..Len(d.mises) |-> row(i)]
  BY <1>1 DEF Corrections
<1>3. \A i \in 1..Len(d.mises) : row(i) \in S /\ row(i)[1] = d.uid
  BY <1>1
<1> HIDE DEF S, row
<1>4. Corrections(d) \in Seq(S)
  BY <1>1, <1>2, <1>3
<1>5. Corrections(d) \in Seq(ToSet(Corrections(d)))
  BY <1>4, OwnElements
<1> QED
  BY <1>1, <1>2, <1>3, <1>5

CorrectionsIn(docs) == UNION {ToSet(Corrections(d)) : d \in docs}

\* The corrections of a chunk are those of its scrutins.
LEMMA AllCorrectionsAre ==
  ASSUME NEW docs, \A d \in docs : WellFormed(d), NEW chunk \in Seq(docs)
  PROVE  /\ AllCorrections(chunk) \in Seq(CorrectionsIn(docs))
         /\ \A d \in ToSet(chunk) : ToSet(Corrections(d)) \subseteq ToSet(AllCorrections(chunk))
<1> DEFINE S  == CorrectionsIn(docs)
           ss == [i \in DOMAIN chunk |-> Corrections(chunk[i])]
           T  == {t \in Nat \X Seq(S) :
                    \A i \in 1..t[1] : i \in 1..Len(chunk) =>
                      ToSet(Corrections(chunk[i])) \subseteq ToSet(t[2])}
<1>1. /\ DOMAIN chunk = 1..Len(chunk) /\ Len(chunk) \in Nat
      /\ \A i \in 1..Len(chunk) : chunk[i] \in docs
  OBVIOUS
<1>2. ASSUME NEW d \in docs
      PROVE  Corrections(d) \in Seq(S)
  <2> DEFINE s == Corrections(d)
             L == ToSet(s)
  <2>1. s \in Seq(L) /\ L \subseteq S
    BY CorrectionsAre DEF CorrectionsIn
  <2> HIDE DEF s, S, L
  <2>2. s \in Seq(S)
    BY <2>1
  <2> QED
    BY <2>2 DEF s
<1> HIDE DEF S
<1>3. ss \in Seq(Seq(S)) /\ Len(ss) = Len(chunk) /\ \A i \in 1..Len(chunk) : ss[i] = Corrections(chunk[i])
  BY <1>1, <1>2
<1> HIDE DEF ss
<1>4. <<0, <<>>>> \in T
  <2>1. <<0, <<>>>> \in Nat \X Seq(S)
    BY EmptySeq
  <2>2. <<0, <<>>>>[1] = 0 /\ \A i \in 1..0 : FALSE
    OBVIOUS
  <2> QED
    BY <2>1, <2>2
<1>5. ASSUME NEW n \in 0..(Len(ss) - 1), NEW r \in Seq(S), <<n, r>> \in T
      PROVE  <<n + 1, r \o ss[n + 1]>> \in T
  <2> DEFINE s == ss[n + 1]
             u == r \o s
  <2>1. n + 1 \in 1..Len(chunk) /\ n + 1 \in Nat /\ n \in Nat
    BY <1>1, <1>3
  <2>2. s \in Seq(S) /\ s = Corrections(chunk[n + 1])
    BY <1>1, <1>2, <1>3, <2>1
  <2>3. \A i \in 1..n : i \in 1..Len(chunk) => ToSet(Corrections(chunk[i])) \subseteq ToSet(r)
    BY <1>5
  <2> HIDE DEF s
  <2>4. u \in Seq(S) /\ ToSet(r) \subseteq ToSet(u) /\ ToSet(s) \subseteq ToSet(u)
    BY <2>2, ToSetOfBoth
  <2> HIDE DEF u
  <2>5. \A i \in 1..(n + 1) : i \in 1..Len(chunk) => ToSet(Corrections(chunk[i])) \subseteq ToSet(u)
    <3>1. \A i \in 1..(n + 1) : i \in 1..n \/ i = n + 1
      BY <2>1
    <3> QED
      BY <2>2, <2>3, <2>4, <3>1
  <2>6. <<n + 1, u>> \in T
    BY <2>1, <2>4, <2>5
  <2> QED
    BY <2>6 DEF u, s
<1> DEFINE all == FlattenSeq(ss)
<1>6. all \in Seq(S) /\ <<Len(ss), all>> \in T
  <2> HIDE DEF T
  <2> QED
    BY <1>3, <1>4, <1>5, FlattenInvariant
<1>7. AllCorrections(chunk) = all
  BY DEF AllCorrections, ss
<1> HIDE DEF all
<1>8. \A i \in 1..Len(chunk) : ToSet(Corrections(chunk[i])) \subseteq ToSet(all)
  BY <1>1, <1>3, <1>6
<1>9. \A d \in ToSet(chunk) : \E i \in 1..Len(chunk) : chunk[i] = d
  BY <1>1 DEF ToSet
<1> QED
  BY <1>6, <1>7, <1>8, <1>9 DEF S
-----------------------------------------------------------------------------
(* Where an execution of ingest_scrutins that is alone stands.               *)

ChunkOf(todo) == SubSeq(todo, 1, Min({ChunkSize, Len(todo)}))

ScrutinOk(d) ==
  /\ d.uid \in DOMAIN base.scrutins
  /\ base.scrutins[d.uid].content = d
  /\ base.scrutins[d.uid].document = Latest(Stored)[d.uid]

GroupesOk(d) ==
  \A i \in DOMAIN d.groupes :
    /\ <<d.uid, i>> \in DOMAIN base.groupes
    /\ base.groupes[<<d.uid, i>>] = [organe |-> Known(d.groupes[i].organe, DOMAIN base.organes),
                                     line   |-> d.groupes[i]]

\* The groups a vote may have.
Possible(l) ==
  IF Fantome(l.groupe, DOMAIN base.organes) THEN Candidats(l.vote.acteur, l.date)
                                            ELSE {l.groupe.organe}

RowOk(row, l) ==
  /\ row.position = l.vote.position
  /\ IF Possible(l) = {} THEN row.organe = None ELSE row.organe \in Possible(l)
  /\ row.fromMandat <=> (Fantome(l.groupe, DOMAIN base.organes) /\ Possible(l) # {})

VoteOk(l) == KeyOf(l) \in DOMAIN base.votes /\ RowOk(base.votes[KeyOf(l)], l)

VotesOk(d) == \A l \in LinesOf(d) : LastOf(l, Lines(d)) => VoteOk(l)

MisesOk(d) == ToSet(Corrections(d)) \subseteq DOMAIN base.mises

Ingested(d) == ScrutinOk(d) /\ GroupesOk(d) /\ VotesOk(d) /\ MisesOk(d)

\* What resolve_groupes_from_mandats found for a chunk.
Looked(chunk, resolved) ==
  LET keys == LookupKeys(chunk, DOMAIN base.organes)
  IN  /\ DOMAIN resolved = {k \in keys : Candidats(k[1], k[2]) # {}}
      /\ \A k \in DOMAIN resolved : resolved[k] \in Candidats(k[1], k[2])

\* The votes of a chunk, of which these lines are left.
Voting(chunk, lines) ==
  /\ lines \in Seq(UNION {LinesOf(d) : d \in ToSet(chunk)})
  /\ \A d \in ToSet(chunk) : \A l \in LinesOf(d) : LastOf(l, Lines(d)) =>
       \/ LastOf(l, lines)
       \/ VoteOk(l) /\ \A m \in ToSet(lines) : KeyOf(m) # KeyOf(l)

\* The corrections of a chunk, of which these rows are left.
Correcting(chunk, rows) ==
  /\ rows \in Seq(ToSet(rows))
  /\ \A d \in ToSet(chunk) : ToSet(Corrections(d)) \subseteq ToSet(rows) \cup DOMAIN base.mises

ScrutinsProgress(pc, mem, documents) ==
  LET docs  == ToSet(documents)
      chunk == ChunkOf(mem.todo)
  IN  /\ pc \in Located => "documents" \in DOMAIN mem /\ mem.documents = Latest(Stored)
      /\ pc = "unknown" => "missing" \in DOMAIN mem /\ mem.missing = Cited(documents) \ PersonsAN
      /\ pc \in {"organe_ids", "finish"} \cup Chunking => Cited(documents) \subseteq PersonsAN
      /\ pc \in Chunking =>
           /\ "organes" \in DOMAIN mem /\ mem.organes = DOMAIN base.organes
           /\ "todo" \in DOMAIN mem /\ mem.todo \in Seq(docs)
           /\ \A d \in docs : d \in ToSet(mem.todo) \/ Ingested(d)
      /\ pc \in {"scrutins", "groupes", "votes"} =>
           "resolved" \in DOMAIN mem /\ Looked(chunk, mem.resolved)
      /\ pc \in {"groupes", "votes", "mises"} => \A d \in ToSet(chunk) : ScrutinOk(d)
      /\ pc \in {"votes", "mises"} => \A d \in ToSet(chunk) : GroupesOk(d)
      /\ pc = "votes" => "lines" \in DOMAIN mem /\ Voting(chunk, mem.lines)
      /\ pc = "mises" => /\ \A d \in ToSet(chunk) : VotesOk(d)
                         /\ "corrections" \in DOMAIN mem /\ Correcting(chunk, mem.corrections)
      /\ pc = "finish" => \A d \in docs : Ingested(d)

\* An execution that is done is at its end.
ScrutinsInv ==
  last # None /\ last.kind = "scrutins" =>
    /\ last.input \in Inputs("scrutins")
    /\ ScrutinsProgress(IF last.done THEN "finish" ELSE exec[last.exec].pc,
                        exec[last.exec].mem, Docs(last.input))

-----------------------------------------------------------------------------
(* What each step writes.                                                    *)

LEMMA ChunkThenRest ==
  ASSUME NEW S, NEW todo \in Seq(S)
  PROVE  LET rest == SubSeq(todo, Len(ChunkOf(todo)) + 1, Len(todo))
         IN  /\ ChunkOf(todo) \in Seq(S) /\ rest \in Seq(S)
             /\ \A d \in ToSet(todo) : d \in ToSet(ChunkOf(todo)) \/ d \in ToSet(rest)
<1> DEFINE n == Min({ChunkSize, Len(todo)})
<1>1. n \in 0..Len(todo)
  <2>1. ChunkSize \in Nat \ {0} /\ Len(todo) \in Nat
    BY ScrutinsAssumption
  <2> QED
    BY <2>1, MinOfTwo
<1> HIDE DEF n
<1>2. /\ Len(SubSeq(todo, 1, n)) = n
      /\ SubSeq(todo, 1, n) \in Seq(S) /\ SubSeq(todo, n + 1, Len(todo)) \in Seq(S)
      /\ \A d \in ToSet(todo) : d \in ToSet(SubSeq(todo, 1, n)) \/ d \in ToSet(SubSeq(todo, n + 1, Len(todo)))
  BY <1>1, SplitAt
<1>3. ChunkOf(todo) = SubSeq(todo, 1, n)
  BY DEF ChunkOf, n
<1> QED
  BY <1>2, <1>3

LEMMA BatchThenRest ==
  ASSUME NEW S, NEW lines \in Seq(S)
  PROVE  LET n == Len(Batch(lines))
         IN  /\ n \in 0..Len(lines) /\ Batch(lines) = SubSeq(lines, 1, n)
             /\ Batch(lines) \in Seq(S) /\ SubSeq(lines, n + 1, Len(lines)) \in Seq(S)
             /\ ToSet(SubSeq(lines, n + 1, Len(lines))) \subseteq ToSet(lines)
<1> DEFINE n == Min({InsertBatch, Len(lines)})
<1>1. n \in 0..Len(lines) /\ Len(lines) \in Nat
  <2>1. InsertBatch \in Nat \ {0} /\ Len(lines) \in Nat
    BY ScrutinsAssumption
  <2> QED
    BY <2>1, MinOfTwo
<1> HIDE DEF n
<1>2. /\ Len(SubSeq(lines, 1, n)) = n
      /\ SubSeq(lines, 1, n) \in Seq(S) /\ SubSeq(lines, n + 1, Len(lines)) \in Seq(S)
  BY <1>1, SplitAt
<1>3. ToSet(SubSeq(lines, n + 1, Len(lines))) \subseteq ToSet(lines)
  BY <1>1, Within
<1>4. Batch(lines) = SubSeq(lines, 1, n)
  BY DEF Batch, n
<1> QED
  BY <1>1, <1>2, <1>3, <1>4

LEMMA ScrutinWritten ==
  ASSUME NEW docs, UidsOfOne(docs), NEW chunk, ToSet(chunk) \subseteq docs, NEW table, NEW documents,
         NEW d \in docs,
         d \in ToSet(chunk) \/ (d.uid \in DOMAIN table /\ table[d.uid].content = d
                                /\ table[d.uid].document = documents[d.uid])
  PROVE  LET new == Upsert(ScrutinRows(chunk, documents), table)
         IN  d.uid \in DOMAIN new /\ new[d.uid].content = d /\ new[d.uid].document = documents[d.uid]
<1> DEFINE rows == ScrutinRows(chunk, documents)
<1>0. DOMAIN rows = {c.uid : c \in ToSet(chunk)}
  BY DEF ScrutinRows
<1>1. CASE d.uid \in DOMAIN rows
  <2>1. OfUid(d.uid, chunk) \in ToSet(chunk) /\ OfUid(d.uid, chunk).uid = d.uid
    BY <1>0, <1>1 DEF OfUid
  <2>2. OfUid(d.uid, chunk) = d
    BY <2>1 DEF UidsOfOne
  <2>3. rows[d.uid].content = d /\ rows[d.uid].document = documents[d.uid]
    BY <1>0, <1>1, <2>2 DEF ScrutinRows
  <2> HIDE DEF rows
  <2> QED
    BY <1>1, <2>3, UpsertWrites DEF rows
<1>2. CASE d.uid \notin DOMAIN rows
  <2>1. d \notin ToSet(chunk)
    BY <1>0, <1>2
  <2> HIDE DEF rows
  <2> QED
    BY <1>2, <2>1, UpsertKeeps DEF rows
<1> QED
  BY <1>1, <1>2
GroupRow(d, i, organes) == [organe |-> Known(d.groupes[i].organe, organes), line |-> d.groupes[i]]

LEMMA GroupesWritten ==
  ASSUME NEW docs, UidsOfOne(docs), NEW chunk, ToSet(chunk) \subseteq docs, NEW table, NEW organes,
         NEW d \in docs, NEW i \in DOMAIN d.groupes,
         d \in ToSet(chunk)
           \/ (<<d.uid, i>> \in DOMAIN table /\ table[<<d.uid, i>>] = GroupRow(d, i, organes))
  PROVE  LET new == Upsert(GroupeRows(chunk, organes), table)
         IN  <<d.uid, i>> \in DOMAIN new /\ new[<<d.uid, i>>] = GroupRow(d, i, organes)
<1> DEFINE rows == GroupeRows(chunk, organes)
           k    == <<d.uid, i>>
<1>0. DOMAIN rows = UNION {{c.uid} \X DOMAIN c.groupes : c \in ToSet(chunk)}
  BY DEF GroupeRows
<1>1. CASE k \in DOMAIN rows
  <2>1. \E c \in ToSet(chunk) : c.uid = d.uid
    BY <1>0, <1>1
  <2>2. OfUid(d.uid, chunk) \in ToSet(chunk) /\ OfUid(d.uid, chunk).uid = d.uid
    BY <2>1 DEF OfUid
  <2>3. OfUid(d.uid, chunk) = d
    BY <2>2 DEF UidsOfOne
  <2>4. k[1] = d.uid /\ k[2] = i
    OBVIOUS
  <2>5. rows[k] = [organe |-> Known(OfUid(k[1], chunk).groupes[k[2]].organe, organes),
                   line   |-> OfUid(k[1], chunk).groupes[k[2]]]
    <3> HIDE DEF k
    <3> QED
      BY <1>0, <1>1 DEF GroupeRows
  <2>6. rows[k] = GroupRow(d, i, organes)
    BY <2>3, <2>4, <2>5 DEF GroupRow
  <2> HIDE DEF rows
  <2> QED
    BY <1>1, <2>6, UpsertWrites DEF rows
<1>2. CASE k \notin DOMAIN rows
  <2>1. d \notin ToSet(chunk)
    BY <1>0, <1>2
  <2> HIDE DEF rows
  <2> QED
    BY <1>2, <2>1, UpsertKeeps DEF rows
<1> QED
  BY <1>1, <1>2

LEMMA MisesWritten ==
  ASSUME NEW rows, NEW documents, NEW table
  PROVE  DOMAIN Upsert(MiseRows(rows, documents), table) = ToSet(rows) \cup DOMAIN table
BY DEF MiseRows, Upsert

\* A batch whose lines are of different persons.
LEMMA OnlyLine ==
  ASSUME NEW S, NEW batch \in Seq(S), ~TwiceNamed(batch), NEW l \in ToSet(batch)
  PROVE  (CHOOSE m \in ToSet(batch) : KeyOf(m) = KeyOf(l)) = l
<1> DEFINE m == CHOOSE m \in ToSet(batch) : KeyOf(m) = KeyOf(l)
<1>1. m \in ToSet(batch) /\ KeyOf(m) = KeyOf(l)
  OBVIOUS
<1> HIDE DEF m
<1>2. PICK i, j \in 1..Len(batch) : batch[i] = m /\ batch[j] = l
  BY <1>1 DEF ToSet
<1>3. ~(i < j) /\ ~(j < i)
  BY <1>1, <1>2 DEF TwiceNamed
<1>4. i = j
  BY <1>3
<1> QED
  BY <1>2, <1>4 DEF m

\* The row of a line whose chunk has been looked up is one it may have.
LEMMA RowFits ==
  ASSUME NEW chunk, NEW resolved, Looked(chunk, resolved),
         NEW d \in ToSet(chunk), NEW l \in LinesOf(d)
  PROVE  RowOk(VoteRow(l, DOMAIN base.organes, resolved), l)
<1> DEFINE organes == DOMAIN base.organes
           key     == <<l.vote.acteur, l.date>>
           found   == Fantome(l.groupe, organes) /\ key \in DOMAIN resolved
           row     == VoteRow(l, organes, resolved)
<1>0. PICK g \in ToSet(d.groupes) : \E v \in ToSet(g.votes) : l = LineOf(d, g, v)
  BY DEF LinesOf
<1>1. PICK v \in ToSet(g.votes) : l = LineOf(d, g, v)
  BY <1>0
<1>2. l.groupe = g /\ l.vote = v /\ l.date = d.date
  BY <1>1 DEF LineOf
<1>3. Fantome(l.groupe, organes) => key \in LookupKeys(chunk, organes)
  <2> SUFFICES ASSUME Fantome(g, organes)
               PROVE  <<v.acteur, d.date>> \in LookupKeys(chunk, organes)
    BY <1>2
  <2> QED
    BY DEF LookupKeys
<1>4. key[1] = l.vote.acteur /\ key[2] = l.date
  OBVIOUS
<1>5. row = [position   |-> l.vote.position,
             organe     |-> IF found THEN resolved[key] ELSE Known(l.groupe.organe, organes),
             fromMandat |-> found]
  BY DEF VoteRow
<1>6. row.position = l.vote.position /\ row.fromMandat = found
      /\ row.organe = IF found THEN resolved[key] ELSE Known(l.groupe.organe, organes)
  BY <1>5
<1> HIDE DEF row
<1>7. CASE Fantome(l.groupe, organes)
  <2>1. Possible(l) = Candidats(key[1], key[2])
    BY <1>4, <1>7 DEF Possible
  <2>2. key \in DOMAIN resolved <=> Possible(l) # {}
    BY <1>3, <1>7, <2>1 DEF Looked
  <2>3. key \in DOMAIN resolved => resolved[key] \in Possible(l)
    BY <2>1 DEF Looked
  <2>4. Known(l.groupe.organe, organes) = None
    BY <1>7 DEF Fantome, Known
  <2> HIDE DEF key
  <2> QED
    BY <1>6, <1>7, <2>2, <2>3, <2>4 DEF RowOk, row
<1>8. CASE ~Fantome(l.groupe, organes)
  <2>1. Possible(l) = {l.groupe.organe} /\ Known(l.groupe.organe, organes) = l.groupe.organe
    BY <1>8 DEF Possible, Fantome, Known
  <2> QED
    BY <1>6, <1>8, <2>1 DEF RowOk, row
<1> QED
  BY <1>7, <1>8
SameReferential == base'.organes = base.organes /\ base'.mandats = base.mandats

LEMMA SameRows ==
  ASSUME SameReferential, NEW row, NEW l
  PROVE  RowOk(row, l)' <=> RowOk(row, l)
<1>1. Possible(l)' = Possible(l) /\ Fantome(l.groupe, DOMAIN base'.organes) = Fantome(l.groupe, DOMAIN base.organes)
  BY DEF Possible, Candidats, SameReferential
<1> QED
  BY <1>1 DEF RowOk

LEMMA VoteRowsDomain ==
  ASSUME NEW lines, NEW organes, NEW resolved
  PROVE  DOMAIN VoteRows(lines, organes, resolved) = {KeyOf(l) : l \in ToSet(lines)}
BY DEF VoteRows

\* The votes of the scrutins of other chunks are left alone.
LEMMA VotesKept ==
  ASSUME NEW docs, UidsOfOne(docs), NEW chunk, ToSet(chunk) \subseteq docs,
         NEW lines, ToSet(lines) \subseteq UNION {LinesOf(c) : c \in ToSet(chunk)},
         NEW organes, NEW resolved,
         SameReferential, base'.votes = Upsert(VoteRows(lines, organes, resolved), base.votes),
         NEW d \in docs, d \notin ToSet(chunk), VotesOk(d)
  PROVE  VotesOk(d)'
<1> DEFINE rows == VoteRows(lines, organes, resolved)
<1> SUFFICES ASSUME NEW l \in LinesOf(d), VoteOk(l)
             PROVE  VoteOk(l)'
  BY DEF VotesOk
<1>1. l.scrutin = d.uid
  BY DEF LinesOf, LineOf
<1>2. ASSUME NEW m \in ToSet(lines)
      PROVE  KeyOf(m) # KeyOf(l)
  <2>1. PICK c \in ToSet(chunk) : m \in LinesOf(c)
    OBVIOUS
  <2>2. m.scrutin = c.uid
    BY <2>1 DEF LinesOf, LineOf
  <2>3. c.uid # d.uid
    BY DEF UidsOfOne
  <2> QED
    BY <1>1, <2>2, <2>3 DEF KeyOf
<1>3. KeyOf(l) \notin DOMAIN rows
  <2>1. DOMAIN rows = {KeyOf(m) : m \in ToSet(lines)}
    BY VoteRowsDomain
  <2> HIDE DEF rows
  <2> QED
    BY <1>2, <2>1
<1> DEFINE table == base.votes
<1>4. KeyOf(l) \in DOMAIN table
  BY DEF VoteOk
<1> HIDE DEF rows, table
<1>5. KeyOf(l) \in DOMAIN Upsert(rows, table) /\ Upsert(rows, table)[KeyOf(l)] = table[KeyOf(l)]
  BY <1>3, <1>4, UpsertKeeps
<1>6. base'.votes = Upsert(rows, table)
  BY DEF rows, table
<1> QED
  BY <1>5, <1>6, SameRows DEF VoteOk, table

LEMMA VotingStep ==
  ASSUME NEW chunk, NEW lines, Voting(chunk, lines), ~TwiceNamed(Batch(lines)),
         NEW resolved, Looked(chunk, resolved), SameReferential,
         base'.votes = Upsert(VoteRows(Batch(lines), DOMAIN base.organes, resolved), base.votes)
  PROVE  Voting(chunk, SubSeq(lines, Len(Batch(lines)) + 1, Len(lines)))'
<1> DEFINE S     == UNION {LinesOf(d) : d \in ToSet(chunk)}
           batch == Batch(lines)
           rest  == SubSeq(lines, Len(batch) + 1, Len(lines))
           rows  == VoteRows(batch, DOMAIN base.organes, resolved)
           table == base.votes
<1>1. lines \in Seq(S)
  BY DEF Voting
<1>2. /\ batch \in Seq(S) /\ rest \in Seq(S) /\ ToSet(rest) \subseteq ToSet(lines)
      /\ Len(batch) \in 0..Len(lines) /\ batch = SubSeq(lines, 1, Len(batch))
  BY <1>1, BatchThenRest
<1>3. base'.votes = Upsert(rows, table)
  OBVIOUS
<1>4. DOMAIN rows = {KeyOf(l) : l \in ToSet(batch)}
  BY VoteRowsDomain
<1>5. ASSUME NEW d \in ToSet(chunk), NEW l \in LinesOf(d), l \in ToSet(batch)
      PROVE  VoteOk(l)'
  <2>1. rows[KeyOf(l)] = VoteRow(l, DOMAIN base.organes, resolved)
    <3>1. (CHOOSE m \in ToSet(batch) : KeyOf(m) = KeyOf(l)) = l
      BY <1>2, <1>5, OnlyLine
    <3>2. KeyOf(l) \in {KeyOf(m) : m \in ToSet(batch)}
      BY <1>5
    <3> QED
      BY <3>1, <3>2 DEF VoteRows
  <2>2. RowOk(rows[KeyOf(l)], l)
    BY <2>1, RowFits
  <2>3. KeyOf(l) \in DOMAIN rows
    BY <1>4, <1>5
  <2> HIDE DEF rows, table
  <2>4. KeyOf(l) \in DOMAIN Upsert(rows, table) /\ Upsert(rows, table)[KeyOf(l)] = rows[KeyOf(l)]
    BY <2>3, UpsertWrites
  <2>5. KeyOf(l) \in DOMAIN base'.votes /\ base'.votes[KeyOf(l)] = rows[KeyOf(l)]
    BY <1>3, <2>4
  <2>6. RowOk(base'.votes[KeyOf(l)], l)
    BY <2>2, <2>5
  <2>7. \A row : RowOk(row, l)' <=> RowOk(row, l)
    BY SameRows
  <2> QED
    BY <2>5, <2>6, <2>7 DEF VoteOk
<1>6. ASSUME NEW l, VoteOk(l), \A m \in ToSet(batch) : KeyOf(m) # KeyOf(l)
      PROVE  VoteOk(l)'
  <2>1. KeyOf(l) \notin DOMAIN rows
    BY <1>4, <1>6
  <2>2. KeyOf(l) \in DOMAIN table
    BY <1>6 DEF VoteOk
  <2> HIDE DEF rows, table
  <2>3. KeyOf(l) \in DOMAIN Upsert(rows, table) /\ Upsert(rows, table)[KeyOf(l)] = table[KeyOf(l)]
    BY <2>1, <2>2, UpsertKeeps
  <2>4. KeyOf(l) \in DOMAIN base'.votes /\ base'.votes[KeyOf(l)] = base.votes[KeyOf(l)]
    BY <1>3, <2>3 DEF table
  <2>5. \A row : RowOk(row, l)' <=> RowOk(row, l)
    BY SameRows
  <2> QED
    BY <1>6, <2>4, <2>5 DEF VoteOk
<1>7. ToSet(batch) \subseteq ToSet(lines)
  <2>1. Len(batch) <= Len(lines) /\ Len(batch) \in Int
    BY <1>1, <1>2
  <2>2. ToSet(SubSeq(lines, 1, Len(batch))) \subseteq ToSet(lines)
    BY <1>1, <2>1, Within
  <2> QED
    BY <1>2, <2>2
<1> HIDE DEF rest, batch
<1>8. ASSUME NEW d \in ToSet(chunk), NEW l \in LinesOf(d), LastOf(l, Lines(d))
      PROVE  LastOf(l, rest) \/ (VoteOk(l)' /\ \A m \in ToSet(rest) : KeyOf(m) # KeyOf(l))
  <2>1. CASE LastOf(l, lines)
    <3>1. LastOf(l, rest) \/ (l \in ToSet(batch) /\ \A m \in ToSet(rest) : KeyOf(m) # KeyOf(l))
      BY <1>1, <1>2, <2>1, LastOfSplit DEF rest
    <3> QED
      BY <1>5, <3>1
  <2>2. CASE VoteOk(l) /\ \A m \in ToSet(lines) : KeyOf(m) # KeyOf(l)
    BY <1>2, <1>6, <1>7, <2>2
  <2> QED
    BY <1>8, <2>1, <2>2 DEF Voting
<1>9. Voting(chunk, rest)'
  BY <1>2, <1>8 DEF Voting
<1> QED
  BY <1>9 DEF rest, batch
LEMMA EveryoneKnown ==
  ASSUME TypeInv, SeedInv, PersonInv, NEW e \in Execs, ResolveUnknownActeurs(e),
         exec[e].mem.missing = Cited(Docs(exec[e].input)) \ PersonsAN
  PROVE  Cited(Docs(exec[e].input)) \subseteq PersonsAN'
<1> DEFINE cited == Cited(Docs(exec[e].input))
           new   == Unknown(e)
           table == base.persons
<1>1. base'.persons = Upsert(table, new) /\ exec[e].input \in Inputs("scrutins")
  BY UnknownGives
<1>2. DOMAIN new = cited \ PersonsAN /\ \A p \in DOMAIN new : p # None /\ new[p].an = p
  <2>1. DOMAIN new = exec[e].mem.missing
    BY DEF Unknown
  <2>2. \A p \in DOMAIN new : p # None /\ new[p] = [an |-> p, qid |-> None, nom |-> None]
    BY UnknownGives
  <2> HIDE DEF new
  <2> QED
    BY <2>1, <2>2
<1> SUFFICES ASSUME NEW p \in cited
             PROVE  p \in DOMAIN base'.persons /\ base'.persons[p].an # None
  BY DEF PersonsAN
<1>3. CASE p \in PersonsAN
  <2>1. p \in DOMAIN table /\ table[p].an # None
    BY <1>3 DEF PersonsAN
  <2> HIDE DEF table, new
  <2> QED
    BY <1>1, <2>1, UpsertWrites
<1>4. CASE p \notin PersonsAN
  <2>1. p \notin DOMAIN table
    <3> SUFFICES ASSUME p \in DOMAIN table
                 PROVE  FALSE
      OBVIOUS
    <3>1. table[p].an = None
      BY <1>4 DEF PersonsAN
    <3>2. SeedQid(p)
      BY <3>1 DEF PersonInv, Identified
    <3>3. p \notin cited
      BY <1>1, <3>2, IdentifiersAssumption DEF SeedQid
    <3> QED
      BY <3>3
  <2>2. p \in DOMAIN new /\ new[p].an = p /\ p # None
    BY <1>2, <1>4
  <2> HIDE DEF table, new
  <2>3. p \in DOMAIN Upsert(table, new) /\ Upsert(table, new)[p] = new[p]
    BY <2>1, <2>2, UpsertKeeps
  <2> QED
    BY <1>1, <2>2, <2>3
<1> QED
  BY <1>3, <1>4

-----------------------------------------------------------------------------
(* What a step that writes elsewhere leaves.                                 *)

LEMMA SameScrutins ==
  ASSUME base'.scrutins = base.scrutins, Stored' = Stored
  PROVE  \A d : ScrutinOk(d)' <=> ScrutinOk(d)
BY DEF ScrutinOk

LEMMA SameGroupes ==
  ASSUME base'.groupes = base.groupes, SameReferential
  PROVE  \A d : GroupesOk(d)' <=> GroupesOk(d)
BY DEF GroupesOk, SameReferential

LEMMA SameVotes ==
  ASSUME base'.votes = base.votes, SameReferential
  PROVE  /\ \A d : VotesOk(d)' <=> VotesOk(d)
         /\ \A l : VoteOk(l)' <=> VoteOk(l)
<1>1. \A l : VoteOk(l)' <=> VoteOk(l)
  <2> SUFFICES ASSUME NEW l
               PROVE  VoteOk(l)' <=> VoteOk(l)
    OBVIOUS
  <2>1. \A row : RowOk(row, l)' <=> RowOk(row, l)
    BY SameRows
  <2> QED
    BY <2>1 DEF VoteOk
<1>2. \A d : VotesOk(d)' <=> VotesOk(d)
  BY <1>1 DEF VotesOk
<1> QED
  BY <1>1, <1>2

LEMMA SameMises ==
  ASSUME base'.mises = base.mises
  PROVE  \A d : MisesOk(d)' <=> MisesOk(d)
BY DEF MisesOk

LEMMA SameLooked ==
  ASSUME SameReferential, NEW chunk, NEW resolved
  PROVE  Looked(chunk, resolved)' <=> Looked(chunk, resolved)
BY DEF Looked, Candidats, SameReferential

LEMMA SameIngested ==
  ASSUME Stored' = Stored, SameReferential, base'.scrutins = base.scrutins,
         base'.groupes = base.groupes, base'.votes = base.votes, base'.mises = base.mises
  PROVE  \A d : Ingested(d)' <=> Ingested(d)
BY SameScrutins, SameGroupes, SameVotes, SameMises DEF Ingested

LEMMA SamePersons ==
  ASSUME base'.persons = base.persons
  PROVE  PersonsAN' = PersonsAN
BY DEF PersonsAN

\* Which tables a step of ingest_scrutins leaves alone.
LEMMA ScrutinsTables ==
  ASSUME TypeInv, NEW e \in Execs, Scrutins(e)
  PROVE  /\ SameReferential
         /\ \/ Archive(e) \/ (Stored' = Stored /\ base'.documents = base.documents)
         /\ UpsertScrutins(e) \/ base'.scrutins = base.scrutins
         /\ UpsertGroupes(e) \/ base'.groupes = base.groupes
         /\ UpsertVotes(e) \/ base'.votes = base.votes
         /\ UpsertMiseAuPoint(e) \/ base'.mises = base.mises
         /\ ResolveUnknownActeurs(e) \/ base'.persons = base.persons
<1>0. {"documents", "organes", "mandats", "persons", "scrutins", "groupes", "votes", "mises"} \subseteq DOMAIN base
  BY TablesExist
<1>1. SameReferential
  BY <1>0, ScrutinsGive DEF Keeps, SameReferential
<1> DEFINE Touches(t) == \A u \in {"documents", "persons", "scrutins", "groupes", "votes", "mises"} \ {t} :
                        base'[u] = base[u]
<1>2. Archive(e) => Touches("documents")
  BY <1>0, ArchiveScrutinsGives DEF Keeps
<1>3. ResolveUnknownActeurs(e) => Touches("persons")
  <2> SUFFICES ASSUME NEW v, Fill([persons |-> v])
               PROVE  Touches("persons")
    BY DEF ResolveUnknownActeurs
  <2> QED
    BY <1>0 DEF Fill, Upsert
<1>4. UpsertScrutins(e) => Touches("scrutins")
  <2> SUFFICES ASSUME NEW v, Fill([scrutins |-> v])
               PROVE  Touches("scrutins")
    BY DEF UpsertScrutins
  <2> QED
    BY <1>0 DEF Fill, Upsert
<1>5. UpsertGroupes(e) => Touches("groupes")
  <2> SUFFICES ASSUME NEW v, Fill([groupes |-> v])
               PROVE  Touches("groupes")
    BY DEF UpsertGroupes
  <2> QED
    BY <1>0 DEF Fill, Upsert
<1>6. UpsertVotes(e) => Touches("votes")
  <2>1. ASSUME NEW v, Fill([votes |-> v])
        PROVE  Touches("votes")
    BY <1>0, <2>1 DEF Fill, Upsert
  <2>2. CASE base' = base
    BY <2>2
  <2> QED
    BY <2>1, <2>2 DEF UpsertVotes, Refuse, Abort
<1>7. UpsertMiseAuPoint(e) => Touches("mises")
  <2>1. ASSUME NEW v, Fill([mises |-> v])
        PROVE  Touches("mises")
    BY <1>0, <2>1 DEF Fill, Upsert
  <2>2. CASE base' = base
    BY <2>2
  <2> QED
    BY <2>1, <2>2 DEF UpsertMiseAuPoint, Refuse, Abort
<1>8. FetchLatestDocumentIds(e) \/ FetchPersonIds(e) \/ FetchOrganeIdsOfGroupes(e)
       \/ ResolveGroupesFromMandats(e) \/ EndChunks(e) => base' = base
  BY DEF FetchLatestDocumentIds, FetchPersonIds, FetchOrganeIdsOfGroupes,
         ResolveGroupesFromMandats, EndChunks
<1>9. base'.documents = base.documents => Stored' = Stored
  BY DEF Stored
<1> QED
  BY <1>1, <1>2, <1>3, <1>4, <1>5, <1>6, <1>7, <1>8, <1>9 DEF Scrutins
-----------------------------------------------------------------------------
(* The steps of ingest_scrutins.                                             *)

LEMMA InputsAre ==
  ASSUME NEW input \in Inputs("scrutins")
  PROVE  /\ Docs(input) \in Seq(ToSet(Docs(input))) /\ UidsOfOne(ToSet(Docs(input)))
         /\ \A d \in ToSet(Docs(input)) : WellFormed(d)
<1> DEFINE docs == Docs(input)
<1>1. /\ docs \in Seq(ToSet(docs)) /\ \A d \in ToSet(docs) : WellFormed(d)
      /\ \A i, j \in DOMAIN docs : docs[i].uid = docs[j].uid => i = j
  BY ScrutinsAssumption DEF WellFormed
<1>2. \A d \in ToSet(docs) : \E i \in DOMAIN docs : docs[i] = d
  BY DEF ToSet
<1> HIDE DEF docs
<1>3. UidsOfOne(ToSet(docs))
  BY <1>1, <1>2 DEF UidsOfOne
<1> QED
  BY <1>1, <1>3 DEF docs

\* What the steps have in common.
Going(e, documents, pc, mem) ==
  /\ AlwaysInv /\ e \in Execs /\ Scrutins(e) /\ documents = Docs(exec[e].input)
  /\ ScrutinsProgress(exec[e].pc, exec[e].mem, documents) /\ Moves(e, pc, mem)

LEMMA GoingOn ==
  ASSUME NEW e, NEW documents, NEW pc, NEW mem, Going(e, documents, pc, mem)
  PROVE  /\ TypeInv /\ ExecTyped /\ SeedInv /\ PersonInv
         /\ documents \in Seq(ToSet(documents)) /\ UidsOfOne(ToSet(documents))
         /\ \A d \in ToSet(documents) : WellFormed(d)
<1>1. exec[e].input \in Inputs("scrutins")
  BY ScrutinsGive DEF Going, AlwaysInv, TypeInv, ExecTyped
<1> QED
  BY <1>1, InputsAre DEF Going, AlwaysInv, TypeInv

LEMMA ReadsStep ==
  ASSUME NEW e, NEW documents, NEW pc, NEW mem, Going(e, documents, pc, mem),
         \/ Archive(e) \/ FetchLatestDocumentIds(e) \/ FetchPersonIds(e)
         \/ ResolveUnknownActeurs(e) \/ FetchOrganeIdsOfGroupes(e)
  PROVE  ScrutinsProgress(pc, mem, documents)'
<1> DEFINE mem0 == exec[e].mem
           docs == ToSet(documents)
<1>0. /\ TypeInv /\ ExecTyped /\ SeedInv /\ PersonInv /\ e \in Execs /\ Moves(e, pc, mem)
      /\ documents = Docs(exec[e].input) /\ Scrutins(e)
      /\ ScrutinsProgress(exec[e].pc, mem0, documents) /\ documents \in Seq(docs)
  BY GoingOn DEF Going
<1>1. CASE Archive(e)
  <2>1. pc = "document_ids"
    BY <1>0, <1>1, GotoIs DEF Archive
  <2> QED
    BY <2>1 DEF ScrutinsProgress, Located, Chunking
<1>2. CASE FetchLatestDocumentIds(e)
  <2> DEFINE latest == Latest(Stored)
  <2>1. pc = "person_ids" /\ mem = Upsert([documents |-> latest], mem0) /\ base' = base
    BY <1>0, <1>2, RememberIs DEF FetchLatestDocumentIds, Stored
  <2>2. latest' = latest
    BY <2>1 DEF Stored
  <2> HIDE DEF latest
  <2>3. "documents" \in DOMAIN mem /\ mem.documents = latest
    BY <2>1 DEF Upsert
  <2> QED
    BY <2>1, <2>2, <2>3 DEF ScrutinsProgress, Located, Chunking, latest
<1>3. CASE FetchPersonIds(e)
  <2> DEFINE missing == Cited(documents) \ PersonsAN
  <2>1. /\ pc = "unknown" /\ mem = Upsert([missing |-> missing], mem0) /\ base' = base
        /\ exec[e].pc = "person_ids"
    BY <1>0, <1>3, RememberIs DEF FetchPersonIds, At
  <2>2. "documents" \in DOMAIN mem0 /\ mem0.documents = Latest(Stored)
    BY <1>0, <2>1 DEF ScrutinsProgress, Located
  <2>3. Latest(Stored)' = Latest(Stored) /\ missing' = missing
    BY <2>1 DEF Stored, PersonsAN
  <2> HIDE DEF missing
  <2>4. /\ "documents" \in DOMAIN mem /\ mem.documents = mem0.documents
        /\ "missing" \in DOMAIN mem /\ mem.missing = missing
    BY <2>1, <2>2 DEF Upsert
  <2> QED
    BY <2>1, <2>2, <2>3, <2>4 DEF ScrutinsProgress, Located, Chunking, missing
<1>4. CASE ResolveUnknownActeurs(e)
  <2>1. /\ pc = "organe_ids" /\ mem = Upsert([missing |-> {}], mem0)
        /\ exec[e].pc = "unknown"
    BY <1>0, <1>4, RememberIs DEF ResolveUnknownActeurs, At
  <2>2. /\ "documents" \in DOMAIN mem0 /\ mem0.documents = Latest(Stored)
        /\ mem0.missing = Cited(documents) \ PersonsAN
    BY <1>0, <2>1 DEF ScrutinsProgress, Located
  <2>3. "documents" \in DOMAIN mem /\ mem.documents = mem0.documents
    BY <2>1, <2>2 DEF Upsert
  <2>4. Stored' = Stored
    BY <1>0, <1>4, <2>1, ScrutinsTables DEF Archive, At
  <2>5. Cited(documents) \subseteq PersonsAN'
    BY <1>0, <1>4, <2>2, EveryoneKnown
  <2> QED
    BY <2>1, <2>2, <2>3, <2>4, <2>5 DEF ScrutinsProgress, Located, Chunking
<1>5. CASE FetchOrganeIdsOfGroupes(e)
  <2>1. /\ pc = "chunk" /\ base' = base /\ exec[e].pc = "organe_ids"
        /\ mem = Upsert([organes |-> DOMAIN base.organes, todo |-> documents], mem0)
    BY <1>0, <1>5, RememberIs DEF FetchOrganeIdsOfGroupes, At
  <2>2. /\ "documents" \in DOMAIN mem0 /\ mem0.documents = Latest(Stored)
        /\ Cited(documents) \subseteq PersonsAN
    BY <1>0, <2>1 DEF ScrutinsProgress, Located
  <2>3. /\ "documents" \in DOMAIN mem /\ mem.documents = mem0.documents
        /\ "organes" \in DOMAIN mem /\ mem.organes = DOMAIN base.organes
        /\ "todo" \in DOMAIN mem /\ mem.todo = documents
    BY <2>1, <2>2 DEF Upsert
  <2>4. Stored' = Stored /\ PersonsAN' = PersonsAN
    BY <2>1 DEF Stored, PersonsAN
  <2> QED
    BY <1>0, <2>1, <2>2, <2>3, <2>4 DEF ScrutinsProgress, Located, Chunking
<1> QED
  BY <1>1, <1>2, <1>3, <1>4, <1>5

\* A chunk is begun, or there is none left.
LEMMA ChunksStep ==
  ASSUME NEW e, NEW documents, NEW pc, NEW mem, Going(e, documents, pc, mem),
         ResolveGroupesFromMandats(e) \/ EndChunks(e)
  PROVE  ScrutinsProgress(pc, mem, documents)'
<1> DEFINE mem0 == exec[e].mem
           docs == ToSet(documents)
<1>0. /\ TypeInv /\ ExecTyped /\ e \in Execs /\ Moves(e, pc, mem) /\ documents = Docs(exec[e].input)
      /\ ScrutinsProgress(exec[e].pc, mem0, documents) /\ exec[e].pc = "chunk" /\ base' = base
  BY GoingOn DEF Going, ResolveGroupesFromMandats, EndChunks, At
<1>1. /\ "documents" \in DOMAIN mem0 /\ mem0.documents = Latest(Stored)
      /\ Cited(documents) \subseteq PersonsAN
      /\ "organes" \in DOMAIN mem0 /\ mem0.organes = DOMAIN base.organes
      /\ "todo" \in DOMAIN mem0 /\ mem0.todo \in Seq(docs)
      /\ \A d \in docs : d \in ToSet(mem0.todo) \/ Ingested(d)
  BY <1>0 DEF ScrutinsProgress, Located, Chunking
<1>2. Stored' = Stored /\ PersonsAN' = PersonsAN /\ SameReferential
  BY <1>0 DEF Stored, PersonsAN, SameReferential
<1>3. \A d : Ingested(d)' <=> Ingested(d)
  BY <1>0, <1>2, SameIngested
<1>4. CASE ResolveGroupesFromMandats(e)
  <2>0. PICK todo : todo = mem0.todo
    OBVIOUS
  <2> DEFINE chunk == ChunkOf(todo)
             keys  == LookupKeys(chunk, mem0.organes)
             found == {k \in keys : Candidats(k[1], k[2]) # {}}
  <2>1. PICK resolved \in [found -> UNION {Candidats(k[1], k[2]) : k \in found}] :
          /\ \A k \in found : resolved[k] \in Candidats(k[1], k[2])
          /\ Remember(e, "scrutins", [resolved |-> resolved])
    BY <1>4, <2>0 DEF ResolveGroupesFromMandats, Chunk, ChunkOf
  <2>2. Looked(chunk, resolved)
    BY <1>1, <2>1 DEF Looked
  <2> HIDE DEF keys, found
  <2>3. pc = "scrutins" /\ mem = Upsert([resolved |-> resolved], mem0)
    BY <1>0, <2>1, RememberIs
  <2>4. /\ "documents" \in DOMAIN mem /\ mem.documents = mem0.documents
        /\ "organes" \in DOMAIN mem /\ mem.organes = mem0.organes
        /\ "todo" \in DOMAIN mem /\ mem.todo = todo
        /\ "resolved" \in DOMAIN mem /\ mem.resolved = resolved
    BY <1>1, <2>0, <2>3 DEF Upsert
  <2>5. Looked(chunk, resolved)'
    BY <1>2, <2>2, SameLooked
  <2> HIDE DEF chunk
  <2>6. \A d \in docs : d \in ToSet(todo) \/ Ingested(d)'
    BY <1>1, <1>3, <2>0
  <2>7. todo \in Seq(docs) /\ ChunkOf(todo) = chunk
    BY <1>1, <2>0 DEF chunk
  <2> QED
    BY <1>1, <1>2, <2>3, <2>4, <2>5, <2>6, <2>7
    DEF ScrutinsProgress, Located, Chunking, SameReferential
<1>5. CASE EndChunks(e)
  <2>1. pc = "finish" /\ mem0.todo = <<>>
    BY <1>0, <1>5, GotoIs DEF EndChunks
  <2>2. ToSet(mem0.todo) = {}
    BY <2>1 DEF ToSet
  <2> QED
    BY <1>1, <1>2, <1>3, <2>1, <2>2 DEF ScrutinsProgress, Located, Chunking
<1> QED
  BY <1>4, <1>5
LEMMA UpsertScrutinsStep ==
  ASSUME NEW e, NEW documents, NEW pc, NEW mem, Going(e, documents, pc, mem), UpsertScrutins(e)
  PROVE  ScrutinsProgress(pc, mem, documents)'
<1> DEFINE docs   == ToSet(documents)
           chunk  == ChunkOf(mem.todo)
           latest == Latest(Stored)
           rows   == ScrutinRows(chunk, latest)
           table  == base.scrutins
<1>0. /\ TypeInv /\ ExecTyped /\ e \in Execs /\ Moves(e, pc, mem) /\ Scrutins(e) /\ UidsOfOne(docs)
      /\ ScrutinsProgress(exec[e].pc, exec[e].mem, documents) /\ exec[e].pc = "scrutins"
  BY GoingOn DEF Going, UpsertScrutins, At
<1>1. pc = "groupes" /\ mem = exec[e].mem
  BY <1>0, GotoIs DEF UpsertScrutins
<1>2. /\ "documents" \in DOMAIN mem /\ mem.documents = latest
      /\ Cited(documents) \subseteq PersonsAN
      /\ "organes" \in DOMAIN mem /\ mem.organes = DOMAIN base.organes
      /\ "todo" \in DOMAIN mem /\ mem.todo \in Seq(docs)
      /\ \A d \in docs : d \in ToSet(mem.todo) \/ Ingested(d)
      /\ "resolved" \in DOMAIN mem /\ Looked(chunk, mem.resolved)
  BY <1>0, <1>1 DEF ScrutinsProgress, Located, Chunking
<1>3. base'.scrutins = Upsert(rows, table)
  <2>1. Fill([scrutins |-> Upsert(rows, table)])
    BY <1>1, <1>2 DEF UpsertScrutins, Chunk, ChunkOf
  <2> HIDE DEF rows, table
  <2> QED
    BY <1>0, <2>1, TablesExist DEF Fill, Upsert
<1>4. /\ SameReferential /\ Stored' = Stored /\ base'.groupes = base.groupes
      /\ base'.votes = base.votes /\ base'.mises = base.mises /\ base'.persons = base.persons
  BY <1>0, ScrutinsTables
  DEF At, Archive, UpsertScrutins, UpsertGroupes, UpsertVotes, UpsertMiseAuPoint, ResolveUnknownActeurs
<1>5. chunk \in Seq(docs) /\ ToSet(chunk) \subseteq docs
  <2> HIDE DEF docs
  <2>1. chunk \in Seq(docs)
    BY <1>2, ChunkThenRest
  <2> QED
    BY <2>1 DEF ToSet
<1>6. ASSUME NEW d \in docs, d \in ToSet(chunk) \/ ScrutinOk(d)
      PROVE  ScrutinOk(d)'
  <2> HIDE DEF docs, chunk, latest, table
  <2>1. d \in ToSet(chunk) \/ (d.uid \in DOMAIN table /\ table[d.uid].content = d
                               /\ table[d.uid].document = latest[d.uid])
    BY <1>6 DEF ScrutinOk, table, latest
  <2>2. LET new == Upsert(rows, table)
        IN  d.uid \in DOMAIN new /\ new[d.uid].content = d /\ new[d.uid].document = latest[d.uid]
    BY <1>0, <1>5, <2>1, ScrutinWritten
  <2> QED
    BY <1>3, <1>4, <2>2 DEF ScrutinOk, latest
<1>7. ASSUME NEW d \in docs, Ingested(d)
      PROVE  Ingested(d)'
  <2>1. GroupesOk(d)' /\ VotesOk(d)' /\ MisesOk(d)'
    BY <1>4, <1>7, SameGroupes, SameVotes, SameMises DEF Ingested
  <2> QED
    BY <1>6, <1>7, <2>1 DEF Ingested
<1>8. Looked(chunk, mem.resolved)'
  BY <1>2, <1>4, SameLooked
<1>9. PersonsAN' = PersonsAN /\ DOMAIN base'.organes = DOMAIN base.organes
  BY <1>4 DEF PersonsAN, SameReferential
<1>10. \A d \in docs : d \in ToSet(mem.todo) \/ Ingested(d)'
  BY <1>2, <1>7
<1>11. \A d \in ToSet(chunk) : ScrutinOk(d)'
  BY <1>5, <1>6
<1> QED
  BY <1>1, <1>2, <1>4, <1>8, <1>9, <1>10, <1>11 DEF ScrutinsProgress, Located, Chunking

LEMMA UpsertGroupesStep ==
  ASSUME NEW e, NEW documents, NEW pc, NEW mem, Going(e, documents, pc, mem), UpsertGroupes(e)
  PROVE  ScrutinsProgress(pc, mem, documents)'
<1> DEFINE mem0   == exec[e].mem
           docs   == ToSet(documents)
           chunk  == ChunkOf(mem.todo)
           lines  == AllLines(chunk)
           organes == DOMAIN base.organes
           rows   == GroupeRows(chunk, organes)
           table  == base.groupes
<1>0. /\ TypeInv /\ ExecTyped /\ e \in Execs /\ Moves(e, pc, mem) /\ Scrutins(e) /\ UidsOfOne(docs)
      /\ \A d \in docs : WellFormed(d)
      /\ ScrutinsProgress(exec[e].pc, mem0, documents) /\ exec[e].pc = "groupes"
  BY GoingOn DEF Going, UpsertGroupes, At
<1>1. pc = "votes" /\ mem = Upsert([lines |-> AllLines(Chunk(e))], mem0)
  <2> DEFINE facts == [lines |-> AllLines(Chunk(e))]
  <2>1. Remember(e, "votes", facts)
    BY DEF UpsertGroupes
  <2> HIDE DEF facts
  <2>2. pc = "votes" /\ mem = Upsert(facts, mem0)
    BY <1>0, <2>1, RememberIs
  <2> QED
    BY <2>2 DEF facts
<1>2. /\ "documents" \in DOMAIN mem0 /\ mem0.documents = Latest(Stored)
      /\ Cited(documents) \subseteq PersonsAN
      /\ "organes" \in DOMAIN mem0 /\ mem0.organes = organes
      /\ "todo" \in DOMAIN mem0 /\ mem0.todo \in Seq(docs)
      /\ \A d \in docs : d \in ToSet(mem0.todo) \/ Ingested(d)
      /\ "resolved" \in DOMAIN mem0 /\ Looked(ChunkOf(mem0.todo), mem0.resolved)
      /\ \A d \in ToSet(ChunkOf(mem0.todo)) : ScrutinOk(d)
  BY <1>0 DEF ScrutinsProgress, Located, Chunking
<1>3. /\ "documents" \in DOMAIN mem /\ mem.documents = mem0.documents
      /\ "organes" \in DOMAIN mem /\ mem.organes = mem0.organes
      /\ "todo" \in DOMAIN mem /\ mem.todo = mem0.todo
      /\ "resolved" \in DOMAIN mem /\ mem.resolved = mem0.resolved
      /\ "lines" \in DOMAIN mem /\ mem.lines = AllLines(Chunk(e))
  <2> DEFINE all == AllLines(Chunk(e))
  <2> HIDE DEF all
  <2>1. mem = Upsert([lines |-> all], mem0)
    BY <1>1 DEF all
  <2>2. /\ "documents" \in DOMAIN mem /\ mem.documents = mem0.documents
        /\ "organes" \in DOMAIN mem /\ mem.organes = mem0.organes
        /\ "todo" \in DOMAIN mem /\ mem.todo = mem0.todo
        /\ "resolved" \in DOMAIN mem /\ mem.resolved = mem0.resolved
        /\ "lines" \in DOMAIN mem /\ mem.lines = all
    BY <1>2, <2>1 DEF Upsert
  <2> QED
    BY <2>2 DEF all
<1>4. Chunk(e) = chunk
  BY <1>3 DEF Chunk, ChunkOf
<1>5. base'.groupes = Upsert(rows, table)
  <2>1. Fill([groupes |-> Upsert(rows, table)])
    BY <1>2, <1>4 DEF UpsertGroupes
  <2> HIDE DEF rows, table
  <2> QED
    BY <1>0, <2>1, TablesExist DEF Fill, Upsert
<1>6. /\ SameReferential /\ Stored' = Stored /\ base'.scrutins = base.scrutins
      /\ base'.votes = base.votes /\ base'.mises = base.mises /\ base'.persons = base.persons
  BY <1>0, ScrutinsTables
  DEF At, Archive, UpsertScrutins, UpsertGroupes, UpsertVotes, UpsertMiseAuPoint, ResolveUnknownActeurs
<1>7. chunk \in Seq(docs) /\ ToSet(chunk) \subseteq docs
  <2> HIDE DEF docs
  <2>1. chunk \in Seq(docs)
    BY <1>2, <1>3, ChunkThenRest
  <2> QED
    BY <2>1 DEF ToSet
<1>8. ASSUME NEW d \in docs, d \in ToSet(chunk) \/ GroupesOk(d)
      PROVE  GroupesOk(d)'
  <2> SUFFICES ASSUME NEW i \in DOMAIN d.groupes
               PROVE  /\ <<d.uid, i>> \in DOMAIN base'.groupes
                      /\ base'.groupes[<<d.uid, i>>] = GroupRow(d, i, organes)
    BY <1>6 DEF GroupesOk, GroupRow, SameReferential
  <2>1. d \in ToSet(chunk)
          \/ (<<d.uid, i>> \in DOMAIN table /\ table[<<d.uid, i>>] = GroupRow(d, i, organes))
    BY <1>8 DEF GroupesOk, GroupRow
  <2> HIDE DEF docs, chunk, table, organes
  <2>2. LET new == Upsert(rows, table)
        IN  <<d.uid, i>> \in DOMAIN new /\ new[<<d.uid, i>>] = GroupRow(d, i, organes)
    BY <1>0, <1>7, <2>1, GroupesWritten
  <2> QED
    BY <1>5, <2>2
<1>9. ASSUME NEW d \in docs, Ingested(d)
      PROVE  Ingested(d)'
  <2>1. ScrutinOk(d)' /\ VotesOk(d)' /\ MisesOk(d)'
    BY <1>6, <1>9, SameScrutins, SameVotes, SameMises DEF Ingested
  <2> QED
    BY <1>8, <1>9, <2>1 DEF Ingested
<1>10. Looked(chunk, mem.resolved)'
  BY <1>2, <1>3, <1>6, SameLooked
<1>11. PersonsAN' = PersonsAN /\ DOMAIN base'.organes = DOMAIN base.organes
  BY <1>6 DEF PersonsAN, SameReferential
<1>12. Voting(chunk, lines)'
  <2>1. /\ lines \in Seq(UNION {LinesOf(d) : d \in ToSet(chunk)})
        /\ \A d \in ToSet(chunk) : \A l : LastOf(l, Lines(d)) => LastOf(l, lines)
    <3> HIDE DEF docs, chunk
    <3> QED
      BY <1>0, <1>7, AllLinesAre
  <2> HIDE DEF lines
  <2> QED
    BY <2>1 DEF Voting
<1>13. \A d \in docs : d \in ToSet(mem.todo) \/ Ingested(d)'
  BY <1>2, <1>3, <1>9
<1>14. \A d \in ToSet(chunk) : ScrutinOk(d)' /\ GroupesOk(d)'
  BY <1>2, <1>3, <1>6, <1>7, <1>8, SameScrutins
<1>15. mem.lines = lines
  BY <1>3, <1>4
<1> HIDE DEF lines
<1> QED
  BY <1>1, <1>2, <1>3, <1>6, <1>10, <1>11, <1>12, <1>13, <1>14, <1>15
  DEF ScrutinsProgress, Located, Chunking
LEMMA UpsertVotesStep ==
  ASSUME NEW e, NEW documents, NEW pc, NEW mem, Going(e, documents, pc, mem), UpsertVotes(e)
  PROVE  ScrutinsProgress(pc, mem, documents)'
<1> DEFINE mem0    == exec[e].mem
           docs    == ToSet(documents)
           chunk   == ChunkOf(mem.todo)
           lines   == mem0.lines
           rest    == SubSeq(lines, Len(Batch(lines)) + 1, Len(lines))
           rows    == VoteRows(Batch(lines), DOMAIN base.organes, mem.resolved)
           table   == base.votes
<1>0. /\ TypeInv /\ ExecTyped /\ e \in Execs /\ Moves(e, pc, mem) /\ Scrutins(e) /\ UidsOfOne(docs)
      /\ ScrutinsProgress(exec[e].pc, mem0, documents) /\ exec[e].pc = "votes"
      /\ \A d \in docs : WellFormed(d)
  BY GoingOn DEF Going, UpsertVotes, At
<1>1. /\ "documents" \in DOMAIN mem0 /\ mem0.documents = Latest(Stored)
      /\ Cited(documents) \subseteq PersonsAN
      /\ "organes" \in DOMAIN mem0 /\ mem0.organes = DOMAIN base.organes
      /\ "todo" \in DOMAIN mem0 /\ mem0.todo \in Seq(docs)
      /\ \A d \in docs : d \in ToSet(mem0.todo) \/ Ingested(d)
      /\ "resolved" \in DOMAIN mem0 /\ Looked(ChunkOf(mem0.todo), mem0.resolved)
      /\ \A d \in ToSet(ChunkOf(mem0.todo)) : ScrutinOk(d) /\ GroupesOk(d)
      /\ "lines" \in DOMAIN mem0 /\ Voting(ChunkOf(mem0.todo), lines)
  BY <1>0 DEF ScrutinsProgress, Located, Chunking
<1>2. /\ SameReferential /\ Stored' = Stored /\ base'.scrutins = base.scrutins
      /\ base'.groupes = base.groupes /\ base'.mises = base.mises /\ base'.persons = base.persons
  BY <1>0, ScrutinsTables
  DEF At, Archive, UpsertScrutins, UpsertGroupes, UpsertVotes, UpsertMiseAuPoint, ResolveUnknownActeurs
<1>3. PersonsAN' = PersonsAN /\ DOMAIN base'.organes = DOMAIN base.organes
  BY <1>2 DEF PersonsAN, SameReferential
<1>4. \A d : (ScrutinOk(d)' <=> ScrutinOk(d)) /\ (GroupesOk(d)' <=> GroupesOk(d))
             /\ (MisesOk(d)' <=> MisesOk(d))
  BY <1>2, SameScrutins, SameGroupes, SameMises
<1>5. CASE /\ lines = <<>> /\ base' = base
           /\ Remember(e, "mises", [corrections |-> AllCorrections(Chunk(e))])
  <2> DEFINE all == AllCorrections(Chunk(e))
  <2> HIDE DEF all
  <2>0. pc = "mises" /\ mem = Upsert([corrections |-> all], mem0)
    BY <1>0, <1>5, RememberIs DEF all
  <2>1. /\ pc = "mises"
        /\ "documents" \in DOMAIN mem /\ mem.documents = mem0.documents
        /\ "organes" \in DOMAIN mem /\ mem.organes = mem0.organes
        /\ "todo" \in DOMAIN mem /\ mem.todo = mem0.todo
        /\ "corrections" \in DOMAIN mem /\ mem.corrections = all
    BY <1>1, <2>0 DEF Upsert
  <2>4. Correcting(chunk, mem.corrections)'
    <3>1. Chunk(e) = chunk
      BY <2>1 DEF Chunk, ChunkOf
    <3>2. chunk \in Seq(docs)
      <4> HIDE DEF docs
      <4> QED
        BY <1>1, <2>1, ChunkThenRest
    <3>3. mem.corrections = AllCorrections(chunk)
      BY <2>1, <3>1 DEF all
    <3> HIDE DEF chunk, docs
    <3>4. /\ mem.corrections \in Seq(CorrectionsIn(docs))
          /\ \A d \in ToSet(chunk) : ToSet(Corrections(d)) \subseteq ToSet(mem.corrections)
      BY <1>0, <3>2, <3>3, AllCorrectionsAre
    <3>5. mem.corrections \in Seq(ToSet(mem.corrections))
      BY <3>4, OwnElements
    <3> QED
      BY <3>4, <3>5 DEF Correcting
  <2>2. \A d : Ingested(d)' <=> Ingested(d)
    BY <1>2, <1>5, SameIngested
  <2>3. ASSUME NEW d \in ToSet(chunk)
        PROVE  VotesOk(d)'
    <3>1. \A l : ~LastOf(l, lines)
      BY <1>5 DEF LastOf
    <3>2. VotesOk(d)
      BY <1>1, <2>1, <3>1 DEF Voting, VotesOk
    <3> QED
      BY <1>2, <1>5, <3>2, SameVotes
  <2> QED
    BY <1>1, <1>2, <1>3, <1>4, <2>1, <2>2, <2>3, <2>4 DEF ScrutinsProgress, Located, Chunking
<1>6. CASE /\ ~TwiceNamed(Batch(lines)) /\ Fill([votes |-> Upsert(NewVotes(e), table)])
           /\ Remember(e, "votes", [lines |-> rest])
  <2>1. pc = "votes" /\ mem = Upsert([lines |-> rest], mem0)
    <3> HIDE DEF rest
    <3> QED
      BY <1>0, <1>6, RememberIs
  <2>2. /\ "documents" \in DOMAIN mem /\ mem.documents = mem0.documents
        /\ "organes" \in DOMAIN mem /\ mem.organes = mem0.organes
        /\ "todo" \in DOMAIN mem /\ mem.todo = mem0.todo
        /\ "resolved" \in DOMAIN mem /\ mem.resolved = mem0.resolved
        /\ "lines" \in DOMAIN mem /\ mem.lines = rest
    <3> HIDE DEF rest
    <3> QED
      BY <1>1, <2>1 DEF Upsert
  <2>3. base'.votes = Upsert(rows, table)
    <3>1. NewVotes(e) = rows
      BY <1>1, <2>2 DEF NewVotes
    <3> HIDE DEF rows, table
    <3>2. Fill([votes |-> Upsert(rows, table)])
      BY <1>6, <3>1
    <3> QED
      BY <1>0, <3>2, TablesExist DEF Fill, Upsert
  <2>4. chunk \in Seq(docs) /\ ToSet(chunk) \subseteq docs
    <3> HIDE DEF docs
    <3>1. chunk \in Seq(docs)
      BY <1>1, <2>2, ChunkThenRest
    <3> QED
      BY <3>1 DEF ToSet
  <2>5. PICK all : all = lines
    OBVIOUS
  <2>6. Voting(chunk, mem.lines)'
    <3>1. Voting(chunk, all) /\ Looked(chunk, mem.resolved) /\ ~TwiceNamed(Batch(all))
      BY <1>1, <1>6, <2>2, <2>5
    <3>2. base'.votes = Upsert(VoteRows(Batch(all), DOMAIN base.organes, mem.resolved), base.votes)
      BY <2>3, <2>5
    <3>3. Voting(chunk, SubSeq(all, Len(Batch(all)) + 1, Len(all)))'
      BY <1>2, <3>1, <3>2, VotingStep
    <3>4. mem.lines = SubSeq(all, Len(Batch(all)) + 1, Len(all))
      BY <2>2, <2>5
    <3> QED
      BY <3>3, <3>4
  <2>7. ASSUME NEW d \in docs, d \notin ToSet(mem.todo)
        PROVE  Ingested(d)'
    <3>1. Ingested(d)
      BY <1>1, <2>2, <2>7
    <3>2. d \notin ToSet(chunk)
      <4>1. ChunkSize \in Int /\ Len(mem.todo) \in Nat /\ mem.todo \in Seq(docs)
        BY <1>1, <2>2, ScrutinsAssumption
      <4>2. Min({ChunkSize, Len(mem.todo)}) \in Int /\ Min({ChunkSize, Len(mem.todo)}) <= Len(mem.todo)
        BY <4>1, MinOfTwo
      <4>3. ToSet(chunk) \subseteq ToSet(mem.todo)
        BY <4>1, <4>2, Within DEF ChunkOf
      <4> QED
        BY <2>7, <4>3
    <3>3. ToSet(Batch(all)) \subseteq UNION {LinesOf(c) : c \in ToSet(chunk)}
      <4> DEFINE S == UNION {LinesOf(c) : c \in ToSet(chunk)}
      <4>1. all \in Seq(S)
        BY <1>1, <2>2, <2>5 DEF Voting
      <4> HIDE DEF S
      <4>2. Batch(all) \in Seq(S)
        BY <4>1, BatchThenRest
      <4>3. ToSet(Batch(all)) \subseteq S
        BY <4>2 DEF ToSet
      <4> QED
        BY <4>3 DEF S
    <3>4. base'.votes = Upsert(VoteRows(Batch(all), DOMAIN base.organes, mem.resolved), base.votes)
      BY <2>3, <2>5
    <3>5. VotesOk(d)
      BY <3>1 DEF Ingested
    <3>6. VotesOk(d)'
      <4> HIDE DEF docs, chunk
      <4> QED
        BY <1>0, <1>2, <2>4, <2>7, <3>2, <3>3, <3>4, <3>5, VotesKept
    <3> QED
      BY <1>4, <3>1, <3>6 DEF Ingested
  <2>8. Looked(chunk, mem.resolved)'
    BY <1>1, <1>2, <2>2, SameLooked
  <2>9. \A d \in ToSet(chunk) : ScrutinOk(d)' /\ GroupesOk(d)'
    BY <1>1, <1>4, <2>2
  <2> HIDE DEF rest
  <2> QED
    BY <1>1, <1>2, <1>3, <2>1, <2>2, <2>6, <2>7, <2>8, <2>9 DEF ScrutinsProgress, Located, Chunking
<1>7. CASE Refuse(e)
  <2>1. pc \in Outcomes
    BY <1>0, <1>7, RefuseGives, AbortIs
  <2> QED
    BY <2>1 DEF ScrutinsProgress, Outcomes, Located, Chunking
<1> QED
  BY <1>5, <1>6, <1>7 DEF UpsertVotes

LEMMA UpsertMiseAuPointStep ==
  ASSUME NEW e, NEW documents, NEW pc, NEW mem, Going(e, documents, pc, mem), UpsertMiseAuPoint(e)
  PROVE  ScrutinsProgress(pc, mem, documents)'
<1> DEFINE mem0  == exec[e].mem
           docs  == ToSet(documents)
           todo  == mem0.todo
           chunk == ChunkOf(todo)
           rest  == SubSeq(todo, Len(chunk) + 1, Len(todo))
           rows  == mem0.corrections
           batch == Batch(rows)
           left  == SubSeq(rows, Len(batch) + 1, Len(rows))
           table == base.mises
<1>0. /\ TypeInv /\ ExecTyped /\ e \in Execs /\ Moves(e, pc, mem) /\ Scrutins(e)
      /\ ScrutinsProgress(exec[e].pc, mem0, documents) /\ exec[e].pc = "mises"
      /\ Chunk(e) = chunk
  BY GoingOn DEF Going, UpsertMiseAuPoint, At, Chunk, ChunkOf
<1>1. /\ "documents" \in DOMAIN mem0 /\ mem0.documents = Latest(Stored)
      /\ Cited(documents) \subseteq PersonsAN
      /\ "organes" \in DOMAIN mem0 /\ mem0.organes = DOMAIN base.organes
      /\ todo \in Seq(docs)
      /\ \A d \in docs : d \in ToSet(todo) \/ Ingested(d)
      /\ \A d \in ToSet(chunk) : ScrutinOk(d) /\ GroupesOk(d) /\ VotesOk(d)
      /\ "corrections" \in DOMAIN mem0 /\ Correcting(chunk, rows)
      /\ "todo" \in DOMAIN mem0
  BY <1>0 DEF ScrutinsProgress, Located, Chunking
<1>2. /\ SameReferential /\ Stored' = Stored /\ base'.scrutins = base.scrutins
      /\ base'.groupes = base.groupes /\ base'.votes = base.votes /\ base'.persons = base.persons
  BY <1>0, ScrutinsTables
  DEF At, Archive, UpsertScrutins, UpsertGroupes, UpsertVotes, UpsertMiseAuPoint, ResolveUnknownActeurs
<1>3. PersonsAN' = PersonsAN /\ DOMAIN base'.organes = DOMAIN base.organes
  BY <1>2 DEF PersonsAN, SameReferential
<1>4. \A d : (ScrutinOk(d)' <=> ScrutinOk(d)) /\ (GroupesOk(d)' <=> GroupesOk(d))
             /\ (VotesOk(d)' <=> VotesOk(d))
  BY <1>2, SameScrutins, SameGroupes, SameVotes
<1>5. \A d : d \in docs => d \in ToSet(todo) \/ Ingested(d)
  BY <1>1
<1>6. CASE rows = <<>> /\ base' = base /\ Remember(e, "chunk", [resolved |-> NoRow, todo |-> rest])
  <2>1. /\ rest \in Seq(docs)
        /\ \A d \in ToSet(todo) : d \in ToSet(chunk) \/ d \in ToSet(rest)
    <3> HIDE DEF docs, todo
    <3> QED
      BY <1>1, ChunkThenRest
  <2> HIDE DEF rest
  <2>2. pc = "chunk" /\ mem = Upsert([resolved |-> NoRow, todo |-> rest], mem0)
    BY <1>0, <1>6, RememberIs
  <2>3. /\ "documents" \in DOMAIN mem /\ mem.documents = mem0.documents
        /\ "organes" \in DOMAIN mem /\ mem.organes = mem0.organes
        /\ "todo" \in DOMAIN mem /\ mem.todo = rest
    BY <1>1, <2>2 DEF Upsert
  <2>4. ASSUME NEW d \in ToSet(chunk)
        PROVE  MisesOk(d)
    <3>1. ToSet(rows) = {}
      BY <1>6 DEF ToSet
    <3> HIDE DEF rows
    <3> QED
      BY <1>1, <3>1 DEF Correcting, MisesOk
  <2>5. ASSUME NEW d \in docs, d \notin ToSet(rest)
        PROVE  Ingested(d)'
    <3>1. Ingested(d)
      BY <1>1, <1>5, <2>1, <2>4, <2>5 DEF Ingested
    <3> QED
      BY <1>2, <1>6, <3>1, SameIngested
  <2> QED
    BY <1>1, <1>2, <1>3, <2>1, <2>2, <2>3, <2>5 DEF ScrutinsProgress, Located, Chunking
<1>7. CASE /\ ~TwiceCorrected(batch) /\ Fill([mises |-> Upsert(MiseRows(batch, mem0.documents), table)])
           /\ Remember(e, "mises", [corrections |-> left])
  <2>1. /\ left \in Seq(ToSet(left)) /\ \A x \in ToSet(rows) : x \in ToSet(batch) \/ x \in ToSet(left)
    <3> DEFINE S == ToSet(rows)
               t == rows
               n == Len(Batch(t))
    <3>1. t \in Seq(S)
      BY <1>1 DEF Correcting
    <3> HIDE DEF S, t
    <3>2. n \in 0..Len(t) /\ Batch(t) = SubSeq(t, 1, n)
      BY <3>1, BatchThenRest
    <3> HIDE DEF n
    <3>3. /\ SubSeq(t, n + 1, Len(t)) \in Seq(S)
          /\ \A x \in ToSet(t) : x \in ToSet(Batch(t)) \/ x \in ToSet(SubSeq(t, n + 1, Len(t)))
      BY <3>1, <3>2, SplitAt
    <3>4. SubSeq(t, n + 1, Len(t)) \in Seq(ToSet(SubSeq(t, n + 1, Len(t))))
      BY <3>3, OwnElements
    <3> QED
      BY <3>3, <3>4 DEF n, t
  <2> HIDE DEF left, batch
  <2>2. pc = "mises" /\ mem = Upsert([corrections |-> left], mem0)
    BY <1>0, <1>7, RememberIs
  <2>3. /\ "documents" \in DOMAIN mem /\ mem.documents = mem0.documents
        /\ "organes" \in DOMAIN mem /\ mem.organes = mem0.organes
        /\ "todo" \in DOMAIN mem /\ mem.todo = todo
        /\ "corrections" \in DOMAIN mem /\ mem.corrections = left
    BY <1>1, <2>2 DEF Upsert
  <2>4. DOMAIN base'.mises = ToSet(batch) \cup DOMAIN table
    <3> DEFINE new == Upsert(MiseRows(batch, mem0.documents), table)
    <3>1. DOMAIN new = ToSet(batch) \cup DOMAIN table
      BY MisesWritten
    <3>2. Fill([mises |-> new])
      BY <1>7
    <3> HIDE DEF new
    <3>3. base'.mises = new
      BY <1>0, <3>2, TablesExist DEF Fill, Upsert
    <3> QED
      BY <3>1, <3>3
  <2>5. Correcting(ChunkOf(mem.todo), mem.corrections)'
    <3> DEFINE c == ChunkOf(mem.todo)
    <3>1. Correcting(c, rows)
      BY <1>1, <2>3
    <3> HIDE DEF rows, c
    <3>2. Correcting(c, mem.corrections)'
      BY <2>1, <2>3, <2>4, <3>1 DEF Correcting
    <3> QED
      BY <3>2 DEF c
  <2>6. ASSUME NEW d \in docs, d \notin ToSet(todo)
        PROVE  Ingested(d)'
    <3>1. MisesOk(d)'
      BY <1>5, <2>4, <2>6 DEF Ingested, MisesOk
    <3> QED
      BY <1>4, <1>5, <2>6, <3>1 DEF Ingested
  <2> QED
    BY <1>1, <1>2, <1>3, <1>4, <2>2, <2>3, <2>5, <2>6 DEF ScrutinsProgress, Located, Chunking
<1>8. CASE Refuse(e)
  <2>1. pc \in Outcomes
    BY <1>0, <1>8, RefuseGives, AbortIs
  <2> QED
    BY <2>1 DEF ScrutinsProgress, Outcomes, Located, Chunking
<1> QED
  BY <1>0, <1>6, <1>7, <1>8 DEF UpsertMiseAuPoint

LEMMA ScrutinsStep ==
  ASSUME NEW e, NEW documents, NEW pc, NEW mem, Going(e, documents, pc, mem)
  PROVE  ScrutinsProgress(pc, mem, documents)'
BY ReadsStep, ChunksStep, UpsertScrutinsStep, UpsertGroupesStep, UpsertVotesStep,
   UpsertMiseAuPointStep DEF Going, Scrutins
-----------------------------------------------------------------------------
(* The whole.                                                                *)

LEMMA SameProgress ==
  ASSUME base' = base, NEW pc, NEW mem, NEW documents, ScrutinsProgress(pc, mem, documents)
  PROVE  ScrutinsProgress(pc, mem, documents)'
<1>1. Stored' = Stored /\ PersonsAN' = PersonsAN /\ SameReferential
  BY DEF Stored, PersonsAN, SameReferential
<1>2. \A d : /\ Ingested(d)' <=> Ingested(d)
             /\ ScrutinOk(d)' <=> ScrutinOk(d)
             /\ GroupesOk(d)' <=> GroupesOk(d)
             /\ VotesOk(d)' <=> VotesOk(d)
  BY <1>1, SameIngested, SameScrutins, SameGroupes, SameVotes
<1>3. \A chunk, resolved : Looked(chunk, resolved)' <=> Looked(chunk, resolved)
  BY <1>1, SameLooked
<1>4. \A chunk, lines : Voting(chunk, lines)' <=> Voting(chunk, lines)
  <2>1. \A l : VoteOk(l)' <=> VoteOk(l)
    BY <1>1, SameVotes
  <2> QED
    BY <2>1 DEF Voting
<1>5. \A chunk, rows : Correcting(chunk, rows)' <=> Correcting(chunk, rows)
  BY DEF Correcting
<1> QED
  BY <1>1, <1>2, <1>3, <1>4, <1>5 DEF ScrutinsProgress

LEMMA ScrutinsInvStep ==
  AlwaysInv /\ AlwaysInv' /\ LastInv /\ ScrutinsInv /\ [Next]_vars => ScrutinsInv'
<1> SUFFICES ASSUME AlwaysInv, AlwaysInv', LastInv, ScrutinsInv, [Next]_vars,
                    last' # None, last'.kind = "scrutins"
             PROVE  /\ last'.input \in Inputs("scrutins")
                    /\ ScrutinsProgress(IF last.done THEN "finish" ELSE exec[last.exec].pc,
                                        exec[last.exec].mem, Docs(last.input))'
  BY DEF ScrutinsInv
<1>0. TypeInv /\ TypeInv'
  BY DEF AlwaysInv
<1>a. ASSUME NEW pc, NEW mem, NEW documents,
             ScrutinsProgress(pc, mem, documents)', documents = Docs(last'.input),
             IF last'.done THEN pc = "finish" ELSE pc = exec'[last'.exec].pc /\ mem = exec'[last'.exec].mem
      PROVE  ScrutinsProgress(IF last.done THEN "finish" ELSE exec[last.exec].pc,
                              exec[last.exec].mem, Docs(last.input))'
  <2>1. CASE last'.done
    BY <1>a, <2>1 DEF ScrutinsProgress, Located, Chunking
  <2>2. CASE ~last'.done
    BY <1>a, <2>2
  <2> QED
    BY <2>1, <2>2
<1>1. CASE UNCHANGED vars
  <2>1. base' = base /\ exec' = exec /\ last' = last
    BY <1>1 DEF vars
  <2>2. PICK pc, mem, documents :
          /\ pc = IF last.done THEN "finish" ELSE exec[last.exec].pc
          /\ mem = exec[last.exec].mem /\ documents = Docs(last.input)
    OBVIOUS
  <2>3. ScrutinsProgress(pc, mem, documents)'
    BY <2>1, <2>2, SameProgress DEF ScrutinsInv
  <2> QED
    BY <1>a, <2>1, <2>2, <2>3 DEF ScrutinsInv
<1>2. ASSUME NEW e \in Execs, Start(e)
      PROVE  /\ last'.input \in Inputs("scrutins")
             /\ ScrutinsProgress(IF last.done THEN "finish" ELSE exec[last.exec].pc,
                                 exec[last.exec].mem, Docs(last.input))'
  <2>1. PICK kind \in DOMAIN FirstStep : \E input :
          /\ exec'[e] = [kind |-> kind, input |-> input, pc |-> FirstStep[kind], mem |-> NoRow]
          /\ last' = [exec |-> e, kind |-> kind, input |-> input, done |-> FALSE]
    BY <1>0, <1>2, StartLast
  <2>2. /\ exec'[e].kind = "scrutins" /\ exec'[e].pc = "archive" /\ last'.exec = e /\ last'.done = FALSE
        /\ exec'[e].input = last'.input
    BY <2>1 DEF FirstStep
  <2>3. last'.input \in Inputs("scrutins")
    BY <1>0, <2>2 DEF TypeInv, ExecTyped, Active, Outcomes
  <2>4. PICK mem, documents : mem = exec'[e].mem /\ documents = Docs(last'.input)
    OBVIOUS
  <2>5. ScrutinsProgress("archive", mem, documents)'
    BY DEF ScrutinsProgress, Located, Chunking
  <2> QED
    BY <1>a, <2>2, <2>3, <2>4, <2>5
<1>3. ASSUME NEW e \in Execs, Finish(e)
      PROVE  /\ last'.input \in Inputs("scrutins")
             /\ ScrutinsProgress(IF last.done THEN "finish" ELSE exec[last.exec].pc,
                                 exec[last.exec].mem, Docs(last.input))'
  <2>1. Active(e) /\ base' = base /\ exec[e].pc = "finish"
    BY <1>0, <1>3, FinishGives DEF Finish
  <2>2. last # None
    BY <1>3 DEF Finish, IsLast
  <2>3. last.exec = e /\ ~last.done /\ DOMAIN last = {"exec", "kind", "input", "done"}
    BY <2>1, <2>2 DEF LastInv
  <2>4. last' = [last EXCEPT !.done = TRUE]
    BY <1>3, <2>2, <2>3 DEF Finish, IsLast
  <2>5. last'.kind = last.kind /\ last'.input = last.input /\ last'.done = TRUE
    BY <2>3, <2>4
  <2>6. PICK mem, documents : mem = exec[e].mem /\ documents = Docs(last.input)
    OBVIOUS
  <2>7. ScrutinsProgress("finish", mem, documents) /\ last.input \in Inputs("scrutins")
    BY <2>1, <2>2, <2>3, <2>5, <2>6 DEF ScrutinsInv
  <2>8. ScrutinsProgress("finish", mem, documents)'
    BY <2>1, <2>7, SameProgress
  <2> QED
    BY <1>a, <2>5, <2>6, <2>7, <2>8
<1>4. ASSUME NEW e \in Execs, Break(e) \/ Jobs(e)
      PROVE  /\ last'.input \in Inputs("scrutins")
             /\ ScrutinsProgress(IF last.done THEN "finish" ELSE exec[last.exec].pc,
                                 exec[last.exec].mem, Docs(last.input))'
  <2>1. Active(e) /\ (Aborts(e) \/ (Jobs(e) /\ \E pc, mem : Moves(e, pc, mem)))
    BY <1>0, <1>4, BreakGives, JobsGive DEF Advances
  <2>2. CASE Aborts(e)
    <3>1. last # None /\ last.exec # e
      BY <2>2 DEF Aborts, IsLast
    <3> QED
      BY <2>1, <3>1 DEF LastInv
  <2>3. CASE Jobs(e) /\ \E pc, mem : Moves(e, pc, mem)
    <3>1. PICK pc, mem : Moves(e, pc, mem)
      BY <2>3
    <3>2. last' = last /\ exec'[e].pc = pc /\ exec'[e].mem = mem
      BY <3>1 DEF Moves
    <3>3. /\ last.exec = e /\ ~last.done /\ exec[e].kind = "scrutins"
          /\ exec[e].input = last.input
      BY <2>1, <3>2 DEF LastInv
    <3>4. Scrutins(e)
      BY <1>0, <2>3, <3>3, ActeursGive, SlugsGive, CandidatesGive, WikidataGive DEF Jobs
    <3>5. PICK documents : documents = Docs(exec[e].input)
      OBVIOUS
    <3>6. last.input \in Inputs("scrutins") /\ ScrutinsProgress(exec[e].pc, exec[e].mem, documents)
      BY <3>2, <3>3, <3>5 DEF ScrutinsInv
    <3>7. ScrutinsProgress(pc, mem, documents)'
      BY <3>1, <3>4, <3>5, <3>6, ScrutinsStep DEF Going
    <3> QED
      BY <1>a, <3>2, <3>3, <3>5, <3>6, <3>7
  <2> QED
    BY <2>1, <2>2, <2>3
<1> QED
  BY <1>1, <1>2, <1>3, <1>4 DEF Next, Jobs

\* Every last line of a scrutin is one of its lines, cited and in the base.
LEMMA EndConverges ==
  ASSUME NEW documents, Cited(documents) \subseteq PersonsAN,
         NEW d \in ToSet(documents), WellFormed(d), VotesOk(d),
         NEW i \in DOMAIN Lines(d),
         \A j \in (i + 1)..Len(Lines(d)) : KeyOf(Lines(d)[j]) # KeyOf(Lines(d)[i])
  PROVE  /\ VoteOk(Lines(d)[i]) /\ Lines(d)[i].date = d.date
         /\ Lines(d)[i].vote.acteur \in PersonsAN
<1> DEFINE l == Lines(d)[i]
<1>1. Lines(d) \in Seq(LinesOf(d))
  BY LinesAre
<1>2. l \in LinesOf(d) /\ i \in 1..Len(Lines(d))
  BY <1>1
<1>3. LastOf(l, Lines(d))
  BY <1>2 DEF LastOf
<1>4. PICK g \in ToSet(d.groupes) : \E v \in ToSet(g.votes) : l = LineOf(d, g, v)
  BY <1>2 DEF LinesOf
<1>5. PICK v \in ToSet(g.votes) : l = LineOf(d, g, v)
  BY <1>4
<1>6. v.acteur \in Cited(documents)
  BY DEF Cited, Votes
<1> HIDE DEF l
<1>7. l.date = d.date /\ l.vote = v
  BY <1>5 DEF LineOf
<1>8. VoteOk(l)
  BY <1>2, <1>3 DEF VotesOk
<1> QED
  BY <1>6, <1>7, <1>8 DEF l

LEMMA ProgressConverges == ScrutinsInv => ScrutinsConverge
<1> SUFFICES ASSUME ScrutinsInv, DoneAlone("scrutins"), NEW d \in ToSet(Docs(Input))
             PROVE  LET documents == base.documents["an_scrutin"]
                        row       == base.scrutins[d.uid]
                        organes   == DOMAIN base.organes
                        lines     == Lines(d)
                    IN  /\ row.content = d /\ row.document = Latest(documents)[d.uid]
                        /\ \A i \in DOMAIN d.groupes :
                             base.groupes[<<d.uid, i>>] = [organe |-> Known(d.groupes[i].organe, organes),
                                                           line   |-> d.groupes[i]]
                        /\ \A i \in DOMAIN lines :
                             (\A j \in (i + 1)..Len(lines) : KeyOf(lines[j]) # KeyOf(lines[i])) =>
                             LET vote     == base.votes[KeyOf(lines[i])]
                                 fantome  == Fantome(lines[i].groupe, organes)
                                 possible == IF fantome THEN Candidats(lines[i].vote.acteur, d.date)
                                                        ELSE {lines[i].groupe.organe}
                             IN  /\ lines[i].vote.acteur \in PersonsAN
                                 /\ vote.position = lines[i].vote.position
                                 /\ IF possible = {} THEN vote.organe = None ELSE vote.organe \in possible
                                 /\ vote.fromMandat <=> (fantome /\ possible # {})
                        /\ ToSet(Corrections(d)) \subseteq DOMAIN base.mises
  BY DEF ScrutinsConverge
<1>1. /\ Cited(Docs(Input)) \subseteq PersonsAN /\ Ingested(d) /\ Input \in Inputs("scrutins")
  BY DEF ScrutinsInv, ScrutinsProgress, DoneAlone, Input
<1>2. WellFormed(d)
  BY <1>1, InputsAre
<1>3. /\ base.scrutins[d.uid].content = d
      /\ base.scrutins[d.uid].document = Latest(base.documents["an_scrutin"])[d.uid]
  BY <1>1 DEF Ingested, ScrutinOk, Stored
<1>4. ASSUME NEW i \in DOMAIN Lines(d),
             \A j \in (i + 1)..Len(Lines(d)) : KeyOf(Lines(d)[j]) # KeyOf(Lines(d)[i])
      PROVE  /\ Lines(d)[i].vote.acteur \in PersonsAN
             /\ RowOk(base.votes[KeyOf(Lines(d)[i])], Lines(d)[i])
             /\ Lines(d)[i].date = d.date
  BY <1>1, <1>2, <1>4, EndConverges DEF Ingested, VoteOk
<1> QED
  BY <1>1, <1>3, <1>4 DEF Ingested, GroupesOk, MisesOk, RowOk, Possible

\* Whatever failed, died or overlapped before, an execution of ingest_scrutins
\* that runs alone to its end leaves what its archive says (ScrutinsConverge):
\* the content and the document of each scrutin, the line of each group, and for
\* each person the last vote given, with the group of its line or else of its
\* mandates.
THEOREM ScrutinsConvergeCorrect == Spec => []ScrutinsConverge
<1> DEFINE Inv == AlwaysInv /\ LastInv /\ ScrutinsInv
<1>1. Init => Inv
  <2> SUFFICES ASSUME Init
               PROVE  LastInv /\ ScrutinsInv
    BY AlwaysInit
  <2>1. last = None
    BY DEF Init
  <2> QED
    BY <2>1 DEF LastInv, ScrutinsInv
<1>2. Inv /\ [Next]_vars => Inv'
  <2> SUFFICES ASSUME Inv, [Next]_vars
               PROVE  Inv'
    OBVIOUS
  <2>1. AlwaysInv'
    BY AlwaysStep
  <2>2. LastInv'
    BY LastStep DEF AlwaysInv
  <2>3. ScrutinsInv'
    BY <2>1, ScrutinsInvStep
  <2> QED
    BY <2>1, <2>2, <2>3
<1>3. Inv => ScrutinsConverge
  BY ProgressConverges
<1> QED
  BY <1>1, <1>2, <1>3, PTL DEF Spec
-----------------------------------------------------------------------------
(* What an execution has still to do, whoever else is active.                *)

\* Of ingest_acteurs: the mandates left are among those it is to write.
StillToWrite(e) ==
  LET x == exec[e] IN
  x.kind = "acteurs" =>
    /\ x.pc \in {"persons", "mandats"} => "organes" \in DOMAIN x.mem
    /\ x.pc = "mandats" => /\ "todo" \in DOMAIN x.mem
                           /\ x.mem.todo \in Seq(ToSet(ToWrite(x.input, x.mem.organes)))

\* Of ingest_scrutins: each scrutin left is there once, and a vote or a correction
\* is twice among those left of a chunk only if a scrutin of the archive gives it twice.
NamesTwice(input) ==
  \E d \in ToSet(Docs(input)) : TwiceNamed(Lines(d)) \/ TwiceCorrected(Corrections(d))

StillToCast(e) ==
  LET x == exec[e] IN
  x.kind = "scrutins" =>
    /\ x.pc \in Chunking => /\ "todo" \in DOMAIN x.mem
                            /\ x.mem.todo \in Seq(ToSet(Docs(x.input))) /\ OneUid(x.mem.todo)
    /\ x.pc = "votes" => /\ "lines" \in DOMAIN x.mem /\ x.mem.lines \in Seq(ToSet(x.mem.lines))
                         /\ TwiceNamed(x.mem.lines) => NamesTwice(x.input)
    /\ x.pc = "mises" => /\ "corrections" \in DOMAIN x.mem
                         /\ x.mem.corrections \in Seq(ToSet(x.mem.corrections))
                         /\ TwiceCorrected(x.mem.corrections) => NamesTwice(x.input)

\* Of assign_slugs: the persons it is still to name, and the finitely many slugs
\* it has read or written.
StillToName(e) ==
  LET x == exec[e] IN
  x.kind = "slugs" =>
    /\ x.pc \in {"taken", "slugs"} => "todo" \in DOMAIN x.mem /\ x.mem.todo \in Seq(ToSet(x.mem.todo))
    /\ x.pc = "slugs" => "taken" \in DOMAIN x.mem /\ IsFiniteSet(x.mem.taken)

Still(e) == StillToWrite(e) /\ StillToCast(e) /\ StillToName(e)

StillInv == (\A e \in Execs : Still(e)) /\ IsFiniteSet(DOMAIN base.slugs)

\* An execution that is over, or of another job, has nothing to do of a kind.
LEMMA NothingLeft ==
  ASSUME NEW e \in Execs
  PROVE  /\ exec'[e].kind # "acteurs" \/ exec'[e].pc \notin {"persons", "mandats"} => StillToWrite(e)'
         /\ exec'[e].kind # "scrutins" \/ exec'[e].pc \notin Chunking => StillToCast(e)'
         /\ exec'[e].kind # "slugs" \/ exec'[e].pc \notin {"taken", "slugs"} => StillToName(e)'
BY DEF StillToWrite, StillToCast, StillToName, Chunking

\* Whether `e` moved to `pc` with these facts in mind.
LEMMA Remembered ==
  ASSUME ExecTyped, NEW e \in Execs, NEW pc, NEW facts, Remember(e, pc, facts)
  PROVE  /\ exec'[e].kind = exec[e].kind /\ exec'[e].input = exec[e].input /\ exec'[e].pc = pc
         /\ exec'[e].mem = Upsert(facts, exec[e].mem)
<1> DEFINE mem == Upsert(facts, exec[e].mem)
<1>1. Moves(e, pc, mem)
  BY RememberGives
<1> HIDE DEF mem
<1>2. /\ exec'[e].kind = exec[e].kind /\ exec'[e].input = exec[e].input /\ exec'[e].pc = pc
      /\ exec'[e].mem = mem
  BY <1>1 DEF Moves
<1> QED
  BY <1>2 DEF mem

LEMMA WentOn ==
  ASSUME ExecTyped, NEW e \in Execs, NEW pc, Goto(e, pc)
  PROVE  /\ exec'[e].kind = exec[e].kind /\ exec'[e].input = exec[e].input /\ exec'[e].pc = pc
         /\ exec'[e].mem = exec[e].mem
<1>1. Moves(e, pc, exec[e].mem)
  BY GotoGives
<1> QED
  BY <1>1 DEF Moves

LEMMA GaveUp ==
  ASSUME ExecTyped, NEW e \in Execs, Refuse(e) \/ Fail(e)
  PROVE  /\ exec'[e].kind = None /\ exec'[e].pc \in Outcomes
         /\ Fail(e) => exec'[e].pc = "over"
         /\ base' = base
BY DEF Refuse, Fail, Abort, Over, Outcomes, ExecTyped

LEMMA WriteStep ==
  ASSUME TypeInv, NEW e \in Execs, StillToWrite(e), Acteurs(e)
  PROVE  StillToWrite(e)'
<1>0. ExecTyped /\ exec[e].input \in Inputs("acteurs") /\ exec[e].kind = "acteurs"
  BY ActeursGive DEF TypeInv, ExecTyped
<1>1. CASE ArchiveOrganes(e) \/ ArchiveActeurs(e) \/ UpsertOrganes(e)
  <2>1. exec'[e].pc \in {"archive_acteurs", "organes", "organe_ids"}
    BY <1>0, <1>1, WentOn DEF ArchiveOrganes, ArchiveActeurs, UpsertOrganes
  <2> QED
    BY <2>1, NothingLeft
<1>2. CASE FetchOrganeIds(e)
  <2> DEFINE read == DOMAIN base.organes
  <2>1. exec'[e].pc = "persons" /\ exec'[e].mem = Upsert([organes |-> read], exec[e].mem)
    BY <1>0, <1>2, Remembered DEF FetchOrganeIds
  <2> HIDE DEF read
  <2>2. "organes" \in DOMAIN exec'[e].mem
    BY <2>1 DEF Upsert
  <2> QED
    BY <2>1, <2>2 DEF StillToWrite
<1>3. CASE UpsertPersons(e)
  <2> DEFINE mandats == ToWrite(exec[e].input, exec[e].mem.organes)
  <2>1. /\ exec'[e].pc = "mandats" /\ exec'[e].mem = Upsert([todo |-> mandats], exec[e].mem)
        /\ exec'[e].input = exec[e].input /\ exec[e].pc = "persons"
    BY <1>0, <1>3, Remembered DEF UpsertPersons, At
  <2>2. mandats \in Seq(ToSet(mandats))
    BY <1>0, ToWriteGives
  <2>3. "organes" \in DOMAIN exec[e].mem
    BY <1>0, <2>1 DEF StillToWrite
  <2> HIDE DEF mandats
  <2>4. /\ "organes" \in DOMAIN exec'[e].mem /\ exec'[e].mem.organes = exec[e].mem.organes
        /\ "todo" \in DOMAIN exec'[e].mem /\ exec'[e].mem.todo = mandats
    BY <2>1, <2>3 DEF Upsert
  <2>5. ToWrite(exec'[e].input, exec'[e].mem.organes) = mandats
    BY <2>1, <2>4 DEF mandats
  <2> QED
    BY <2>1, <2>2, <2>4, <2>5 DEF StillToWrite
<1>4. CASE UpsertMandats(e)
  <2> DEFINE todo    == exec[e].mem.todo
             mandats == ToSet(ToWrite(exec[e].input, exec[e].mem.organes))
             size    == Min({MandatBatch, Len(todo)})
             rest    == SubSeq(todo, size + 1, Len(todo))
  <2>1. "organes" \in DOMAIN exec[e].mem /\ todo \in Seq(mandats)
    BY <1>0, <1>4 DEF StillToWrite, UpsertMandats, At
  <2>2. Goto(e, "finish") \/ Remember(e, "mandats", [todo |-> rest]) \/ Refuse(e)
    BY <1>4 DEF UpsertMandats
  <2>3. CASE Goto(e, "finish") \/ Refuse(e)
    <3>1. exec'[e].pc \in {"finish"} \cup Outcomes
      BY <1>0, <2>3, WentOn, GaveUp
    <3> QED
      BY <3>1, NothingLeft DEF Outcomes
  <2>4. CASE Remember(e, "mandats", [todo |-> rest])
    <3>1. rest \in Seq(mandats)
      <4> HIDE DEF mandats
      <4>1. size \in 0..Len(todo)
        <5> DEFINE n == Len(todo)
        <5>1. MandatBatch \in Nat \ {0} /\ n \in Nat
          BY <2>1, ActeursAssumption
        <5> HIDE DEF n
        <5>2. Min({MandatBatch, n}) \in 0..n
          BY <5>1, MinOfTwo
        <5> QED
          BY <5>2 DEF n
      <4> HIDE DEF size
      <4> QED
        BY <2>1, <4>1, SplitAt
    <3> HIDE DEF rest
    <3>2. /\ exec'[e].pc = "mandats" /\ exec'[e].mem = Upsert([todo |-> rest], exec[e].mem)
          /\ exec'[e].input = exec[e].input
      BY <1>0, <2>4, Remembered
    <3>3. /\ "organes" \in DOMAIN exec'[e].mem /\ exec'[e].mem.organes = exec[e].mem.organes
          /\ "todo" \in DOMAIN exec'[e].mem /\ exec'[e].mem.todo = rest
      BY <2>1, <3>2 DEF Upsert
    <3>4. ToSet(ToWrite(exec'[e].input, exec'[e].mem.organes)) = mandats
      BY <3>2, <3>3
    <3> QED
      BY <3>1, <3>2, <3>3, <3>4 DEF StillToWrite
  <2> QED
    BY <2>2, <2>3, <2>4
<1> QED
  BY <1>1, <1>2, <1>3, <1>4 DEF Acteurs
\* What is in a part of a sequence is in it, in the same order.
LEMMA WithinKeeps ==
  ASSUME NEW S, NEW s \in Seq(S), NEW part \in Seq(S), NEW k \in Nat, k + Len(part) <= Len(s),
         \A i \in 1..Len(part) : part[i] = s[k + i]
  PROVE  /\ OneUid(s) => OneUid(part)
         /\ TwiceNamed(part) => TwiceNamed(s)
         /\ TwiceCorrected(part) => TwiceCorrected(s)
<1>1. /\ DOMAIN part = 1..Len(part) /\ Len(part) \in Nat /\ DOMAIN s = 1..Len(s) /\ Len(s) \in Nat
      /\ \A i \in 1..Len(part) : k + i \in 1..Len(s) /\ part[i] = s[k + i]
  OBVIOUS
<1>2. OneUid(s) => OneUid(part)
  <2> SUFFICES ASSUME OneUid(s), NEW i \in 1..Len(part), NEW j \in 1..Len(part), part[i].uid = part[j].uid
               PROVE  i = j
    BY DEF OneUid
  <2> DEFINE p == k + i
             q == k + j
  <2>1. p \in 1..Len(s) /\ q \in 1..Len(s) /\ part[i] = s[p] /\ part[j] = s[q]
    BY <1>1
  <2>2. p = q => i = j
    BY <1>1
  <2> HIDE DEF p, q
  <2> QED
    BY <2>1, <2>2 DEF OneUid
<1>3. TwiceNamed(part) => TwiceNamed(s)
  <2> SUFFICES ASSUME NEW i \in 1..Len(part), NEW j \in 1..Len(part), i < j, KeyOf(part[i]) = KeyOf(part[j])
               PROVE  TwiceNamed(s)
    BY <1>1 DEF TwiceNamed
  <2> DEFINE p == k + i
             q == k + j
  <2>1. p \in DOMAIN s /\ q \in DOMAIN s /\ part[i] = s[p] /\ part[j] = s[q]
    BY <1>1
  <2>2. p < q
    BY <1>1
  <2> HIDE DEF p, q
  <2> QED
    BY <2>1, <2>2 DEF TwiceNamed
<1>4. TwiceCorrected(part) => TwiceCorrected(s)
  <2> SUFFICES ASSUME NEW i \in 1..Len(part), NEW j \in 1..Len(part), i < j, part[i] = part[j]
               PROVE  TwiceCorrected(s)
    BY <1>1 DEF TwiceCorrected
  <2> DEFINE p == k + i
             q == k + j
  <2>1. p \in DOMAIN s /\ q \in DOMAIN s /\ part[i] = s[p] /\ part[j] = s[q]
    BY <1>1
  <2>2. p < q
    BY <1>1
  <2> HIDE DEF p, q
  <2> QED
    BY <2>1, <2>2 DEF TwiceCorrected
<1> QED
  BY <1>2, <1>3, <1>4

LEMMA PartOf ==
  ASSUME NEW S, NEW s \in Seq(S), NEW n \in 0..Len(s), NEW part,
         part \in {SubSeq(s, 1, n), SubSeq(s, n + 1, Len(s))}
  PROVE  /\ part \in Seq(S) /\ (OneUid(s) => OneUid(part)) /\ (TwiceNamed(part) => TwiceNamed(s))
         /\ TwiceCorrected(part) => TwiceCorrected(s)
<1> DEFINE a == SubSeq(s, 1, n)
           b == SubSeq(s, n + 1, Len(s))
<1>1. /\ a \in Seq(S) /\ b \in Seq(S) /\ Len(a) = n /\ Len(b) = Len(s) - n /\ Len(s) \in Nat
      /\ \A i \in 1..n : a[i] = s[i]
      /\ \A i \in 1..(Len(s) - n) : b[i] = s[n + i]
  BY SplitAt
<1>2. part = a \/ part = b
  OBVIOUS
<1> HIDE DEF a, b
<1>3. (OneUid(s) => OneUid(a)) /\ (TwiceNamed(a) => TwiceNamed(s))
      /\ (TwiceCorrected(a) => TwiceCorrected(s))
  <2> DEFINE zero == 0
  <2>1. \A i \in 1..Len(a) : zero + i = i /\ i \in 1..n
    BY <1>1
  <2>2. zero \in Nat /\ zero + Len(a) <= Len(s)
    BY <1>1
  <2> HIDE DEF zero
  <2>3. \A i \in 1..Len(a) : a[i] = s[zero + i]
    BY <1>1, <2>1
  <2> QED
    BY <1>1, <2>2, <2>3, WithinKeeps
<1>4. (OneUid(s) => OneUid(b)) /\ (TwiceNamed(b) => TwiceNamed(s))
      /\ (TwiceCorrected(b) => TwiceCorrected(s))
  <2>1. n \in Nat /\ n + Len(b) <= Len(s) /\ \A i \in 1..Len(b) : b[i] = s[n + i]
    BY <1>1
  <2> QED
    BY <1>1, <2>1, WithinKeeps
<1> QED
  BY <1>1, <1>2, <1>3, <1>4

\* Two votes of a person among the lines of a chunk are two votes on one scrutin.
LEMMA AllLinesTwice ==
  ASSUME NEW docs, \A d \in docs : WellFormed(d), NEW chunk \in Seq(docs), OneUid(chunk),
         \A d \in docs : ~TwiceNamed(Lines(d))
  PROVE  ~TwiceNamed(AllLines(chunk))
<1> DEFINE S  == UNION {LinesOf(d) : d \in docs}
           ss == [i \in DOMAIN chunk |-> Lines(chunk[i])]
           T  == {t \in Nat \X Seq(S) :
                    /\ \A i \in 1..Len(t[2]) : \E k \in 1..t[1] : t[2][i].scrutin = chunk[k].uid
                    /\ ~TwiceNamed(t[2])}
<1>1. /\ DOMAIN chunk = 1..Len(chunk) /\ Len(chunk) \in Nat
      /\ \A i \in 1..Len(chunk) : chunk[i] \in docs
  OBVIOUS
<1>2. ASSUME NEW d \in docs
      PROVE  /\ Lines(d) \in Seq(S) /\ ~TwiceNamed(Lines(d))
             /\ \A i \in 1..Len(Lines(d)) : Lines(d)[i].scrutin = d.uid
  <2> DEFINE s == Lines(d)
  <2>1. s \in Seq(LinesOf(d)) /\ ~TwiceNamed(s)
    BY LinesAre
  <2>2. LinesOf(d) \subseteq S /\ \A l \in LinesOf(d) : l.scrutin = d.uid
    BY DEF LinesOf, LineOf
  <2> HIDE DEF s, S
  <2>3. s \in Seq(S) /\ \A i \in 1..Len(s) : s[i].scrutin = d.uid
    BY <2>1, <2>2
  <2> QED
    BY <2>1, <2>3 DEF s
<1> HIDE DEF S
<1>3. ss \in Seq(Seq(S)) /\ Len(ss) = Len(chunk) /\ \A i \in 1..Len(chunk) : ss[i] = Lines(chunk[i])
  BY <1>1, <1>2
<1> HIDE DEF ss
<1>4. <<0, <<>>>> \in T
  <2> DEFINE none == <<>>
             zero == 0
  <2>1. none \in Seq(S) /\ zero \in Nat /\ ~TwiceNamed(none)
    BY DEF TwiceNamed
  <2>2. \A i \in 1..Len(none) : \E k \in 1..zero : none[i].scrutin = chunk[k].uid
    OBVIOUS
  <2> HIDE DEF none, zero
  <2>3. <<zero, none>> \in T
    BY <2>1, <2>2
  <2> QED
    BY <2>3 DEF none, zero
<1>5. ASSUME NEW n \in 0..(Len(ss) - 1), NEW r \in Seq(S), <<n, r>> \in T
      PROVE  <<n + 1, r \o ss[n + 1]>> \in T
  <2> DEFINE s == ss[n + 1]
             u == r \o s
  <2>1. n + 1 \in 1..Len(chunk) /\ n + 1 \in Nat /\ n \in Nat
    BY <1>1, <1>3
  <2>2. /\ s \in Seq(S) /\ ~TwiceNamed(s)
        /\ \A i \in 1..Len(s) : s[i].scrutin = chunk[n + 1].uid
    BY <1>1, <1>2, <1>3, <2>1
  <2>3. /\ \A i \in 1..Len(r) : \E k \in 1..n : r[i].scrutin = chunk[k].uid
        /\ ~TwiceNamed(r)
    BY <1>5
  <2> HIDE DEF s
  <2>4. /\ u \in Seq(S) /\ Len(u) = Len(r) + Len(s) /\ Len(r) \in Nat /\ Len(s) \in Nat
        /\ \A i \in 1..Len(r) : u[i] = r[i]
        /\ \A i \in (Len(r) + 1)..Len(u) : i - Len(r) \in 1..Len(s) /\ u[i] = s[i - Len(r)]
    BY <2>2, ConcatProperties
  <2> HIDE DEF u
  <2>5. \A i \in 1..Len(u) : i \in 1..Len(r) \/ i \in (Len(r) + 1)..Len(u)
    BY <2>4
  <2>6. \A i \in 1..Len(r) : \E k \in 1..(n + 1) : u[i].scrutin = chunk[k].uid /\ k # n + 1
    <3>1. \A k \in 1..n : k \in 1..(n + 1) /\ k # n + 1
      BY <2>1
    <3> QED
      BY <2>3, <2>4, <3>1
  <2>7. \A i \in (Len(r) + 1)..Len(u) : u[i].scrutin = chunk[n + 1].uid
    BY <2>2, <2>4
  <2>8. \A i \in 1..Len(u) : \E k \in 1..(n + 1) : u[i].scrutin = chunk[k].uid
    BY <2>1, <2>5, <2>6, <2>7
  <2>9. ASSUME NEW i \in 1..Len(u), NEW j \in 1..Len(u), i < j, KeyOf(u[i]) = KeyOf(u[j])
        PROVE  FALSE
    <3>1. u[i].scrutin = u[j].scrutin
      BY <2>9 DEF KeyOf
    <3>2. CASE i \in 1..Len(r) /\ j \in 1..Len(r)
      <4>1. i \in DOMAIN r /\ j \in DOMAIN r /\ KeyOf(r[i]) = KeyOf(r[j])
        BY <2>4, <2>9, <3>2
      <4> QED
        BY <2>3, <2>9, <4>1 DEF TwiceNamed
    <3>3. CASE i \in 1..Len(r) /\ j \in (Len(r) + 1)..Len(u)
      <4>1. PICK k \in 1..(n + 1) : u[i].scrutin = chunk[k].uid /\ k # n + 1
        BY <2>6, <3>3
      <4>2. chunk[k].uid = chunk[n + 1].uid
        BY <2>7, <3>1, <3>3, <4>1
      <4>3. k \in 1..Len(chunk)
        BY <1>1, <2>1
      <4> QED
        BY <2>1, <4>1, <4>2, <4>3 DEF OneUid
    <3>4. CASE i \in (Len(r) + 1)..Len(u) /\ j \in (Len(r) + 1)..Len(u)
      <4> DEFINE a == i - Len(r)
                 b == j - Len(r)
      <4>1. a \in 1..Len(s) /\ b \in 1..Len(s) /\ u[i] = s[a] /\ u[j] = s[b]
        BY <2>4, <3>4
      <4>2. a < b
        BY <2>4, <2>9
      <4> HIDE DEF a, b
      <4>3. a \in DOMAIN s /\ b \in DOMAIN s
        BY <2>2, <4>1
      <4> QED
        BY <2>2, <2>9, <4>1, <4>2, <4>3 DEF TwiceNamed
    <3> QED
      BY <2>4, <2>5, <2>9, <3>2, <3>3, <3>4
  <2>10. ~TwiceNamed(u)
    <3>1. DOMAIN u = 1..Len(u)
      BY <2>4
    <3> QED
      BY <2>9, <3>1 DEF TwiceNamed
  <2>11. <<n + 1, u>> \in T
    BY <2>1, <2>4, <2>8, <2>10
  <2> QED
    BY <2>11 DEF u, s
<1> HIDE DEF T
<1>6. <<Len(ss), FlattenSeq(ss)>> \in T
  BY <1>3, <1>4, <1>5, FlattenInvariant
<1>7. AllLines(chunk) = FlattenSeq(ss)
  BY DEF AllLines, ss
<1> QED
  BY <1>6, <1>7 DEF T
\* Likewise of the corrections.
LEMMA AllCorrectionsTwice ==
  ASSUME NEW docs, \A d \in docs : WellFormed(d), NEW chunk \in Seq(docs), OneUid(chunk),
         \A d \in docs : ~TwiceCorrected(Corrections(d))
  PROVE  ~TwiceCorrected(AllCorrections(chunk))
<1> DEFINE S  == CorrectionsIn(docs)
           ss == [i \in DOMAIN chunk |-> Corrections(chunk[i])]
           T  == {t \in Nat \X Seq(S) :
                    /\ \A i \in 1..Len(t[2]) : \E k \in 1..t[1] : t[2][i][1] = chunk[k].uid
                    /\ ~TwiceCorrected(t[2])}
<1>1. /\ DOMAIN chunk = 1..Len(chunk) /\ Len(chunk) \in Nat
      /\ \A i \in 1..Len(chunk) : chunk[i] \in docs
  OBVIOUS
<1>2. ASSUME NEW d \in docs
      PROVE  /\ Corrections(d) \in Seq(S) /\ ~TwiceCorrected(Corrections(d))
             /\ \A i \in 1..Len(Corrections(d)) : Corrections(d)[i][1] = d.uid
  <2> DEFINE s == Corrections(d)
             L == ToSet(s)
  <2>1. /\ s \in Seq(L) /\ L \subseteq S /\ ~TwiceCorrected(s)
        /\ \A i \in 1..Len(s) : s[i][1] = d.uid
    BY CorrectionsAre DEF CorrectionsIn
  <2> HIDE DEF s, S, L
  <2>2. s \in Seq(S)
    BY <2>1
  <2> QED
    BY <2>1, <2>2 DEF s
<1> HIDE DEF S
<1>3. ss \in Seq(Seq(S)) /\ Len(ss) = Len(chunk) /\ \A i \in 1..Len(chunk) : ss[i] = Corrections(chunk[i])
  BY <1>1, <1>2
<1> HIDE DEF ss
<1>4. <<0, <<>>>> \in T
  <2> DEFINE none == <<>>
             zero == 0
  <2>1. none \in Seq(S) /\ zero \in Nat /\ ~TwiceCorrected(none)
    BY DEF TwiceCorrected
  <2>2. \A i \in 1..Len(none) : \E k \in 1..zero : none[i][1] = chunk[k].uid
    OBVIOUS
  <2> HIDE DEF none, zero
  <2>3. <<zero, none>> \in T
    BY <2>1, <2>2
  <2> QED
    BY <2>3 DEF none, zero
<1>5. ASSUME NEW n \in 0..(Len(ss) - 1), NEW r \in Seq(S), <<n, r>> \in T
      PROVE  <<n + 1, r \o ss[n + 1]>> \in T
  <2> DEFINE s == ss[n + 1]
             u == r \o s
  <2>1. n + 1 \in 1..Len(chunk) /\ n + 1 \in Nat /\ n \in Nat
    BY <1>1, <1>3
  <2>2. /\ s \in Seq(S) /\ ~TwiceCorrected(s)
        /\ \A i \in 1..Len(s) : s[i][1] = chunk[n + 1].uid
    BY <1>1, <1>2, <1>3, <2>1
  <2>3. /\ \A i \in 1..Len(r) : \E k \in 1..n : r[i][1] = chunk[k].uid
        /\ ~TwiceCorrected(r)
    BY <1>5
  <2> HIDE DEF s
  <2>4. /\ u \in Seq(S) /\ Len(u) = Len(r) + Len(s) /\ Len(r) \in Nat /\ Len(s) \in Nat
        /\ \A i \in 1..Len(r) : u[i] = r[i]
        /\ \A i \in (Len(r) + 1)..Len(u) : i - Len(r) \in 1..Len(s) /\ u[i] = s[i - Len(r)]
    BY <2>2, ConcatProperties
  <2> HIDE DEF u
  <2>5. \A i \in 1..Len(u) : i \in 1..Len(r) \/ i \in (Len(r) + 1)..Len(u)
    BY <2>4
  <2>6. \A i \in 1..Len(r) : \E k \in 1..(n + 1) : u[i][1] = chunk[k].uid /\ k # n + 1
    <3>1. \A k \in 1..n : k \in 1..(n + 1) /\ k # n + 1
      BY <2>1
    <3> QED
      BY <2>3, <2>4, <3>1
  <2>7. \A i \in (Len(r) + 1)..Len(u) : u[i][1] = chunk[n + 1].uid
    BY <2>2, <2>4
  <2>8. \A i \in 1..Len(u) : \E k \in 1..(n + 1) : u[i][1] = chunk[k].uid
    BY <2>1, <2>5, <2>6, <2>7
  <2>9. ASSUME NEW i \in 1..Len(u), NEW j \in 1..Len(u), i < j, u[i] = u[j]
        PROVE  FALSE
    <3>1. u[i][1] = u[j][1]
      BY <2>9
    <3>2. CASE i \in 1..Len(r) /\ j \in 1..Len(r)
      <4>1. i \in DOMAIN r /\ j \in DOMAIN r /\ r[i] = r[j]
        BY <2>4, <2>9, <3>2
      <4> QED
        BY <2>3, <2>9, <4>1 DEF TwiceCorrected
    <3>3. CASE i \in 1..Len(r) /\ j \in (Len(r) + 1)..Len(u)
      <4>1. PICK k \in 1..(n + 1) : u[i][1] = chunk[k].uid /\ k # n + 1
        BY <2>6, <3>3
      <4>2. chunk[k].uid = chunk[n + 1].uid
        BY <2>7, <3>1, <3>3, <4>1
      <4>3. k \in 1..Len(chunk)
        BY <1>1, <2>1
      <4> QED
        BY <2>1, <4>1, <4>2, <4>3 DEF OneUid
    <3>4. CASE i \in (Len(r) + 1)..Len(u) /\ j \in (Len(r) + 1)..Len(u)
      <4> DEFINE a == i - Len(r)
                 b == j - Len(r)
      <4>1. a \in 1..Len(s) /\ b \in 1..Len(s) /\ u[i] = s[a] /\ u[j] = s[b]
        BY <2>4, <3>4
      <4>2. a < b
        BY <2>4, <2>9
      <4> HIDE DEF a, b
      <4>3. a \in DOMAIN s /\ b \in DOMAIN s
        BY <2>2, <4>1
      <4> QED
        BY <2>2, <2>9, <4>1, <4>2, <4>3 DEF TwiceCorrected
    <3> QED
      BY <2>4, <2>5, <2>9, <3>2, <3>3, <3>4
  <2>10. ~TwiceCorrected(u)
    <3>1. DOMAIN u = 1..Len(u)
      BY <2>4
    <3> QED
      BY <2>9, <3>1 DEF TwiceCorrected
  <2>11. <<n + 1, u>> \in T
    BY <2>1, <2>4, <2>8, <2>10
  <2> QED
    BY <2>11 DEF u, s
<1> HIDE DEF T
<1>6. <<Len(ss), FlattenSeq(ss)>> \in T
  BY <1>3, <1>4, <1>5, FlattenInvariant
<1>7. AllCorrections(chunk) = FlattenSeq(ss)
  BY DEF AllCorrections, ss
<1> QED
  BY <1>6, <1>7 DEF T
LEMMA ChunkLength ==
  ASSUME NEW S, NEW todo \in Seq(S)
  PROVE  Len(ChunkOf(todo)) \in 0..Len(todo)
<1> DEFINE n == Min({ChunkSize, Len(todo)})
           k == Len(todo)
<1>1. ChunkSize \in Nat \ {0} /\ k \in Nat
  BY ScrutinsAssumption
<1> HIDE DEF k
<1>2. Min({ChunkSize, k}) \in 0..k
  BY <1>1, MinOfTwo
<1>3. n \in 0..Len(todo)
  BY <1>2 DEF k
<1> HIDE DEF n
<1>4. Len(SubSeq(todo, 1, n)) = n
  BY <1>3, SplitAt
<1> QED
  BY <1>3, <1>4 DEF ChunkOf, n

LEMMA AllLinesListed ==
  ASSUME NEW docs, \A d \in docs : WellFormed(d), NEW chunk \in Seq(docs)
  PROVE  AllLines(chunk) \in Seq(UNION {LinesOf(d) : d \in docs})
<1> DEFINE S  == UNION {LinesOf(d) : d \in docs}
           ss == [i \in DOMAIN chunk |-> Lines(chunk[i])]
<1>1. /\ DOMAIN chunk = 1..Len(chunk) /\ Len(chunk) \in Nat
      /\ \A i \in 1..Len(chunk) : chunk[i] \in docs
  OBVIOUS
<1>2. ASSUME NEW d \in docs
      PROVE  Lines(d) \in Seq(S)
  <2> DEFINE s == Lines(d)
             L == LinesOf(d)
  <2>1. s \in Seq(L) /\ L \subseteq S
    BY LinesAre
  <2> HIDE DEF s, S, L
  <2>2. s \in Seq(S)
    BY <2>1
  <2> QED
    BY <2>2 DEF s
<1> HIDE DEF S
<1>3. ss \in Seq(Seq(S))
  BY <1>1, <1>2
<1> HIDE DEF ss
<1>4. FlattenSeq(ss) \in Seq(S)
  BY <1>3, FlattenIsSeq
<1> QED
  BY <1>4 DEF AllLines, ss, S

LEMMA ChunkOnce ==
  ASSUME NEW e, NEW docs, exec[e].mem.todo \in Seq(docs), OneUid(exec[e].mem.todo)
  PROVE  Chunk(e) \in Seq(docs) /\ OneUid(Chunk(e))
<1> DEFINE s == exec[e].mem.todo
           n == Min({ChunkSize, Len(s)})
           chunk == Chunk(e)
<1>1. s \in Seq(docs) /\ OneUid(s) /\ chunk = SubSeq(s, 1, n)
  BY DEF Chunk
<1> HIDE DEF chunk, s
<1>2. n \in 0..Len(s)
  <2> DEFINE k == Len(s)
  <2>1. ChunkSize \in Nat \ {0} /\ k \in Nat
    BY <1>1, ScrutinsAssumption
  <2> HIDE DEF k
  <2>2. Min({ChunkSize, k}) \in 0..k
    BY <2>1, MinOfTwo
  <2> QED
    BY <2>2 DEF k
<1> HIDE DEF n
<1>3. chunk \in Seq(docs) /\ OneUid(chunk)
  BY <1>1, <1>2, PartOf
<1> QED
  BY <1>3 DEF chunk

LEMMA CastStep ==
  ASSUME TypeInv, NEW e \in Execs, StillToCast(e), Scrutins(e)
  PROVE  StillToCast(e)'
<1> DEFINE mem  == exec[e].mem
           docs == ToSet(Docs(exec[e].input))
<1>0. /\ ExecTyped /\ exec[e].input \in Inputs("scrutins") /\ exec[e].kind = "scrutins"
      /\ Docs(exec[e].input) \in Seq(docs) /\ \A d \in docs : WellFormed(d)
  BY ScrutinsGive, InputsAre DEF TypeInv, ExecTyped
<1>1. CASE Archive(e) \/ FetchLatestDocumentIds(e) \/ FetchPersonIds(e) \/ ResolveUnknownActeurs(e)
  <2>1. exec'[e].pc \in {"document_ids", "person_ids", "unknown", "organe_ids"}
    BY <1>0, <1>1, WentOn, Remembered
    DEF Archive, FetchLatestDocumentIds, FetchPersonIds, ResolveUnknownActeurs
  <2> QED
    BY <2>1, NothingLeft DEF Chunking
<1>2. CASE FetchOrganeIdsOfGroupes(e)
  <2> DEFINE all  == Docs(exec[e].input)
             read == DOMAIN base.organes
  <2>1. /\ exec'[e].pc = "chunk" /\ exec'[e].input = exec[e].input
        /\ exec'[e].mem = Upsert([organes |-> read, todo |-> all], mem)
    BY <1>0, <1>2, Remembered DEF FetchOrganeIdsOfGroupes
  <2>2. all \in Seq(docs) /\ DOMAIN all = 1..Len(all)
    BY <1>0
  <2>3. OneUid(all)
    BY <1>0, <2>2, ScrutinsAssumption DEF OneUid
  <2> HIDE DEF all, read
  <2>4. "todo" \in DOMAIN exec'[e].mem /\ exec'[e].mem.todo = all
    BY <2>1 DEF Upsert
  <2>5. ToSet(Docs(exec'[e].input)) = docs
    BY <2>1
  <2> QED
    BY <2>1, <2>2, <2>3, <2>4, <2>5 DEF StillToCast
<1>3. CASE EndChunks(e)
  <2>1. exec'[e].pc = "finish"
    BY <1>0, <1>3, WentOn DEF EndChunks
  <2> QED
    BY <2>1, NothingLeft DEF Chunking
<1>4. ASSUME exec[e].pc \in Chunking
      PROVE  "todo" \in DOMAIN mem /\ mem.todo \in Seq(docs) /\ OneUid(mem.todo)
  BY <1>0, <1>4 DEF StillToCast
<1>5. ASSUME ResolveGroupesFromMandats(e) \/ UpsertScrutins(e)
      PROVE  StillToCast(e)'
  <2>1. exec[e].pc \in Chunking
    BY <1>5 DEF ResolveGroupesFromMandats, UpsertScrutins, At, Chunking
  <2>2. \/ Goto(e, "groupes")
        \/ \E resolved : Remember(e, "scrutins", [resolved |-> resolved])
    BY <1>5 DEF ResolveGroupesFromMandats, UpsertScrutins
  <2>3. /\ exec'[e].pc \in {"scrutins", "groupes"} /\ exec'[e].input = exec[e].input
        /\ \/ exec'[e].mem = mem
           \/ \E resolved : exec'[e].mem = Upsert([resolved |-> resolved], mem)
    <3>1. CASE Goto(e, "groupes")
      BY <1>0, <3>1, WentOn
    <3>2. ASSUME NEW resolved, Remember(e, "scrutins", [resolved |-> resolved])
          PROVE  /\ exec'[e].pc = "scrutins" /\ exec'[e].input = exec[e].input
                 /\ exec'[e].mem = Upsert([resolved |-> resolved], mem)
      BY <1>0, <3>2, Remembered
    <3> QED
      BY <2>2, <3>1, <3>2
  <2>4. "todo" \in DOMAIN exec'[e].mem /\ exec'[e].mem.todo = mem.todo
    <3>1. "todo" \in DOMAIN mem
      BY <1>4, <2>1
    <3>2. ASSUME NEW resolved, exec'[e].mem = Upsert([resolved |-> resolved], mem)
          PROVE  "todo" \in DOMAIN exec'[e].mem /\ exec'[e].mem.todo = mem.todo
      BY <3>1, <3>2 DEF Upsert
    <3> QED
      BY <2>3, <3>1, <3>2
  <2>5. ToSet(Docs(exec'[e].input)) = docs
    BY <2>3
  <2> QED
    BY <1>4, <2>1, <2>3, <2>4, <2>5 DEF StillToCast
<1>6. CASE UpsertGroupes(e)
  <2> DEFINE chunk == Chunk(e)
             lines == AllLines(chunk)
  <2>1. exec[e].pc \in Chunking /\ Remember(e, "votes", [lines |-> lines])
    BY <1>6 DEF UpsertGroupes, At, Chunking
  <2>2. mem.todo \in Seq(docs) /\ OneUid(mem.todo) /\ "todo" \in DOMAIN mem
    BY <1>4, <2>1
  <2>3. chunk \in Seq(docs) /\ OneUid(chunk)
    BY <2>2, ChunkOnce
  <2> HIDE DEF chunk
  <2>4. lines \in Seq(ToSet(lines))
    <3> HIDE DEF docs
    <3>1. lines \in Seq(UNION {LinesOf(d) : d \in docs})
      BY <1>0, <2>3, AllLinesListed
    <3> HIDE DEF lines
    <3> QED
      BY <3>1, OwnElements
  <2>5. TwiceNamed(lines) => NamesTwice(exec[e].input)
    BY <1>0, <2>3, AllLinesTwice DEF NamesTwice
  <2> HIDE DEF lines
  <2>6. /\ exec'[e].pc = "votes" /\ exec'[e].input = exec[e].input
        /\ exec'[e].mem = Upsert([lines |-> lines], mem)
    BY <1>0, <2>1, Remembered
  <2>7. /\ "todo" \in DOMAIN exec'[e].mem /\ exec'[e].mem.todo = mem.todo
        /\ "lines" \in DOMAIN exec'[e].mem /\ exec'[e].mem.lines = lines
    BY <2>2, <2>6 DEF Upsert
  <2>8. ToSet(Docs(exec'[e].input)) = docs /\ (NamesTwice(exec[e].input) => NamesTwice(exec'[e].input))
    BY <2>6
  <2> QED
    BY <2>2, <2>4, <2>5, <2>6, <2>7, <2>8 DEF StillToCast
<1>7. CASE UpsertVotes(e)
  <2> DEFINE lines == mem.lines
             rest  == SubSeq(lines, Len(Batch(lines)) + 1, Len(lines))
  <2> DEFINE all == AllCorrections(Chunk(e))
  <2>1. /\ exec[e].pc = "votes"
        /\ \/ Remember(e, "mises", [corrections |-> all])
           \/ Refuse(e) \/ Remember(e, "votes", [lines |-> rest])
    BY <1>7 DEF UpsertVotes, At
  <2>2. /\ mem.todo \in Seq(docs) /\ OneUid(mem.todo) /\ "todo" \in DOMAIN mem
        /\ lines \in Seq(ToSet(lines)) /\ (TwiceNamed(lines) => NamesTwice(exec[e].input))
    BY <1>0, <1>4, <2>1 DEF StillToCast, Chunking
  <2>3. CASE Remember(e, "mises", [corrections |-> all])
    <3> DEFINE chunk == Chunk(e)
    <3>1. chunk \in Seq(docs) /\ OneUid(chunk)
      BY <2>2, ChunkOnce
    <3>2. all \in Seq(ToSet(all)) /\ (TwiceCorrected(all) => NamesTwice(exec[e].input))
      <4> HIDE DEF chunk, docs
      <4>1. all \in Seq(CorrectionsIn(docs))
        BY <1>0, <3>1, AllCorrectionsAre DEF chunk
      <4>2. TwiceCorrected(all) => NamesTwice(exec[e].input)
        BY <1>0, <3>1, AllCorrectionsTwice DEF NamesTwice, chunk, docs
      <4> HIDE DEF all
      <4> QED
        BY <4>1, <4>2, OwnElements
    <3> HIDE DEF all
    <3>3. /\ exec'[e].pc = "mises" /\ exec'[e].input = exec[e].input
          /\ exec'[e].mem = Upsert([corrections |-> all], mem)
      BY <1>0, <2>3, Remembered
    <3>4. /\ "todo" \in DOMAIN exec'[e].mem /\ exec'[e].mem.todo = mem.todo
          /\ "corrections" \in DOMAIN exec'[e].mem /\ exec'[e].mem.corrections = all
      BY <2>2, <3>3 DEF Upsert
    <3>5. ToSet(Docs(exec'[e].input)) = docs /\ (NamesTwice(exec[e].input) => NamesTwice(exec'[e].input))
      BY <3>3
    <3> QED
      BY <2>2, <3>2, <3>3, <3>4, <3>5 DEF StillToCast
  <2>4. CASE Refuse(e)
    <3>1. exec'[e].pc \in Outcomes
      BY <1>0, <2>4, GaveUp
    <3> QED
      BY <3>1, NothingLeft DEF Chunking, Outcomes
  <2>5. CASE Remember(e, "votes", [lines |-> rest])
    <3>1. rest \in Seq(ToSet(rest)) /\ (TwiceNamed(rest) => NamesTwice(exec[e].input))
      <4> DEFINE S == ToSet(lines)
                 s == lines
      <4>1. s \in Seq(S) /\ (TwiceNamed(s) => NamesTwice(exec[e].input))
        BY <2>2
      <4>2. rest = SubSeq(s, Len(Batch(s)) + 1, Len(s))
        OBVIOUS
      <4> HIDE DEF S, s, rest
      <4>3. Len(Batch(s)) \in 0..Len(s)
        BY <4>1, BatchThenRest
      <4>4. rest \in Seq(S) /\ (TwiceNamed(rest) => TwiceNamed(s))
        BY <4>1, <4>2, <4>3, PartOf
      <4> QED
        BY <4>1, <4>4, OwnElements
    <3> HIDE DEF rest
    <3>2. /\ exec'[e].pc = "votes" /\ exec'[e].input = exec[e].input
          /\ exec'[e].mem = Upsert([lines |-> rest], mem)
      BY <1>0, <2>5, Remembered
    <3>3. /\ "todo" \in DOMAIN exec'[e].mem /\ exec'[e].mem.todo = mem.todo
          /\ "lines" \in DOMAIN exec'[e].mem /\ exec'[e].mem.lines = rest
      BY <2>2, <3>2 DEF Upsert
    <3>4. ToSet(Docs(exec'[e].input)) = docs /\ (NamesTwice(exec[e].input) => NamesTwice(exec'[e].input))
      BY <3>2
    <3> QED
      BY <2>2, <3>1, <3>2, <3>3, <3>4 DEF StillToCast
  <2> QED
    BY <2>1, <2>3, <2>4, <2>5
<1>8. CASE UpsertMiseAuPoint(e)
  <2> DEFINE todo == mem.todo
             rest == SubSeq(todo, Len(Chunk(e)) + 1, Len(todo))
             rows == mem.corrections
             left == SubSeq(rows, Len(Batch(rows)) + 1, Len(rows))
  <2>1. /\ exec[e].pc \in Chunking /\ exec[e].pc = "mises"
        /\ \/ Remember(e, "chunk", [resolved |-> NoRow, todo |-> rest])
           \/ Remember(e, "mises", [corrections |-> left])
           \/ Refuse(e)
    BY <1>8 DEF UpsertMiseAuPoint, At, Chunking
  <2>2. /\ mem.todo \in Seq(docs) /\ OneUid(mem.todo) /\ "todo" \in DOMAIN mem
        /\ rows \in Seq(ToSet(rows)) /\ (TwiceCorrected(rows) => NamesTwice(exec[e].input))
    BY <1>0, <1>4, <2>1 DEF StillToCast
  <2>3. CASE Remember(e, "chunk", [resolved |-> NoRow, todo |-> rest])
    <3>1. rest \in Seq(docs) /\ OneUid(rest)
      <4> DEFINE s == mem.todo
                 n == Len(Chunk(e))
      <4>1. s \in Seq(docs) /\ OneUid(s) /\ rest = SubSeq(s, n + 1, Len(s))
            /\ Chunk(e) = ChunkOf(s)
        BY <2>2 DEF Chunk, ChunkOf
      <4> HIDE DEF s, docs, rest
      <4>2. n \in 0..Len(s)
        <5> HIDE DEF n
        <5> QED
          BY <4>1, ChunkLength DEF n
      <4> HIDE DEF n
      <4> QED
        BY <4>1, <4>2, PartOf
    <3> HIDE DEF rest
    <3>2. /\ exec'[e].pc = "chunk" /\ exec'[e].input = exec[e].input
          /\ exec'[e].mem = Upsert([resolved |-> NoRow, todo |-> rest], mem)
      BY <1>0, <2>3, Remembered
    <3>3. "todo" \in DOMAIN exec'[e].mem /\ exec'[e].mem.todo = rest
      BY <3>2 DEF Upsert
    <3>4. ToSet(Docs(exec'[e].input)) = docs
      BY <3>2
    <3> QED
      BY <3>1, <3>2, <3>3, <3>4 DEF StillToCast
  <2>4. CASE Refuse(e)
    <3>1. exec'[e].pc \in Outcomes
      BY <1>0, <2>4, GaveUp
    <3> QED
      BY <3>1, NothingLeft DEF Chunking, Outcomes
  <2>5. CASE Remember(e, "mises", [corrections |-> left])
    <3>1. left \in Seq(ToSet(left)) /\ (TwiceCorrected(left) => NamesTwice(exec[e].input))
      <4> DEFINE S == ToSet(rows)
                 s == rows
      <4>1. s \in Seq(S) /\ (TwiceCorrected(s) => NamesTwice(exec[e].input))
        BY <2>2
      <4>2. left = SubSeq(s, Len(Batch(s)) + 1, Len(s))
        OBVIOUS
      <4> HIDE DEF S, s, left
      <4>3. Len(Batch(s)) \in 0..Len(s)
        BY <4>1, BatchThenRest
      <4>4. left \in Seq(S) /\ (TwiceCorrected(left) => TwiceCorrected(s))
        BY <4>1, <4>2, <4>3, PartOf
      <4> QED
        BY <4>1, <4>4, OwnElements
    <3> HIDE DEF left
    <3>2. /\ exec'[e].pc = "mises" /\ exec'[e].input = exec[e].input
          /\ exec'[e].mem = Upsert([corrections |-> left], mem)
      BY <1>0, <2>5, Remembered
    <3>3. /\ "todo" \in DOMAIN exec'[e].mem /\ exec'[e].mem.todo = mem.todo
          /\ "corrections" \in DOMAIN exec'[e].mem /\ exec'[e].mem.corrections = left
      BY <2>2, <3>2 DEF Upsert
    <3>4. ToSet(Docs(exec'[e].input)) = docs /\ (NamesTwice(exec[e].input) => NamesTwice(exec'[e].input))
      BY <3>2
    <3> QED
      BY <2>2, <3>1, <3>2, <3>3, <3>4 DEF StillToCast
  <2> QED
    BY <2>1, <2>3, <2>4, <2>5
<1> QED
  BY <1>1, <1>2, <1>3, <1>5, <1>6, <1>7, <1>8 DEF Scrutins
LEMMA NameStep ==
  ASSUME TypeInv, PersonInv, IsFiniteSet(DOMAIN base.slugs), NEW e \in Execs, StillToName(e), Slugs(e)
  PROVE  StillToName(e)'
<1> DEFINE mem == exec[e].mem
<1>0. ExecTyped /\ exec[e].kind = "slugs"
  BY SlugsGive DEF TypeInv
<1>1. CASE ReadSansSlug(e)
  <2>1. IsFiniteSet(SansSlug)
    <3>1. SansSlug \subseteq DOMAIN base.persons /\ IsFiniteSet(DOMAIN base.persons)
      BY DEF SansSlug, PersonInv
    <3> HIDE DEF SansSlug
    <3> QED
      BY <3>1, FS_Subset
  <2>2. PICK order \in SetToSeqs(SansSlug) :
          Remember(e, "taken", [todo |-> [i \in DOMAIN order |->
                                  [id |-> order[i], row |-> base.persons[order[i]]]]])
    BY <1>1 DEF ReadSansSlug
  <2> DEFINE row(i) == [id |-> order[i], row |-> base.persons[order[i]]]
             list == [i \in DOMAIN order |-> row(i)]
             S == {row(i) : i \in DOMAIN order}
  <2>3. DOMAIN order = 1..Len(order) /\ Len(order) \in Nat
    BY <2>1, ListsAll
  <2>4. Remember(e, "taken", [todo |-> list])
    BY <2>2
  <2>5. list \in Seq(ToSet(list))
    <3>1. \A i \in 1..Len(order) : row(i) \in S
      BY <2>3
    <3>2. list = [i \in 1..Len(order) |-> row(i)]
      BY <2>3
    <3> HIDE DEF S, row, list
    <3>3. list \in Seq(S)
      BY <2>3, <3>1, <3>2
    <3> QED
      BY <3>3, OwnElements
  <2> HIDE DEF list
  <2>6. exec'[e].pc = "taken" /\ exec'[e].mem = Upsert([todo |-> list], mem)
    BY <1>0, <2>4, Remembered
  <2>7. "todo" \in DOMAIN exec'[e].mem /\ exec'[e].mem.todo = list
    BY <2>6 DEF Upsert
  <2> QED
    BY <2>5, <2>6, <2>7 DEF StillToName
<1>2. CASE ReadTaken(e)
  <2> DEFINE read == DOMAIN base.slugs
  <2>1. exec[e].pc = "taken" /\ Remember(e, "slugs", [taken |-> read])
    BY <1>2 DEF ReadTaken, At
  <2>2. "todo" \in DOMAIN mem /\ mem.todo \in Seq(ToSet(mem.todo))
    BY <1>0, <2>1 DEF StillToName
  <2>3. IsFiniteSet(read)
    OBVIOUS
  <2> HIDE DEF read
  <2>4. exec'[e].pc = "slugs" /\ exec'[e].mem = Upsert([taken |-> read], mem)
    BY <1>0, <2>1, Remembered
  <2>5. /\ "todo" \in DOMAIN exec'[e].mem /\ exec'[e].mem.todo = mem.todo
        /\ "taken" \in DOMAIN exec'[e].mem /\ exec'[e].mem.taken = read
    BY <2>2, <2>4 DEF Upsert
  <2> QED
    BY <2>2, <2>3, <2>4, <2>5 DEF StillToName
<1>3. CASE InsertSlug(e)
  <2>1. \/ Goto(e, "finish") \/ Refuse(e)
        \/ \E slug : /\ mem.todo # <<>>
                     /\ Remember(e, "slugs", [todo |-> Tail(mem.todo), taken |-> mem.taken \cup {slug}])
    BY <1>3 DEF InsertSlug
  <2>2. CASE Goto(e, "finish") \/ Refuse(e)
    <3>1. exec'[e].pc \in {"finish"} \cup Outcomes
      BY <1>0, <2>2, WentOn, GaveUp
    <3> QED
      BY <3>1, NothingLeft DEF Outcomes
  <2>3. ASSUME NEW slug, mem.todo # <<>>,
               Remember(e, "slugs", [todo |-> Tail(mem.todo), taken |-> mem.taken \cup {slug}])
        PROVE  StillToName(e)'
    <3> DEFINE rest  == Tail(mem.todo)
               taken == mem.taken \cup {slug}
    <3>1. exec[e].pc = "slugs"
      BY <1>3 DEF InsertSlug, At
    <3>2. mem.todo \in Seq(ToSet(mem.todo)) /\ IsFiniteSet(mem.taken)
      BY <1>0, <3>1 DEF StillToName
    <3>3. IsFiniteSet(taken)
      BY <3>2, FS_AddElement
    <3>4. rest \in Seq(ToSet(rest))
      <4> DEFINE S == ToSet(mem.todo)
                 s == mem.todo
      <4>1. s \in Seq(S) /\ s # <<>>
        BY <2>3, <3>2
      <4> HIDE DEF S, s
      <4>2. Tail(s) \in Seq(S)
        BY <4>1
      <4>3. Tail(s) \in Seq(ToSet(Tail(s)))
        BY <4>2, OwnElements
      <4> QED
        BY <4>3 DEF s
    <3>5. Remember(e, "slugs", [todo |-> rest, taken |-> taken])
      BY <2>3
    <3> HIDE DEF rest, taken
    <3>6. exec'[e].pc = "slugs" /\ exec'[e].mem = Upsert([todo |-> rest, taken |-> taken], mem)
      BY <1>0, <3>5, Remembered
    <3>7. /\ "todo" \in DOMAIN exec'[e].mem /\ exec'[e].mem.todo = rest
          /\ "taken" \in DOMAIN exec'[e].mem /\ exec'[e].mem.taken = taken
      BY <3>6 DEF Upsert
    <3> QED
      BY <3>3, <3>4, <3>6, <3>7 DEF StillToName
  <2> QED
    BY <2>1, <2>2, <2>3
<1> QED
  BY <1>1, <1>2, <1>3 DEF Slugs

\* A slug more keeps their number finite.
LEMMA SlugsFinite ==
  ASSUME TypeInv, IsFiniteSet(DOMAIN base.slugs), NEW e \in Execs, Jobs(e)
  PROVE  IsFiniteSet(DOMAIN base'.slugs)
<1>1. CASE ~InsertSlug(e)
  BY <1>1, SlugsOnly
<1>2. CASE InsertSlug(e)
  <2>1. base' = base \/ \E person, slug : InsertsSlug(e, person, slug)
    BY <1>2, InsertSlugGives
  <2>2. ASSUME NEW person, NEW slug, InsertsSlug(e, person, slug)
        PROVE  IsFiniteSet(DOMAIN base'.slugs)
    <3>1. DOMAIN base'.slugs = DOMAIN base.slugs \cup {slug}
      BY <2>2, OneMoreSlug
    <3> QED
      BY <3>1, FS_AddElement
  <2> QED
    BY <2>1, <2>2
<1> QED
  BY <1>1, <1>2

LEMMA StillStep == AlwaysInv /\ StillInv /\ [Next]_vars => StillInv'
<1> SUFFICES ASSUME AlwaysInv, StillInv, [Next]_vars
             PROVE  StillInv'
  OBVIOUS
<1>0. TypeInv /\ PersonInv /\ ExecTyped
  BY DEF AlwaysInv, TypeInv
<1>a. ASSUME NEW e \in Execs, Others(e), Still(e)'
      PROVE  \A f \in Execs : Still(f)'
  <2> SUFFICES ASSUME NEW f \in Execs, f # e
               PROVE  Still(f)'
    BY <1>a
  <2>1. exec'[f] = exec[f]
    BY <1>a DEF Others
  <2> QED
    BY <2>1 DEF StillInv, Still, StillToWrite, StillToCast, StillToName, NamesTwice, ToWrite
<1>1. CASE UNCHANGED vars
  <2>1. base' = base /\ exec' = exec
    BY <1>1 DEF vars
  <2> QED
    BY <2>1 DEF StillInv, Still, StillToWrite, StillToCast, StillToName
<1>2. ASSUME NEW e \in Execs, Start(e)
      PROVE  StillInv'
  <2>1. Begins(e) /\ base' = base
    BY <1>0, <1>2, StartGives
  <2>2. exec'[e].pc \in {"archive_organes", "archive", "persons", "file", "qids"}
        /\ (exec'[e].pc = "persons" => exec'[e].kind = "slugs")
    <3>1. PICK kind \in DOMAIN FirstStep : \E input :
            exec'[e] = [kind |-> kind, input |-> input, pc |-> FirstStep[kind], mem |-> NoRow]
      BY <2>1 DEF Begins
    <3>2. exec'[e].pc = FirstStep[kind] /\ exec'[e].kind = kind
      BY <3>1
    <3>3. kind \in {"acteurs", "scrutins", "slugs", "candidates", "wikidata"}
      BY DEF FirstStep
    <3> QED
      BY <3>2, <3>3 DEF FirstStep
  <2>3. Still(e)'
    BY <2>2, NothingLeft DEF Still, Chunking
  <2> QED
    BY <1>a, <2>1, <2>3 DEF Begins, StillInv
<1>3. ASSUME NEW e \in Execs, Others(e), exec'[e].pc \in Outcomes, base' = base
      PROVE  StillInv'
  <2>1. Still(e)'
    BY <1>3, NothingLeft DEF Still, Chunking, Outcomes
  <2> QED
    BY <1>a, <1>3, <2>1 DEF StillInv
<1>4. ASSUME NEW e \in Execs, Finish(e) \/ Break(e)
      PROVE  StillInv'
  <2>1. Leaves(e) /\ base' = base
    BY <1>0, <1>4, FinishGives, BreakGives DEF Aborts
  <2> QED
    BY <1>3, <2>1 DEF Leaves, Over
<1>5. ASSUME NEW e \in Execs, Jobs(e)
      PROVE  StillInv'
  <2>1. Others(e) /\ (exec'[e].kind = exec[e].kind \/ exec'[e].pc \in Outcomes)
    <3>1. (\E pc, mem : Moves(e, pc, mem)) \/ Leaves(e)
      BY <1>0, <1>5, JobsGive DEF Advances, Aborts
    <3>2. ASSUME NEW pc, NEW mem, Moves(e, pc, mem)
          PROVE  Others(e) /\ exec'[e].kind = exec[e].kind
      BY <3>2 DEF Moves
    <3>3. CASE Leaves(e)
      <4>1. Others(e) /\ \E how \in Outcomes : exec'[e] = Over(how)
        BY <3>3 DEF Leaves
      <4> QED
        BY <4>1 DEF Over
    <3> QED
      BY <3>1, <3>2, <3>3
  <2>2. IsFiniteSet(DOMAIN base'.slugs)
    BY <1>0, <1>5, SlugsFinite DEF StillInv
  <2>3. Still(e)
    BY DEF StillInv
  <2>4. CASE Acteurs(e)
    <3>1. exec[e].kind = "acteurs" /\ StillToWrite(e)'
      BY <1>0, <2>3, <2>4, ActeursGive, WriteStep DEF Still
    <3> QED
      BY <1>a, <2>1, <2>2, <3>1, NothingLeft DEF Still, Chunking, Outcomes, StillInv
  <2>5. CASE Scrutins(e)
    <3>1. exec[e].kind = "scrutins" /\ StillToCast(e)'
      BY <1>0, <2>3, <2>5, ScrutinsGive, CastStep DEF Still
    <3> QED
      BY <1>a, <2>1, <2>2, <3>1, NothingLeft DEF Still, Chunking, Outcomes, StillInv
  <2>6. CASE Slugs(e)
    <3>1. exec[e].kind = "slugs" /\ StillToName(e)'
      BY <1>0, <2>3, <2>6, SlugsGive, NameStep DEF Still, StillInv
    <3> QED
      BY <1>a, <2>1, <2>2, <3>1, NothingLeft DEF Still, Chunking, Outcomes, StillInv
  <2>7. CASE Candidates(e) \/ Wikidata(e)
    <3>1. exec[e].kind \in {"candidates", "wikidata"}
      BY <1>0, <2>7, CandidatesGive, WikidataGive
    <3> QED
      BY <1>a, <2>1, <2>2, <3>1, NothingLeft DEF Still, Chunking, Outcomes, StillInv
  <2> QED
    BY <1>5, <2>4, <2>5, <2>6, <2>7 DEF Jobs
<1> QED
  BY <1>1, <1>2, <1>4, <1>5 DEF Next, Jobs
-----------------------------------------------------------------------------
(* What a refusal tells.                                                     *)

\* A step that goes on refuses nothing.
LEMMA RefusedBy ==
  ASSUME TypeInv, NEW e \in Execs, exec'[e].pc = "refused"
  PROVE  /\ \A pc : pc # "refused" => ~Goto(e, pc)
         /\ \A pc, facts : pc # "refused" => ~Remember(e, pc, facts)
         /\ ~Fail(e)
<1>0. ExecTyped
  BY DEF TypeInv
<1>1. \A pc : Goto(e, pc) => pc = "refused"
  BY <1>0, WentOn
<1>2. ASSUME NEW pc, NEW facts, Remember(e, pc, facts)
      PROVE  pc = "refused"
  BY <1>0, <1>2, Remembered
<1>3. ~Fail(e)
  BY <1>0, GaveUp
<1> QED
  BY <1>1, <1>2, <1>3

\* ingest_acteurs is refused a mandate only by one that its archive does not hold.
LEMMA ActeursRefused ==
  ASSUME TypeInv, NEW e \in Execs, StillToWrite(e), Acteurs(e), exec'[e].pc = "refused"
  PROVE  exec[e].kind = "acteurs" /\ Stale(e)
<1> DEFINE todo    == exec[e].mem.todo
           mandats == ToSet(ToWrite(exec[e].input, exec[e].mem.organes))
           size    == Min({MandatBatch, Len(todo)})
           batch   == SubSeq(todo, 1, size)
<1>0. exec[e].kind = "acteurs" /\ exec[e].input \in Inputs("acteurs")
  BY ActeursGive DEF TypeInv, ExecTyped
<1>1. UpsertMandats(e)
  BY RefusedBy DEF Acteurs, ArchiveOrganes, ArchiveActeurs, UpsertOrganes, FetchOrganeIds, UpsertPersons
<1>2. ~\A i \in DOMAIN batch : ~Excluded(With(SubSeq(batch, 1, i - 1), base.mandats), batch[i])
  BY <1>1, RefusedBy DEF UpsertMandats
<1>3. PICK i \in DOMAIN batch : Excluded(With(SubSeq(batch, 1, i - 1), base.mandats), batch[i])
  BY <1>2
<1>4. todo \in Seq(mandats)
  BY <1>0, <1>1 DEF StillToWrite, UpsertMandats, At
<1>5. \A m, n \in mandats : ~Excludes(m, n)
  BY <1>0, ToWriteGives
<1> HIDE DEF mandats
<1>6. /\ batch \in Seq(mandats) /\ ToSet(batch) \subseteq ToSet(todo)
      /\ DOMAIN batch = 1..Len(batch) /\ Len(batch) \in Nat
  <2>1. size \in Int /\ size <= Len(todo)
    <3> DEFINE k == Len(todo)
    <3>1. MandatBatch \in Nat \ {0} /\ k \in Nat
      BY <1>4, ActeursAssumption
    <3> HIDE DEF k
    <3>2. Min({MandatBatch, k}) \in Int /\ Min({MandatBatch, k}) <= k
      BY <3>1, MinOfTwo
    <3> QED
      BY <3>2 DEF k
  <2> HIDE DEF size
  <2>2. batch \in Seq(mandats) /\ ToSet(batch) \subseteq ToSet(todo)
    BY <1>4, <2>1, Within
  <2> HIDE DEF batch
  <2> QED
    BY <2>2
<1> HIDE DEF batch
<1> DEFINE first == SubSeq(batch, 1, i - 1)
           table == base.mandats
<1>7. ToSet(first) \subseteq mandats
  <2>1. i - 1 \in Int /\ i - 1 <= Len(batch)
    BY <1>3, <1>6
  <2>2. first \in Seq(mandats)
    BY <1>6, <2>1, Within
  <2> HIDE DEF first
  <2> QED
    BY <2>2 DEF ToSet
<1>8. batch[i] \in mandats /\ batch[i] \in ToSet(todo)
  <2>1. i \in 1..Len(batch)
    BY <1>3, <1>6
  <2>2. batch[i] \in ToSet(batch)
    BY <1>3 DEF ToSet
  <2>3. batch[i] \in mandats
    BY <1>6, <2>1
  <2> QED
    BY <1>6, <2>2, <2>3
<1> HIDE DEF first, table
<1>9. PICK u \in DOMAIN With(first, table) : Excludes(With(first, table)[u], batch[i])
  BY <1>3 DEF Excluded, first, table
<1>10. With(first, table)[u] \in mandats \/ (u \in DOMAIN table /\ With(first, table)[u] = table[u])
  <2> DEFINE uids == {m.uid : m \in ToSet(first)}
             rows == [v \in uids |-> CHOOSE m \in ToSet(first) : m.uid = v]
  <2>1. With(first, table) = Upsert(rows, table)
    BY DEF With
  <2>2. CASE u \in uids
    <3>1. With(first, table)[u] = CHOOSE m \in ToSet(first) : m.uid = u
      BY <2>1, <2>2, <1>9 DEF Upsert
    <3>2. (CHOOSE m \in ToSet(first) : m.uid = u) \in ToSet(first)
      BY <2>2
    <3> QED
      BY <1>7, <3>1, <3>2
  <2>3. CASE u \notin uids
    <3>1. u \in DOMAIN table /\ Upsert(rows, table)[u] = table[u]
      BY <1>9, <2>1, <2>3 DEF Upsert
    <3> QED
      BY <2>1, <3>1
  <2> QED
    BY <2>2, <2>3
<1>11. With(first, table)[u] \notin mandats
  BY <1>5, <1>8, <1>9
<1>12. u \in DOMAIN table /\ table[u] \notin mandats /\ Excludes(table[u], batch[i])
  BY <1>9, <1>10, <1>11
<1> QED
  BY <1>0, <1>8, <1>12 DEF Stale, mandats, table

\* ingest_scrutins is refused votes or corrections only if a scrutin of its
\* archive gives one twice.
LEMMA ScrutinsRefused ==
  ASSUME TypeInv, NEW e \in Execs, StillToCast(e), Scrutins(e), exec'[e].pc = "refused"
  PROVE  exec[e].kind = "scrutins" /\ Stale(e)
<1>0. exec[e].kind = "scrutins"
  BY ScrutinsGive
<1>1. UpsertVotes(e) \/ UpsertMiseAuPoint(e)
  BY RefusedBy
  DEF Scrutins, Archive, FetchLatestDocumentIds, FetchPersonIds, ResolveUnknownActeurs,
      FetchOrganeIdsOfGroupes, ResolveGroupesFromMandats, UpsertScrutins, UpsertGroupes, EndChunks
<1>2. CASE UpsertVotes(e)
  <2> DEFINE s == exec[e].mem.lines
             S == ToSet(s)
             n == Len(Batch(s))
  <2>1. /\ exec[e].pc = "votes" /\ TwiceNamed(Batch(s))
    BY <1>2, RefusedBy DEF UpsertVotes, At
  <2>2. s \in Seq(S) /\ (TwiceNamed(s) => NamesTwice(exec[e].input))
    BY <1>0, <2>1 DEF StillToCast
  <2> HIDE DEF S, s
  <2>3. n \in 0..Len(s) /\ Batch(s) = SubSeq(s, 1, n)
    BY <2>2, BatchThenRest
  <2> HIDE DEF n
  <2>4. TwiceNamed(s)
    BY <2>1, <2>2, <2>3, PartOf
  <2> QED
    BY <1>0, <2>2, <2>4 DEF Stale, NamesTwice
<1>3. CASE UpsertMiseAuPoint(e)
  <2> DEFINE s == exec[e].mem.corrections
             S == ToSet(s)
             n == Len(Batch(s))
  <2>1. /\ exec[e].pc = "mises" /\ TwiceCorrected(Batch(s))
    BY <1>3, RefusedBy DEF UpsertMiseAuPoint, At
  <2>2. s \in Seq(S) /\ (TwiceCorrected(s) => NamesTwice(exec[e].input))
    BY <1>0, <2>1 DEF StillToCast
  <2> HIDE DEF S, s
  <2>3. n \in 0..Len(s) /\ Batch(s) = SubSeq(s, 1, n)
    BY <2>2, BatchThenRest
  <2> HIDE DEF n
  <2>4. TwiceCorrected(s)
    BY <2>1, <2>2, <2>3, PartOf
  <2> QED
    BY <1>0, <2>2, <2>4 DEF Stale, NamesTwice
<1> QED
  BY <1>1, <1>2, <1>3

\* A slug is never one of those read.
LEMMA SlugIsFree ==
  ASSUME NEW person, NEW taken, IsFiniteSet(taken)
  PROVE  SlugOf(person, taken) \notin taken
<1> DEFINE c    == Cardinality(taken)
           free == {n \in 1..(c + 1) : <<Base(person), n>> \notin taken}
<1>1. c \in Nat
  BY FS_CardinalityType
<1>2. free # {}
  <2> SUFFICES ASSUME free = {}
               PROVE  FALSE
    OBVIOUS
  <2> DEFINE f == [n \in 1..(c + 1) |-> <<Base(person), n>>]
  <2>1. f \in [1..(c + 1) -> taken]
    OBVIOUS
  <2>2. \A m, n \in 1..(c + 1) : f[m] = f[n] => m = n
    OBVIOUS
  <2> HIDE DEF f
  <2>3. f \in Injection(1..(c + 1), taken)
    <3> DEFINE S == 1..(c + 1)
    <3>1. f \in [S -> taken] /\ \A m, n \in S : f[m] = f[n] => m = n
      BY <2>1, <2>2
    <3> HIDE DEF S
    <3>2. DOMAIN f = S
      BY <3>1
    <3>3. IsInjective(f)
      BY <3>1, <3>2 DEF IsInjective
    <3>4. f \in Injection(S, taken)
      BY <3>1, <3>3 DEF Injection
    <3> QED
      BY <3>4 DEF S
  <2>4. IsFiniteSet(1..(c + 1)) /\ Cardinality(1..(c + 1)) = c + 1
    BY <1>1, FS_Interval
  <2>5. Cardinality(1..(c + 1)) <= c
    BY <2>3, <2>4, FS_Injection
  <2> QED
    BY <1>1, <2>4, <2>5
<1>3. \E m \in free : \A i \in free : m <= i
  <2>1. free \in SUBSET Nat
    BY <1>1
  <2> HIDE DEF free
  <2> QED
    BY <1>2, <2>1, Least
<1>4. Min(free) \in free
  <2> HIDE DEF free
  <2> QED
    BY <1>3 DEF Min
<1>5. SlugOf(person, taken) = <<Base(person), Min(free)>>
  BY DEF SlugOf
<1> QED
  BY <1>4, <1>5

\* assign_slugs is refused a slug only by one written since it read those taken,
\* or to a person that has had one since.
LEMMA SlugsRefused ==
  ASSUME TypeInv, NEW e \in Execs, StillToName(e), Slugs(e), exec'[e].pc = "refused"
  PROVE  exec[e].kind = "slugs" /\ Stale(e)
<1> DEFINE todo   == exec[e].mem.todo
           taken  == exec[e].mem.taken
           person == Head(todo).id
           slug   == SlugOf(Head(todo).row, taken)
<1>0. exec[e].kind = "slugs"
  BY SlugsGive
<1>1. InsertSlug(e)
  BY RefusedBy DEF Slugs, ReadSansSlug, ReadTaken
<1>2. exec[e].pc = "slugs" /\ todo # <<>> /\ (slug \in DOMAIN base.slugs \/ person \notin SansSlug)
  BY <1>1, RefusedBy DEF InsertSlug, At
<1>3. todo \in Seq(ToSet(todo)) /\ IsFiniteSet(taken)
  BY <1>0, <1>2 DEF StillToName
<1>4. slug \notin taken
  BY <1>3, SlugIsFree
<1>5. Head(todo) \in ToSet(todo)
  <2> DEFINE s == todo
             S == ToSet(todo)
  <2>1. s \in Seq(S) /\ s # <<>>
    BY <1>2, <1>3
  <2> HIDE DEF s, S
  <2>2. Head(s) \in S
    BY <2>1
  <2> QED
    BY <2>2 DEF s, S
<1> HIDE DEF slug
<1> QED
  BY <1>0, <1>2, <1>4, <1>5 DEF Stale

\* seed_candidates is refused a person only by one that bears its qid.
LEMMA CandidatesRefused ==
  ASSUME TypeInv, NEW e \in Execs, Seeding(e), Candidates(e), exec'[e].pc = "refused"
  PROVE  exec[e].kind = "candidates" /\ Stale(e)
<1> DEFINE todo    == exec[e].mem.todo
           entries == ToSet(exec[e].input.entries)
           entry   == Head(todo)
<1>0. exec[e].kind = "candidates" /\ exec[e].input \in Inputs("candidates")
  BY CandidatesGive DEF TypeInv, ExecTyped
<1>1. InsertPerson(e)
  BY RefusedBy
  DEF Candidates, ReadFile, LookupPerson, UpsertCandidates, DeleteOthers, EndDelete, CommitSeed
<1>2. exec[e].pc = "insert" /\ Designated(entry, base.persons) # {}
  BY <1>1, RefusedBy DEF InsertPerson, At
<1>3. todo \in Seq(entries) /\ todo # <<>> /\ entry.qid # None
  BY <1>0, <1>2 DEF Seeding, Seeded
<1>4. entry \in entries
  <2> DEFINE s == todo
             S == entries
  <2>1. s \in Seq(S) /\ s # <<>>
    BY <1>3
  <2> HIDE DEF s, S
  <2>2. Head(s) \in S
    BY <2>1
  <2> QED
    BY <2>2 DEF s, S
<1>5. entry.an = None
  BY <1>0, <1>3, <1>4, PersonnesAssumption
<1> HIDE DEF entry
<1>6. \E p \in DOMAIN base.persons : base.persons[p].qid = entry.qid
  BY <1>2, <1>5 DEF Designated
<1> QED
  BY <1>0, <1>6 DEF Stale, entry

\* enrich_wikidata is refused a qid only by a person it does not give that qid.
LEMMA WikidataRefused ==
  ASSUME TypeInv, NEW e \in Execs, Wikidata(e), exec'[e].pc = "refused"
  PROVE  exec[e].kind = "wikidata" /\ Stale(e)
<1>a. UpdateQids(e)
  BY RefusedBy DEF Wikidata, FetchKnown, UpsertPhotos
<1>b. PICK batch : batch \subseteq Resolved(exec[e].input) /\ UpdateBatch(e, batch)
  BY <1>a, RefusedBy DEF UpdateQids, kSubset
<1> DEFINE resolved == Resolved(exec[e].input)
           changed == {h \in batch : h.an \in PersonsAN /\ base.persons[h.an].qid # h.qid}
           Refused(hits, h) == \E p \in DOMAIN base.persons : p # h.an /\ WithQids(hits)[p].qid = h.qid
<1>0. exec[e].kind = "wikidata"
  BY WikidataGive
<1>2. PICK order \in SetToSeqs(changed) :
        ~\A i \in DOMAIN order : ~Refused({order[j] : j \in 1..(i - 1)}, order[i])
  BY <1>b, RefusedBy DEF UpdateBatch
<1>3. PICK i \in DOMAIN order : Refused({order[j] : j \in 1..(i - 1)}, order[i])
  BY <1>2
<1>4. order \in [1..Cardinality(changed) -> changed]
  BY DEF SetToSeqs
<1> DEFINE h    == order[i]
           hits == {order[j] : j \in 1..(i - 1)}
<1>5. h \in resolved /\ hits \subseteq resolved
  <2>1. DOMAIN order = 1..Cardinality(changed) /\ \A j \in DOMAIN order : order[j] \in changed
    BY <1>4
  <2>2. \A j \in 1..(i - 1) : j \in DOMAIN order
    <3> DEFINE n == Cardinality(changed)
    <3>1. IsFiniteSet(resolved)
      BY <1>0, WikidataGive, PersonnesAssumption, FS_Subset DEF TypeInv, ExecTyped, Resolved
    <3>2. n \in Nat
      BY <1>b, <3>1, FS_Subset, FS_CardinalityType
    <3>3. i \in 1..n
      BY <1>3, <2>1
    <3> HIDE DEF n
    <3>4. \A j \in 1..(i - 1) : j \in 1..n
      BY <3>2, <3>3
    <3> QED
      BY <2>1, <3>4 DEF n
  <2>3. changed \subseteq resolved
    BY <1>b
  <2> HIDE DEF changed, resolved
  <2> QED
    BY <1>3, <2>1, <2>2, <2>3
<1>6. PICK p \in DOMAIN base.persons : p # h.an /\ WithQids(hits)[p].qid = h.qid
  BY <1>3
<1>7. \A f, g \in resolved : (f.an = g.an) <=> (f.qid = g.qid)
  BY DEF Resolved
<1> HIDE DEF resolved, h, hits
<1>8. base.persons[p].qid = h.qid
  <2>1. CASE \E g \in hits : g.an = p
    <3> DEFINE given == CHOOSE g \in hits : g.an = p
    <3>1. given \in hits /\ given.an = p
      BY <2>1
    <3>2. WithQids(hits)[p] = [base.persons[p] EXCEPT !.qid = given.qid]
      BY <2>1 DEF WithQids
    <3> HIDE DEF given
    <3>3. WithQids(hits)[p].qid = given.qid \/ WithQids(hits)[p] = base.persons[p]
      BY <3>2
    <3> QED
      BY <1>5, <1>6, <1>7, <3>1, <3>3
  <2>2. CASE ~\E g \in hits : g.an = p
    BY <1>6, <2>2 DEF WithQids
  <2> QED
    BY <2>1, <2>2
<1>9. [an |-> p, qid |-> h.qid] \notin {[an |-> g.an, qid |-> g.qid] : g \in resolved}
  BY <1>5, <1>6, <1>7
<1> QED
  BY <1>0, <1>5, <1>6, <1>8, <1>9 DEF Stale, resolved

LEMMA RefusedStale ==
  ASSUME AlwaysInv, StillInv, [Next]_vars, NEW e \in Execs, Active(e), exec'[e].pc = "refused"
  PROVE  Stale(e)
<1>0. TypeInv /\ ExecTyped /\ SeedInv /\ Still(e)
  BY DEF AlwaysInv, TypeInv, StillInv
<1>1. exec' # exec /\ exec'[e] # exec[e]
  BY DEF Active, Outcomes
<1>2. PICK f \in Execs : Start(f) \/ Finish(f) \/ Break(f) \/ Jobs(f)
  BY <1>1 DEF Next, Jobs, vars
<1>3. Others(f)
  <2>1. Start(f) \/ Finish(f) \/ Break(f) => Others(f)
    BY <1>0, StartLast, FinishGives, BreakGives DEF Leaves, Aborts
  <2>2. Jobs(f) => Others(f)
    BY <1>0, JobsGive DEF Advances, Aborts, Leaves, Moves
  <2> QED
    BY <1>2, <2>1, <2>2
<1>4. f = e
  BY <1>1, <1>3 DEF Others
<1>5. ~Start(e) /\ ~Finish(e) /\ ~Break(e)
  <2>1. ~Start(e)
    BY DEF Start
  <2>2. ~Break(e)
    BY <1>0, RefusedBy DEF Break
  <2>3. Finish(e) => exec'[e].pc = "over"
    BY <1>0 DEF Finish, Over, ExecTyped
  <2> QED
    BY <2>1, <2>2, <2>3
<1>6. Jobs(e)
  BY <1>2, <1>4, <1>5
<1>7. Acteurs(e) => Stale(e)
  BY <1>0, ActeursRefused DEF Still
<1>8. Scrutins(e) => Stale(e)
  BY <1>0, ScrutinsRefused DEF Still
<1>9. Slugs(e) => Stale(e)
  BY <1>0, SlugsRefused DEF Still
<1>10. Candidates(e) => Stale(e)
  BY <1>0, CandidatesRefused DEF SeedInv
<1>11. Wikidata(e) => Stale(e)
  BY <1>0, WikidataRefused
<1> QED
  BY <1>6, <1>7, <1>8, <1>9, <1>10, <1>11 DEF Jobs

\* RefusedOnlyByStale, for any executions of any jobs, alone or overlapping: a
\* constraint (mandat_gp_sans_chevauchement, the unicity of a qid, that of a slug
\* and of its person, that of a vote) refuses a statement of a job only because
\* of a row another archive or another execution has left, or of a person the
\* archive names twice on a scrutin.  What normalize_gp_mandats retains, what the
\* two-way ambiguities of Wikidata leave and the suffixes of the slugs never
\* collide by themselves.
THEOREM RefusedOnlyByStaleCorrect == Spec => RefusedOnlyByStale
<1> DEFINE Inv == AlwaysInv /\ StillInv
           Step == \A e \in Execs : Active(e) /\ exec'[e].pc = "refused" => Stale(e)
<1>1. Init => Inv
  <2> SUFFICES ASSUME Init
               PROVE  StillInv
    BY AlwaysInit
  <2>1. \A e \in Execs : exec[e].kind = None /\ exec[e].pc = "over"
    BY DEF Init, Over
  <2>2. DOMAIN base.slugs = {}
    BY DEF Init, Tables, NoRow
  <2> QED
    BY <2>1, <2>2, FS_EmptySet DEF StillInv, Still, StillToWrite, StillToCast, StillToName, Chunking
<1>2. Inv /\ [Next]_vars => Inv'
  BY AlwaysStep, StillStep
<1>3. Inv /\ [Next]_vars => [Step]_vars
  BY RefusedStale
<1>4. RefusedOnlyByStale <=> [][Step]_vars
  BY PTL DEF RefusedOnlyByStale
<1> QED
  BY <1>1, <1>2, <1>3, <1>4, PTL DEF Spec
=============================================================================
