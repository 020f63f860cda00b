--------------------------- MODULE MandatsProofs ---------------------------
(***************************************************************************)
(* What normalize_gp_mandats gives, for any list of mandates: no day of a  *)
(* group is lost without its anomaly, and no two mandates of a group that  *)
(* it retains meet.                                                        *)
(***************************************************************************)
EXTENDS Mandats, SequenceTheorems, WellFoundedInduction, TLAPS

-----------------------------------------------------------------------------
(* Induction, with a set in the place of a predicate.                        *)

LEMMA Induction ==
  ASSUME NEW T, 0 \in T, \A n \in Nat : n \in T => n + 1 \in T
  PROVE  Nat \subseteq T
<1> DEFINE R == OpToRel(<, Nat)
<1>1. IsWellFoundedOn(R, Nat)
  BY NatLessThanWellFounded
<1>2. ASSUME Nat \ T # {}
      PROVE  FALSE
  <2>1. PICK x \in Nat \ T : \A y \in Nat \ T : ~(<<y, x>> \in R)
    <3> DEFINE U == Nat \ T
    <3>1. U \subseteq Nat /\ U # {}
      BY <1>2
    <3> HIDE DEF U, R
    <3>2. \E x \in U : \A y \in U : ~(<<y, x>> \in R)
      BY <1>1, <3>1, WFMin
    <3> QED
      BY <3>2 DEF U
  <2>2. x # 0 /\ x - 1 \in Nat /\ x - 1 < x /\ (x - 1) + 1 = x
    OBVIOUS
  <2>3. x - 1 \in Nat \ T
    BY <2>2
  <2>4. <<x - 1, x>> \in R
    BY <2>2 DEF OpToRel
  <2> QED
    BY <2>1, <2>3, <2>4
<1> QED
  BY <1>2

\* A non-empty set of naturals has a least element.
LEMMA Least ==
  ASSUME NEW S \in SUBSET Nat, S # {}
  PROVE  \E m \in S : \A i \in S : m <= i
<1> DEFINE T == {n \in Nat : \A i \in S : i >= n}
<1>1. SUFFICES ASSUME \A m \in S : \E i \in S : i < m
               PROVE  FALSE
  OBVIOUS
<1>2. 0 \in T
  OBVIOUS
<1>3. ASSUME NEW n \in Nat, n \in T
      PROVE  n + 1 \in T
  <2>1. n \notin S
    BY <1>1, <1>3
  <2>2. \A i \in S : i >= n /\ i # n
    BY <1>3, <2>1
  <2> QED
    BY <2>2
<1> HIDE DEF T
<1>4. Nat \subseteq T
  BY <1>2, <1>3, Induction
<1>5. PICK m : m \in S
  OBVIOUS
<1>6. m + 1 \in T
  BY <1>4, <1>5
<1> QED
  BY <1>5, <1>6 DEF T

-----------------------------------------------------------------------------
(* Sequences put one after the other.                                        *)

\* The recursive function of FlattenSeq exists.
Flattens(f, ss, n) == f = [i \in 1..n |-> IF i = 1 THEN ss[i] ELSE f[i - 1] \o ss[i]]

LEMMA FlattenExists ==
  ASSUME NEW ss
  PROVE  \A n \in Nat : \E f : Flattens(f, ss, n)
<1> DEFINE T == {n \in Nat : \E f : Flattens(f, ss, n)}
<1>1. 0 \in T
  <2>1. Flattens(<<>>, ss, 0)
    BY DEF Flattens
  <2> QED
    BY <2>1
<1>2. ASSUME NEW n \in Nat, n \in T
      PROVE  n + 1 \in T
  <2>1. PICK f : Flattens(f, ss, n)
    BY <1>2
  <2> DEFINE g == [i \in 1..(n + 1) |-> IF i \in 1..n THEN f[i]
                                       ELSE IF i = 1 THEN ss[i] ELSE f[i - 1] \o ss[i]]
  <2>2. ASSUME NEW i \in 1..(n + 1)
        PROVE  g[i] = IF i = 1 THEN ss[i] ELSE g[i - 1] \o ss[i]
    <3>1. CASE i \in 1..n
      <4>1. i = 1 \/ i - 1 \in 1..n
        BY <3>1
      <4>2. g[i] = f[i] /\ f[i] = IF i = 1 THEN ss[i] ELSE f[i - 1] \o ss[i]
        BY <2>1, <3>1 DEF Flattens
      <4>3. i # 1 => g[i - 1] = f[i - 1]
        BY <4>1
      <4> QED
        BY <4>2, <4>3
    <3>2. CASE i \notin 1..n
      <4>1. i = n + 1 /\ (i # 1 => i - 1 \in 1..n)
        BY <3>2
      <4>2. g[i] = IF i = 1 THEN ss[i] ELSE f[i - 1] \o ss[i]
        BY <3>2
      <4>3. i # 1 => g[i - 1] = f[i - 1]
        BY <4>1
      <4> QED
        BY <4>2, <4>3
    <3> QED
      BY <3>1, <3>2
  <2>3. g = [i \in 1..(n + 1) |-> g[i]]
    OBVIOUS
  <2> HIDE DEF g
  <2>4. Flattens(g, ss, n + 1)
    BY <2>2, <2>3 DEF Flattens
  <2> HIDE DEF Flattens
  <2> QED
    BY <2>4
<1> HIDE DEF T
<1>3. Nat \subseteq T
  BY <1>1, <1>2, Induction
<1> QED
  BY <1>3 DEF T

\* What holds of the empty sequence, and goes on holding as the n-th sequence of
\* `ss` is put after the first ones, holds of all of them.
LEMMA FlattenInvariant ==
  ASSUME NEW S, NEW ss \in Seq(Seq(S)), NEW T, <<0, <<>>>> \in T,
         \A n \in 0..(Len(ss) - 1) : \A s \in Seq(S) :
           <<n, s>> \in T => <<n + 1, s \o ss[n + 1]>> \in T
  PROVE  FlattenSeq(ss) \in Seq(S) /\ <<Len(ss), FlattenSeq(ss)>> \in T
<1>0. Len(ss) \in Nat /\ DOMAIN ss = 1..Len(ss) /\ \A i \in 1..Len(ss) : ss[i] \in Seq(S)
  OBVIOUS
<1>1. CASE Len(ss) = 0
  <2>1. FlattenSeq(ss) = ss /\ ss = <<>>
    BY <1>1 DEF FlattenSeq
  <2> QED
    BY <1>1, <2>1
<1>2. CASE Len(ss) # 0
  <2> DEFINE f == CHOOSE f : f = [i \in 1..Len(ss) |-> IF i = 1 THEN ss[i] ELSE f[i - 1] \o ss[i]]
  <2>1. f = [i \in 1..Len(ss) |-> IF i = 1 THEN ss[i] ELSE f[i - 1] \o ss[i]]
    BY <1>0, FlattenExists DEF Flattens
  <2>2. FlattenSeq(ss) = f[Len(ss)]
    BY <1>2 DEF FlattenSeq
  <2> HIDE DEF f
  <2> DEFINE U == {n \in Nat : n + 1 \in 1..Len(ss) => f[n + 1] \in Seq(S) /\ <<n + 1, f[n + 1]>> \in T}
  <2>3. 0 \in U
    <3>1. f[1] = ss[1] /\ ss[1] \in Seq(S)
      BY <1>0, <1>2, <2>1
    <3>2. <<0 + 1, <<>> \o ss[0 + 1]>> \in T
      <4>1. 0 \in 0..(Len(ss) - 1) /\ <<>> \in Seq(S)
        BY <1>0, <1>2, EmptySeq
      <4> QED
        BY <4>1
    <3>3. <<>> \o ss[1] = ss[1]
      BY <3>1, ConcatProperties, EmptySeq
    <3>4. 0 + 1 = 1
      OBVIOUS
    <3>5. <<1, ss[1]>> \in T
      BY <3>2, <3>3, <3>4
    <3> QED
      BY <3>1, <3>4, <3>5
  <2>4. ASSUME NEW n \in Nat, n \in U
        PROVE  n + 1 \in U
    <3> SUFFICES ASSUME n + 2 \in 1..Len(ss)
                 PROVE  f[n + 2] \in Seq(S) /\ <<n + 2, f[n + 2]>> \in T
      OBVIOUS
    <3>1. f[n + 1] \in Seq(S) /\ <<n + 1, f[n + 1]>> \in T
      BY <1>0, <2>4
    <3>2. f[n + 2] = f[n + 1] \o ss[n + 2]
      <4>1. n + 2 # 1 /\ (n + 2) - 1 = n + 1
        OBVIOUS
      <4>2. f[n + 2] = IF n + 2 = 1 THEN ss[n + 2] ELSE f[(n + 2) - 1] \o ss[n + 2]
        BY <2>1
      <4> QED
        BY <4>1, <4>2
    <3>3. ss[n + 2] \in Seq(S)
      BY <1>0
    <3>4. <<n + 2, f[n + 1] \o ss[n + 2]>> \in T
      <4>1. n + 1 \in 0..(Len(ss) - 1) /\ (n + 1) + 1 = n + 2
        BY <1>0
      <4>2. <<(n + 1) + 1, f[n + 1] \o ss[(n + 1) + 1]>> \in T
        BY <3>1, <4>1
      <4> QED
        BY <4>1, <4>2
    <3> QED
      BY <3>1, <3>2, <3>3, <3>4
  <2> HIDE DEF U
  <2>5. Nat \subseteq U
    BY <2>3, <2>4, Induction
  <2>6. Len(ss) - 1 \in U /\ (Len(ss) - 1) + 1 = Len(ss) /\ Len(ss) \in 1..Len(ss)
    BY <1>0, <1>2, <2>5
  <2>7. f[Len(ss)] \in Seq(S) /\ <<Len(ss), f[Len(ss)]>> \in T
    BY <2>6 DEF U
  <2> QED
    BY <2>2, <2>7
<1> QED
  BY <1>1, <1>2

LEMMA FlattenIsSeq ==
  ASSUME NEW S, NEW ss \in Seq(Seq(S))
  PROVE  FlattenSeq(ss) \in Seq(S)
<1> DEFINE T == Nat \X Seq(S)
<1>1. <<0, <<>>>> \in T
  BY EmptySeq
<1>2. ASSUME NEW n \in 0..(Len(ss) - 1), NEW s \in Seq(S)
      PROVE  <<n + 1, s \o ss[n + 1]>> \in T
  <2>1. n + 1 \in 1..Len(ss) /\ n + 1 \in Nat
    OBVIOUS
  <2>2. ss[n + 1] \in Seq(S)
    BY <2>1
  <2>3. s \o ss[n + 1] \in Seq(S)
    BY <2>2
  <2> QED
    BY <2>1, <2>3
<1> HIDE DEF T
<1> QED
  BY <1>1, <1>2, FlattenInvariant

-----------------------------------------------------------------------------
(* Sorting.                                                                  *)

\* p puts the positions 1..n in the order F.
Puts(p, n, F) ==
  /\ p \in [1..n -> 1..n]
  /\ \A k \in 1..n : \E i \in 1..n : p[i] = k
  /\ \A i, j \in 1..n : i < j => <<p[i], p[j]>> \in F

LEMMA SortStep ==
  ASSUME NEW n \in Nat, NEW F, NEW p, Puts(p, n, F),
         \A i, j \in 1..(n + 1) : i # j => <<i, j>> \in F \/ <<j, i>> \in F,
         \A i, j, k \in 1..(n + 1) : <<i, j>> \in F /\ <<j, k>> \in F => <<i, k>> \in F
  PROVE  \E q : Puts(q, n + 1, F)
<1> DEFINE e == n + 1
           After == {i \in 1..n : <<e, p[i]>> \in F}
<1>0. \A i \in 1..n : /\ p[i] \in 1..n /\ p[i] \in 1..e /\ p[i] # e
                      /\ <<e, p[i]>> \in F \/ <<p[i], e>> \in F
  <2>1. \A i \in 1..n : p[i] \in 1..n
    BY DEF Puts
  <2>2. \A i \in 1..n : p[i] \in 1..e /\ p[i] # e /\ e \in 1..e
    BY <2>1
  <2> HIDE DEF e
  <2>3. \A i \in 1..n : <<e, p[i]>> \in F \/ <<p[i], e>> \in F
    BY <2>2 DEF e
  <2> QED
    BY <2>1, <2>2, <2>3
<1>1. PICK m \in 1..e : /\ \A i \in 1..n : i < m => <<p[i], e>> \in F
                        /\ \A i \in 1..n : i >= m => <<e, p[i]>> \in F
  <2>1. CASE After = {}
    <3>1. \A i \in 1..n : <<p[i], e>> \in F
      BY <1>0, <2>1
    <3> QED
      BY <3>1
  <2>2. CASE After # {}
    <3>1. PICK m \in After : \A i \in After : m <= i
      <4>1. After \in SUBSET Nat
        OBVIOUS
      <4> HIDE DEF After
      <4> QED
        BY <2>2, <4>1, Least
    <3>2. \A i \in 1..n : i < m => i \notin After
      BY <3>1
    <3>3. \A i \in 1..n : i < m => <<p[i], e>> \in F
      BY <1>0, <3>2
    <3>4. ASSUME NEW i \in 1..n, i > m
          PROVE  <<e, p[i]>> \in F
      <4>1. <<e, p[m]>> \in F /\ <<p[m], p[i]>> \in F /\ p[m] \in 1..e /\ p[i] \in 1..e
        BY <1>0, <3>1, <3>4 DEF Puts
      <4> QED
        BY <4>1
    <3>5. m \in 1..e /\ <<e, p[m]>> \in F
      BY <3>1
    <3>6. \A i \in 1..n : i >= m => i = m \/ i > m
      BY <3>5
    <3> QED
      BY <3>3, <3>4, <3>5, <3>6
  <2> QED
    BY <2>1, <2>2
<1> DEFINE q == [i \in 1..e |-> IF i < m THEN p[i] ELSE IF i = m THEN e ELSE p[i - 1]]
<1>2. \A i \in 1..e : /\ i < m => i \in 1..n /\ q[i] = p[i]
                      /\ i = m => q[i] = e
                      /\ i > m => i - 1 \in 1..n /\ q[i] = p[i - 1]
  OBVIOUS
<1>3. q \in [1..e -> 1..e]
  <2>1. \A i \in 1..e : q[i] \in 1..e
    <3> TAKE i \in 1..e
    <3>1. i < m \/ i = m \/ i > m
      OBVIOUS
    <3> HIDE DEF q
    <3>2. CASE i < m
      BY <1>0, <1>2, <3>2
    <3>3. CASE i = m
      BY <1>2, <3>3
    <3>4. CASE i > m
      <4>1. i - 1 \in 1..n /\ q[i] = p[i - 1]
        BY <1>2, <3>4
      <4> QED
        BY <1>0, <4>1
    <3> QED
      BY <3>1, <3>2, <3>3, <3>4
  <2> QED
    BY <2>1
<1>4. ASSUME NEW k \in 1..e
      PROVE  \E i \in 1..e : q[i] = k
  <2>1. CASE k = e
    BY <1>2, <2>1
  <2>2. CASE k # e
    <3>1. PICK i \in 1..n : p[i] = k
      BY <2>2 DEF Puts
    <3>2. CASE i < m
      BY <1>2, <3>1, <3>2
    <3>3. CASE i >= m
      <4>1. i + 1 \in 1..e /\ i + 1 > m /\ (i + 1) - 1 = i
        BY <3>3
      <4>2. q[i + 1] = p[i]
        BY <1>2, <4>1
      <4> QED
        BY <3>1, <4>1, <4>2
    <3> QED
      BY <3>2, <3>3
  <2> QED
    BY <2>1, <2>2
<1> HIDE DEF q
<1>5. ASSUME NEW i \in 1..e, NEW j \in 1..e, i < j
      PROVE  <<q[i], q[j]>> \in F
  <2>1. CASE j < m
    <3>1. i \in 1..n /\ j \in 1..n /\ q[i] = p[i] /\ q[j] = p[j]
      BY <1>2, <1>5, <2>1
    <3> QED
      BY <1>5, <3>1 DEF Puts
  <2>2. CASE j = m
    BY <1>1, <1>2, <1>5, <2>2
  <2>3. CASE j > m /\ i < m
    <3>1. i \in 1..n /\ j - 1 \in 1..n /\ i < j - 1 /\ q[i] = p[i] /\ q[j] = p[j - 1]
      BY <1>2, <1>5, <2>3
    <3> QED
      BY <3>1 DEF Puts
  <2>4. CASE j > m /\ i = m
    <3>1. j - 1 \in 1..n /\ j - 1 >= m /\ q[i] = e /\ q[j] = p[j - 1]
      BY <1>2, <1>5, <2>4
    <3> QED
      BY <1>1, <3>1
  <2>5. CASE j > m /\ i > m
    <3>1. /\ i - 1 \in 1..n /\ j - 1 \in 1..n /\ i - 1 < j - 1
          /\ q[i] = p[i - 1] /\ q[j] = p[j - 1]
      BY <1>2, <1>5, <2>5
    <3> QED
      BY <3>1 DEF Puts
  <2> QED
    BY <2>1, <2>2, <2>3, <2>4, <2>5
<1> QED
  BY <1>3, <1>4, <1>5 DEF Puts

LEMMA SortExists ==
  ASSUME NEW n \in Nat, NEW F,
         \A i, j \in 1..n : i # j => <<i, j>> \in F \/ <<j, i>> \in F,
         \A i, j, k \in 1..n : <<i, j>> \in F /\ <<j, k>> \in F => <<i, k>> \in F
  PROVE  \E p : Puts(p, n, F)
<1> DEFINE T == {k \in Nat : k <= n => \E p : Puts(p, k, F)}
<1>1. 0 \in T
  <2>1. Puts(<<>>, 0, F)
    BY DEF Puts
  <2> QED
    BY <2>1
<1>2. ASSUME NEW k \in Nat, k \in T
      PROVE  k + 1 \in T
  <2> SUFFICES ASSUME k + 1 <= n
               PROVE  \E p : Puts(p, k + 1, F)
    OBVIOUS
  <2>1. PICK p : Puts(p, k, F)
    BY <1>2
  <2>2. \A i \in 1..(k + 1) : i \in 1..n
    OBVIOUS
  <2> QED
    BY <2>1, <2>2, SortStep
<1> HIDE DEF T
<1>3. Nat \subseteq T
  BY <1>1, <1>2, Induction
<1> QED
  BY <1>3 DEF T
-----------------------------------------------------------------------------
(* A turn of normalize_same_organe.                                          *)

IsMandat(m) ==
  /\ {"uid", "organe", "debut", "fin"} \subseteq DOMAIN m
  /\ m.organe \in Int /\ m.debut \in Int /\ m.fin \in Int /\ m.debut <= m.fin

CutTo(m, d) == [m EXCEPT !.fin = d]
Cut(S) == S \cup {CutTo(m, d) : m \in S, d \in Int}

Span(m) == m.debut..m.fin

\* A list in the order of normalize_gp_mandats, in which a uid is that of one.
InOrder(list) == \A i, j \in 1..Len(list) : i < j => ~Before(list[j], list[i])
OneUid(list)  == \A i, j \in 1..Len(list) : list[i].uid = list[j].uid => i = j

\* What is kept: mandates of the first n, the last one as it is; those of a
\* group follow each other.
Follows(a, b) == a.organe < b.organe \/ (a.organe = b.organe /\ a.fin < b.debut)
KeptWell(n, kept, list, S) ==
  /\ kept \in Seq(Cut(S))
  /\ n = 0 => kept = <<>>
  /\ n > 0 => kept # <<>> /\ \E j \in 1..n : Last(kept) = list[j]
  /\ \A i \in 1..Len(kept) :
       /\ kept[i].debut <= kept[i].fin
       /\ \E j \in 1..n : kept[i].uid = list[j].uid /\ kept[i].organe = list[j].organe
  /\ \A i, j \in 1..Len(kept) : i < j => kept[i].uid # kept[j].uid /\ Follows(kept[i], kept[j])

\* What became of a day of one of the first n.
Held(kept, m, d)      == \E k \in 1..Len(kept) : kept[k].organe = m.organe /\ d \in Span(kept[k])
Aside(m, events, kept) ==
  Event("chevauchement", m) \in events /\ \A k \in 1..Len(kept) : kept[k].uid # m.uid
Explained(n, kept, events, list) ==
  \A i \in 1..n : \A d \in Span(list[i]) :
    \/ Held(kept, list[i], d)
    \/ \E j \in 1..n : /\ list[j].organe = list[i].organe /\ d \in Span(list[j])
                       /\ Aside(list[j], events, kept)

TurnInv(n, acc, list, S) ==
  /\ acc = [kept |-> acc.kept, events |-> acc.events]
  /\ KeptWell(n, acc.kept, list, S)
  /\ Explained(n, acc.kept, acc.events, list)

\* The shapes that a turn gives to what is kept.
LEMMA Appended ==
  ASSUME NEW T, NEW s \in Seq(T), NEW x \in T
  PROVE  /\ Append(s, x) \in Seq(T) /\ Len(Append(s, x)) = Len(s) + 1
         /\ \A i \in 1..Len(s) : Append(s, x)[i] = s[i]
         /\ Append(s, x)[Len(s) + 1] = x /\ Last(Append(s, x)) = x
BY DEF Last

LEMMA FrontGives ==
  ASSUME NEW T, NEW s \in Seq(T), s # <<>>
  PROVE  /\ Len(s) \in Nat /\ Len(s) > 0 /\ Front(s) \in Seq(T) /\ Len(Front(s)) = Len(s) - 1
         /\ \A i \in 1..(Len(s) - 1) : Front(s)[i] = s[i]
<1>1. Len(s) \in Nat /\ Len(s) > 0 /\ \A i \in 1..(Len(s) - 1) : s[i] \in T
  OBVIOUS
<1>2. Front(s) \in Seq(T) /\ Len(Front(s)) = IF 1 <= Len(s) - 1 THEN (Len(s) - 1) - 1 + 1 ELSE 0
  BY <1>1, SubSeqProperties DEF Front
<1>3. \A i \in 1..((Len(s) - 1) - 1 + 1) : Front(s)[i] = s[1 + i - 1]
  BY <1>1, SubSeqProperties DEF Front
<1>4. \A i \in 1..(Len(s) - 1) : 1 + i - 1 = i /\ i \in 1..((Len(s) - 1) - 1 + 1)
  BY <1>1
<1>5. \A i \in 1..(Len(s) - 1) : Front(s)[i] = s[i]
  BY <1>3, <1>4
<1>6. Len(Front(s)) = Len(s) - 1
  <2> DEFINE n == Len(s)
             l == Len(Front(s))
  <2>1. n \in Nat /\ n > 0 /\ l = IF 1 <= n - 1 THEN (n - 1) - 1 + 1 ELSE 0
    BY <1>1, <1>2
  <2> HIDE DEF n, l
  <2>2. l = n - 1
    BY <2>1
  <2> QED
    BY <2>2 DEF n, l
<1>7. Front(s) \in Seq(T)
  BY <1>2
<1> QED
  BY <1>1, <1>5, <1>6, <1>7

LEMMA Replaced ==
  ASSUME NEW T, NEW s \in Seq(T), s # <<>>, NEW x \in T
  PROVE  LET t == Append(Front(s), x)
         IN  /\ t \in Seq(T) /\ Len(t) = Len(s) /\ Len(s) > 0
             /\ \A i \in 1..(Len(s) - 1) : t[i] = s[i]
             /\ t[Len(s)] = x /\ Last(t) = x
<1>1. /\ Len(s) \in Nat /\ Len(s) > 0 /\ Front(s) \in Seq(T) /\ Len(Front(s)) = Len(s) - 1
      /\ \A i \in 1..(Len(s) - 1) : Front(s)[i] = s[i]
  BY FrontGives
<1> QED
  BY <1>1, Appended DEF Last

LEMMA Hinged ==
  ASSUME NEW T, NEW s \in Seq(T), s # <<>>, NEW c \in T, NEW x \in T
  PROVE  LET t == Front(s) \o <<c, x>>
         IN  /\ t \in Seq(T) /\ Len(t) = Len(s) + 1 /\ Len(s) > 0
             /\ \A i \in 1..(Len(s) - 1) : t[i] = s[i]
             /\ t[Len(s)] = c /\ t[Len(s) + 1] = x /\ Last(t) = x
<1> DEFINE f == Front(s)
           g == <<c, x>>
           t == f \o g
<1>1. /\ Len(s) \in Nat /\ Len(s) > 0 /\ f \in Seq(T) /\ Len(f) = Len(s) - 1
      /\ \A i \in 1..(Len(s) - 1) : f[i] = s[i]
  BY FrontGives
<1>2. g \in Seq(T) /\ Len(g) = 2 /\ g[1] = c /\ g[2] = x
  OBVIOUS
<1> HIDE DEF f, g
<1>3. t \in Seq(T) /\ Len(t) = Len(f) + 2
  <2>1. f \in Seq(T) /\ g \in Seq(T)
    BY <1>1, <1>2
  <2>2. t \in Seq(T) /\ Len(t) = Len(f) + Len(g)
    BY <2>1, ConcatProperties
  <2> QED
    BY <1>2, <2>2
<1>4. \A i \in 1..Len(t) : t[i] = IF i <= Len(f) THEN f[i] ELSE g[i - Len(f)]
  BY <1>1, <1>2, <1>3, ConcatProperties
<1>5. \A i \in 1..(Len(s) - 1) : t[i] = s[i]
  BY <1>1, <1>3, <1>4
<1>6. t[Len(s)] = c
  BY <1>1, <1>2, <1>3, <1>4
<1>7. t[Len(s) + 1] = x
  BY <1>1, <1>2, <1>3, <1>4
<1> QED
  BY <1>1, <1>3, <1>5, <1>6, <1>7 DEF Last, f, g
\* The turns, by what is kept and which events there are.
LEMMA TurnCases ==
  ASSUME NEW kept, NEW events, NEW next, NEW cur, cur = Last(kept), kept # <<>>
  PROVE  LET t       == AddNext([kept |-> kept, events |-> events], next)
             meeting == Meeting(cur, next)
         IN  \/ meeting = "apart"   /\ t = [kept |-> Append(kept, next), events |-> events]
             \/ meeting = "inside"  /\ t = [kept |-> kept, events |-> events \cup {Event("inclus", next)}]
             \/ /\ meeting = "around"
                /\ t = [kept |-> Append(Front(kept), next), events |-> events \cup {Event("inclus", cur)}]
             \/ /\ meeting = "hinge"
                /\ t = [kept   |-> Front(kept) \o <<[cur EXCEPT !.fin = next.debut - 1], next>>,
                        events |-> events \cup {Event("charniere", cur)}]
             \/ /\ meeting = "shorter"
                /\ t = [kept |-> kept, events |-> events \cup {Event("chevauchement", next)}]
             \/ /\ meeting = "longer"
                /\ t = [kept   |-> Append(Front(kept), next),
                        events |-> events \cup {Event("chevauchement", cur)}]
<1> DEFINE acc     == [kept |-> kept, events |-> events]
           meeting == Meeting(cur, next)
<1>1. meeting \in {"apart", "inside", "around", "hinge", "shorter", "longer"}
  BY DEF Meeting
<1>2. acc.kept = kept /\ acc.events = events
  OBVIOUS
<1>3. \A e : [acc EXCEPT !.events = e] = [kept |-> kept, events |-> e]
  OBVIOUS
<1>4. \A k : [acc EXCEPT !.kept = k] = [kept |-> k, events |-> events]
  OBVIOUS
<1> HIDE DEF acc, meeting
<1>5. AddNext(acc, next) =
        CASE meeting = "apart"   -> [kept |-> Append(kept, next), events |-> events]
          [] meeting = "inside"  -> [kept |-> kept, events |-> events \cup {Event("inclus", next)}]
          [] meeting = "around"  -> [kept |-> Append(Front(kept), next),
                                     events |-> events \cup {Event("inclus", cur)}]
          [] meeting = "hinge"   -> [kept |-> Front(kept) \o <<[cur EXCEPT !.fin = next.debut - 1], next>>,
                                     events |-> events \cup {Event("charniere", cur)}]
          [] meeting = "shorter" -> [kept |-> kept, events |-> events \cup {Event("chevauchement", next)}]
          [] meeting = "longer"  -> [kept |-> Append(Front(kept), next),
                                     events |-> events \cup {Event("chevauchement", cur)}]
  BY <1>2, <1>3, <1>4 DEF AddNext, meeting
<1> QED
  BY <1>1, <1>5 DEF acc, meeting

\* How the days of the two mandates lie, when they come in order.
LEMMA MeetingDays ==
  ASSUME NEW cur, NEW next, IsMandat(cur), IsMandat(next), ~Before(next, cur),
         NEW meeting, meeting = Meeting(cur, next)
  PROVE  /\ meeting = "apart" => Follows(cur, next)
         /\ meeting # "apart" => cur.organe = next.organe
         /\ meeting = "inside" => cur.debut <= next.debut /\ next.fin <= cur.fin
         /\ meeting = "around" => cur.debut = next.debut /\ cur.fin < next.fin
         /\ meeting = "hinge" => cur.debut < next.debut /\ next.debut = cur.fin
         /\ meeting = "longer" => cur.debut < next.debut
<1>1. cur.organe < next.organe \/ (cur.organe = next.organe /\ cur.debut <= next.debut)
  BY DEF IsMandat, Before
<1> QED
  BY <1>1 DEF IsMandat, Meeting, Follows
LEMMA CutTyped ==
  ASSUME NEW S, \A m \in S : IsMandat(m), NEW c \in Cut(S)
  PROVE  /\ {"uid", "organe", "debut", "fin"} \subseteq DOMAIN c
         /\ c.organe \in Int /\ c.debut \in Int /\ c.fin \in Int
<1>1. CASE c \in S
  BY <1>1 DEF IsMandat
<1>2. CASE c \notin S
  <2>1. PICK m \in S, d \in Int : c = CutTo(m, d)
    BY <1>2 DEF Cut
  <2> QED
    BY <2>1 DEF IsMandat, CutTo
<1> QED
  BY <1>1, <1>2

\* The next mandate comes after some of those kept, the last of which may have
\* been cut.
LEMMA GrownWell ==
  ASSUME NEW S, \A m \in S : IsMandat(m), NEW list \in Seq(S), OneUid(list),
         NEW n \in 0..(Len(list) - 1), NEW kept, KeptWell(n, kept, list, S),
         NEW M \in 0..Len(kept), NEW grown \in Seq(Cut(S)), Len(grown) = M + 1,
         grown[M + 1] = list[n + 1],
         \A i \in 1..M : /\ grown[i].uid = kept[i].uid /\ grown[i].organe = kept[i].organe
                         /\ grown[i].debut = kept[i].debut
                         /\ grown[i].debut <= grown[i].fin /\ grown[i].fin <= kept[i].fin
                         /\ Follows(grown[i], list[n + 1])
  PROVE  KeptWell(n + 1, grown, list, S)
<1> DEFINE next == list[n + 1]
<1>1. n + 1 \in 1..Len(list) /\ next \in S /\ IsMandat(next) /\ Len(grown) \in Nat /\ Len(kept) \in Nat
  BY DEF KeptWell
<1>2. \A i \in 1..M : i \in 1..Len(kept)
  BY <1>1
<1>3. grown # <<>> /\ Last(grown) = next /\ n + 1 \in 1..(n + 1)
  BY <1>1 DEF Last
<1>4. ASSUME NEW i \in 1..Len(grown)
      PROVE  /\ grown[i].debut <= grown[i].fin
             /\ \E j \in 1..(n + 1) : grown[i].uid = list[j].uid /\ grown[i].organe = list[j].organe
  <2>1. CASE i = M + 1
    BY <1>1, <1>3, <2>1 DEF IsMandat
  <2>2. CASE i # M + 1
    <3>1. i \in 1..M /\ i \in 1..Len(kept)
      BY <2>2
    <3>2. PICK j \in 1..n : kept[i].uid = list[j].uid /\ kept[i].organe = list[j].organe
      BY <3>1 DEF KeptWell
    <3>3. j \in 1..(n + 1)
      OBVIOUS
    <3> QED
      BY <3>1, <3>2, <3>3
  <2> QED
    BY <2>1, <2>2
<1>5. ASSUME NEW i \in 1..M
      PROVE  grown[i].uid # next.uid
  <2>1. PICK j \in 1..n : kept[i].uid = list[j].uid
    BY <1>2 DEF KeptWell
  <2>2. j \in 1..Len(list) /\ j # n + 1
    BY <1>1
  <2>3. list[j].uid # next.uid
    BY <1>1, <2>2 DEF OneUid
  <2> QED
    BY <2>1, <2>3
<1>6. ASSUME NEW i \in 1..Len(grown), NEW j \in 1..Len(grown), i < j
      PROVE  grown[i].uid # grown[j].uid /\ Follows(grown[i], grown[j])
  <2>1. CASE j = M + 1
    <3>1. i \in 1..M
      BY <1>6, <2>1
    <3> QED
      BY <1>5, <2>1, <3>1
  <2>2. CASE j # M + 1
    <3>1. i \in 1..M /\ j \in 1..M /\ i \in 1..Len(kept) /\ j \in 1..Len(kept)
      BY <1>6, <2>2
    <3>2. kept[i].uid # kept[j].uid /\ Follows(kept[i], kept[j])
      BY <1>6, <3>1 DEF KeptWell
    <3>3. kept[i] \in Cut(S) /\ kept[j] \in Cut(S) /\ grown[i] \in Cut(S)
      BY <3>1 DEF KeptWell
    <3>4. /\ kept[i].organe \in Int /\ kept[j].organe \in Int /\ kept[i].fin \in Int
          /\ kept[j].debut \in Int /\ grown[i].fin \in Int
      BY <3>3, CutTyped
    <3> QED
      BY <3>1, <3>2, <3>4 DEF Follows
  <2> QED
    BY <2>1, <2>2
<1> QED
  BY <1>3, <1>4, <1>6 DEF KeptWell

LEMMA GrownExplained ==
  ASSUME NEW S, NEW list \in Seq(S), OneUid(list), NEW n \in 0..(Len(list) - 1),
         NEW kept, NEW events, Explained(n, kept, events, list),
         NEW grown, NEW more, events \subseteq more,
         \A i \in 1..Len(grown) : \/ grown[i].uid = list[n + 1].uid
                                  \/ \E k \in 1..Len(kept) : grown[i].uid = kept[k].uid,
         \A k \in 1..Len(kept) : \A d \in Span(kept[k]) :
           \/ Held(grown, kept[k], d)
           \/ \E j \in 1..n : /\ list[j].organe = kept[k].organe /\ d \in Span(list[j])
                              /\ Aside(list[j], more, grown),
         \A d \in Span(list[n + 1]) :
           Held(grown, list[n + 1], d) \/ Aside(list[n + 1], more, grown)
  PROVE  Explained(n + 1, grown, more, list)
<1> SUFFICES ASSUME NEW i \in 1..(n + 1), NEW d \in Span(list[i])
             PROVE  \/ Held(grown, list[i], d)
                    \/ \E j \in 1..(n + 1) : /\ list[j].organe = list[i].organe /\ d \in Span(list[j])
                                             /\ Aside(list[j], more, grown)
  BY DEF Explained
<1>1. CASE i = n + 1
  <2>1. Held(grown, list[i], d) \/ Aside(list[i], more, grown)
    BY <1>1
  <2> QED
    BY <2>1
<1>2. CASE i # n + 1
  <2>1. i \in 1..n
    BY <1>2
  <2>2. CASE Held(kept, list[i], d)
    <3>1. PICK k \in 1..Len(kept) : kept[k].organe = list[i].organe /\ d \in Span(kept[k])
      BY <2>2 DEF Held
    <3>2. CASE Held(grown, kept[k], d)
      BY <3>1, <3>2 DEF Held
    <3>3. CASE \E j \in 1..n : /\ list[j].organe = kept[k].organe /\ d \in Span(list[j])
                               /\ Aside(list[j], more, grown)
      <4>1. \A j \in 1..n : j \in 1..(n + 1)
        OBVIOUS
      <4> QED
        BY <3>1, <3>3, <4>1
    <3> QED
      BY <3>1, <3>2, <3>3
  <2>3. CASE \E j \in 1..n : /\ list[j].organe = list[i].organe /\ d \in Span(list[j])
                             /\ Aside(list[j], events, kept)
    <3>1. PICK j \in 1..n : /\ list[j].organe = list[i].organe /\ d \in Span(list[j])
                            /\ Aside(list[j], events, kept)
      BY <2>3
    <3>2. j \in 1..(n + 1) /\ list[j].uid # list[n + 1].uid
      <4>1. j \in 1..Len(list) /\ n + 1 \in 1..Len(list) /\ j # n + 1 /\ j \in 1..(n + 1)
        OBVIOUS
      <4> QED
        BY <4>1 DEF OneUid
    <3>3. Aside(list[j], more, grown)
      BY <3>1, <3>2 DEF Aside
    <3> QED
      BY <3>1, <3>2, <3>3
  <2> QED
    BY <2>1, <2>2, <2>3 DEF Explained
<1> QED
  BY <1>1, <1>2
\* The next mandate changes nothing of what is kept.
LEMMA StaysWell ==
  ASSUME NEW S, NEW list, NEW n \in Nat, n > 0, NEW kept, KeptWell(n, kept, list, S)
  PROVE  KeptWell(n + 1, kept, list, S)
<1>1. \A j \in 1..n : j \in 1..(n + 1)
  OBVIOUS
<1>2. kept \in Seq(Cut(S)) /\ kept # <<>> /\ n + 1 # 0
  BY DEF KeptWell
<1>3. \E j \in 1..(n + 1) : Last(kept) = list[j]
  BY <1>1 DEF KeptWell
<1>4. \A i \in 1..Len(kept) :
        /\ kept[i].debut <= kept[i].fin
        /\ \E j \in 1..(n + 1) : kept[i].uid = list[j].uid /\ kept[i].organe = list[j].organe
  BY <1>1 DEF KeptWell
<1>5. \A i, j \in 1..Len(kept) : i < j => kept[i].uid # kept[j].uid /\ Follows(kept[i], kept[j])
  BY DEF KeptWell
<1> QED
  BY <1>2, <1>3, <1>4, <1>5 DEF KeptWell

\* The uid of the next mandate is that of none of those kept.
LEMMA NextIsNew ==
  ASSUME NEW S, NEW list \in Seq(S), OneUid(list), NEW n \in 0..(Len(list) - 1),
         NEW kept, KeptWell(n, kept, list, S)
  PROVE  \A k \in 1..Len(kept) : kept[k].uid # list[n + 1].uid
<1> TAKE k \in 1..Len(kept)
<1>1. PICK j \in 1..n : kept[k].uid = list[j].uid
  BY DEF KeptWell
<1>2. j \in 1..Len(list) /\ n + 1 \in 1..Len(list) /\ j # n + 1
  OBVIOUS
<1> QED
  BY <1>1, <1>2 DEF OneUid

\* Those kept before the last one come before a mandate that comes after it.
LEMMA FollowsThrough ==
  ASSUME NEW S, \A m \in S : IsMandat(m), NEW a \in Cut(S), NEW cur \in S, NEW next \in S,
         Follows(a, cur), ~Before(next, cur)
  PROVE  Follows(a, next)
<1>1. cur.organe < next.organe \/ (cur.organe = next.organe /\ cur.debut <= next.debut)
  BY DEF IsMandat, Before
<1>2. a.organe \in Int /\ a.fin \in Int
  BY CutTyped
<1>3. /\ cur.organe \in Int /\ cur.debut \in Int
      /\ next.organe \in Int /\ next.debut \in Int
  BY DEF IsMandat
<1> QED
  BY <1>1, <1>2, <1>3 DEF Follows

LEMMA FirstTurn ==
  ASSUME NEW S, \A m \in S : IsMandat(m), NEW list \in Seq(S), OneUid(list),
         NEW n \in 0..(Len(list) - 1), NEW kept, NEW events,
         KeptWell(n, kept, list, S), Explained(n, kept, events, list), kept = <<>>
  PROVE  TurnInv(n + 1, AddNext([kept |-> kept, events |-> events], list[n + 1]), list, S)
<1> DEFINE next  == list[n + 1]
           grown == Append(kept, next)
<1>1. next \in S /\ S \subseteq Cut(S) /\ kept \in Seq(Cut(S)) /\ Len(kept) = 0
  BY DEF Cut
<1>2. AddNext([kept |-> kept, events |-> events], next) = [kept |-> grown, events |-> events]
  BY DEF AddNext
<1>3. /\ grown \in Seq(Cut(S)) /\ Len(grown) = 1 /\ grown[1] = next
  BY <1>1, Appended
<1> HIDE DEF grown
<1>4. KeptWell(n + 1, grown, list, S)
  <2>1. 0 \in 0..Len(kept) /\ Len(grown) = 0 + 1 /\ grown[0 + 1] = list[n + 1]
    BY <1>1, <1>3
  <2>2. \A i \in 1..0 : FALSE
    OBVIOUS
  <2> QED
    BY <1>3, <2>1, <2>2, GrownWell
<1>5. Explained(n + 1, grown, events, list)
  <2>1. \A d \in Span(next) : Held(grown, next, d)
    BY <1>3 DEF Held
  <2>2. \A k \in 1..Len(kept) : FALSE
    BY <1>1
  <2>3. \A i \in 1..Len(grown) : grown[i].uid = list[n + 1].uid
    BY <1>3
  <2> QED
    BY <2>1, <2>2, <2>3, GrownExplained
<1> QED
  BY <1>2, <1>4, <1>5 DEF TurnInv
\* One turn: what is kept stays in order, and no day is lost without a trace.
LEMMA LaterTurn ==
  ASSUME NEW S, \A m \in S : IsMandat(m), NEW list \in Seq(S), OneUid(list), InOrder(list),
         NEW n \in 0..(Len(list) - 1), NEW kept, NEW events,
         KeptWell(n, kept, list, S), Explained(n, kept, events, list), kept # <<>>
  PROVE  TurnInv(n + 1, AddNext([kept |-> kept, events |-> events], list[n + 1]), list, S)
<1> DEFINE next    == list[n + 1]
           L       == Len(kept)
           cur     == kept[L]
           meeting == Meeting(cur, next)
           turn    == AddNext([kept |-> kept, events |-> events], next)
           Known(grown) == \A i \in 1..Len(grown) :
                             \/ grown[i].uid = list[n + 1].uid
                             \/ \E k \in 1..Len(kept) : grown[i].uid = kept[k].uid
           Kept(grown, more) == \A k \in 1..Len(kept) : \A d \in Span(kept[k]) :
                             \/ Held(grown, kept[k], d)
                             \/ \E j \in 1..n : /\ list[j].organe = kept[k].organe /\ d \in Span(list[j])
                                                /\ Aside(list[j], more, grown)
<1>1. /\ kept \in Seq(Cut(S)) /\ S \subseteq Cut(S) /\ n > 0 /\ n \in Nat
      /\ L \in Nat /\ L > 0 /\ next \in S /\ n + 1 \in 1..Len(list)
      /\ cur = Last(kept) /\ L \in 1..Len(kept)
  BY DEF KeptWell, Cut, Last
<1>2. PICK c \in 1..n : cur = list[c]
  BY <1>1 DEF KeptWell
<1>3. cur \in S /\ IsMandat(cur) /\ IsMandat(next) /\ ~Before(next, cur)
  <2>1. c \in 1..Len(list) /\ n + 1 \in 1..Len(list) /\ c < n + 1
    OBVIOUS
  <2> QED
    BY <1>1, <1>2, <2>1 DEF InOrder
<1>4. /\ cur.organe \in Int /\ cur.debut \in Int /\ cur.fin \in Int /\ cur.debut <= cur.fin
      /\ next.organe \in Int /\ next.debut \in Int /\ next.fin \in Int /\ next.debut <= next.fin
  BY <1>3 DEF IsMandat
<1>5. /\ meeting = "apart" => Follows(cur, next)
      /\ meeting # "apart" => cur.organe = next.organe
      /\ meeting = "inside" => cur.debut <= next.debut /\ next.fin <= cur.fin
      /\ meeting = "around" => cur.debut = next.debut /\ cur.fin < next.fin
      /\ meeting = "hinge" => cur.debut < next.debut /\ next.debut = cur.fin
      /\ meeting = "longer" => cur.debut < next.debut
  BY <1>3, MeetingDays
<1>6. \A k \in 1..L : kept[k].uid # next.uid
  BY NextIsNew
<1>7. \A i \in 1..(L - 1) : /\ i \in 1..L /\ kept[i].debut <= kept[i].fin
                            /\ Follows(kept[i], cur) /\ Follows(kept[i], next)
                            /\ kept[i].uid # cur.uid /\ kept[i].fin \in Int
  <2> TAKE i \in 1..(L - 1)
  <2>1. i \in 1..L /\ i < L /\ kept[i] \in Cut(S)
    BY <1>1
  <2>2. kept[i].debut <= kept[i].fin /\ Follows(kept[i], cur) /\ kept[i].uid # cur.uid
    BY <1>1, <2>1 DEF KeptWell
  <2>3. Follows(kept[i], next)
    BY <1>1, <1>3, <2>1, <2>2, FollowsThrough
  <2> QED
    BY <2>1, <2>2, <2>3, CutTyped
<1>8. \/ meeting = "apart"   /\ turn = [kept |-> Append(kept, next), events |-> events]
      \/ meeting = "inside"  /\ turn = [kept |-> kept, events |-> events \cup {Event("inclus", next)}]
      \/ /\ meeting = "around"
         /\ turn = [kept |-> Append(Front(kept), next), events |-> events \cup {Event("inclus", cur)}]
      \/ /\ meeting = "hinge"
         /\ turn = [kept   |-> Front(kept) \o <<[cur EXCEPT !.fin = next.debut - 1], next>>,
                    events |-> events \cup {Event("charniere", cur)}]
      \/ /\ meeting = "shorter"
         /\ turn = [kept |-> kept, events |-> events \cup {Event("chevauchement", next)}]
      \/ /\ meeting = "longer"
         /\ turn = [kept   |-> Append(Front(kept), next),
                    events |-> events \cup {Event("chevauchement", cur)}]
  BY <1>1, TurnCases
<1> HIDE DEF turn, meeting, cur, L, next, Known, Kept
<1>a. ASSUME NEW grown, NEW more, events \subseteq more, turn = [kept |-> grown, events |-> more],
             KeptWell(n + 1, grown, list, S), Known(grown), Kept(grown, more),
             \A d \in Span(next) : Held(grown, next, d) \/ Aside(next, more, grown)
      PROVE  TurnInv(n + 1, turn, list, S)
  <2>1. Explained(n + 1, grown, more, list)
    BY <1>a, GrownExplained DEF Known, Kept, next
  <2> QED
    BY <1>a, <2>1 DEF TurnInv
<1>b. ASSUME NEW grown, NEW more, NEW k \in 1..L, NEW d, Held(grown, kept[k], d)
      PROVE  \/ Held(grown, kept[k], d)
             \/ \E j \in 1..n : /\ list[j].organe = kept[k].organe /\ d \in Span(list[j])
                                /\ Aside(list[j], more, grown)
  BY <1>b
<1>c. ASSUME NEW more
      PROVE  Known(kept) /\ Kept(kept, more)
  BY DEF Known, Kept, Held
<1>9. CASE meeting = "apart"
  <2> DEFINE grown == Append(kept, next)
  <2>1. /\ grown \in Seq(Cut(S)) /\ Len(grown) = L + 1
        /\ \A i \in 1..L : grown[i] = kept[i]
        /\ grown[L + 1] = next
    BY <1>1, Appended DEF L
  <2> HIDE DEF grown
  <2>2. \A i \in 1..L : kept[i].debut <= kept[i].fin /\ kept[i].fin \in Int /\ Follows(kept[i], next)
    <3> TAKE i \in 1..L
    <3>1. CASE i = L
      BY <1>4, <1>5, <1>9, <3>1 DEF cur
    <3>2. CASE i # L
      <4>1. i \in 1..(L - 1)
        BY <1>1, <3>2
      <4> QED
        BY <1>7, <4>1
    <3> QED
      BY <3>1, <3>2
  <2>3. KeptWell(n + 1, grown, list, S)
    <3>1. L \in 0..Len(kept)
      BY <1>1
    <3>2. \A i \in 1..L : /\ grown[i].uid = kept[i].uid /\ grown[i].organe = kept[i].organe
                          /\ grown[i].debut = kept[i].debut
                          /\ grown[i].debut <= grown[i].fin /\ grown[i].fin <= kept[i].fin
                          /\ Follows(grown[i], list[n + 1])
      BY <2>1, <2>2 DEF next
    <3>3. Len(grown) = L + 1 /\ grown[L + 1] = list[n + 1]
      BY <2>1 DEF next
    <3> HIDE DEF L
    <3> QED
      BY <2>1, <3>1, <3>2, <3>3, GrownWell
  <2>4. \A i \in 1..L : i \in 1..Len(grown)
    BY <1>1, <2>1
  <2>5. Known(grown) /\ Kept(grown, events)
    <3>1. Known(grown)
      <4>1. \A i \in 1..Len(grown) : i \in 1..L \/ i = L + 1
        BY <1>1, <2>1
      <4> QED
        BY <2>1, <4>1 DEF Known, L, next
    <3>2. Kept(grown, events)
      BY <2>1, <2>4 DEF Kept, Held, L
    <3> QED
      BY <3>1, <3>2
  <2>6. \A d \in Span(next) : Held(grown, next, d)
    <3>1. L + 1 \in 1..Len(grown)
      BY <1>1, <2>1
    <3> QED
      BY <2>1, <3>1 DEF Held
  <2>7. turn = [kept |-> grown, events |-> events]
    BY <1>8, <1>9 DEF grown
  <2> QED
    BY <1>a, <2>3, <2>5, <2>6, <2>7 DEF turn, next
<1>10. CASE meeting = "inside"
  <2>1. KeptWell(n + 1, kept, list, S)
    BY <1>1, StaysWell
  <2>2. \A d \in Span(next) : Held(kept, next, d)
    <3>1. \A d \in Span(next) : d \in Span(cur)
      BY <1>4, <1>5, <1>10 DEF Span
    <3> QED
      BY <1>1, <1>5, <1>10, <3>1 DEF Held, cur
  <2>3. turn = [kept |-> kept, events |-> events \cup {Event("inclus", next)}]
    BY <1>8, <1>10
  <2> QED
    BY <1>a, <1>c, <2>1, <2>2, <2>3 DEF turn, next
<1>11. CASE meeting = "shorter"
  <2>1. KeptWell(n + 1, kept, list, S)
    BY <1>1, StaysWell
  <2> DEFINE more == events \cup {Event("chevauchement", next)}
  <2>2. Aside(next, more, kept)
    BY <1>6 DEF Aside, L
  <2>3. turn = [kept |-> kept, events |-> more]
    BY <1>8, <1>11
  <2>4. events \subseteq more
    OBVIOUS
  <2> HIDE DEF more
  <2> QED
    BY <1>a, <1>c, <2>1, <2>2, <2>3, <2>4 DEF turn, next
<1>12. CASE meeting \in {"around", "longer"}
  <2> DEFINE grown == Append(Front(kept), next)
             more  == events \cup {Event(IF meeting = "around" THEN "inclus" ELSE "chevauchement", cur)}
  <2>1. /\ grown \in Seq(Cut(S)) /\ Len(grown) = L
        /\ \A i \in 1..(L - 1) : grown[i] = kept[i]
        /\ grown[L] = next
    BY <1>1, Replaced DEF L
  <2>2. turn = [kept |-> grown, events |-> more] /\ events \subseteq more
    BY <1>8, <1>12
  <2> HIDE DEF grown
  <2>3. KeptWell(n + 1, grown, list, S)
    <3> DEFINE M == L - 1
    <3>1. M \in 0..Len(kept) /\ Len(grown) = M + 1 /\ grown[M + 1] = list[n + 1]
      BY <1>1, <2>1 DEF L, next
    <3>2. \A i \in 1..M : /\ grown[i].uid = kept[i].uid /\ grown[i].organe = kept[i].organe
                          /\ grown[i].debut = kept[i].debut
                          /\ grown[i].debut <= grown[i].fin /\ grown[i].fin <= kept[i].fin
                          /\ Follows(grown[i], list[n + 1])
      BY <1>7, <2>1 DEF next
    <3> HIDE DEF M
    <3> QED
      BY <2>1, <3>1, <3>2, GrownWell
  <2>4. \A i \in 1..L : i \in 1..Len(grown) /\ (i = L \/ i \in 1..(L - 1))
    BY <1>1, <2>1
  <2>5. Known(grown)
    BY <2>1, <2>4, <1>7 DEF Known, L, next
  <2>6. \A d \in Span(next) : Held(grown, next, d)
    BY <1>1, <2>1, <2>4 DEF Held
  <2>7. ASSUME NEW d \in Span(cur)
        PROVE  \/ Held(grown, cur, d)
               \/ \E j \in 1..n : /\ list[j].organe = cur.organe /\ d \in Span(list[j])
                                  /\ Aside(list[j], more, grown)
    <3>1. CASE meeting = "around"
      <4>1. d \in Span(next) /\ cur.organe = next.organe
        BY <1>4, <1>5, <2>7, <3>1 DEF Span
      <4> QED
        BY <2>6, <4>1 DEF Held
    <3>2. CASE meeting = "longer"
      <4>1. Event("chevauchement", cur) \in more
        BY <3>2
      <4>2. next.uid # cur.uid
        BY <1>1, <1>6 DEF cur
      <4>3. \A k \in 1..Len(grown) : grown[k].uid # cur.uid
        <5> TAKE k \in 1..Len(grown)
        <5>1. k = L \/ k \in 1..(L - 1)
          BY <1>1, <2>1
        <5> QED
          BY <1>7, <2>1, <4>2, <5>1
      <4>4. Aside(list[c], more, grown)
        BY <1>2, <4>1, <4>3 DEF Aside
      <4> QED
        BY <1>2, <4>4
    <3> QED
      BY <1>12, <3>1, <3>2
  <2> HIDE DEF more
  <2>8. Kept(grown, more)
    <3> SUFFICES ASSUME NEW k \in 1..L, NEW d \in Span(kept[k])
                 PROVE  \/ Held(grown, kept[k], d)
                        \/ \E j \in 1..n : /\ list[j].organe = kept[k].organe /\ d \in Span(list[j])
                                           /\ Aside(list[j], more, grown)
      BY DEF Kept, L
    <3>1. CASE k = L
      BY <2>7, <3>1 DEF cur
    <3>2. CASE k # L
      BY <2>1, <2>4, <3>2 DEF Held
    <3> QED
      BY <3>1, <3>2
  <2> QED
    BY <1>a, <2>2, <2>3, <2>5, <2>6, <2>8 DEF turn, next
<1>13. CASE meeting = "hinge"
  <2> DEFINE cut   == [cur EXCEPT !.fin = next.debut - 1]
             grown == Front(kept) \o <<cut, next>>
             more  == events \cup {Event("charniere", cur)}
  <2>1. /\ cut \in Cut(S) /\ cut.uid = cur.uid /\ cut.organe = cur.organe
        /\ cut.debut = cur.debut /\ cut.fin = next.debut - 1
    <3>1. next.debut - 1 \in Int
      BY <1>4
    <3>2. cut \in Cut(S)
      <4>1. next.debut - 1 \in Int /\ cur \in S
        BY <1>3, <3>1
      <4>2. CutTo(cur, next.debut - 1) \in Cut(S)
        BY <4>1 DEF Cut
      <4> QED
        BY <4>2 DEF CutTo
    <3>3. {"uid", "organe", "debut", "fin"} \subseteq DOMAIN cur
      BY <1>3 DEF IsMandat
    <3> QED
      BY <3>2, <3>3
  <2> HIDE DEF cut
  <2>2. /\ grown \in Seq(Cut(S)) /\ Len(grown) = L + 1
        /\ \A i \in 1..(L - 1) : grown[i] = kept[i]
        /\ grown[L] = cut /\ grown[L + 1] = next
    <3>1. next \in Cut(S)
      BY <1>1
    <3> QED
      BY <1>1, <2>1, <3>1, Hinged DEF L
  <2>3. turn = [kept |-> grown, events |-> more] /\ events \subseteq more
    BY <1>8, <1>13 DEF cut
  <2> HIDE DEF grown, more
  <2>4. \A i \in 1..L : /\ grown[i].uid = kept[i].uid /\ grown[i].organe = kept[i].organe
                        /\ grown[i].debut = kept[i].debut
                        /\ grown[i].debut <= grown[i].fin /\ grown[i].fin <= kept[i].fin
                        /\ Follows(grown[i], next)
    <3> TAKE i \in 1..L
    <3>1. CASE i = L
      <4>1. cut.debut <= cut.fin /\ cut.fin <= cur.fin
        BY <1>4, <1>5, <1>13, <2>1
      <4>2. Follows(cut, next)
        BY <1>4, <1>5, <1>13, <2>1 DEF Follows
      <4> QED
        BY <2>1, <2>2, <3>1, <4>1, <4>2 DEF cur
    <3>2. CASE i # L
      <4>1. i \in 1..(L - 1)
        BY <1>1, <3>2
      <4> QED
        BY <1>7, <2>2, <4>1
    <3> QED
      BY <3>1, <3>2
  <2>5. KeptWell(n + 1, grown, list, S)
    <3>1. L \in 0..Len(kept) /\ Len(grown) = L + 1 /\ grown[L + 1] = list[n + 1]
      BY <1>1, <2>2 DEF next
    <3>2. \A i \in 1..L : Follows(grown[i], list[n + 1])
      BY <2>4 DEF next
    <3> HIDE DEF L
    <3> QED
      BY <2>2, <2>4, <3>1, <3>2, GrownWell
  <2>6. \A i \in 1..L : i \in 1..Len(grown)
    BY <1>1, <2>2
  <2>7. Known(grown)
    <3>1. \A i \in 1..Len(grown) : i \in 1..L \/ i = L + 1
      BY <1>1, <2>2
    <3> QED
      BY <2>2, <2>4, <3>1 DEF Known, L, next
  <2>8. \A d \in Span(next) : Held(grown, next, d)
    <3>1. L + 1 \in 1..Len(grown)
      BY <1>1, <2>2
    <3> QED
      BY <2>2, <3>1 DEF Held
  <2>9. Kept(grown, more)
    <3> SUFFICES ASSUME NEW k \in 1..L, NEW d \in Span(kept[k])
                 PROVE  Held(grown, kept[k], d)
      BY DEF Kept, L
    <3>1. CASE k = L
      <4>1. d \in Span(cut) \/ d \in Span(next)
        BY <1>4, <1>5, <1>13, <2>1, <3>1 DEF Span, cur
      <4>2. cur.organe = next.organe /\ kept[k] = cur
        BY <1>5, <1>13, <3>1 DEF cur
      <4>3. CASE d \in Span(cut)
        BY <1>1, <2>1, <2>2, <2>6, <4>2, <4>3 DEF Held
      <4>4. CASE d \in Span(next)
        BY <2>8, <4>2, <4>4 DEF Held
      <4> QED
        BY <4>1, <4>3, <4>4
    <3>2. CASE k # L
      <4>1. k \in 1..(L - 1) /\ k \in 1..Len(grown)
        BY <1>1, <2>6, <3>2
      <4> QED
        BY <2>2, <4>1 DEF Held
    <3> QED
      BY <3>1, <3>2
  <2> QED
    BY <1>a, <2>3, <2>5, <2>7, <2>8, <2>9 DEF turn, next
<1> QED
  BY <1>8, <1>9, <1>10, <1>11, <1>12, <1>13 DEF turn, next
LEMMA TurnStep ==
  ASSUME NEW S, \A m \in S : IsMandat(m), NEW list \in Seq(S), OneUid(list), InOrder(list),
         NEW n \in 0..(Len(list) - 1), NEW acc, TurnInv(n, acc, list, S)
  PROVE  TurnInv(n + 1, AddNext(acc, list[n + 1]), list, S)
<1>1. PICK kept, events : acc = [kept |-> kept, events |-> events]
  BY DEF TurnInv
<1>2. acc.kept = kept /\ acc.events = events
  BY <1>1
<1>3. KeptWell(n, kept, list, S) /\ Explained(n, kept, events, list)
  BY <1>2 DEF TurnInv
<1>4. CASE kept = <<>>
  BY <1>1, <1>3, <1>4, FirstTurn
<1>5. CASE kept # <<>>
  BY <1>1, <1>3, <1>5, LaterTurn
<1> QED
  BY <1>4, <1>5

\* The turns of SameOrgane over the first n mandates.
Turns(turn, list, n) ==
  turn = [k \in 0..n |-> IF k = 0 THEN [kept |-> <<>>, events |-> {}]
                                  ELSE AddNext(turn[k - 1], list[k])]

LEMMA TurnsExist ==
  ASSUME NEW list
  PROVE  \A n \in Nat : \E f : Turns(f, list, n)
<1> DEFINE T == {n \in Nat : \E f : Turns(f, list, n)}
           none == [kept |-> <<>>, events |-> {}]
<1> HIDE DEF none
<1>1. 0 \in T
  <2> DEFINE f == [k \in 0..0 |-> none]
  <2>1. \A k \in 0..0 : k = 0 /\ f[k] = none
    OBVIOUS
  <2>2. f = [k \in 0..0 |-> f[k]]
    OBVIOUS
  <2> HIDE DEF f
  <2>3. Turns(f, list, 0)
    BY <2>1, <2>2 DEF Turns, none
  <2> QED
    BY <2>3
<1>2. ASSUME NEW n \in Nat, n \in T
      PROVE  n + 1 \in T
  <2>1. PICK f : Turns(f, list, n)
    BY <1>2
  <2> DEFINE g == [k \in 0..(n + 1) |-> IF k \in 0..n THEN f[k] ELSE AddNext(f[k - 1], list[k])]
  <2>2. ASSUME NEW k \in 0..(n + 1)
        PROVE  g[k] = IF k = 0 THEN none ELSE AddNext(g[k - 1], list[k])
    <3>1. CASE k \in 0..n
      <4>1. k = 0 \/ k - 1 \in 0..n
        BY <3>1
      <4>2. g[k] = f[k] /\ f[k] = IF k = 0 THEN none ELSE AddNext(f[k - 1], list[k])
        BY <2>1, <3>1 DEF Turns, none
      <4>3. k # 0 => g[k - 1] = f[k - 1]
        BY <4>1
      <4> QED
        BY <4>2, <4>3
    <3>2. CASE k \notin 0..n
      <4>1. k # 0 /\ k - 1 \in 0..n /\ k - 1 \in 0..(n + 1)
        BY <3>2
      <4>2. g[k] = AddNext(f[k - 1], list[k])
        BY <3>2
      <4>3. g[k - 1] = f[k - 1]
        BY <4>1
      <4> QED
        BY <4>1, <4>2, <4>3
    <3> QED
      BY <3>1, <3>2
  <2>3. g = [k \in 0..(n + 1) |-> g[k]]
    OBVIOUS
  <2> HIDE DEF g
  <2>4. Turns(g, list, n + 1)
    BY <2>2, <2>3 DEF Turns, none
  <2> HIDE DEF Turns
  <2> QED
    BY <2>4
<1> HIDE DEF T
<1>3. Nat \subseteq T
  BY <1>1, <1>2, Induction
<1> QED
  BY <1>3 DEF T

\* What normalize_same_organe makes of the whole list.
LEMMA SameOrganeInv ==
  ASSUME NEW S, \A m \in S : IsMandat(m), NEW list \in Seq(S), OneUid(list), InOrder(list)
  PROVE  TurnInv(Len(list), SameOrgane(list), list, S)
<1> DEFINE turn == CHOOSE turn : Turns(turn, list, Len(list))
<1>0. Len(list) \in Nat
  OBVIOUS
<1>1. Turns(turn, list, Len(list))
  BY <1>0, TurnsExist
<1>2. SameOrgane(list) = turn[Len(list)]
  BY DEF SameOrgane, Turns
<1> HIDE DEF turn
<1> DEFINE T == {n \in Nat : n <= Len(list) => TurnInv(n, turn[n], list, S)}
<1>3. 0 \in T
  <2>1. turn[0] = [kept |-> <<>>, events |-> {}]
    BY <1>0, <1>1 DEF Turns
  <2>2. KeptWell(0, <<>>, list, S) /\ Explained(0, <<>>, {}, list)
    BY DEF KeptWell, Explained
  <2>3. TurnInv(0, turn[0], list, S)
    BY <2>1, <2>2 DEF TurnInv
  <2> QED
    BY <2>3
<1>4. ASSUME NEW n \in Nat, n \in T
      PROVE  n + 1 \in T
  <2> SUFFICES ASSUME n + 1 <= Len(list)
               PROVE  TurnInv(n + 1, turn[n + 1], list, S)
    OBVIOUS
  <2>1. n \in 0..(Len(list) - 1) /\ n + 1 \in 0..Len(list) /\ (n + 1) - 1 = n /\ n + 1 # 0
    BY <1>0
  <2>2. TurnInv(n, turn[n], list, S)
    BY <1>4, <2>1
  <2>3. turn[n + 1] = AddNext(turn[n], list[n + 1])
    BY <1>1, <2>1 DEF Turns
  <2> QED
    BY <2>1, <2>2, <2>3, TurnStep
<1> HIDE DEF T
<1>5. Nat \subseteq T
  BY <1>3, <1>4, Induction
<1> QED
  BY <1>0, <1>2, <1>5 DEF T
-----------------------------------------------------------------------------
(* The two sorts.                                                            *)

LEMMA OrderExists ==
  ASSUME NEW n \in Nat, NEW F,
         \A i \in 1..n : <<i, i>> \notin F,
         \A i, j \in 1..n : i # j => <<i, j>> \in F \/ <<j, i>> \in F,
         \A i, j, k \in 1..n : <<i, j>> \in F /\ <<j, k>> \in F => <<i, k>> \in F
  PROVE  \E p \in Bijection(1..n, 1..n) : \A i, j \in 1..n : i < j => <<p[i], p[j]>> \in F
<1>1. PICK p : Puts(p, n, F)
  BY SortExists
<1>2. /\ p \in [1..n -> 1..n]
      /\ \A k \in 1..n : \E i \in 1..n : p[i] = k
      /\ \A i, j \in 1..n : i < j => <<p[i], p[j]>> \in F
  BY <1>1 DEF Puts
<1>3. ASSUME NEW i \in 1..n, NEW j \in 1..n, i < j
      PROVE  p[i] # p[j]
  <2>1. p[i] \in 1..n /\ <<p[i], p[j]>> \in F
    BY <1>2, <1>3
  <2> QED
    BY <2>1
<1>4. \A i, j \in 1..n : p[i] = p[j] => i = j
  <2> TAKE i, j \in 1..n
  <2>1. i < j \/ j < i \/ i = j
    OBVIOUS
  <2> QED
    BY <1>3, <2>1
<1>5. p \in Bijection(1..n, 1..n)
  BY <1>2, <1>4 DEF Bijection, Injection, Surjection, IsInjective
<1> QED
  BY <1>2, <1>5

\* The list t is the list s in another order.
Permutes(t, s) ==
  \E p \in Bijection(1..Len(s), 1..Len(s)) : t = [i \in 1..Len(s) |-> s[p[i]]]

\* A permutation of a list has its members, each of them once.
LEMMA PermutesGives ==
  ASSUME NEW S, NEW s \in Seq(S), NEW t, Permutes(t, s)
  PROVE  /\ t \in Seq(S) /\ Len(t) = Len(s)
         /\ \A i \in 1..Len(t) : \E j \in 1..Len(s) : t[i] = s[j]
         /\ \A j \in 1..Len(s) : \E i \in 1..Len(t) : t[i] = s[j]
         /\ OneUid(s) => OneUid(t)
<1>1. Len(s) \in Nat /\ \A i \in 1..Len(s) : s[i] \in S
  OBVIOUS
<1> DEFINE n == Len(s)
<1>2. PICK p \in Bijection(1..n, 1..n) : t = [i \in 1..n |-> s[p[i]]]
  BY DEF Permutes
<1>3. /\ \A i \in 1..n : p[i] \in 1..n
      /\ \A j \in 1..n : \E i \in 1..n : p[i] = j
      /\ \A i, j \in 1..n : p[i] = p[j] => i = j
  BY DEF Bijection, Injection, Surjection, IsInjective
<1>4. t \in Seq(S) /\ Len(t) = n /\ \A i \in 1..n : t[i] = s[p[i]]
  BY <1>1, <1>2, <1>3
<1> HIDE DEF n
<1>5. ASSUME OneUid(s)
      PROVE  OneUid(t)
  <2>1. \A i, j \in 1..n : s[p[i]].uid = s[p[j]].uid => p[i] = p[j]
    BY <1>3, <1>5 DEF OneUid, n
  <2>2. \A i, j \in 1..n : t[i].uid = t[j].uid => i = j
    <3> TAKE i, j \in 1..n
    <3>1. t[i] = s[p[i]] /\ t[j] = s[p[j]]
      BY <1>4
    <3>2. p[i] = p[j] => i = j
      BY <1>3
    <3>3. t[i].uid = t[j].uid => p[i] = p[j]
      BY <2>1, <3>1
    <3> QED
      BY <3>2, <3>3
  <2> QED
    BY <1>4, <2>2 DEF OneUid
<1>6. \A i \in 1..n : \E j \in 1..n : t[i] = s[j]
  BY <1>3, <1>4
<1>7. \A j \in 1..n : \E i \in 1..n : t[i] = s[j]
  <2> TAKE j \in 1..n
  <2>1. PICK i \in 1..n : p[i] = j
    BY <1>3
  <2>2. t[i] = s[p[i]]
    BY <1>4
  <2> QED
    BY <2>1, <2>2
<1> QED
  BY <1>4, <1>5, <1>6, <1>7 DEF n

LEMMA BeforeThrough ==
  ASSUME NEW a, NEW b, NEW c,
         a.organe \in Int /\ a.debut \in Int /\ a.fin \in Int,
         b.organe \in Int /\ b.debut \in Int /\ b.fin \in Int,
         c.organe \in Int /\ c.debut \in Int /\ c.fin \in Int
  PROVE  /\ Before(a, b) /\ ~Before(c, b) => Before(a, c)
         /\ ~Before(b, a) /\ Before(b, c) => Before(a, c)
         /\ ~Before(b, a) /\ ~Before(c, b) => ~Before(c, a)
         /\ Before(a, b) => ~Before(b, a)
BY DEF Before

LEMMA SortedInOrder ==
  ASSUME NEW S, \A m \in S : m.organe \in Int /\ m.debut \in Int /\ m.fin \in Int, NEW s \in Seq(S)
  PROVE  Permutes(Sorted(s, Before), s) /\ InOrder(Sorted(s, Before))
<1> DEFINE n == Len(s)
           first(i, j) == \/ Before(s[i], s[j])
                          \/ i < j /\ ~Before(s[j], s[i])
           F == {q \in (1..n) \X (1..n) : first(q[1], q[2])}
           order == CHOOSE p \in Bijection(1..n, 1..n) : \A i, j \in 1..n : i < j => first(p[i], p[j])
<1>1. /\ n \in Nat /\ DOMAIN s = 1..n
      /\ \A i \in 1..n : s[i].organe \in Int /\ s[i].debut \in Int /\ s[i].fin \in Int
  OBVIOUS
<1> HIDE DEF n
<1>2. /\ \A i \in 1..n : ~first(i, i)
      /\ \A i, j \in 1..n : i # j => first(i, j) \/ first(j, i)
      /\ \A i, j \in 1..n : Before(s[i], s[j]) => ~Before(s[j], s[i])
  BY <1>1 DEF Before
<1>3. ASSUME NEW i \in 1..n, NEW j \in 1..n, NEW k \in 1..n, first(i, j), first(j, k)
      PROVE  first(i, k)
  BY <1>1, <1>3, BeforeThrough
<1>4. \A i, j \in 1..n : <<i, j>> \in F <=> first(i, j)
  OBVIOUS
<1> HIDE DEF first, F
<1>5. \E p \in Bijection(1..n, 1..n) : \A i, j \in 1..n : i < j => first(p[i], p[j])
  <2>1. PICK p \in Bijection(1..n, 1..n) : \A i, j \in 1..n : i < j => <<p[i], p[j]>> \in F
    BY <1>1, <1>2, <1>3, <1>4, OrderExists
  <2>2. \A i \in 1..n : p[i] \in 1..n
    BY DEF Bijection, Injection
  <2> QED
    BY <1>4, <2>1, <2>2
<1>6. order \in Bijection(1..n, 1..n) /\ \A i, j \in 1..n : i < j => first(order[i], order[j])
  BY <1>5
<1>7. Sorted(s, Before) = [i \in 1..n |-> s[order[i]]]
  BY <1>1 DEF Sorted, first
<1> HIDE DEF order
<1>8. Permutes(Sorted(s, Before), s)
  BY <1>6, <1>7 DEF Permutes, n
<1>9. \A i \in 1..n : order[i] \in 1..n
  BY <1>6 DEF Bijection, Injection
<1>10. InOrder(Sorted(s, Before))
  <2> DEFINE t == Sorted(s, Before)
  <2>1. \A i \in 1..n : t[i] = s[order[i]]
    BY <1>7
  <2>2. Len(t) = n
    BY <1>1, <1>7
  <2> HIDE DEF t
  <2>3. ASSUME NEW i \in 1..n, NEW j \in 1..n, i < j
        PROVE  ~Before(t[j], t[i])
    <3>1. first(order[i], order[j])
      BY <1>6, <2>3
    <3> QED
      BY <1>2, <1>9, <2>1, <3>1 DEF first
  <2>4. InOrder(t)
    BY <2>2, <2>3 DEF InOrder
  <2> QED
    BY <2>4 DEF t
<1> QED
  BY <1>8, <1>10

LEMMA SortedByDebut ==
  ASSUME NEW S, \A m \in S : m.debut \in Int, NEW s \in Seq(S)
  PROVE  Permutes(Sorted(s, LAMBDA a, b : a.debut < b.debut), s)
<1> DEFINE n == Len(s)
           first(i, j) == \/ s[i].debut < s[j].debut
                          \/ i < j /\ ~(s[j].debut < s[i].debut)
           F == {q \in (1..n) \X (1..n) : first(q[1], q[2])}
           order == CHOOSE p \in Bijection(1..n, 1..n) : \A i, j \in 1..n : i < j => first(p[i], p[j])
<1>1. n \in Nat /\ DOMAIN s = 1..n /\ \A i \in 1..n : s[i].debut \in Int
  OBVIOUS
<1> HIDE DEF n
<1>2. /\ \A i \in 1..n : ~first(i, i)
      /\ \A i, j \in 1..n : i # j => first(i, j) \/ first(j, i)
      /\ \A i, j, k \in 1..n : first(i, j) /\ first(j, k) => first(i, k)
  BY <1>1
<1>3. \A i, j \in 1..n : <<i, j>> \in F <=> first(i, j)
  OBVIOUS
<1> HIDE DEF first, F
<1>4. \E p \in Bijection(1..n, 1..n) : \A i, j \in 1..n : i < j => first(p[i], p[j])
  <2>1. PICK p \in Bijection(1..n, 1..n) : \A i, j \in 1..n : i < j => <<p[i], p[j]>> \in F
    BY <1>1, <1>2, <1>3, OrderExists
  <2>2. \A i \in 1..n : p[i] \in 1..n
    BY DEF Bijection, Injection
  <2> QED
    BY <1>3, <2>1, <2>2
<1>5. order \in Bijection(1..n, 1..n)
  BY <1>4
<1>6. Sorted(s, LAMBDA a, b : a.debut < b.debut) = [i \in 1..n |-> s[order[i]]]
  BY <1>1 DEF Sorted, first
<1> QED
  BY <1>5, <1>6 DEF Permutes, n
-----------------------------------------------------------------------------
(* normalize_gp_mandats.                                                     *)

\* What the table accepts: no uid twice, no day of a group twice, no mandate
\* that ends before it begins.
Accepted(kept) ==
  /\ \A i \in 1..Len(kept) : kept[i].debut <= kept[i].fin
  /\ \A i, j \in 1..Len(kept) : i # j =>
       /\ kept[i].uid # kept[j].uid
       /\ kept[i].organe = kept[j].organe => ~Overlap(kept[i], kept[j])

\* RetainedAccepted: whatever the group mandates of the file (in any order, with
\* inclusions, hinges and overlaps between any number of them), those that
\* normalize_gp_mandats retains are mandates of the file, with their group and
\* the day they begin on as they were, and no two of them share a day of a
\* group: the constraint mandat_gp_sans_chevauchement refuses none because of
\* another of the same person and the same run.
THEOREM RetainedAccepted ==
  ASSUME NEW S, \A m \in S : IsMandat(m), NEW mandats \in Seq(S), OneUid(mandats)
  PROVE  LET retained == Normalize(mandats).retained
         IN  /\ retained \in Seq(Cut(S))
             /\ Accepted(retained)
             /\ \A i \in 1..Len(retained) : \E j \in 1..Len(mandats) :
                  retained[i].uid = mandats[j].uid /\ retained[i].organe = mandats[j].organe
<1> DEFINE list == Sorted(mandats, Before)
           same == SameOrgane(list)
           kept == Sorted(same.kept, LAMBDA a, b : a.debut < b.debut)
<1>1. /\ list \in Seq(S) /\ OneUid(list) /\ InOrder(list)
      /\ Len(list) = Len(mandats) /\ Len(list) \in Nat
      /\ \A i \in 1..Len(list) : \E j \in 1..Len(mandats) : list[i] = mandats[j]
  BY SortedInOrder, PermutesGives DEF IsMandat
<1> HIDE DEF list
<1>2. KeptWell(Len(list), same.kept, list, S)
  BY <1>1, SameOrganeInv DEF TurnInv
<1> HIDE DEF same
<1>3. /\ same.kept \in Seq(Cut(S)) /\ Len(same.kept) \in Nat
      /\ \A i \in 1..Len(same.kept) : same.kept[i] \in Cut(S)
  BY <1>2 DEF KeptWell
<1>4. \A c \in Cut(S) : c.organe \in Int /\ c.debut \in Int /\ c.fin \in Int
  BY CutTyped
<1>5. Permutes(kept, same.kept)
  BY <1>3, <1>4, SortedByDebut
<1>6. Normalize(mandats).retained = kept
  BY DEF Normalize, list, same
<1> HIDE DEF kept
<1>7. ASSUME NEW i \in 1..Len(same.kept), NEW j \in 1..Len(same.kept), i # j
      PROVE  /\ same.kept[i].uid # same.kept[j].uid
             /\ same.kept[i].organe = same.kept[j].organe => ~Overlap(same.kept[i], same.kept[j])
  <2>1. \/ Follows(same.kept[i], same.kept[j]) /\ same.kept[i].uid # same.kept[j].uid
        \/ Follows(same.kept[j], same.kept[i]) /\ same.kept[i].uid # same.kept[j].uid
    <3>1. i < j \/ j < i
      BY <1>7
    <3> QED
      BY <1>2, <3>1 DEF KeptWell
  <2> QED
    BY <1>3, <1>4, <2>1 DEF Follows, Overlap
<1>8. OneUid(same.kept)
  BY <1>7 DEF OneUid
<1>9. /\ kept \in Seq(Cut(S)) /\ OneUid(kept)
      /\ \A i \in 1..Len(kept) : \E j \in 1..Len(same.kept) : kept[i] = same.kept[j]
  <2> DEFINE T   == Cut(S)
             old == same.kept
  <2>1. old \in Seq(T) /\ Permutes(kept, old) /\ OneUid(old)
    BY <1>3, <1>5, <1>8
  <2> HIDE DEF T, old
  <2>2. kept \in Seq(T) /\ OneUid(kept) /\ \A i \in 1..Len(kept) : \E j \in 1..Len(old) : kept[i] = old[j]
    BY <2>1, PermutesGives
  <2> QED
    BY <2>2 DEF T, old
<1>10. Accepted(kept)
  <2>1. \A i \in 1..Len(kept) : kept[i].debut <= kept[i].fin
    BY <1>2, <1>9 DEF KeptWell
  <2>2. ASSUME NEW i \in 1..Len(kept), NEW j \in 1..Len(kept), i # j
        PROVE  /\ kept[i].uid # kept[j].uid
               /\ kept[i].organe = kept[j].organe => ~Overlap(kept[i], kept[j])
    <3>1. PICK k \in 1..Len(same.kept) : kept[i] = same.kept[k]
      BY <1>9
    <3>2. PICK l \in 1..Len(same.kept) : kept[j] = same.kept[l]
      BY <1>9
    <3>3. kept[i].uid # kept[j].uid
      BY <1>9, <2>2 DEF OneUid
    <3>4. k # l
      BY <3>1, <3>2, <3>3
    <3> QED
      BY <1>7, <3>1, <3>2, <3>3, <3>4
  <2> QED
    BY <2>1, <2>2 DEF Accepted
<1>11. ASSUME NEW i \in 1..Len(kept)
       PROVE  \E j \in 1..Len(mandats) : kept[i].uid = mandats[j].uid /\ kept[i].organe = mandats[j].organe
  <2>1. PICK k \in 1..Len(same.kept) : kept[i] = same.kept[k]
    BY <1>9
  <2>2. PICK l \in 1..Len(list) : same.kept[k].uid = list[l].uid /\ same.kept[k].organe = list[l].organe
    BY <1>2 DEF KeptWell
  <2> QED
    BY <1>1, <2>1, <2>2
<1> QED
  BY <1>6, <1>9, <1>10, <1>11

\* NormalizeLosesNoDay: whatever the group mandates of the file, each day of each
\* of them is a day of a mandate of its group that normalize_gp_mandats retains,
\* or of a mandate of its group that it set aside with the anomaly
\* mandat_chevauchement.
THEOREM NormalizeLosesNoDay ==
  ASSUME NEW S, \A m \in S : IsMandat(m), NEW mandats \in Seq(S), OneUid(mandats)
  PROVE  LET result == Normalize(mandats)
         IN  Explained(Len(mandats), result.retained, result.events, mandats)
<1> DEFINE list == Sorted(mandats, Before)
           same == SameOrgane(list)
           kept == Sorted(same.kept, LAMBDA a, b : a.debut < b.debut)
           more == Normalize(mandats).events
<1>1. /\ list \in Seq(S) /\ OneUid(list) /\ InOrder(list)
      /\ Len(list) = Len(mandats) /\ Len(list) \in Nat
      /\ \A i \in 1..Len(list) : \E j \in 1..Len(mandats) : list[i] = mandats[j]
      /\ \A i \in 1..Len(mandats) : \E j \in 1..Len(list) : list[j] = mandats[i]
  BY SortedInOrder, PermutesGives DEF IsMandat
<1> HIDE DEF list
<1>2. KeptWell(Len(list), same.kept, list, S) /\ Explained(Len(list), same.kept, same.events, list)
  BY <1>1, SameOrganeInv DEF TurnInv
<1> HIDE DEF same
<1>3. /\ same.kept \in Seq(Cut(S))
      /\ \A c \in Cut(S) : c.debut \in Int
  BY <1>2, CutTyped DEF KeptWell
<1>4. Permutes(kept, same.kept)
  BY <1>3, SortedByDebut
<1>5. Normalize(mandats).retained = kept /\ same.events \subseteq more
  BY DEF Normalize, list, same
<1> HIDE DEF kept, more
<1>6. /\ \A i \in 1..Len(kept) : \E j \in 1..Len(same.kept) : kept[i] = same.kept[j]
      /\ \A j \in 1..Len(same.kept) : \E i \in 1..Len(kept) : kept[i] = same.kept[j]
  <2> DEFINE T   == Cut(S)
             old == same.kept
  <2>1. old \in Seq(T) /\ Permutes(kept, old)
    BY <1>3, <1>4
  <2> HIDE DEF T, old
  <2>2. /\ \A i \in 1..Len(kept) : \E j \in 1..Len(old) : kept[i] = old[j]
        /\ \A j \in 1..Len(old) : \E i \in 1..Len(kept) : kept[i] = old[j]
    BY <2>1, PermutesGives
  <2> QED
    BY <2>2 DEF T, old
<1>7. ASSUME NEW i \in 1..Len(mandats), NEW d \in Span(mandats[i])
      PROVE  \/ Held(kept, mandats[i], d)
             \/ \E j \in 1..Len(mandats) : /\ mandats[j].organe = mandats[i].organe /\ d \in Span(mandats[j])
                                           /\ Aside(mandats[j], more, kept)
  <2>1. PICK l \in 1..Len(list) : list[l] = mandats[i]
    BY <1>1
  <2>2. CASE Held(same.kept, list[l], d)
    <3>1. Held(kept, list[l], d)
      BY <1>6, <2>2 DEF Held
    <3> QED
      BY <2>1, <3>1
  <2>3. CASE \E j \in 1..Len(list) : /\ list[j].organe = list[l].organe /\ d \in Span(list[j])
                                     /\ Aside(list[j], same.events, same.kept)
    <3>1. PICK j \in 1..Len(list) : /\ list[j].organe = list[l].organe /\ d \in Span(list[j])
                                    /\ Aside(list[j], same.events, same.kept)
      BY <2>3
    <3>2. PICK k \in 1..Len(mandats) : list[j] = mandats[k]
      BY <1>1
    <3>3. ASSUME NEW r \in 1..Len(kept)
          PROVE  kept[r].uid # list[j].uid
      <4>1. PICK t \in 1..Len(same.kept) : kept[r] = same.kept[t]
        BY <1>6
      <4>2. same.kept[t].uid # list[j].uid
        BY <3>1 DEF Aside
      <4> QED
        BY <4>1, <4>2
    <3>4. Event("chevauchement", list[j]) \in more
      BY <1>5, <3>1 DEF Aside
    <3>5. Aside(mandats[k], more, kept)
      BY <3>2, <3>3, <3>4 DEF Aside
    <3> QED
      BY <2>1, <3>1, <3>2, <3>5
  <2> QED
    BY <1>2, <1>7, <2>1, <2>2, <2>3 DEF Explained
<1>8. Explained(Len(mandats), kept, more, mandats)
  BY <1>7 DEF Explained
<1> QED
  BY <1>5, <1>8 DEF more
=============================================================================
