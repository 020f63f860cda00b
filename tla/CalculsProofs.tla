--------------------------- MODULE CalculsProofs ---------------------------
(***************************************************************************)
(* What Calculs checks of normalize_gp_mandats on lists of three mandates, *)
(* for lists of any length (the theorems of MandatsProofs, applied to the  *)
(* lists a behaviour feeds it); what it checks of axis.rs on a few groups, *)
(* for any number of groups, coordinates and votes; what it checks of      *)
(* scoring.rs on a few scrutins of two members, for any number of both;    *)
(* and what it checks of timeline.py, for any page.                        *)
(*                                                                         *)
(* The measures and scores are sums.  The library defines a sum by         *)
(* recursion on finite sets, and its induction theorem takes an operator   *)
(* no prover here instantiates: SetInduction states it with a set instead, *)
(* and SumPull, that any term may be taken out of a sum, is what every     *)
(* other fact about sums follows from.                                     *)
(***************************************************************************)
EXTENDS Calculs, MandatsProofs, FiniteSetTheorems

-----------------------------------------------------------------------------
(* The mandates of a person.                                                 *)

Mandates == {m \in [uid : Nat, organe : Int, debut : Int, fin : Int] : m.debut <= m.fin}

\* The mandates of one person: each has its uid.
FedInv ==
  kind = "mandats" => input \in Seq(Mandates) /\ \A i \in 1..Len(input) : input[i].uid = i

\* They are mandates in the sense of MandatsProofs.
LEMMA MandatesAre ==
  \A m \in Mandates : IsMandat(m)
BY DEF Mandates, IsMandat

\* What is left of the input is a list of mandates, whatever it is fed next.
LEMMA FedInductive ==
  Spec => []FedInv
<1>1. Init => FedInv
  BY DEF Init, FedInv
<1>2. FedInv /\ [Next]_vars => FedInv'
  <2> SUFFICES ASSUME FedInv, [Next]_vars
               PROVE  FedInv'
    OBVIOUS
  <2>1. CASE AddMandat
    <3>1. PICK m \in MandatItems :
            Add("mandats", [uid |-> Len(input) + 1, organe |-> m.organe, debut |-> m.debut, fin |-> m.fin])
      BY <2>1 DEF AddMandat
    <3> DEFINE new == [uid |-> Len(input) + 1, organe |-> m.organe, debut |-> m.debut, fin |-> m.fin]
    <3>2. kind = "mandats" /\ kind' = kind /\ input' = Append(input, new)
      BY <3>1 DEF Add
    <3>3. m.organe \in Int /\ m.debut \in Int /\ m.fin \in Int /\ m.debut <= m.fin
      BY CalculsAssumption
    <3>4. input \in Seq(Mandates) /\ Len(input) \in Nat /\ \A i \in 1..Len(input) : input[i].uid = i
      BY <3>2 DEF FedInv
    <3>5. new \in Mandates /\ new.uid = Len(input) + 1
      BY <3>3, <3>4 DEF Mandates
    <3> HIDE DEF new
    <3>6. /\ input' \in Seq(Mandates) /\ Len(input') = Len(input) + 1
          /\ \A i \in 1..Len(input) : input'[i] = input[i]
          /\ input'[Len(input) + 1] = new
      BY <3>2, <3>4, <3>5
    <3>7. ASSUME NEW i \in 1..Len(input')
          PROVE  input'[i].uid = i
      <4>1. i \in 1..Len(input) \/ i = Len(input) + 1
        BY <3>4, <3>6
      <4> QED
        BY <3>4, <3>5, <3>6, <4>1
    <3> QED
      BY <3>6, <3>7 DEF FedInv
  <2>2. CASE AddSegment \/ AddGroupe \/ AddScrutin
    BY <2>2 DEF AddSegment, AddGroupe, AddScrutin, Add, FedInv
  <2>3. CASE UNCHANGED vars
    BY <2>3 DEF vars, FedInv
  <2> QED
    BY <2>1, <2>2, <2>3 DEF Next
<1> QED
  BY <1>1, <1>2, PTL DEF Spec

\* NoDayLost: NoDayLostSilently holds of every list of mandates that a person
\* may have, whatever their number and the days they span.
THEOREM NoDayLost ==
  Spec => []NoDayLostSilently
<1>1. FedInv => NoDayLostSilently
  <2> SUFFICES ASSUME FedInv, kind = "mandats"
               PROVE  NoDayLostSilently
    BY DEF NoDayLostSilently
  <2> DEFINE result == Normalize(input)
             retained == result.retained
             events == result.events
  <2>1. /\ input \in Seq(Mandates) /\ Len(input) \in Nat /\ DOMAIN input = 1..Len(input)
        /\ OneUid(input)
    BY DEF FedInv, OneUid
  <2>2. \A m \in Mandates : IsMandat(m)
    BY MandatesAre
  <2>3. retained \in Seq(Cut(Mandates)) /\ DOMAIN retained = 1..Len(retained)
    BY <2>1, <2>2, RetainedAccepted
  <2>4. Explained(Len(input), retained, events, input)
    BY <2>1, <2>2, NormalizeLosesNoDay
  <2> HIDE DEF result
  <2>5. ASSUME NEW i \in DOMAIN input, NEW d \in Days(input[i])
        PROVE  \/ \E k \in DOMAIN retained : retained[k].organe = input[i].organe /\ d \in Days(retained[k])
               \/ \E j \in DOMAIN input : /\ input[j].organe = input[i].organe /\ d \in Days(input[j])
                                          /\ Event("chevauchement", input[j]) \in events
                                          /\ \A k \in DOMAIN retained : retained[k].uid # input[j].uid
    <3>1. \/ Held(retained, input[i], d)
          \/ \E j \in 1..Len(input) : /\ input[j].organe = input[i].organe /\ d \in Span(input[j])
                                      /\ Aside(input[j], events, retained)
      BY <2>1, <2>4, <2>5 DEF Explained, Days, Span
    <3> QED
      BY <2>1, <2>3, <3>1 DEF Held, Aside, Days, Span
  <2> QED
    BY <2>5 DEF NoDayLostSilently, result
<1> QED
  BY <1>1, FedInductive, PTL

-----------------------------------------------------------------------------
(* Finite sets and sums.                                                     *)

One(s) == CHOOSE x \in s : TRUE

\* The member CHOOSE picks is one.
LEMMA OneIn ==
  \A s : s # {} => One(s) \in s
BY DEF One

\* Without one of its members a finite set is one smaller.
LEMMA OneLess ==
  ASSUME NEW S, IsFiniteSet(S), NEW x \in S
  PROVE  /\ IsFiniteSet(S \ {x}) /\ Cardinality(S \ {x}) \in Nat
         /\ Cardinality(S) \in Nat /\ Cardinality(S) = Cardinality(S \ {x}) + 1
<1>1. IsFiniteSet(S \ {x}) /\ Cardinality(S \ {x}) = Cardinality(S) - 1
  BY FS_RemoveElement
<1>2. Cardinality(S) \in Nat /\ Cardinality(S \ {x}) \in Nat
  BY <1>1, FS_CardinalityType
<1> QED
  BY <1>1, <1>2

\* What is left of a finite set when one of its members is taken away.
LEMMA Subsets ==
  ASSUME NEW S, IsFiniteSet(S)
  PROVE  \A s \in SUBSET S :
           /\ IsFiniteSet(s) /\ Cardinality(s) \in Nat /\ (Cardinality(s) = 0 <=> s = {})
           /\ \A x \in s : /\ s \ {x} \in SUBSET S /\ Cardinality(s \ {x}) \in Nat
                           /\ Cardinality(s) = Cardinality(s \ {x}) + 1
<1> TAKE s \in SUBSET S
<1>1. IsFiniteSet(s) /\ Cardinality(s) \in Nat /\ (Cardinality(s) = 0 <=> s = {})
  BY FS_Subset, FS_CardinalityType, FS_EmptySet
<1>2. ASSUME NEW x \in s
      PROVE  Cardinality(s \ {x}) \in Nat /\ Cardinality(s) = Cardinality(s \ {x}) + 1
  BY <1>1, OneLess
<1> QED
  BY <1>1, <1>2

\* Induction on the subsets of a finite set, with a set in the place of a
\* predicate.
LEMMA SetInduction ==
  ASSUME NEW S, IsFiniteSet(S), NEW T, {} \in T,
         \A s \in SUBSET S : \A x \in S \ s : s \in T => s \cup {x} \in T
  PROVE  S \in T
<1> DEFINE U == {n \in Nat : \A s \in SUBSET S : Cardinality(s) = n => s \in T}
<1>0. \A s \in SUBSET S :
        /\ IsFiniteSet(s) /\ Cardinality(s) \in Nat /\ (Cardinality(s) = 0 <=> s = {})
        /\ \A x \in s : /\ s \ {x} \in SUBSET S /\ Cardinality(s \ {x}) \in Nat
                        /\ Cardinality(s) = Cardinality(s \ {x}) + 1
  BY Subsets
<1>1. 0 \in U
  BY <1>0
<1>2. ASSUME NEW n \in Nat, n \in U
      PROVE  n + 1 \in U
  <2> SUFFICES ASSUME NEW s \in SUBSET S, Cardinality(s) = n + 1
               PROVE  s \in T
    OBVIOUS
  <2>1. s # {}
    BY <1>0
  <2>2. PICK x : x \in s
    BY <2>1
  <2> DEFINE r == s \ {x}
  <2>3. Cardinality(r) = n
    BY <1>0, <2>2
  <2>4. r \in SUBSET S /\ x \in S \ r /\ s = r \cup {x}
    BY <2>2
  <2> HIDE DEF r
  <2>5. r \in T
    BY <1>2, <2>3, <2>4
  <2> QED
    BY <2>4, <2>5
<1> HIDE DEF U
<1>3. Nat \subseteq U
  BY <1>1, <1>2, Induction
<1> QED
  BY <1>0, <1>3 DEF U

\* `g` gives the sums of `f` over the sets of `D`.
Sums(f, D, g) == g = [s \in D |-> IF s = {} THEN 0 ELSE f[One(s)] + g[s \ {One(s)}]]

\* The recursion of the library defines a function on the subsets of a finite set.
LEMMA SumExists ==
  ASSUME NEW S, IsFiniteSet(S), NEW f
  PROVE  \E g : Sums(f, SUBSET S, g)
<1> DEFINE Upto(n) == {s \in SUBSET S : Cardinality(s) <= n}
           T == {n \in Nat : \E g : Sums(f, Upto(n), g)}
<1>0. \A s \in SUBSET S :
        /\ IsFiniteSet(s) /\ Cardinality(s) \in Nat /\ (Cardinality(s) = 0 <=> s = {})
        /\ \A x \in s : /\ s \ {x} \in SUBSET S /\ Cardinality(s \ {x}) \in Nat
                        /\ Cardinality(s) = Cardinality(s \ {x}) + 1
  BY Subsets
<1>1. 0 \in T
  <2> DEFINE g == [s \in Upto(0) |-> 0]
  <2>1. \A s \in Upto(0) : s = {}
    BY <1>0
  <2> HIDE DEF Upto
  <2>2. Sums(f, Upto(0), g)
    BY <2>1 DEF Sums
  <2> QED
    BY <2>2
<1>2. ASSUME NEW n \in Nat, n \in T
      PROVE  n + 1 \in T
  <2>1. PICK g : Sums(f, Upto(n), g)
    BY <1>2
  <2>2. \A s \in Upto(n + 1) : s # {} => s \ {One(s)} \in Upto(n)
    BY <1>0, OneIn
  <2>3. \A s \in Upto(n) : s \in Upto(n + 1)
    BY <1>0
  <2>4. \A s \in Upto(n) : s # {} => s \ {One(s)} \in Upto(n)
    BY <1>0, OneIn
  <2> HIDE DEF Upto
  <2> DEFINE h == [s \in Upto(n + 1) |-> IF s = {} THEN 0 ELSE f[One(s)] + g[s \ {One(s)}]]
  <2>5. ASSUME NEW s \in Upto(n)
        PROVE  h[s] = g[s]
    <3>1. h[s] = IF s = {} THEN 0 ELSE f[One(s)] + g[s \ {One(s)}]
      BY <2>3
    <3>2. g[s] = IF s = {} THEN 0 ELSE f[One(s)] + g[s \ {One(s)}]
      BY <2>1 DEF Sums
    <3> QED
      BY <3>1, <3>2
  <2>6. ASSUME NEW s \in Upto(n + 1)
        PROVE  h[s] = IF s = {} THEN 0 ELSE f[One(s)] + h[s \ {One(s)}]
    BY <2>2, <2>5
  <2>7. h = [s \in Upto(n + 1) |-> h[s]]
    OBVIOUS
  <2> HIDE DEF h
  <2>8. Sums(f, Upto(n + 1), h)
    BY <2>6, <2>7 DEF Sums
  <2> QED
    BY <2>8
<1> HIDE DEF T
<1>3. Nat \subseteq T
  BY <1>1, <1>2, Induction
<1>4. Cardinality(S) \in T
  BY <1>0, <1>3
<1>5. Upto(Cardinality(S)) = SUBSET S
  BY <1>0, FS_Subset
<1> QED
  BY <1>4, <1>5 DEF T

\* Two functions of sums agree where both are defined.
LEMMA SumsAgree ==
  ASSUME NEW S, IsFiniteSet(S), NEW R \in SUBSET S, NEW f, NEW g, NEW h,
         Sums(f, SUBSET S, g), Sums(f, SUBSET R, h)
  PROVE  \A s \in SUBSET R : g[s] = h[s]
<1> DEFINE T == {n \in Nat : \A s \in SUBSET R : Cardinality(s) = n => g[s] = h[s]}
<1>0. \A s \in SUBSET R :
        /\ IsFiniteSet(s) /\ Cardinality(s) \in Nat /\ (Cardinality(s) = 0 <=> s = {})
        /\ \A x \in s : /\ s \ {x} \in SUBSET R /\ Cardinality(s \ {x}) \in Nat
                        /\ Cardinality(s) = Cardinality(s \ {x}) + 1
  BY FS_Subset, Subsets
<1>1. \A s \in SUBSET R :
        /\ g[s] = IF s = {} THEN 0 ELSE f[One(s)] + g[s \ {One(s)}]
        /\ h[s] = IF s = {} THEN 0 ELSE f[One(s)] + h[s \ {One(s)}]
  BY DEF Sums
<1>2. 0 \in T
  BY <1>0, <1>1
<1>3. ASSUME NEW n \in Nat, n \in T
      PROVE  n + 1 \in T
  <2> SUFFICES ASSUME NEW s \in SUBSET R, Cardinality(s) = n + 1
               PROVE  g[s] = h[s]
    OBVIOUS
  <2>1. s # {}
    BY <1>0
  <2>2. Cardinality(s \ {One(s)}) = n
    BY <1>0, <2>1, OneIn
  <2>3. g[s \ {One(s)}] = h[s \ {One(s)}]
    BY <1>3, <2>2
  <2> QED
    BY <1>1, <2>3
<1> HIDE DEF T
<1>4. Nat \subseteq T
  BY <1>2, <1>3, Induction
<1> QED
  BY <1>0, <1>4 DEF T

\* The recursion of SumFunctionOnSet.
LEMMA SumUnfolds ==
  ASSUME NEW S, IsFiniteSet(S), NEW f
  PROVE  SumFunctionOnSet(f, S) =
           IF S = {} THEN 0 ELSE f[One(S)] + SumFunctionOnSet(f, S \ {One(S)})
<1> DEFINE G(D) == CHOOSE g : Sums(f, SUBSET D, g)
<1>1. \A D : SumFunctionOnSet(f, D) = G(D)[D]
  BY DEF SumFunctionOnSet, FoldFunctionOnSet, MapThenFoldSet, Sums, One
<1> DEFINE R == S \ {One(S)}
<1>2. IsFiniteSet(R) /\ R \in SUBSET S
  BY FS_Subset
<1>3. Sums(f, SUBSET S, G(S)) /\ Sums(f, SUBSET R, G(R))
  BY <1>2, SumExists
<1> DEFINE g == G(S)
           h == G(R)
<1> HIDE DEF g, h, R
<1>4. Sums(f, SUBSET S, g) /\ Sums(f, SUBSET R, h)
  BY <1>3 DEF g, h
<1>5. g[R] = h[R]
  BY <1>2, <1>4, SumsAgree
<1>6. g[S] = IF S = {} THEN 0 ELSE f[One(S)] + g[R]
  BY <1>4 DEF Sums, R
<1>7. SumFunctionOnSet(f, S) = g[S] /\ SumFunctionOnSet(f, R) = h[R]
  BY <1>1 DEF g, h
<1> QED
  BY <1>5, <1>6, <1>7 DEF R

\* A sum of integers does not depend on the order.
LEMMA SumPull ==
  ASSUME NEW S, IsFiniteSet(S), NEW f, \A x \in S : f[x] \in Int
  PROVE  /\ SumFunctionOnSet(f, S) \in Int
         /\ \A x \in S : SumFunctionOnSet(f, S) = f[x] + SumFunctionOnSet(f, S \ {x})
<1> DEFINE sum(s) == SumFunctionOnSet(f, s)
           T == {n \in Nat : \A s \in SUBSET S : Cardinality(s) <= n =>
                   sum(s) \in Int /\ \A x \in s : sum(s) = f[x] + sum(s \ {x})}
<1>0. \A s \in SUBSET S :
        /\ IsFiniteSet(s) /\ Cardinality(s) \in Nat /\ (Cardinality(s) = 0 <=> s = {})
        /\ \A x \in s : /\ s \ {x} \in SUBSET S /\ Cardinality(s \ {x}) \in Nat
                        /\ Cardinality(s) = Cardinality(s \ {x}) + 1
  BY Subsets
<1>a. \A s \in SUBSET S : sum(s) = IF s = {} THEN 0 ELSE f[One(s)] + sum(s \ {One(s)})
  BY <1>0, SumUnfolds
<1> HIDE DEF sum
<1>1. 0 \in T
  <2>1. \A s \in SUBSET S : Cardinality(s) <= 0 => s = {}
    BY <1>0
  <2>2. sum({}) = 0
    BY <1>a
  <2>3. ASSUME NEW s \in SUBSET S, Cardinality(s) <= 0
        PROVE  sum(s) \in Int /\ \A x \in s : sum(s) = f[x] + sum(s \ {x})
    <3>1. s = {}
      BY <2>1, <2>3
    <3> QED
      BY <2>2, <3>1
  <2> QED
    BY <2>3
<1>2. ASSUME NEW n \in Nat, n \in T
      PROVE  n + 1 \in T
  <2> SUFFICES ASSUME NEW s \in SUBSET S, Cardinality(s) <= n + 1, s # {}
               PROVE  sum(s) \in Int /\ \A x \in s : sum(s) = f[x] + sum(s \ {x})
    <3>1. sum({}) = 0
      BY <1>a
    <3> QED
      BY <3>1
  <2> DEFINE c == One(s)
  <2>2. c \in s
    BY DEF One
  <2>3. sum(s) = f[c] + sum(s \ {c})
    BY <1>a
  <2> HIDE DEF c
  <2>4. \A x \in s : s \ {x} \in SUBSET S /\ Cardinality(s \ {x}) <= n
    BY <1>0
  <2>5. \A x \in s : /\ sum(s \ {x}) \in Int
                     /\ \A y \in s \ {x} : sum(s \ {x}) = f[y] + sum((s \ {x}) \ {y})
    BY <1>2, <2>4
  <2>6. sum(s) \in Int
    BY <2>2, <2>3, <2>5
  <2>7. ASSUME NEW x \in s, x # c
        PROVE  sum(s) = f[x] + sum(s \ {x})
    <3> DEFINE rest == sum((s \ {c}) \ {x})
    <3>1. sum(s \ {c}) = f[x] + rest
      BY <2>2, <2>5, <2>7
    <3>2. (s \ {c}) \ {x} = (s \ {x}) \ {c}
      OBVIOUS
    <3>3. sum(s \ {x}) = f[c] + rest
      BY <2>2, <2>5, <2>7, <3>2
    <3>4. f[x] \in Int /\ f[c] \in Int
      BY <2>2
    <3>5. (s \ {c}) \ {x} \in SUBSET S /\ IsFiniteSet(s \ {c}) /\ x \in s \ {c}
      BY <1>0, <2>7
    <3>6. rest \in Int
      <4>1. Cardinality((s \ {c}) \ {x}) <= n
        <5> DEFINE r == s \ {c}
        <5>1. r \in SUBSET S /\ Cardinality(r) <= n /\ x \in r
          BY <2>2, <2>4, <3>5
        <5> HIDE DEF r
        <5>2. Cardinality(r) = Cardinality(r \ {x}) + 1 /\ Cardinality(r \ {x}) \in Nat
          BY <1>0, <5>1
        <5>3. Cardinality(r \ {x}) <= n
          BY <5>1, <5>2
        <5> QED
          BY <5>3 DEF r
      <4> QED
        BY <1>2, <3>5, <4>1
    <3> QED
      BY <2>3, <3>1, <3>3, <3>4, <3>6
  <2> QED
    BY <2>2, <2>3, <2>6, <2>7
<1> HIDE DEF T
<1>3. Nat \subseteq T
  BY <1>1, <1>2, Induction
<1> QED
  BY <1>0, <1>3 DEF T, sum

\* The sum of no terms is 0.
LEMMA SumEmpty ==
  ASSUME NEW f
  PROVE  SumFunctionOnSet(f, {}) = 0
BY SumUnfolds, FS_EmptySet

\* One more element.
LEMMA SumMore ==
  ASSUME NEW S, IsFiniteSet(S), NEW x, x \notin S, NEW f, f[x] \in Int, \A y \in S : f[y] \in Int
  PROVE  /\ SumFunctionOnSet(f, S) \in Int
         /\ SumFunctionOnSet(f, S \cup {x}) = f[x] + SumFunctionOnSet(f, S)
<1> DEFINE R == S \cup {x}
<1>1. IsFiniteSet(R) /\ x \in R /\ \A y \in R : f[y] \in Int
  BY FS_AddElement
<1>2. R \ {x} = S
  OBVIOUS
<1> HIDE DEF R
<1>3. \A y \in R : SumFunctionOnSet(f, R) = f[y] + SumFunctionOnSet(f, R \ {y})
  BY <1>1, SumPull
<1> QED
  BY <1>1, <1>2, <1>3, SumPull DEF R

\* Sums of equal terms are equal.
LEMMA SumSame ==
  ASSUME NEW S, IsFiniteSet(S), NEW f, NEW g, \A x \in S : f[x] \in Int /\ g[x] = f[x]
  PROVE  SumFunctionOnSet(g, S) = SumFunctionOnSet(f, S)
<1> DEFINE T == {s \in SUBSET S : SumFunctionOnSet(g, s) = SumFunctionOnSet(f, s)}
<1>1. {} \in T
  BY SumEmpty
<1>2. ASSUME NEW s \in SUBSET S, NEW x \in S \ s, s \in T
      PROVE  s \cup {x} \in T
  <2>1. IsFiniteSet(s)
    BY FS_Subset
  <2>2. /\ SumFunctionOnSet(f, s \cup {x}) = f[x] + SumFunctionOnSet(f, s)
        /\ SumFunctionOnSet(g, s \cup {x}) = g[x] + SumFunctionOnSet(g, s)
    BY <2>1, SumMore
  <2> QED
    BY <1>2, <2>2
<1> HIDE DEF T
<1>3. S \in T
  BY <1>1, <1>2, SetInduction
<1> QED
  BY <1>3 DEF T

\* The sum of a sum is the sum of the sums.
LEMMA SumPlus ==
  ASSUME NEW S, IsFiniteSet(S), NEW f, NEW g, NEW h,
         \A x \in S : f[x] \in Int /\ g[x] \in Int /\ h[x] = f[x] + g[x]
  PROVE  SumFunctionOnSet(h, S) = SumFunctionOnSet(f, S) + SumFunctionOnSet(g, S)
<1> DEFINE sum(k, s) == SumFunctionOnSet(k, s)
           T == {s \in SUBSET S : sum(h, s) = sum(f, s) + sum(g, s)}
<1>0. \A x \in S : h[x] \in Int
  OBVIOUS
<1>1. {} \in T
  <2>1. sum(h, {}) = 0 /\ sum(f, {}) = 0 /\ sum(g, {}) = 0
    BY SumEmpty
  <2> QED
    BY <2>1
<1>2. ASSUME NEW s \in SUBSET S, NEW x \in S \ s, s \in T
      PROVE  s \cup {x} \in T
  <2>1. IsFiniteSet(s)
    BY FS_Subset
  <2>2. /\ sum(f, s) \in Int /\ sum(f, s \cup {x}) = f[x] + sum(f, s)
        /\ sum(g, s) \in Int /\ sum(g, s \cup {x}) = g[x] + sum(g, s)
        /\ sum(h, s \cup {x}) = h[x] + sum(h, s)
    BY <1>0, <2>1, SumMore
  <2> HIDE DEF sum
  <2>3. sum(h, s) = sum(f, s) + sum(g, s) /\ h[x] = f[x] + g[x] /\ f[x] \in Int /\ g[x] \in Int
    BY <1>2
  <2> QED
    BY <2>2, <2>3
<1> HIDE DEF T
<1>3. S \in T
  BY <1>1, <1>2, SetInduction
<1> QED
  BY <1>3 DEF T

\* A constant factor may be taken out of a sum.
LEMMA SumTimes ==
  ASSUME NEW S, IsFiniteSet(S), NEW f, NEW g, NEW c \in Int,
         \A x \in S : f[x] \in Int /\ g[x] = c * f[x]
  PROVE  SumFunctionOnSet(g, S) = c * SumFunctionOnSet(f, S)
<1> DEFINE sum(k, s) == SumFunctionOnSet(k, s)
           T == {s \in SUBSET S : sum(g, s) = c * sum(f, s)}
<1>0. \A x \in S : g[x] \in Int
  OBVIOUS
<1>1. {} \in T
  <2>1. sum(f, {}) = 0 /\ sum(g, {}) = 0
    BY SumEmpty
  <2> QED
    BY <2>1
<1>2. ASSUME NEW s \in SUBSET S, NEW x \in S \ s, s \in T
      PROVE  s \cup {x} \in T
  <2>1. IsFiniteSet(s)
    BY FS_Subset
  <2>2. /\ sum(f, s) \in Int /\ sum(f, s \cup {x}) = f[x] + sum(f, s)
        /\ sum(g, s \cup {x}) = g[x] + sum(g, s)
    BY <1>0, <2>1, SumMore
  <2> HIDE DEF sum
  <2>3. sum(g, s) = c * sum(f, s) /\ g[x] = c * f[x] /\ f[x] \in Int
    BY <1>2
  <2>4. c * (f[x] + sum(f, s)) = c * f[x] + c * sum(f, s)
    BY <2>2, <2>3
  <2> QED
    BY <2>2, <2>3, <2>4
<1> HIDE DEF T
<1>3. S \in T
  BY <1>1, <1>2, SetInduction
<1> QED
  BY <1>3 DEF T

\* A sum of smaller terms is smaller.
LEMMA SumOrder ==
  ASSUME NEW S, IsFiniteSet(S), NEW f, NEW g,
         \A x \in S : f[x] \in Int /\ g[x] \in Int /\ f[x] <= g[x]
  PROVE  SumFunctionOnSet(f, S) <= SumFunctionOnSet(g, S)
<1> DEFINE sum(k, s) == SumFunctionOnSet(k, s)
           T == {s \in SUBSET S : sum(f, s) <= sum(g, s)}
<1>1. {} \in T
  <2>1. sum(f, {}) = 0 /\ sum(g, {}) = 0
    BY SumEmpty
  <2> QED
    BY <2>1
<1>2. ASSUME NEW s \in SUBSET S, NEW x \in S \ s, s \in T
      PROVE  s \cup {x} \in T
  <2>1. IsFiniteSet(s)
    BY FS_Subset
  <2>2. /\ sum(f, s) \in Int /\ sum(f, s \cup {x}) = f[x] + sum(f, s)
        /\ sum(g, s) \in Int /\ sum(g, s \cup {x}) = g[x] + sum(g, s)
    BY <2>1, SumMore
  <2> HIDE DEF sum
  <2>3. sum(f, s) <= sum(g, s) /\ f[x] \in Int /\ g[x] \in Int /\ f[x] <= g[x]
    BY <1>2
  <2> QED
    BY <2>2, <2>3
<1> HIDE DEF T
<1>3. S \in T
  BY <1>1, <1>2, SetInduction
<1> QED
  BY <1>3 DEF T

\* What is 0 does not count.
LEMMA SumPart ==
  ASSUME NEW S, IsFiniteSet(S), NEW R \in SUBSET S, NEW f,
         \A x \in S : f[x] \in Int, \A x \in S \ R : f[x] = 0
  PROVE  SumFunctionOnSet(f, S) = SumFunctionOnSet(f, R)
<1> DEFINE sum(s) == SumFunctionOnSet(f, s)
           T == {s \in SUBSET S : sum(s) = sum(s \cap R)}
<1>1. {} \in T
  OBVIOUS
<1>2. ASSUME NEW s \in SUBSET S, NEW x \in S \ s, s \in T
      PROVE  s \cup {x} \in T
  <2>1. IsFiniteSet(s) /\ IsFiniteSet(s \cap R)
    BY FS_Subset
  <2>2. /\ sum(s) \in Int /\ sum(s \cup {x}) = f[x] + sum(s)
        /\ sum((s \cap R) \cup {x}) = f[x] + sum(s \cap R)
    BY <2>1, SumMore
  <2> HIDE DEF sum
  <2>3. CASE x \in R
    <3>1. (s \cup {x}) \cap R = (s \cap R) \cup {x}
      BY <2>3
    <3> QED
      BY <1>2, <2>2, <3>1
  <2>4. CASE x \notin R
    <3>1. (s \cup {x}) \cap R = s \cap R /\ f[x] = 0
      BY <2>4
    <3>2. sum(s \cup {x}) = sum(s)
      BY <2>2, <3>1
    <3> QED
      BY <1>2, <3>1, <3>2
  <2> QED
    BY <2>3, <2>4
<1> HIDE DEF T
<1>3. S \in T /\ S \cap R = R
  BY <1>1, <1>2, SetInduction
<1> QED
  BY <1>3 DEF T

\* A sum of naturals is at least each of them.
LEMMA SumNat ==
  ASSUME NEW S, IsFiniteSet(S), NEW f, \A x \in S : f[x] \in Nat
  PROVE  SumFunctionOnSet(f, S) \in Nat
<1> DEFINE T == {s \in SUBSET S : SumFunctionOnSet(f, s) \in Nat}
<1>1. {} \in T
  BY SumEmpty
<1>2. ASSUME NEW s \in SUBSET S, NEW x \in S \ s, s \in T
      PROVE  s \cup {x} \in T
  <2>1. IsFiniteSet(s)
    BY FS_Subset
  <2>2. SumFunctionOnSet(f, s \cup {x}) = f[x] + SumFunctionOnSet(f, s)
    BY <2>1, SumMore
  <2>3. f[x] \in Nat /\ SumFunctionOnSet(f, s) \in Nat
    BY <1>2
  <2> QED
    BY <2>2, <2>3
<1> HIDE DEF T
<1>3. S \in T
  BY <1>1, <1>2, SetInduction
<1> QED
  BY <1>3 DEF T

\* A sum of naturals is at least each of its terms.
LEMMA SumAtLeast ==
  ASSUME NEW S, IsFiniteSet(S), NEW f, \A x \in S : f[x] \in Nat, NEW x \in S
  PROVE  f[x] <= SumFunctionOnSet(f, S)
<1>1. SumFunctionOnSet(f, S) = f[x] + SumFunctionOnSet(f, S \ {x})
  BY SumPull
<1>2. SumFunctionOnSet(f, S \ {x}) \in Nat
  BY FS_Subset, SumNat
<1> QED
  BY <1>1, <1>2

\* A member that bounds the others from above is the maximum of axis.rs.
LEMMA MaxIs ==
  ASSUME NEW S, NEW m \in S, \A x \in S : x \in Int /\ x <= m
  PROVE  Axes!Max(S) = m
BY DEF Axes!Max

\* A member that bounds the others from below is the minimum of axis.rs.
LEMMA MinIs ==
  ASSUME NEW S, NEW m \in S, \A x \in S : x \in Int /\ m <= x
  PROVE  Axes!Min(S) = m
BY DEF Axes!Min

Larger(a, b) == IF a >= b THEN a ELSE b

\* The maximum of two numbers.
LEMMA MaxOfTwo ==
  ASSUME NEW a \in Int, NEW b \in Int
  PROVE  Axes!Max({a, b}) = Larger(a, b)
<1> DEFINE S == {a, b}
           m == Larger(a, b)
<1>1. m \in S /\ \A x \in S : x \in Int /\ x <= m
  BY DEF Larger
<1> HIDE DEF S, m
<1>2. Axes!Max(S) = m
  BY <1>1, MaxIs
<1> QED
  BY <1>2 DEF S, m

\* The minimum of two numbers.
LEMMA LeastOfTwo ==
  ASSUME NEW a \in Int, NEW b \in Int
  PROVE  Axes!Min({a, b}) = IF a <= b THEN a ELSE b
<1> DEFINE S == {a, b}
           m == IF a <= b THEN a ELSE b
<1>1. m \in S /\ \A x \in S : x \in Int /\ m <= x
  OBVIOUS
<1> HIDE DEF S, m
<1>2. Axes!Min(S) = m
  BY <1>1, MinIs
<1> QED
  BY <1>2 DEF S, m

\* Where a function is the greatest.
LEMMA GreatestAt ==
  ASSUME NEW S, IsFiniteSet(S), S # {}, NEW f, \A x \in S : f[x] \in Int
  PROVE  \E m \in S : \A x \in S : f[x] <= f[m]
<1> DEFINE T == {s \in SUBSET S : s # {} => \E m \in s : \A x \in s : f[x] <= f[m]}
<1>1. {} \in T
  OBVIOUS
<1>2. ASSUME NEW s \in SUBSET S, NEW y \in S \ s, s \in T
      PROVE  s \cup {y} \in T
  <2>1. CASE s = {}
    BY <2>1
  <2>2. CASE s # {}
    <3>1. PICK m \in s : \A x \in s : f[x] <= f[m]
      BY <1>2, <2>2
    <3>2. CASE f[y] <= f[m]
      BY <3>1, <3>2
    <3>3. CASE ~(f[y] <= f[m])
      <4>1. \A x \in s \cup {y} : f[x] <= f[y]
        BY <3>1, <3>3
      <4> QED
        BY <4>1
    <3> QED
      BY <3>2, <3>3
  <2> QED
    BY <2>1, <2>2
<1> HIDE DEF T
<1>3. S \in T
  BY <1>1, <1>2, SetInduction
<1> QED
  BY <1>3 DEF T

\* A finite set of numbers has a greatest one.
LEMMA Greatest ==
  ASSUME NEW S, IsFiniteSet(S), S # {}, \A x \in S : x \in Int
  PROVE  \E m \in S : \A x \in S : x <= m
<1> DEFINE f == [x \in S |-> x]
<1>1. \A x \in S : f[x] = x
  OBVIOUS
<1> HIDE DEF f
<1>2. PICK m \in S : \A x \in S : f[x] <= f[m]
  BY <1>1, GreatestAt
<1> QED
  BY <1>1, <1>2

-----------------------------------------------------------------------------
(* The measures of axis.rs.                                                  *)

\* The groups that are covered.
IsCovered(c) ==
  /\ IsFiniteSet(DOMAIN c)
  /\ \A i \in DOMAIN c : c[i].pour \in Nat /\ c[i].contre \in Nat /\ c[i].coordonnee \in Int

For(c)     == [i \in DOMAIN c |-> c[i].pour]
Against(c) == [i \in DOMAIN c |-> c[i].contre]
Total(f)   == SumFunctionOnSet(f, DOMAIN f)

\* The sum of f over a part of its domain.
Part(f, L) == SumFunctionOnSet([i \in DOMAIN f |-> IF i \in L THEN f[i] ELSE 0], DOMAIN f)

\* The sum of the community modules, over a domain.
LEMMA SumsAre ==
  \A f : /\ SumFunction(f) = Total(f) /\ Axes!SumFunction(f) = Total(f)
        /\ Scores!SumFunction(f) = Total(f)
<1>1. \A f : SumFunction(f) = Total(f)
  BY DEF SumFunction, Total
<1>2. \A f : Axes!SumFunction(f) = Total(f)
  BY DEF Axes!SumFunction, Total, Axes!SumFunctionOnSet, SumFunctionOnSet, Axes!FoldFunctionOnSet,
         FoldFunctionOnSet, Axes!MapThenFoldSet, MapThenFoldSet
<1>3. \A f : Scores!SumFunction(f) = Total(f)
  BY DEF Scores!SumFunction, Total, Scores!SumFunctionOnSet, SumFunctionOnSet,
         Scores!FoldFunctionOnSet, FoldFunctionOnSet, Scores!MapThenFoldSet, MapThenFoldSet
<1> QED
  BY <1>1, <1>2, <1>3

\* A sum is that of a part and that of the rest.
LEMMA PartSplits ==
  ASSUME NEW f, IsFiniteSet(DOMAIN f), \A i \in DOMAIN f : f[i] \in Nat, NEW L
  PROVE  /\ Part(f, L) \in Nat /\ Part(f, DOMAIN f \ L) \in Nat
         /\ Total(f) = Part(f, L) + Part(f, DOMAIN f \ L)
<1> DEFINE D == DOMAIN f
           g == [i \in D |-> IF i \in L THEN f[i] ELSE 0]
           h == [i \in D |-> IF i \in D \ L THEN f[i] ELSE 0]
<1>1. /\ \A i \in D : g[i] \in Nat /\ h[i] \in Nat /\ f[i] = g[i] + h[i]
      /\ IsFiniteSet(D)
  OBVIOUS
<1>2. /\ Part(f, L) = SumFunctionOnSet(g, D) /\ Part(f, DOMAIN f \ L) = SumFunctionOnSet(h, D)
      /\ Total(f) = SumFunctionOnSet(f, D)
  BY DEF Part, Total
<1> HIDE DEF D, g, h
<1>3. SumFunctionOnSet(g, D) \in Nat /\ SumFunctionOnSet(h, D) \in Nat
  BY <1>1, SumNat
<1>4. SumFunctionOnSet(f, D) = SumFunctionOnSet(g, D) + SumFunctionOnSet(h, D)
  BY <1>1, SumPlus
<1> QED
  BY <1>2, <1>3, <1>4

\* The same values on the same domain have the same sum.
LEMMA TotalSame ==
  ASSUME NEW f, IsFiniteSet(DOMAIN f), NEW g, DOMAIN g = DOMAIN f,
         \A i \in DOMAIN f : f[i] \in Int /\ g[i] = f[i]
  PROVE  Total(g) = Total(f)
BY SumSame DEF Total

\* The total of opposite terms is the opposite total.
LEMMA TotalOpposite ==
  ASSUME NEW f, IsFiniteSet(DOMAIN f), NEW g, DOMAIN g = DOMAIN f,
         \A i \in DOMAIN f : f[i] \in Int /\ g[i] = -f[i]
  PROVE  Total(g) = -Total(f) /\ Total(f) \in Int
<1> DEFINE D == DOMAIN f
           c == -1
<1>1. Total(f) = SumFunctionOnSet(f, D) /\ Total(g) = SumFunctionOnSet(g, D)
  BY DEF Total
<1>2. c \in Int /\ \A i \in D : f[i] \in Int /\ g[i] = c * f[i]
  OBVIOUS
<1>3. IsFiniteSet(D)
  OBVIOUS
<1> HIDE DEF c, D
<1>4. SumFunctionOnSet(g, D) = c * SumFunctionOnSet(f, D) /\ SumFunctionOnSet(f, D) \in Int
  BY <1>2, <1>3, SumTimes, SumPull
<1> QED
  BY <1>1, <1>4 DEF c
Voting(c)    == [i \in DOMAIN c |-> c[i].pour + c[i].contre]
ForAt(c)     == [i \in DOMAIN c |-> c[i].pour * c[i].coordonnee]
AgainstAt(c) == [i \in DOMAIN c |-> c[i].contre * c[i].coordonnee]

\* The sums that the estimate rests on.
LEMMA TotalsAre ==
  ASSUME NEW c, IsCovered(c)
  PROVE  /\ Total(For(c)) \in Nat /\ Total(Against(c)) \in Nat
         /\ Total(ForAt(c)) \in Int /\ Total(AgainstAt(c)) \in Int
         /\ Total(Voting(c)) = Total(For(c)) + Total(Against(c))
<1> DEFINE D == DOMAIN c
           f == For(c)
           a == Against(c)
           fa == ForAt(c)
           aa == AgainstAt(c)
           v == Voting(c)
<1>1. /\ DOMAIN f = D /\ DOMAIN a = D /\ DOMAIN fa = D /\ DOMAIN aa = D /\ DOMAIN v = D
      /\ \A i \in D : /\ f[i] \in Nat /\ a[i] \in Nat /\ f[i] \in Int /\ a[i] \in Int
                      /\ fa[i] \in Int /\ aa[i] \in Int /\ v[i] = f[i] + a[i]
      /\ IsFiniteSet(D)
  BY DEF IsCovered, For, Against, ForAt, AgainstAt, Voting
<1> HIDE DEF D, f, a, fa, aa, v
<1>2. SumFunctionOnSet(f, D) \in Nat /\ SumFunctionOnSet(a, D) \in Nat
  BY <1>1, SumNat
<1>3. SumFunctionOnSet(fa, D) \in Int /\ SumFunctionOnSet(aa, D) \in Int
  BY <1>1, SumPull
<1>4. SumFunctionOnSet(v, D) = SumFunctionOnSet(f, D) + SumFunctionOnSet(a, D)
  BY <1>1, SumPlus
<1> QED
  BY <1>1, <1>2, <1>3, <1>4 DEF Total, f, a, fa, aa, v

Mirrors(m, c) ==
  /\ DOMAIN m = DOMAIN c
  /\ \A i \in DOMAIN c : /\ m[i].pour = c[i].pour /\ m[i].contre = c[i].contre
                         /\ m[i].coordonnee = -c[i].coordonnee

Swaps(m, c) ==
  /\ DOMAIN m = DOMAIN c
  /\ \A i \in DOMAIN c : /\ m[i].pour = c[i].contre /\ m[i].contre = c[i].pour
                         /\ m[i].coordonnee = c[i].coordonnee

\* The mirror of a mirror is the scrutin itself.
LEMMA MirrorsBack ==
  ASSUME NEW c, IsCovered(c), NEW m, Mirrors(m, c)
  PROVE  IsCovered(m) /\ Mirrors(c, m)
BY DEF IsCovered, Mirrors

\* The exchange of an exchange is the scrutin itself.
LEMMA SwapsBack ==
  ASSUME NEW c, IsCovered(c), NEW m, Swaps(m, c)
  PROVE  IsCovered(m) /\ Swaps(c, m)
BY DEF IsCovered, Swaps

\* The mirror of the axis keeps the votes and negates what the coordinates add up to.
LEMMA TotalsOfMirror ==
  ASSUME NEW c, IsCovered(c), NEW m, Mirrors(m, c)
  PROVE  /\ Total(For(m)) = Total(For(c)) /\ Total(Against(m)) = Total(Against(c))
         /\ Total(ForAt(m)) = -Total(ForAt(c)) /\ Total(AgainstAt(m)) = -Total(AgainstAt(c))
<1> DEFINE D == DOMAIN c
<1>1. IsFiniteSet(D) /\ DOMAIN m = D
      /\ \A i \in D : /\ c[i].pour \in Nat /\ c[i].contre \in Nat /\ c[i].coordonnee \in Int
                      /\ m[i].pour = c[i].pour /\ m[i].contre = c[i].contre
                      /\ m[i].coordonnee = -c[i].coordonnee
  BY DEF IsCovered, Mirrors
<1>2. /\ DOMAIN For(c) = D /\ DOMAIN For(m) = D /\ DOMAIN Against(c) = D /\ DOMAIN Against(m) = D
      /\ \A i \in D : For(c)[i] \in Int /\ For(m)[i] = For(c)[i]
      /\ \A i \in D : Against(c)[i] \in Int /\ Against(m)[i] = Against(c)[i]
  BY <1>1 DEF For, Against
<1>3. /\ DOMAIN ForAt(c) = D /\ DOMAIN ForAt(m) = D
      /\ DOMAIN AgainstAt(c) = D /\ DOMAIN AgainstAt(m) = D
      /\ \A i \in D : ForAt(c)[i] \in Int /\ ForAt(m)[i] = -ForAt(c)[i]
      /\ \A i \in D : AgainstAt(c)[i] \in Int /\ AgainstAt(m)[i] = -AgainstAt(c)[i]
  BY <1>1 DEF ForAt, AgainstAt
<1> HIDE DEF D
<1>4. Total(For(m)) = Total(For(c)) /\ Total(Against(m)) = Total(Against(c))
  BY <1>1, <1>2, TotalSame
<1>5. Total(ForAt(m)) = -Total(ForAt(c)) /\ Total(AgainstAt(m)) = -Total(AgainstAt(c))
  BY <1>1, <1>3, TotalOpposite
<1> QED
  BY <1>4, <1>5

\* The exchange of the camps exchanges the votes.
LEMMA TotalsOfSwap ==
  ASSUME NEW c, IsCovered(c), NEW m, Swaps(m, c)
  PROVE  /\ Total(For(m)) = Total(Against(c)) /\ Total(Against(m)) = Total(For(c))
         /\ Total(ForAt(m)) = Total(AgainstAt(c)) /\ Total(AgainstAt(m)) = Total(ForAt(c))
<1>1. For(m) = Against(c) /\ Against(m) = For(c) /\ ForAt(m) = AgainstAt(c) /\ AgainstAt(m) = ForAt(c)
  BY DEF Swaps, For, Against, ForAt, AgainstAt
<1> QED
  BY <1>1

Bounded(n, d) == IF n > d THEN d ELSE IF n < -d THEN -d ELSE n

\* What the clamp of axis.rs returns.
LEMMA ClampIs ==
  ASSUME NEW n \in Int, NEW d \in Nat
  PROVE  Axes!Clamp(n, d) = Bounded(n, d)
<1>1. Axes!Min({n, d}) = IF n <= d THEN n ELSE d
  BY LeastOfTwo
<1> DEFINE k == Axes!Min({n, d})
<1>2. k \in Int /\ -d \in Int
  BY <1>1
<1> HIDE DEF k
<1>3. Axes!Max({-d, k}) = Larger(-d, k)
  BY <1>2, MaxOfTwo
<1>4. Axes!Clamp(n, d) = Axes!Max({-d, k})
  BY DEF Axes!Clamp, k
<1> QED
  BY <1>1, <1>2, <1>3, <1>4 DEF Bounded, Larger, k

\* The position, in the terms of these sums.
LEMMA PositionIs ==
  ASSUME NEW c, IsCovered(c)
  PROVE  LET scale == 2 * Unit * Total(For(c)) * Total(Against(c))
             n     == Total(ForAt(c)) * Total(Against(c)) - Total(AgainstAt(c)) * Total(For(c))
         IN  /\ Axes!PositionPour(c) = <<Bounded(n, scale), scale>>
             /\ n \in Int /\ scale \in Nat
<1> DEFINE f  == Total(For(c))
           a  == Total(Against(c))
           fa == Total(ForAt(c))
           aa == Total(AgainstAt(c))
<1>1. Axes!PositionPour(c) = <<Axes!Clamp(fa * a - aa * f, 2 * Unit * f * a), 2 * Unit * f * a>>
  BY SumsAre DEF Axes!PositionPour, Axes!Sum, Axes!Pour, Axes!Contre, For, Against, ForAt, AgainstAt
<1>2. f \in Nat /\ a \in Nat /\ fa \in Int /\ aa \in Int
  BY TotalsAre
<1> HIDE DEF f, a, fa, aa
<1>3. fa * a - aa * f \in Int
  BY <1>2
<1>4. 2 * Unit * f * a \in Nat
  <2>1. Unit \in Nat
    BY CalculsAssumption
  <2>2. 2 * Unit \in Nat
    BY <2>1
  <2>3. 2 * Unit * f \in Nat
    BY <1>2, <2>2
  <2> QED
    BY <1>2, <2>3
<1>5. Axes!Clamp(fa * a - aa * f, 2 * Unit * f * a) = Bounded(fa * a - aa * f, 2 * Unit * f * a)
  BY <1>3, <1>4, ClampIs
<1> QED
  BY <1>1, <1>3, <1>4, <1>5 DEF f, a, fa, aa

\* To bound and to negate commute.
LEMMA BoundedOpposite ==
  ASSUME NEW n \in Int, NEW k \in Int, k = -n, NEW d \in Nat
  PROVE  Bounded(k, d) = -Bounded(n, d) /\ Bounded(n, d) \in -d..d
BY DEF Bounded

\* The mirror of the axis changes the sign of the position.
LEMMA PositionMirrored ==
  ASSUME NEW c, IsCovered(c), NEW m, Mirrors(m, c)
  PROVE  Axes!PositionPour(m) = <<-Axes!PositionPour(c)[1], Axes!PositionPour(c)[2]>>
<1> DEFINE f  == Total(For(c))
           a  == Total(Against(c))
           fa == Total(ForAt(c))
           aa == Total(AgainstAt(c))
           n  == fa * a - aa * f
           scale == 2 * Unit * f * a
<1>1. f \in Nat /\ a \in Nat /\ fa \in Int /\ aa \in Int
  BY TotalsAre
<1>2. Axes!PositionPour(c) = <<Bounded(n, scale), scale>> /\ n \in Int /\ scale \in Nat
  BY PositionIs
<1>3. Axes!PositionPour(m) = <<Bounded((-fa) * a - (-aa) * f, scale), scale>>
  BY MirrorsBack, TotalsOfMirror, PositionIs
<1> HIDE DEF f, a, fa, aa
<1>4. (-fa) * a - (-aa) * f = -n /\ -n \in Int
  BY <1>1
<1> HIDE DEF n, scale
<1>5. Bounded(-n, scale) = -Bounded(n, scale)
  BY <1>2, <1>4, BoundedOpposite
<1> QED
  BY <1>2, <1>3, <1>4, <1>5

\* So does the exchange of the two camps.
LEMMA PositionSwapped ==
  ASSUME NEW c, IsCovered(c), NEW m, Swaps(m, c)
  PROVE  Axes!PositionPour(m) = <<-Axes!PositionPour(c)[1], Axes!PositionPour(c)[2]>>
<1> DEFINE f  == Total(For(c))
           a  == Total(Against(c))
           fa == Total(ForAt(c))
           aa == Total(AgainstAt(c))
           n  == fa * a - aa * f
           scale == 2 * Unit * f * a
           back  == 2 * Unit * a * f
<1>1. f \in Nat /\ a \in Nat /\ fa \in Int /\ aa \in Int
  BY TotalsAre
<1>2. Axes!PositionPour(c) = <<Bounded(n, scale), scale>> /\ n \in Int /\ scale \in Nat
  BY PositionIs
<1>3. Axes!PositionPour(m) = <<Bounded(aa * f - fa * a, back), back>>
  BY SwapsBack, TotalsOfSwap, PositionIs
<1> HIDE DEF f, a, fa, aa
<1>4. aa * f - fa * a = -n /\ -n \in Int
  BY <1>1
<1>5. back = scale
  BY <1>1, CalculsAssumption
<1> HIDE DEF n, scale, back
<1>6. Bounded(-n, scale) = -Bounded(n, scale)
  BY <1>2, <1>4, BoundedOpposite
<1> QED
  BY <1>2, <1>3, <1>4, <1>5, <1>6

\* The votes against on either side of the mean of the votes for.
LeftOf(c)  == [i \in DOMAIN c |-> IF c[i].coordonnee * Total(For(c)) < Total(ForAt(c)) THEN c[i].contre ELSE 0]
RightOf(c) == [i \in DOMAIN c |-> IF c[i].coordonnee * Total(For(c)) > Total(ForAt(c)) THEN c[i].contre ELSE 0]

\* The bipolarity, in the terms of these sums.
LEMMA BipolariteIs ==
  ASSUME NEW c, IsCovered(c)
  PROVE  Axes!Bipolarite(c) = <<2 * Axes!Min({Total(LeftOf(c)), Total(RightOf(c))}), Total(Against(c))>>
BY SumsAre DEF Axes!Bipolarite, Axes!Sum, Axes!Pour, Axes!Contre, For, Against, ForAt, LeftOf, RightOf

\* The mirror of the axis leaves the bipolarity as it is: what is to the left of
\* the mean is to the right of the mirrored one.
LEMMA BipolariteMirrored ==
  ASSUME NEW c, IsCovered(c), NEW m, Mirrors(m, c)
  PROVE  Axes!Bipolarite(m) = Axes!Bipolarite(c)
<1> DEFINE f  == Total(For(c))
           fa == Total(ForAt(c))
<1>1. /\ f \in Nat /\ fa \in Int /\ Total(For(m)) = f /\ Total(ForAt(m)) = -fa
      /\ Total(Against(m)) = Total(Against(c))
  BY TotalsAre, TotalsOfMirror
<1> HIDE DEF f, fa
<1>2. ASSUME NEW i \in DOMAIN c
      PROVE  /\ m[i].coordonnee * f < -fa <=> c[i].coordonnee * f > fa
             /\ m[i].coordonnee * f > -fa <=> c[i].coordonnee * f < fa
             /\ m[i].contre = c[i].contre
  <2>1. m[i].coordonnee = -c[i].coordonnee /\ c[i].coordonnee \in Int /\ m[i].contre = c[i].contre
    BY DEF Mirrors, IsCovered
  <2>2. m[i].coordonnee * f = -(c[i].coordonnee * f) /\ c[i].coordonnee * f \in Int
    BY <1>1, <2>1
  <2> QED
    BY <1>1, <2>1, <2>2
<1>3. DOMAIN m = DOMAIN c
  BY DEF Mirrors
<1>4. LeftOf(m) = RightOf(c) /\ RightOf(m) = LeftOf(c)
  BY <1>1, <1>2, <1>3 DEF LeftOf, RightOf, f, fa
<1>5. {Total(LeftOf(m)), Total(RightOf(m))} = {Total(LeftOf(c)), Total(RightOf(c))}
  BY <1>4
<1> QED
  BY <1>1, <1>5, MirrorsBack, BipolariteIs

\* Votes against cannot be on both sides.
LEMMA BipolariteBounded ==
  ASSUME NEW c, IsCovered(c)
  PROVE  Axes!Bipolarite(c)[2] = Total(Against(c)) /\ Axes!Bipolarite(c)[1] \in 0..Total(Against(c))
<1> DEFINE D == DOMAIN c
           f  == Total(For(c))
           fa == Total(ForAt(c))
           l == LeftOf(c)
           r == RightOf(c)
           a == Against(c)
           b == [i \in D |-> l[i] + r[i]]
<1>1. f \in Nat /\ fa \in Int
  BY TotalsAre
<1> HIDE DEF f, fa
<1>2. /\ IsFiniteSet(D) /\ DOMAIN l = D /\ DOMAIN r = D /\ DOMAIN a = D
      /\ \A i \in D : l[i] \in Nat /\ r[i] \in Nat /\ a[i] \in Nat /\ l[i] + r[i] <= a[i]
  <2>1. DOMAIN l = D /\ DOMAIN r = D /\ DOMAIN a = D /\ IsFiniteSet(D)
    BY DEF LeftOf, RightOf, Against, IsCovered
  <2>2. ASSUME NEW i \in D
        PROVE  l[i] \in Nat /\ r[i] \in Nat /\ a[i] \in Nat /\ l[i] + r[i] <= a[i]
    <3> DEFINE x == c[i].coordonnee * f
    <3>1. x \in Int /\ c[i].contre \in Nat
      BY <1>1 DEF IsCovered
    <3>2. /\ l[i] = IF x < fa THEN c[i].contre ELSE 0
          /\ r[i] = IF x > fa THEN c[i].contre ELSE 0
          /\ a[i] = c[i].contre
      BY DEF LeftOf, RightOf, Against, f, fa
    <3> HIDE DEF x, l, r, a
    <3> QED
      BY <1>1, <3>1, <3>2
  <2> QED
    BY <2>1, <2>2
<1>3. Total(l) = SumFunctionOnSet(l, D) /\ Total(r) = SumFunctionOnSet(r, D) /\ Total(a) = SumFunctionOnSet(a, D)
  BY <1>2 DEF Total
<1>4. \A i \in D : b[i] = l[i] + r[i] /\ b[i] \in Int
  BY <1>2
<1> HIDE DEF D, l, r, a, b
<1>5. SumFunctionOnSet(l, D) \in Nat /\ SumFunctionOnSet(r, D) \in Nat /\ SumFunctionOnSet(a, D) \in Nat
  BY <1>2, SumNat
<1>6. SumFunctionOnSet(b, D) = SumFunctionOnSet(l, D) + SumFunctionOnSet(r, D)
  BY <1>2, <1>4, SumPlus
<1>7. SumFunctionOnSet(b, D) <= SumFunctionOnSet(a, D)
  BY <1>2, <1>4, SumOrder
<1>8. Axes!Min({Total(l), Total(r)}) = IF Total(l) <= Total(r) THEN Total(l) ELSE Total(r)
  BY <1>3, <1>5, LeastOfTwo
<1>9. Axes!Bipolarite(c) = <<2 * Axes!Min({Total(l), Total(r)}), Total(a)>>
  BY BipolariteIs DEF l, r, a
<1>10. 2 * Axes!Min({Total(l), Total(r)}) \in 0..Total(a)
  BY <1>3, <1>5, <1>6, <1>7, <1>8
<1> QED
  BY <1>9, <1>10 DEF a

\* The groups on the left of a threshold, and the votes well placed by it.
SideOf(c, pair) == {i \in DOMAIN c : 2 * c[i].coordonnee <= pair[1] + pair[2]}
Best(c, L) ==
  LET R == DOMAIN c \ L
  IN  Larger(Part(For(c), L), Part(Against(c), L)) + Larger(Part(For(c), R), Part(Against(c), R))

\* Votes on one side and on the other.
LEMMA PartsAre ==
  ASSUME NEW c, IsCovered(c), NEW L
  PROVE  /\ Part(For(c), L) \in Nat /\ Part(For(c), DOMAIN c \ L) \in Nat
         /\ Part(Against(c), L) \in Nat /\ Part(Against(c), DOMAIN c \ L) \in Nat
         /\ Total(For(c)) = Part(For(c), L) + Part(For(c), DOMAIN c \ L)
         /\ Total(Against(c)) = Part(Against(c), L) + Part(Against(c), DOMAIN c \ L)
<1> DEFINE D == DOMAIN c
           f == For(c)
           a == Against(c)
<1>1. /\ DOMAIN f = D /\ DOMAIN a = D /\ IsFiniteSet(D)
      /\ \A i \in D : f[i] \in Nat /\ a[i] \in Nat
  BY DEF IsCovered, For, Against
<1> HIDE DEF D, f, a
<1>2. /\ Part(f, L) \in Nat /\ Part(f, DOMAIN f \ L) \in Nat
      /\ Total(f) = Part(f, L) + Part(f, DOMAIN f \ L)
  BY <1>1, PartSplits
<1>3. /\ Part(a, L) \in Nat /\ Part(a, DOMAIN a \ L) \in Nat
      /\ Total(a) = Part(a, L) + Part(a, DOMAIN a \ L)
  BY <1>1, PartSplits
<1> QED
  BY <1>1, <1>2, <1>3 DEF D, f, a

\* The votes on the right side of a threshold, as a sum over its two halves.
LEMMA CorrectIs ==
  ASSUME NEW c, IsCovered(c), NEW pair
  PROVE  Axes!CorrectFor(c, pair) = Best(c, SideOf(c, pair))
<1> DEFINE L  == SideOf(c, pair)
           R  == DOMAIN c \ L
           fl == [i \in DOMAIN c |-> IF 2 * c[i].coordonnee <= pair[1] + pair[2] THEN c[i].pour ELSE 0]
           al == [i \in DOMAIN c |-> IF 2 * c[i].coordonnee <= pair[1] + pair[2] THEN c[i].contre ELSE 0]
           fr == [i \in DOMAIN c |-> IF ~(2 * c[i].coordonnee <= pair[1] + pair[2]) THEN c[i].pour ELSE 0]
           ar == [i \in DOMAIN c |-> IF ~(2 * c[i].coordonnee <= pair[1] + pair[2]) THEN c[i].contre ELSE 0]
<1>1. Axes!CorrectFor(c, pair) =
        Axes!Max({Total(fl), Total(al)}) + Axes!Max({Total(fr), Total(ar)})
  BY SumsAre DEF Axes!CorrectFor, Axes!Sum, Axes!Pour, Axes!Contre
<1>2. /\ DOMAIN For(c) = DOMAIN c /\ DOMAIN Against(c) = DOMAIN c
      /\ \A i \in DOMAIN c : For(c)[i] = c[i].pour /\ Against(c)[i] = c[i].contre
  BY DEF For, Against
<1>3. \A i \in DOMAIN c : /\ 2 * c[i].coordonnee <= pair[1] + pair[2] <=> i \in L
                          /\ ~(2 * c[i].coordonnee <= pair[1] + pair[2]) <=> i \in R
  BY DEF SideOf
<1> HIDE DEF L, R
<1>4. fl = [i \in DOMAIN For(c) |-> IF i \in L THEN For(c)[i] ELSE 0]
  BY <1>2, <1>3
<1>5. al = [i \in DOMAIN Against(c) |-> IF i \in L THEN Against(c)[i] ELSE 0]
  BY <1>2, <1>3
<1>6. fr = [i \in DOMAIN For(c) |-> IF i \in R THEN For(c)[i] ELSE 0]
  BY <1>2, <1>3
<1>7. ar = [i \in DOMAIN Against(c) |-> IF i \in R THEN Against(c)[i] ELSE 0]
  BY <1>2, <1>3
<1>8. DOMAIN fl = DOMAIN c /\ DOMAIN al = DOMAIN c /\ DOMAIN fr = DOMAIN c /\ DOMAIN ar = DOMAIN c
  OBVIOUS
<1> HIDE DEF fl, al, fr, ar
<1>9. /\ Total(fl) = Part(For(c), L) /\ Total(al) = Part(Against(c), L)
      /\ Total(fr) = Part(For(c), R) /\ Total(ar) = Part(Against(c), R)
  BY <1>2, <1>4, <1>5, <1>6, <1>7, <1>8 DEF Total, Part
<1>10. /\ Part(For(c), L) \in Nat /\ Part(For(c), R) \in Nat
       /\ Part(Against(c), L) \in Nat /\ Part(Against(c), R) \in Nat
  BY PartsAre DEF R
<1>11. /\ Axes!Max({Part(For(c), L), Part(Against(c), L)}) = Larger(Part(For(c), L), Part(Against(c), L))
       /\ Axes!Max({Part(For(c), R), Part(Against(c), R)}) = Larger(Part(For(c), R), Part(Against(c), R))
  BY <1>10, MaxOfTwo
<1> QED
  BY <1>1, <1>9, <1>11 DEF Best, L, R

\* The side a threshold gets right has at least the votes of either camp.
LEMMA BestBounded ==
  ASSUME NEW c, IsCovered(c), NEW L \in SUBSET DOMAIN c
  PROVE  /\ Best(c, L) \in 0..Total(Voting(c)) /\ Best(c, DOMAIN c \ L) = Best(c, L)
         /\ LET R == DOMAIN c \ L IN
            /\ Part(For(c), L) + Part(For(c), R) <= Best(c, L)
            /\ Part(For(c), L) + Part(Against(c), R) <= Best(c, L)
            /\ Part(Against(c), L) + Part(For(c), R) <= Best(c, L)
            /\ Part(Against(c), L) + Part(Against(c), R) <= Best(c, L)
            /\ Best(c, L) \in {Part(For(c), L) + Part(For(c), R), Part(For(c), L) + Part(Against(c), R),
                               Part(Against(c), L) + Part(For(c), R), Part(Against(c), L) + Part(Against(c), R)}
<1> DEFINE R  == DOMAIN c \ L
           fl == Part(For(c), L)
           fr == Part(For(c), R)
           al == Part(Against(c), L)
           ar == Part(Against(c), R)
<1>1. fl \in Nat /\ fr \in Nat /\ al \in Nat /\ ar \in Nat /\ Total(Voting(c)) = (fl + fr) + (al + ar)
  BY PartsAre, TotalsAre
<1>2. Best(c, L) = Larger(fl, al) + Larger(fr, ar)
  BY DEF Best
<1>3. Best(c, R) = Larger(fr, ar) + Larger(fl, al)
  <2>1. DOMAIN c \ R = L
    OBVIOUS
  <2> QED
    BY <2>1 DEF Best
<1> HIDE DEF R, fl, fr, al, ar
<1>4. /\ Best(c, L) \in 0..Total(Voting(c)) /\ Best(c, R) = Best(c, L)
      /\ fl + fr <= Best(c, L) /\ fl + ar <= Best(c, L) /\ al + fr <= Best(c, L) /\ al + ar <= Best(c, L)
  BY <1>1, <1>2, <1>3 DEF Larger
<1>5. Best(c, L) \in {fl + fr, fl + ar, al + fr, al + ar}
  BY <1>1, <1>2 DEF Larger
<1> QED
  BY <1>4, <1>5 DEF R, fl, fr, al, ar

Pairs(c) == Axes!Neighbours(Axes!Coordinates(c))
Gain(c, pair) == 2 * Best(c, SideOf(c, pair)) - Total(Voting(c))
Rates(c) == {0} \cup {Gain(c, pair) : pair \in Pairs(c)}

\* The separation, as the greatest rate of a pair of neighbours.
LEMMA SeparationIs ==
  ASSUME NEW c, IsCovered(c)
  PROVE  Axes!Separation(c) = <<Axes!Max(Rates(c)), Total(Voting(c))>>
<1>1. Axes!Sum(c, Axes!Votants) = Total(Voting(c))
  BY SumsAre DEF Axes!Sum, Axes!Votants, Voting
<1>2. \A pair : 2 * Axes!CorrectFor(c, pair) - Total(Voting(c)) = Gain(c, pair)
  BY CorrectIs DEF Gain
<1>3. {2 * Axes!CorrectFor(c, pair) - Total(Voting(c)) : pair \in Pairs(c)} =
      {Gain(c, pair) : pair \in Pairs(c)}
  BY <1>2
<1> QED
  BY <1>1, <1>3 DEF Axes!Separation, Rates, Pairs

\* The separation is the greatest of the rates, and a share of the votes.
LEMMA RatesBounded ==
  ASSUME NEW c, IsCovered(c)
  PROVE  /\ Axes!Max(Rates(c)) \in Rates(c) /\ Axes!Max(Rates(c)) \in 0..Total(Voting(c))
         /\ \A r \in Rates(c) : r \in Int /\ r <= Axes!Max(Rates(c))
<1> DEFINE v == Total(Voting(c))
           T == Rates(c)
<1>1. v \in Nat
  BY TotalsAre
<1>2. \A pair : SideOf(c, pair) \in SUBSET DOMAIN c
  BY DEF SideOf
<1>3. \A pair : Best(c, SideOf(c, pair)) \in 0..v
  BY <1>2, BestBounded
<1> HIDE DEF v
<1>4. T \subseteq (-v)..v /\ 0 \in T
  <2>1. \A pair : Gain(c, pair) \in (-v)..v
    BY <1>1, <1>3 DEF Gain, v
  <2> QED
    BY <1>1, <2>1 DEF Rates
<1>5. IsFiniteSet(T)
  <2>1. IsFiniteSet((-v)..v)
    BY <1>1, FS_Interval
  <2> QED
    BY <1>4, <2>1, FS_Subset
<1> HIDE DEF T
<1>6. T # {} /\ \A x \in T : x \in Int /\ x <= v
  BY <1>1, <1>4
<1>7. PICK r \in T : \A x \in T : x <= r
  BY <1>5, <1>6, Greatest
<1>8. Axes!Max(T) = r
  BY <1>6, <1>7, MaxIs
<1>9. r \in 0..v
  BY <1>1, <1>4, <1>6, <1>7
<1> QED
  BY <1>6, <1>7, <1>8, <1>9 DEF T, v

\* Two neighbours are the coordinates of two groups with none between them.
LEMMA PairsAre ==
  ASSUME NEW c, NEW p
  PROVE  p \in Pairs(c) <=>
           \E i, j \in DOMAIN c :
             /\ p = <<c[i].coordonnee, c[j].coordonnee>> /\ c[i].coordonnee < c[j].coordonnee
             /\ \A k \in DOMAIN c : ~(c[i].coordonnee < c[k].coordonnee /\ c[k].coordonnee < c[j].coordonnee)
<1>1. ASSUME p \in Pairs(c)
      PROVE  \E i, j \in DOMAIN c :
               /\ p = <<c[i].coordonnee, c[j].coordonnee>> /\ c[i].coordonnee < c[j].coordonnee
               /\ \A k \in DOMAIN c : ~(c[i].coordonnee < c[k].coordonnee /\ c[k].coordonnee < c[j].coordonnee)
  <2>1. /\ p \in Axes!Coordinates(c) \X Axes!Coordinates(c) /\ p[1] < p[2]
        /\ ~\E d \in Axes!Coordinates(c) : p[1] < d /\ d < p[2]
    BY <1>1 DEF Pairs, Axes!Neighbours
  <2>2. PICK i \in DOMAIN c : p[1] = c[i].coordonnee
    BY <2>1 DEF Axes!Coordinates
  <2>3. PICK j \in DOMAIN c : p[2] = c[j].coordonnee
    BY <2>1 DEF Axes!Coordinates
  <2>4. p = <<p[1], p[2]>>
    BY <2>1
  <2>5. \A k \in DOMAIN c : c[k].coordonnee \in Axes!Coordinates(c)
    BY DEF Axes!Coordinates
  <2> QED
    BY <2>1, <2>2, <2>3, <2>4, <2>5
<1>2. ASSUME NEW i \in DOMAIN c, NEW j \in DOMAIN c,
             p = <<c[i].coordonnee, c[j].coordonnee>>, c[i].coordonnee < c[j].coordonnee,
             \A k \in DOMAIN c : ~(c[i].coordonnee < c[k].coordonnee /\ c[k].coordonnee < c[j].coordonnee)
      PROVE  p \in Pairs(c)
  <2>1. p \in Axes!Coordinates(c) \X Axes!Coordinates(c) /\ p[1] = c[i].coordonnee /\ p[2] = c[j].coordonnee
    BY <1>2 DEF Axes!Coordinates
  <2>2. ~\E d \in Axes!Coordinates(c) : p[1] < d /\ d < p[2]
    BY <1>2, <2>1 DEF Axes!Coordinates
  <2> QED
    BY <1>2, <2>1, <2>2 DEF Pairs, Axes!Neighbours
<1> QED
  BY <1>1, <1>2

\* The mirror of a pair of neighbours is one, with the same halves.
LEMMA RatesOfMirror ==
  ASSUME NEW c, IsCovered(c), NEW m, Mirrors(m, c)
  PROVE  Rates(c) \subseteq Rates(m)
<1>1. /\ DOMAIN m = DOMAIN c
      /\ \A i \in DOMAIN c : m[i].coordonnee = -c[i].coordonnee /\ c[i].coordonnee \in Int
  BY DEF Mirrors, IsCovered
<1>2. For(m) = For(c) /\ Against(m) = Against(c) /\ Voting(m) = Voting(c)
  BY DEF Mirrors, For, Against, Voting
<1>3. ASSUME NEW p \in Pairs(c)
      PROVE  \E q \in Pairs(m) : Gain(m, q) = Gain(c, p)
  <2>1. PICK i \in DOMAIN c, j \in DOMAIN c :
             /\ p = <<c[i].coordonnee, c[j].coordonnee>> /\ c[i].coordonnee < c[j].coordonnee
             /\ \A k \in DOMAIN c : ~(c[i].coordonnee < c[k].coordonnee /\ c[k].coordonnee < c[j].coordonnee)
    BY PairsAre
  <2> DEFINE q == <<m[j].coordonnee, m[i].coordonnee>>
             L == SideOf(c, p)
  <2>2. q \in Pairs(m)
    <3>1. m[j].coordonnee < m[i].coordonnee
      BY <1>1, <2>1
    <3>2. \A k \in DOMAIN m : ~(m[j].coordonnee < m[k].coordonnee /\ m[k].coordonnee < m[i].coordonnee)
      BY <1>1, <2>1
    <3>3. i \in DOMAIN m /\ j \in DOMAIN m
      BY <1>1
    <3> QED
      BY <3>1, <3>2, <3>3, PairsAre
  <2>3. ASSUME NEW k \in DOMAIN c
        PROVE  2 * m[k].coordonnee <= q[1] + q[2] <=> ~(2 * c[k].coordonnee <= p[1] + p[2])
    <3> DEFINE x == c[k].coordonnee
               y == c[i].coordonnee
               z == c[j].coordonnee
    <3>1. /\ m[k].coordonnee = -x /\ q[1] = -z /\ q[2] = -y /\ p[1] = y /\ p[2] = z
          /\ x \in Int /\ y \in Int /\ z \in Int /\ y < z /\ ~(y < x /\ x < z)
      BY <1>1, <2>1
    <3> HIDE DEF x, y, z, q
    <3>2. 2 * x <= y + z <=> x <= y
      BY <3>1
    <3>3. 2 * (-x) <= (-z) + (-y) <=> z <= x
      BY <3>1
    <3> QED
      BY <3>1, <3>2, <3>3 DEF x
  <2>4. SideOf(m, q) = DOMAIN c \ L
    BY <1>1, <2>3 DEF SideOf
  <2>5. L \in SUBSET DOMAIN c
    BY DEF SideOf
  <2> HIDE DEF q, L
  <2>6. Best(m, DOMAIN c \ L) = Best(c, DOMAIN c \ L)
    BY <1>1, <1>2 DEF Best
  <2>7. Best(c, DOMAIN c \ L) = Best(c, L)
    BY <2>5, BestBounded
  <2>8. Gain(m, q) = Gain(c, p)
    BY <1>2, <2>4, <2>6, <2>7 DEF Gain, L
  <2> QED
    BY <2>2, <2>8
<1> QED
  BY <1>3 DEF Rates

\* The mirror of the axis leaves the separation as it is.
LEMMA SeparationMirrored ==
  ASSUME NEW c, IsCovered(c), NEW m, Mirrors(m, c)
  PROVE  Axes!Separation(m) = Axes!Separation(c)
<1>1. IsCovered(m) /\ Mirrors(c, m)
  BY MirrorsBack
<1>2. Rates(m) = Rates(c)
  BY <1>1, RatesOfMirror
<1>3. Voting(m) = Voting(c)
  BY DEF Mirrors, Voting
<1> QED
  BY <1>1, <1>2, <1>3, SeparationIs

\* So does the exchange of the two camps.
LEMMA SeparationSwapped ==
  ASSUME NEW c, IsCovered(c), NEW m, Swaps(m, c)
  PROVE  Axes!Separation(m) = Axes!Separation(c)
<1>1. DOMAIN m = DOMAIN c /\ \A i \in DOMAIN c : m[i].coordonnee = c[i].coordonnee
  BY DEF Swaps
<1>2. For(m) = Against(c) /\ Against(m) = For(c)
  BY DEF Swaps, For, Against
<1>3. Voting(m) = Voting(c)
  <2>1. ASSUME NEW i \in DOMAIN c
        PROVE  m[i].pour + m[i].contre = c[i].pour + c[i].contre
    BY DEF Swaps, IsCovered
  <2> QED
    BY <1>1, <2>1 DEF Voting
<1>4. Pairs(m) = Pairs(c) /\ \A p : SideOf(m, p) = SideOf(c, p)
  <2>1. Axes!Coordinates(m) = Axes!Coordinates(c)
    BY <1>1 DEF Axes!Coordinates
  <2> QED
    BY <1>1, <2>1 DEF Pairs, SideOf
<1>5. \A L : Best(m, L) = Best(c, L)
  <2> TAKE L
  <2> DEFINE R == DOMAIN c \ L
  <2>1. /\ Part(For(c), L) \in Nat /\ Part(For(c), R) \in Nat
        /\ Part(Against(c), L) \in Nat /\ Part(Against(c), R) \in Nat
    BY PartsAre
  <2>2. /\ Best(m, L) = Larger(Part(Against(c), L), Part(For(c), L)) + Larger(Part(Against(c), R), Part(For(c), R))
        /\ Best(c, L) = Larger(Part(For(c), L), Part(Against(c), L)) + Larger(Part(For(c), R), Part(Against(c), R))
    BY <1>1, <1>2 DEF Best
  <2> HIDE DEF R
  <2> QED
    BY <2>1, <2>2 DEF Larger
<1>6. Rates(m) = Rates(c)
  BY <1>3, <1>4, <1>5 DEF Rates, Gain
<1> QED
  BY <1>3, <1>6, SwapsBack, SeparationIs

\* A part of the terms sums to no more than all of them, when none is negative.
LEMMA SumOfPart ==
  ASSUME NEW D, IsFiniteSet(D), NEW R \in SUBSET D, NEW f, \A i \in D : f[i] \in Nat
  PROVE  SumFunctionOnSet(f, R) <= SumFunctionOnSet(f, D)
<1> DEFINE h == [i \in D |-> IF i \in R THEN f[i] ELSE 0]
<1>1. /\ \A i \in D : h[i] \in Int /\ f[i] \in Int /\ h[i] <= f[i]
      /\ \A i \in D \ R : h[i] = 0
      /\ \A i \in R : f[i] \in Int /\ h[i] = f[i]
      /\ IsFiniteSet(R)
  BY FS_Subset
<1> HIDE DEF h
<1>2. SumFunctionOnSet(h, D) = SumFunctionOnSet(h, R)
  BY <1>1, SumPart
<1>3. SumFunctionOnSet(h, R) = SumFunctionOnSet(f, R)
  BY <1>1, SumSame
<1>4. SumFunctionOnSet(h, D) <= SumFunctionOnSet(f, D)
  BY <1>1, SumOrder
<1> QED
  BY <1>2, <1>3, <1>4

Groupes == [pour : Nat, contre : Nat, coordonnee : (-Unit..Unit) \cup {None}]

\* A scrutin's groups, and what is exchanged in all of them.
IsGroupes(g) == IsFiniteSet(DOMAIN g) /\ \A i \in DOMAIN g : g[i] \in Groupes
MirrorOf(g)  == [i \in DOMAIN g |-> Mirrored(g[i])]
SwapOf(g)    == [i \in DOMAIN g |-> Swapped(g[i])]

\* What axis.rs covers: the groups with a coordinate.
LEMMA CoveredAre ==
  ASSUME NEW g
  PROVE  Axes!Covered(g) = [i \in {k \in DOMAIN g : g[k].coordonnee # None} |-> g[i]]
BY DEF Axes!Covered, Axes!RestrictDomain, Axes!Restrict

\* What covers a scrutin is a list of groups with a coordinate.
LEMMA CoveredWell ==
  ASSUME NEW g, IsGroupes(g)
  PROVE  /\ IsCovered(Axes!Covered(g))
         /\ \A i \in DOMAIN Axes!Covered(g) : Axes!Covered(g)[i].coordonnee \in -Unit..Unit
<1> DEFINE D == {k \in DOMAIN g : g[k].coordonnee # None}
           c == Axes!Covered(g)
<1>1. DOMAIN c = D /\ \A i \in D : c[i] = g[i]
  BY CoveredAre
<1>2. IsFiniteSet(D)
  BY FS_Subset DEF IsGroupes
<1>3. \A i \in D : g[i].pour \in Nat /\ g[i].contre \in Nat /\ g[i].coordonnee \in -Unit..Unit
  BY DEF IsGroupes, Groupes
<1>4. Unit \in Nat
  BY CalculsAssumption
<1> HIDE DEF D, c
<1> QED
  BY <1>1, <1>2, <1>3, <1>4 DEF IsCovered, c

\* The mirror of a scrutin is one, its covered groups the mirror of those covered.
LEMMA MirrorWell ==
  ASSUME NEW g, IsGroupes(g)
  PROVE  /\ IsGroupes(MirrorOf(g)) /\ Voting(MirrorOf(g)) = Voting(g)
         /\ Mirrors(Axes!Covered(MirrorOf(g)), Axes!Covered(g))
<1> DEFINE m == MirrorOf(g)
<1>1. DOMAIN m = DOMAIN g /\ \A i \in DOMAIN g : m[i] = Mirrored(g[i])
  BY DEF MirrorOf
<1>2. ASSUME NEW i \in DOMAIN g
      PROVE  /\ m[i] \in Groupes /\ m[i].pour = g[i].pour /\ m[i].contre = g[i].contre
             /\ m[i].coordonnee # None <=> g[i].coordonnee # None
             /\ g[i].coordonnee # None => m[i].coordonnee = -g[i].coordonnee
  <2> DEFINE x == g[i]
  <2>1. x \in Groupes /\ m[i] = [x EXCEPT !.coordonnee = IF x.coordonnee = None THEN None ELSE -x.coordonnee]
    BY <1>1 DEF IsGroupes, Mirrored
  <2>2. Unit \in Nat /\ None \notin Int
    BY CalculsAssumption
  <2> HIDE DEF x, m
  <2>3. x.coordonnee # None => -x.coordonnee \in -Unit..Unit /\ -x.coordonnee # None
    BY <2>1, <2>2 DEF Groupes
  <2>4. m[i].coordonnee = IF x.coordonnee = None THEN None ELSE -x.coordonnee
    BY <2>1 DEF Groupes
  <2>5. m[i].pour = x.pour /\ m[i].contre = x.contre
    BY <2>1 DEF Groupes
  <2>6. m[i] \in Groupes
    BY <2>1, <2>3 DEF Groupes
  <2> QED
    BY <2>3, <2>4, <2>5, <2>6 DEF x
<1> HIDE DEF m
<1>3. IsGroupes(m)
  BY <1>1, <1>2 DEF IsGroupes
<1>4. Voting(m) = Voting(g)
  BY <1>1, <1>2 DEF Voting
<1>5. Mirrors(Axes!Covered(m), Axes!Covered(g))
  <2>1. {k \in DOMAIN m : m[k].coordonnee # None} = {k \in DOMAIN g : g[k].coordonnee # None}
    BY <1>1, <1>2
  <2> QED
    BY <1>1, <1>2, <2>1, CoveredAre DEF Mirrors
<1> QED
  BY <1>3, <1>4, <1>5 DEF m

\* So is the scrutin where the two camps are exchanged.
LEMMA SwapWell ==
  ASSUME NEW g, IsGroupes(g)
  PROVE  /\ IsGroupes(SwapOf(g)) /\ Voting(SwapOf(g)) = Voting(g)
         /\ Swaps(Axes!Covered(SwapOf(g)), Axes!Covered(g))
<1> DEFINE m == SwapOf(g)
<1>1. DOMAIN m = DOMAIN g /\ \A i \in DOMAIN g : m[i] = Swapped(g[i])
  BY DEF SwapOf
<1>2. ASSUME NEW i \in DOMAIN g
      PROVE  /\ m[i] \in Groupes /\ m[i].pour = g[i].contre /\ m[i].contre = g[i].pour
             /\ m[i].coordonnee = g[i].coordonnee
             /\ m[i].pour + m[i].contre = g[i].pour + g[i].contre
  <2> DEFINE x == g[i]
  <2>1. x \in Groupes /\ m[i] = [x EXCEPT !.pour = x.contre, !.contre = x.pour]
    BY <1>1 DEF IsGroupes, Swapped
  <2> HIDE DEF x, m
  <2>2. m[i].pour = x.contre /\ m[i].contre = x.pour /\ m[i].coordonnee = x.coordonnee
    BY <2>1 DEF Groupes
  <2>3. m[i] \in Groupes /\ x.pour \in Nat /\ x.contre \in Nat
    BY <2>1 DEF Groupes
  <2> QED
    BY <2>2, <2>3 DEF x
<1> HIDE DEF m
<1>3. IsGroupes(m)
  BY <1>1, <1>2 DEF IsGroupes
<1>4. Voting(m) = Voting(g)
  BY <1>1, <1>2 DEF Voting
<1>5. Swaps(Axes!Covered(m), Axes!Covered(g))
  <2>1. {k \in DOMAIN m : m[k].coordonnee # None} = {k \in DOMAIN g : g[k].coordonnee # None}
    BY <1>1, <1>2
  <2> QED
    BY <1>1, <1>2, <2>1, CoveredAre DEF Swaps
<1> QED
  BY <1>3, <1>4, <1>5 DEF m

\* estimate refuses on totals only.
Refused(total, for, against) ==
  IF total = 0 \/ (for + against) * CoveredDen < total * CoveredNum THEN "ancrage_insuffisant"
  ELSE IF for + against < VotantsCouvertsMin THEN "trop_peu_de_votants"
  ELSE IF for = 0 \/ against = 0 THEN "scrutin_unanime"
  ELSE "none"

\* A refusal depends on the votes of either camp and on nothing else.
LEMMA RefusIs ==
  ASSUME NEW g, IsGroupes(g)
  PROVE  LET c == Axes!Covered(g) IN
         Axes!Refus(g) = Refused(Total(Voting(g)), Total(For(c)), Total(Against(c)))
<1> DEFINE c == Axes!Covered(g)
<1>1. /\ Axes!Sum(g, Axes!Votants) = Total(Voting(g)) /\ Axes!Sum(c, Axes!Votants) = Total(Voting(c))
      /\ Axes!Sum(c, Axes!Pour) = Total(For(c)) /\ Axes!Sum(c, Axes!Contre) = Total(Against(c))
  BY SumsAre DEF Axes!Sum, Axes!Votants, Axes!Pour, Axes!Contre, Voting, For, Against
<1>2. Total(Voting(c)) = Total(For(c)) + Total(Against(c))
  BY CoveredWell, TotalsAre
<1> QED
  BY <1>1, <1>2 DEF Axes!Refus, Refused

\* So neither change makes or lifts one.
LEMMA RefusSymmetric ==
  ASSUME NEW g, IsGroupes(g)
  PROVE  Axes!Refus(MirrorOf(g)) = Axes!Refus(g) /\ Axes!Refus(SwapOf(g)) = Axes!Refus(g)
<1> DEFINE c == Axes!Covered(g)
           m == Axes!Covered(MirrorOf(g))
           s == Axes!Covered(SwapOf(g))
<1>1. IsCovered(c) /\ Mirrors(m, c) /\ Swaps(s, c)
  BY CoveredWell, MirrorWell, SwapWell
<1>2. /\ Total(For(m)) = Total(For(c)) /\ Total(Against(m)) = Total(Against(c))
      /\ Total(For(s)) = Total(Against(c)) /\ Total(Against(s)) = Total(For(c))
      /\ Total(For(c)) \in Nat /\ Total(Against(c)) \in Nat
  BY <1>1, TotalsOfMirror, TotalsOfSwap, TotalsAre
<1>3. /\ Axes!Refus(g) = Refused(Total(Voting(g)), Total(For(c)), Total(Against(c)))
      /\ Axes!Refus(MirrorOf(g)) = Refused(Total(Voting(g)), Total(For(m)), Total(Against(m)))
      /\ Axes!Refus(SwapOf(g)) = Refused(Total(Voting(g)), Total(For(s)), Total(Against(s)))
  BY MirrorWell, SwapWell, RefusIs
<1> HIDE DEF c, m, s
<1>4. Total(For(c)) + Total(Against(c)) = Total(Against(c)) + Total(For(c))
  BY <1>2
<1> QED
  BY <1>2, <1>3, <1>4 DEF Refused

\* An estimate that is not refused rests on votes on both sides.
LEMMA Estimated ==
  ASSUME NEW g, IsGroupes(g), Axes!Refus(g) = "none"
  PROVE  LET c == Axes!Covered(g) IN
         /\ Axes!Estimate(g) = [refus |-> "none", positionPour |-> Axes!PositionPour(c),
                                separation |-> Axes!Separation(c),
                                couverture |-> <<Total(Voting(c)), Total(Voting(g))>>,
                                bipolarite |-> Axes!Bipolarite(c)]
         /\ Total(Voting(c)) \in Nat \ {0} /\ Total(Against(c)) \in Nat \ {0}
         /\ Total(Voting(g)) \in Nat \ {0} /\ Total(Voting(c)) <= Total(Voting(g))
<1> DEFINE c == Axes!Covered(g)
<1>1. Axes!Sum(g, Axes!Votants) = Total(Voting(g)) /\ Axes!Sum(c, Axes!Votants) = Total(Voting(c))
  BY SumsAre DEF Axes!Sum, Axes!Votants, Voting
<1>2. /\ Total(For(c)) \in Nat /\ Total(Against(c)) \in Nat
      /\ Total(Voting(c)) = Total(For(c)) + Total(Against(c))
  BY CoveredWell, TotalsAre
<1>3. Refused(Total(Voting(g)), Total(For(c)), Total(Against(c))) = "none"
  BY RefusIs
<1>4. Total(For(c)) # 0 /\ Total(Against(c)) # 0 /\ Total(Voting(g)) # 0
  BY <1>3 DEF Refused
<1>5. Total(Voting(g)) \in Nat /\ Total(Voting(c)) <= Total(Voting(g))
  <2> DEFINE D == DOMAIN g
             R == {k \in D : g[k].coordonnee # None}
             f == Voting(g)
  <2>1. IsFiniteSet(D) /\ R \in SUBSET D /\ DOMAIN f = D
    BY DEF IsGroupes, Voting
  <2>2. \A i \in D : f[i] \in Nat
    BY DEF IsGroupes, Groupes, Voting
  <2>3. DOMAIN Voting(c) = R /\ \A i \in R : Voting(c)[i] = f[i]
    BY CoveredAre DEF Voting
  <2> HIDE DEF D, R, f, c
  <2>4. SumFunctionOnSet(f, D) \in Nat /\ SumFunctionOnSet(f, R) <= SumFunctionOnSet(f, D)
    BY <2>1, <2>2, SumNat, SumOfPart
  <2>5. \A i \in R : f[i] \in Int
    BY <2>1, <2>2
  <2>6. SumFunctionOnSet(Voting(c), R) = SumFunctionOnSet(f, R)
    BY <2>1, <2>3, <2>5, FS_Subset, SumSame
  <2>7. Total(Voting(c)) = SumFunctionOnSet(f, R) /\ Total(f) = SumFunctionOnSet(f, D)
    BY <2>1, <2>3, <2>6 DEF Total
  <2> QED
    BY <2>4, <2>7 DEF f
<1>6. Axes!Estimate(g) = [refus |-> "none", positionPour |-> Axes!PositionPour(c),
                          separation |-> Axes!Separation(c),
                          couverture |-> <<Total(Voting(c)), Total(Voting(g))>>,
                          bipolarite |-> Axes!Bipolarite(c)]
  BY <1>1 DEF Axes!Estimate
<1> HIDE DEF c
<1>7. Total(Voting(c)) \in Nat \ {0} /\ Total(Against(c)) \in Nat \ {0}
  BY <1>2, <1>4
<1> QED
  BY <1>4, <1>5, <1>6, <1>7 DEF c

\* What is left of the input is a list of groups, whatever it is fed next.
GroupesInv == kind = "groupes" => input \in Seq(GroupeItems)

\* AddGroupe appends a group, the other actions need another kind.
LEMMA GroupesInductive ==
  Spec => []GroupesInv
<1>1. Init => GroupesInv
  BY DEF Init, GroupesInv
<1>2. GroupesInv /\ [Next]_vars => GroupesInv'
  <2> SUFFICES ASSUME GroupesInv, [Next]_vars
               PROVE  GroupesInv'
    OBVIOUS
  <2>1. CASE AddGroupe
    <3>1. PICK g \in GroupeItems : kind = "groupes" /\ kind' = kind /\ input' = Append(input, g)
      BY <2>1 DEF AddGroupe, Add
    <3>2. input \in Seq(GroupeItems)
      BY <3>1 DEF GroupesInv
    <3> QED
      BY <3>1, <3>2 DEF GroupesInv
  <2>2. CASE AddMandat \/ AddSegment \/ AddScrutin
    BY <2>2 DEF AddMandat, AddSegment, AddScrutin, Add, GroupesInv
  <2>3. CASE UNCHANGED vars
    BY <2>3 DEF vars, GroupesInv
  <2> QED
    BY <2>1, <2>2, <2>3 DEF Next
<1> QED
  BY <1>1, <1>2, PTL DEF Spec

\* The input is a scrutin, and its two changes those of the property.
LEMMA GroupesFed ==
  ASSUME GroupesInv, kind = "groupes"
  PROVE  /\ IsGroupes(input)
         /\ Each(Mirrored) = MirrorOf(input) /\ Each(Swapped) = SwapOf(input)
<1>1. input \in Seq(GroupeItems) /\ DOMAIN input = 1..Len(input) /\ Len(input) \in Nat
  BY DEF GroupesInv
<1>2. \A i \in DOMAIN input : input[i] \in Groupes
  BY <1>1, CalculsAssumption DEF Groupes
<1>3. IsFiniteSet(DOMAIN input)
  BY <1>1, FS_Interval
<1> QED
  BY <1>2, <1>3 DEF IsGroupes, Each, MirrorOf, SwapOf

\* AxisSymmetric: the estimate favours neither side, whatever the groups of
\* the scrutin, their coordinates and their votes.
THEOREM AxisSymmetricCorrect ==
  Spec => []AxisSymmetric
<1>1. GroupesInv => AxisSymmetric
  <2> SUFFICES ASSUME GroupesInv, kind = "groupes"
               PROVE  AxisSymmetric
    BY DEF AxisSymmetric
  <2> DEFINE g == input
             m == MirrorOf(g)
             s == SwapOf(g)
             c == Axes!Covered(g)
             cm == Axes!Covered(m)
             cs == Axes!Covered(s)
  <2>1. IsGroupes(g) /\ Each(Mirrored) = m /\ Each(Swapped) = s
    BY GroupesFed
  <2>2. IsGroupes(m) /\ IsGroupes(s) /\ Voting(m) = Voting(g) /\ Voting(s) = Voting(g)
    BY <2>1, MirrorWell, SwapWell
  <2>3. Axes!Refus(m) = Axes!Refus(g) /\ Axes!Refus(s) = Axes!Refus(g)
    BY <2>1, RefusSymmetric
  <2>4. CASE Axes!Refus(g) # "none"
    <3>1. /\ Axes!Estimate(g) = [refus |-> Axes!Refus(g)] /\ Axes!Estimate(m) = [refus |-> Axes!Refus(g)]
          /\ Axes!Estimate(s) = [refus |-> Axes!Refus(g)]
      BY <2>3, <2>4 DEF Axes!Estimate
    <3> HIDE DEF g, m, s
    <3> QED
      BY <2>1, <2>4, <3>1 DEF AxisSymmetric, g
  <2>5. CASE Axes!Refus(g) = "none"
    <3> DEFINE P == Axes!PositionPour(c)
               v == Total(Voting(c))
               w == Total(Voting(g))
    <3>1. IsCovered(c) /\ Mirrors(cm, c) /\ Swaps(cs, c)
      BY <2>1, CoveredWell, MirrorWell, SwapWell
    <3>2. /\ Axes!PositionPour(cm) = <<-P[1], P[2]>> /\ Axes!PositionPour(cs) = <<-P[1], P[2]>>
          /\ Axes!Separation(cm) = Axes!Separation(c) /\ Axes!Separation(cs) = Axes!Separation(c)
          /\ Axes!Bipolarite(cm) = Axes!Bipolarite(c)
      BY <3>1, PositionMirrored, PositionSwapped, SeparationMirrored, SeparationSwapped,
         BipolariteMirrored
    <3>3. Total(Voting(cm)) = v
      <4>1. IsCovered(cm)
        BY <3>1, MirrorsBack
      <4> QED
        BY <3>1, <4>1, TotalsAre, TotalsOfMirror
    <3>4. /\ Axes!Estimate(g) = [refus |-> "none", positionPour |-> P, separation |-> Axes!Separation(c),
                                 couverture |-> <<v, w>>, bipolarite |-> Axes!Bipolarite(c)]
          /\ v \in Nat \ {0} /\ Total(Against(c)) \in Nat \ {0} /\ w \in Nat \ {0} /\ v <= w
      BY <2>1, <2>5, Estimated
    <3>5. Axes!Estimate(m) = [refus |-> "none", positionPour |-> Axes!PositionPour(cm),
                              separation |-> Axes!Separation(cm),
                              couverture |-> <<Total(Voting(cm)), Total(Voting(m))>>,
                              bipolarite |-> Axes!Bipolarite(cm)]
      BY <2>2, <2>3, <2>5, Estimated
    <3>6. Axes!Estimate(s) = [refus |-> "none", positionPour |-> Axes!PositionPour(cs),
                              separation |-> Axes!Separation(cs),
                              couverture |-> <<Total(Voting(cs)), Total(Voting(s))>>,
                              bipolarite |-> Axes!Bipolarite(cs)]
      BY <2>2, <2>3, <2>5, Estimated
    <3>7. P[1] \in -P[2]..P[2]
      <4>1. PICK n \in Int, k \in Nat : P = <<Bounded(n, k), k>>
        BY <3>1, PositionIs
      <4>2. -n \in Int /\ Bounded(n, k) \in -k..k
        BY BoundedOpposite
      <4> QED
        BY <4>1, <4>2
    <3>8. Axes!Separation(c)[2] = v /\ Axes!Separation(c)[1] \in 0..v
      BY <3>1, SeparationIs, RatesBounded
    <3>9. Axes!Bipolarite(c)[2] = Total(Against(c)) /\ Axes!Bipolarite(c)[1] \in 0..Total(Against(c))
      BY <3>1, BipolariteBounded
    <3> DEFINE e == Axes!Estimate(g)
               negated == [e EXCEPT !.positionPour = <<-e.positionPour[1], e.positionPour[2]>>]
               share(f) == f[2] > 0 /\ f[1] \in 0..f[2]
    <3> HIDE DEF m, s, cm, cs, c, P, v, w
    <3>10. /\ e.refus = "none" /\ e.positionPour = P /\ e.separation = Axes!Separation(c)
           /\ e.couverture = <<v, w>> /\ e.bipolarite = Axes!Bipolarite(c)
      BY <3>4
    <3>11. Axes!Estimate(m) = negated
      BY <2>2, <3>2, <3>3, <3>4, <3>5 DEF w
    <3>12. negated.positionPour = <<-P[1], P[2]>>
      BY <3>4
    <3>13. Axes!Estimate(s).positionPour = negated.positionPour /\ Axes!Estimate(s).separation = e.separation
      BY <3>2, <3>6, <3>10, <3>12
    <3>14. share(e.separation) /\ share(e.couverture) /\ share(e.bipolarite)
      BY <3>4, <3>8, <3>9, <3>10
    <3>15. e.positionPour[1] \in -e.positionPour[2]..e.positionPour[2]
      BY <3>7, <3>10
    <3> HIDE DEF e
    <3> QED
      BY <2>1, <3>10, <3>11, <3>13, <3>14, <3>15 DEF AxisSymmetric, e
  <2> QED
    BY <2>4, <2>5
<1> QED
  BY <1>1, GroupesInductive, PTL
-----------------------------------------------------------------------------
(* The separation and the answers it stands for.                             *)

\* The groups at t or to the left of it.
Below(c, t) == {i \in DOMAIN c : c[i].coordonnee <= t}

\* A sum over no group is zero.
LEMMA NothingInNone ==
  ASSUME NEW f, IsFiniteSet(DOMAIN f)
  PROVE  Part(f, {}) = 0
<1> DEFINE D == DOMAIN f
           h == [i \in D |-> IF i \in {} THEN f[i] ELSE 0]
<1>1. IsFiniteSet(D) /\ {} \in SUBSET D /\ \A i \in D : h[i] = 0
  OBVIOUS
<1> HIDE DEF D, h
<1>2. (\A i \in D : h[i] \in Int) /\ (\A i \in D \ {} : h[i] = 0)
  BY <1>1
<1>3. SumFunctionOnSet(h, D) = SumFunctionOnSet(h, {})
  BY <1>1, <1>2, SumPart
<1> QED
  BY <1>3, SumEmpty DEF Part, D, h

\* The votes of those who answer "for" to the right of t and "against" elsewhere.
LEMMA RightIs ==
  ASSUME NEW c, IsCovered(c), NEW t \in Int
  PROVE  Votes(c, LAMBDA g : IF g.coordonnee > t THEN g.pour ELSE g.contre) =
           Part(For(c), DOMAIN c \ Below(c, t)) + Part(Against(c), Below(c, t))
<1> DEFINE D == DOMAIN c
           L == Below(c, t)
           h == [i \in D |-> IF c[i].coordonnee > t THEN c[i].pour ELSE c[i].contre]
           f == [i \in D |-> IF i \in D \ L THEN For(c)[i] ELSE 0]
           a == [i \in D |-> IF i \in L THEN Against(c)[i] ELSE 0]
<1>1. /\ DOMAIN h = D /\ DOMAIN For(c) = D /\ DOMAIN Against(c) = D
      /\ Votes(c, LAMBDA g : IF g.coordonnee > t THEN g.pour ELSE g.contre) = Total(h)
  BY SumsAre DEF Votes, Axes!Sum, For, Against
<1>2. ASSUME NEW i \in D
      PROVE  f[i] \in Int /\ a[i] \in Int /\ h[i] = f[i] + a[i]
  <2>1. c[i].pour \in Nat /\ c[i].contre \in Nat /\ c[i].coordonnee \in Int
    BY DEF IsCovered
  <2>2. i \in L <=> ~(c[i].coordonnee > t)
    BY <2>1 DEF Below
  <2>3. For(c)[i] = c[i].pour /\ Against(c)[i] = c[i].contre
    BY DEF For, Against
  <2> QED
    BY <2>1, <2>2, <2>3
<1>3. IsFiniteSet(D)
  BY DEF IsCovered
<1>4. Part(For(c), D \ L) = SumFunctionOnSet(f, D) /\ Part(Against(c), L) = SumFunctionOnSet(a, D)
  BY <1>1 DEF Part
<1> HIDE DEF D, L, h, f, a
<1>5. SumFunctionOnSet(h, D) = SumFunctionOnSet(f, D) + SumFunctionOnSet(a, D)
  BY <1>2, <1>3, SumPlus
<1> QED
  BY <1>1, <1>4, <1>5 DEF Total, D, L

\* A threshold between two groups is one between two neighbours.
LEMMA Threshold ==
  ASSUME NEW c, IsCovered(c), NEW t \in Int, NEW i \in DOMAIN c, NEW j \in DOMAIN c,
         c[i].coordonnee <= t, t < c[j].coordonnee
  PROVE  \E pair \in Pairs(c) : SideOf(c, pair) = Below(c, t)
<1> DEFINE L == Below(c, t)
           R == DOMAIN c \ L
           f == [k \in L |-> c[k].coordonnee]
           h == [k \in R |-> -c[k].coordonnee]
<1>1. \A k \in DOMAIN c : c[k].coordonnee \in Int /\ (k \in L <=> c[k].coordonnee <= t)
  BY DEF IsCovered, Below
<1>2. i \in L /\ j \in R /\ L \subseteq DOMAIN c
  BY <1>1 DEF Below
<1>3. IsFiniteSet(L) /\ IsFiniteSet(R)
  BY <1>2, FS_Subset DEF IsCovered
<1>4. /\ \A k \in L : f[k] = c[k].coordonnee /\ f[k] \in Int
      /\ \A k \in R : h[k] = -c[k].coordonnee /\ h[k] \in Int
  BY <1>1, <1>2
<1> HIDE DEF L, R, f, h
<1>5. L # {} /\ R # {}
  BY <1>2
<1>6. PICK k \in L : \A x \in L : f[x] <= f[k]
  BY <1>3, <1>4, <1>5, GreatestAt
<1>7. PICK l \in R : \A y \in R : h[y] <= h[l]
  BY <1>3, <1>4, <1>5, GreatestAt
<1> DEFINE p == c[k].coordonnee
           q == c[l].coordonnee
<1>8. p \in Int /\ q \in Int /\ p <= t /\ t < q /\ k \in DOMAIN c /\ l \in DOMAIN c
  BY <1>1, <1>2, <1>6, <1>7 DEF R
<1>9. ASSUME NEW n \in DOMAIN c
      PROVE  /\ c[n].coordonnee \in Int
             /\ IF n \in L THEN c[n].coordonnee <= p ELSE q <= c[n].coordonnee
  <2>1. n \in L => c[n].coordonnee <= p
    BY <1>4, <1>6
  <2>2. n \notin L => -c[n].coordonnee <= -q
    BY <1>4, <1>7 DEF R
  <2> QED
    BY <1>1, <1>8, <2>1, <2>2
<1> HIDE DEF p, q
<1>10. \A n \in DOMAIN c : ~(p < c[n].coordonnee /\ c[n].coordonnee < q)
  BY <1>8, <1>9
<1>11. <<p, q>> \in Pairs(c)
  BY <1>8, <1>10, PairsAre DEF p, q
<1>12. \A n \in DOMAIN c : 2 * c[n].coordonnee <= p + q <=> n \in L
  BY <1>8, <1>9
<1>13. SideOf(c, <<p, q>>) = L
  BY <1>2, <1>12 DEF SideOf
<1> QED
  BY <1>11, <1>13 DEF L

\* The votes on the right answer, for the answer "for to the right of t".
ForRight(c, t) == Part(For(c), DOMAIN c \ Below(c, t)) + Part(Against(c), Below(c, t))

\* The votes on the right answer and those against it are all of them.
LEMMA ForRightIs ==
  ASSUME NEW c, IsCovered(c), NEW t
  PROVE  /\ ForRight(c, t) \in Nat
         /\ Total(Voting(c)) - ForRight(c, t) =
              Part(For(c), Below(c, t)) + Part(Against(c), DOMAIN c \ Below(c, t))
<1> DEFINE L == Below(c, t)
           R == DOMAIN c \ L
<1>1. Total(Voting(c)) = Total(For(c)) + Total(Against(c))
  BY TotalsAre
<1>2. /\ Part(For(c), L) \in Nat /\ Part(For(c), R) \in Nat
      /\ Part(Against(c), L) \in Nat /\ Part(Against(c), R) \in Nat
      /\ Total(For(c)) = Part(For(c), L) + Part(For(c), R)
      /\ Total(Against(c)) = Part(Against(c), L) + Part(Against(c), R)
  BY PartsAre
<1>3. ForRight(c, t) = Part(For(c), R) + Part(Against(c), L)
  BY DEF ForRight
<1> HIDE DEF L, R
<1>4. /\ ForRight(c, t) \in Nat
      /\ Total(Voting(c)) - ForRight(c, t) = Part(For(c), L) + Part(Against(c), R)
  BY <1>1, <1>2, <1>3
<1> QED
  BY <1>4 DEF L, R

\* The two answers that ignore the axis, and those of a threshold, are no
\* better than the best pair of neighbours.
LEMMA AnswersBounded ==
  ASSUME NEW c, IsCovered(c), NEW pair \in Pairs(c)
  PROVE  LET v == Total(Voting(c))
             r == Axes!Max(Rates(c))
         IN  /\ 2 * Total(For(c)) - v <= r /\ 2 * Total(Against(c)) - v <= r
             /\ \A t \in Int : 2 * ForRight(c, t) - v <= r /\ 2 * (v - ForRight(c, t)) - v <= r
<1> DEFINE v == Total(Voting(c))
           r == Axes!Max(Rates(c))
           D == DOMAIN c
<1>1. v \in Nat /\ r \in Int /\ Total(For(c)) \in Nat /\ Total(Against(c)) \in Nat
  BY TotalsAre, RatesBounded
<1>2. ASSUME NEW p \in Pairs(c)
      PROVE  Best(c, SideOf(c, p)) \in Int /\ 2 * Best(c, SideOf(c, p)) - v <= r
  <2>1. SideOf(c, p) \in SUBSET D /\ Gain(c, p) \in Rates(c)
    BY DEF SideOf, Rates
  <2>2. Best(c, SideOf(c, p)) \in 0..v
    BY <2>1, BestBounded
  <2> QED
    BY <1>1, <2>1, <2>2, RatesBounded DEF Gain
<1>3. Total(For(c)) <= Best(c, SideOf(c, pair)) /\ Total(Against(c)) <= Best(c, SideOf(c, pair))
  <2> DEFINE L == SideOf(c, pair)
  <2>1. L \in SUBSET D
    BY DEF SideOf
  <2>2. /\ Part(For(c), L) + Part(For(c), D \ L) <= Best(c, L)
        /\ Part(Against(c), L) + Part(Against(c), D \ L) <= Best(c, L)
    BY <2>1, BestBounded
  <2>3. /\ Total(For(c)) = Part(For(c), L) + Part(For(c), D \ L)
        /\ Total(Against(c)) = Part(Against(c), L) + Part(Against(c), D \ L)
    BY PartsAre
  <2> HIDE DEF L, D
  <2> QED
    BY <2>2, <2>3 DEF L
<1> HIDE DEF v, r, D
<1>4. 2 * Total(For(c)) - v <= r /\ 2 * Total(Against(c)) - v <= r
  BY <1>1, <1>2, <1>3
<1>5. ASSUME NEW t \in Int
      PROVE  2 * ForRight(c, t) - v <= r /\ 2 * (v - ForRight(c, t)) - v <= r
  <2> DEFINE L == Below(c, t)
             R == D \ L
             F(X) == Part(For(c), X)
             A(X) == Part(Against(c), X)
  <2>1. /\ ForRight(c, t) = F(R) + A(L) /\ v - ForRight(c, t) = F(L) + A(R)
        /\ ForRight(c, t) \in Nat
    BY ForRightIs DEF ForRight, v, D
  <2>2. /\ F(L) \in Nat /\ F(R) \in Nat /\ A(L) \in Nat /\ A(R) \in Nat
        /\ Total(For(c)) = F(L) + F(R) /\ Total(Against(c)) = A(L) + A(R)
    BY PartsAre DEF D
  <2>3. L \in SUBSET D
    BY DEF Below, D
  <2>4. IsFiniteSet(DOMAIN For(c)) /\ IsFiniteSet(DOMAIN Against(c))
    BY DEF IsCovered, For, Against
  <2>5. CASE L = {}
    <3>1. F(L) = 0 /\ A(L) = 0
      BY <2>4, <2>5, NothingInNone
    <3> HIDE DEF F, A, L, R
    <3> QED
      BY <1>1, <1>4, <2>1, <2>2, <3>1
  <2>6. CASE R = {}
    <3>1. F(R) = 0 /\ A(R) = 0
      BY <2>4, <2>6, NothingInNone
    <3> HIDE DEF F, A, L, R
    <3> QED
      BY <1>1, <1>4, <2>1, <2>2, <3>1
  <2>7. CASE L # {} /\ R # {}
    <3>1. PICK i \in D, j \in D : c[i].coordonnee <= t /\ t < c[j].coordonnee
      BY <2>7 DEF Below, IsCovered, D
    <3>2. PICK p \in Pairs(c) : SideOf(c, p) = L
      BY <3>1, Threshold DEF D
    <3>3. F(R) + A(L) <= Best(c, L) /\ F(L) + A(R) <= Best(c, L)
      <4>1. /\ Part(For(c), L) + Part(Against(c), R) <= Best(c, L)
            /\ Part(Against(c), L) + Part(For(c), R) <= Best(c, L)
        BY <2>3, BestBounded DEF D
      <4> QED
        BY <2>2, <4>1
    <3>4. Best(c, L) \in Int /\ 2 * Best(c, L) - v <= r
      BY <1>2, <3>2
    <3> HIDE DEF F, A, L, R
    <3> QED
      BY <1>1, <2>1, <2>2, <3>3, <3>4
  <2> QED
    BY <2>5, <2>6, <2>7
<1> QED
  BY <1>4, <1>5 DEF v, r

\* What the best pair of neighbours stands for is one of these answers.
LEMMA BestIsAnAnswer ==
  ASSUME NEW c, IsCovered(c), \A i \in DOMAIN c : c[i].coordonnee \in -Unit..Unit,
         NEW pair \in Pairs(c)
  PROVE  \E t \in -Unit..Unit :
           Best(c, SideOf(c, pair)) \in {Total(For(c)), Total(Against(c)),
                                         ForRight(c, t), Total(Voting(c)) - ForRight(c, t)}
<1>1. PICK i \in DOMAIN c, j \in DOMAIN c :
        pair = <<c[i].coordonnee, c[j].coordonnee>> /\ c[i].coordonnee < c[j].coordonnee
  BY PairsAre
<1> DEFINE p == c[i].coordonnee
           q == c[j].coordonnee
           t == (p + q) \div 2
<1>2. Unit \in Nat /\ p \in -Unit..Unit /\ q \in -Unit..Unit
  BY CalculsAssumption
<1>3. t \in -Unit..Unit
  <2> HIDE DEF p, q
  <2> QED
    BY <1>2
<1>4. SideOf(c, pair) = Below(c, t)
  <2>1. ASSUME NEW x \in Int
        PROVE  2 * x <= p + q <=> x <= t
    <3> HIDE DEF p, q
    <3> QED
      BY <1>2
  <2>2. \A k \in DOMAIN c : c[k].coordonnee \in Int
    BY DEF IsCovered
  <2>3. pair[1] = p /\ pair[2] = q
    BY <1>1
  <2> HIDE DEF p, q, t
  <2> QED
    BY <2>1, <2>2, <2>3 DEF SideOf, Below
<1> HIDE DEF t
<1>5. Below(c, t) \in SUBSET DOMAIN c
  BY DEF Below
<1> DEFINE L == Below(c, t)
           R == DOMAIN c \ L
<1>6. /\ Total(For(c)) = Part(For(c), L) + Part(For(c), R)
      /\ Total(Against(c)) = Part(Against(c), L) + Part(Against(c), R)
  BY PartsAre
<1>7. /\ ForRight(c, t) = Part(For(c), R) + Part(Against(c), L)
      /\ Total(Voting(c)) - ForRight(c, t) = Part(For(c), L) + Part(Against(c), R)
  BY ForRightIs DEF ForRight
<1>8. Best(c, L) \in {Part(For(c), L) + Part(For(c), R), Part(For(c), L) + Part(Against(c), R),
                      Part(Against(c), L) + Part(For(c), R), Part(Against(c), L) + Part(Against(c), R)}
  BY <1>5, BestBounded
<1>9. Part(For(c), R) + Part(Against(c), L) = Part(Against(c), L) + Part(For(c), R)
  BY PartsAre
<1> HIDE DEF L, R
<1>10. Best(c, L) \in {Total(For(c)), Total(Against(c)), ForRight(c, t), Total(Voting(c)) - ForRight(c, t)}
  BY <1>6, <1>7, <1>8, <1>9
<1> QED
  BY <1>3, <1>4, <1>10 DEF L

\* Two coordinates differ exactly when there is a pair of neighbours.
LEMMA FewCoordinates ==
  ASSUME NEW c, IsCovered(c), \A i \in DOMAIN c : c[i].coordonnee \in -Unit..Unit
  PROVE  Cardinality(Axes!Coordinates(c)) < 2 <=> Pairs(c) = {}
<1> DEFINE S == Axes!Coordinates(c)
<1>1. S \subseteq -Unit..Unit /\ \A x \in S : \E i \in DOMAIN c : x = c[i].coordonnee
  BY DEF Axes!Coordinates
<1>2. IsFiniteSet(S) /\ Cardinality(S) \in Nat
  <2>1. IsFiniteSet(-Unit..Unit)
    BY CalculsAssumption, FS_Interval
  <2> QED
    BY <1>1, <2>1, FS_Subset, FS_CardinalityType
<1>3. ASSUME NEW p \in Pairs(c)
      PROVE  ~(Cardinality(S) < 2)
  <2>1. PICK i \in DOMAIN c, j \in DOMAIN c : c[i].coordonnee < c[j].coordonnee
    BY PairsAre
  <2> DEFINE a == c[i].coordonnee
             b == c[j].coordonnee
  <2>2. a \in S /\ b \in S \ {a}
    BY <2>1 DEF Axes!Coordinates, IsCovered
  <2> HIDE DEF a, b, S
  <2>3. IsFiniteSet(S \ {a}) /\ Cardinality(S \ {a}) \in Nat /\ Cardinality(S) = Cardinality(S \ {a}) + 1
    BY <1>2, <2>2, OneLess
  <2>4. /\ Cardinality((S \ {a}) \ {b}) \in Nat
        /\ Cardinality(S \ {a}) = Cardinality((S \ {a}) \ {b}) + 1
    BY <2>2, <2>3, OneLess
  <2> QED
    BY <2>3, <2>4
<1>4. ASSUME Pairs(c) = {}
      PROVE  Cardinality(S) < 2
  <2>1. ASSUME NEW i \in DOMAIN c, NEW j \in DOMAIN c
        PROVE  ~(c[i].coordonnee < c[j].coordonnee)
    <3>1. c[i].coordonnee \in Int
      BY DEF IsCovered
    <3> QED
      BY <1>4, <3>1, Threshold
  <2>2. \A x, y \in S : x = y
    <3> SUFFICES ASSUME NEW x \in S, NEW y \in S
                 PROVE  x = y
      OBVIOUS
    <3>1. x \in Int /\ y \in Int /\ ~(x < y) /\ ~(y < x)
      BY <1>1, <2>1, CalculsAssumption
    <3> QED
      BY <3>1
  <2> HIDE DEF S
  <2>3. CASE S = {}
    BY <2>3, FS_EmptySet
  <2>4. CASE S # {}
    <3>1. PICK x \in S : S = {x}
      BY <2>2, <2>4
    <3>2. Cardinality(S) = 1
      BY <3>1, FS_Singleton
    <3> QED
      BY <3>2
  <2> QED
    BY <2>3, <2>4
<1> QED
  BY <1>3, <1>4

\* A member that bounds the others from above is their maximum.
LEMMA MaxOf ==
  ASSUME NEW S, NEW m \in S, \A x \in S : x \in Int /\ x <= m
  PROVE  Max(S) = m
BY DEF Max

\* SeparationIsBest: the separation is the one of the best answer to either
\* side of any threshold, or of those that ignore the axis, whatever the groups.
THEOREM SeparationIsBestCorrect ==
  Spec => []SeparationIsBest
<1>1. GroupesInv => SeparationIsBest
  <2> SUFFICES ASSUME GroupesInv, kind = "groupes", Axes!Refus(input) = "none"
               PROVE  SeparationIsBest
    BY DEF SeparationIsBest
  <2> DEFINE c == Axes!Covered(input)
             v == Total(Voting(c))
             r == Axes!Max(Rates(c))
             rightFor(t) == Votes(c, LAMBDA g : IF g.coordonnee > t THEN g.pour ELSE g.contre)
             constants == {Votes(c, Axes!Pour), Votes(c, Axes!Contre)}
             answers == UNION {{rightFor(t), v - rightFor(t)} : t \in -Unit..Unit}
             A == {0} \cup {2 * a - v : a \in answers \cup constants}
  <2>1. IsGroupes(input)
    BY GroupesFed
  <2>2. IsCovered(c) /\ \A i \in DOMAIN c : c[i].coordonnee \in -Unit..Unit
    BY <2>1, CoveredWell
  <2>3. Axes!Estimate(input).separation = <<r, v>>
    <3>1. Axes!Estimate(input).separation = Axes!Separation(c)
      BY <2>1, Estimated
    <3> QED
      BY <2>2, <3>1, SeparationIs
  <2>4. /\ Votes(c, Axes!Votants) = v
        /\ constants = {Total(For(c)), Total(Against(c))}
    BY SumsAre DEF Votes, Axes!Sum, Axes!Votants, Axes!Pour, Axes!Contre, Voting, For, Against
  <2>5. Unit \in Nat /\ \A t \in -Unit..Unit : t \in Int /\ rightFor(t) = ForRight(c, t)
    <3>1. Unit \in Nat
      BY CalculsAssumption
    <3>2. ASSUME NEW t \in -Unit..Unit
          PROVE  t \in Int /\ rightFor(t) = ForRight(c, t)
      <4>1. t \in Int
        BY <3>1
      <4> HIDE DEF c
      <4>2. Votes(c, LAMBDA g : IF g.coordonnee > t THEN g.pour ELSE g.contre) = ForRight(c, t)
        BY <2>2, <4>1, RightIs DEF ForRight
      <4> QED
        BY <4>1, <4>2
    <3> QED
      BY <3>1, <3>2
  <2>6. /\ v \in Nat /\ r \in Rates(c) /\ r \in 0..v
        /\ Total(For(c)) \in Nat /\ Total(Against(c)) \in Nat
    BY <2>2, TotalsAre, RatesBounded
  <2>7. CASE Pairs(c) = {}
    <3>1. Cardinality(Axes!Coordinates(c)) < 2
      BY <2>2, <2>7, FewCoordinates
    <3>2. r = 0
      BY <2>6, <2>7 DEF Rates
    <3> HIDE DEF c, v, r, rightFor, constants, answers
    <3> QED
      BY <2>3, <2>4, <3>1, <3>2 DEF SeparationIsBest, c, v, r
  <2>8. CASE Pairs(c) # {}
    <3>1. ~(Cardinality(Axes!Coordinates(c)) < 2)
      BY <2>2, <2>8, FewCoordinates
    <3>2. PICK pair \in Pairs(c) : TRUE
      BY <2>8
    <3> HIDE DEF c, v, r, rightFor
    <3>3. /\ 2 * Total(For(c)) - v <= r /\ 2 * Total(Against(c)) - v <= r
          /\ \A t \in Int : 2 * ForRight(c, t) - v <= r /\ 2 * (v - ForRight(c, t)) - v <= r
      BY <2>2, AnswersBounded DEF v, r
    <3>4. \A t \in -Unit..Unit : ForRight(c, t) \in Int
      <4>1. \A t : ForRight(c, t) \in Nat
        BY <2>2, ForRightIs
      <4> QED
        BY <4>1
    <3>5. \A a \in answers \cup constants : a \in Int /\ 2 * a - v <= r
      <4>1. \A a \in constants : a \in Int /\ 2 * a - v <= r
        <5> HIDE DEF constants
        <5> QED
          BY <2>4, <2>6, <3>3
      <4>2. ASSUME NEW t \in -Unit..Unit, NEW a \in {rightFor(t), v - rightFor(t)}
            PROVE  a \in Int /\ 2 * a - v <= r
        BY <2>5, <2>6, <3>3, <3>4
      <4> QED
        BY <4>1, <4>2
    <3>6. \A x \in A : x \in Int /\ x <= r
      BY <2>6, <3>5
    <3>7. r \in A
      <4>1. CASE r = 0
        BY <4>1
      <4>2. CASE r # 0
        <5>1. PICK p \in Pairs(c) : r = Gain(c, p)
          BY <2>6, <4>2 DEF Rates
        <5>2. PICK t \in -Unit..Unit :
                Best(c, SideOf(c, p)) \in {Total(For(c)), Total(Against(c)),
                                           ForRight(c, t), v - ForRight(c, t)}
          BY <2>2, BestIsAnAnswer DEF v
        <5>3. Best(c, SideOf(c, p)) \in answers \cup constants
          BY <2>4, <2>5, <5>2
        <5>4. r = 2 * Best(c, SideOf(c, p)) - v
          BY <5>1 DEF Gain, v
        <5> HIDE DEF answers, constants
        <5> QED
          BY <5>3, <5>4
      <4> QED
        BY <4>1, <4>2
    <3> HIDE DEF A
    <3>8. Max(A) = r
      BY <3>6, <3>7, MaxOf
    <3> QED
      BY <2>3, <2>4, <3>1, <3>8 DEF SeparationIsBest, A, c, v, r, rightFor
  <2> QED
    BY <2>7, <2>8
<1> QED
  BY <1>1, GroupesInductive, PTL

-----------------------------------------------------------------------------
(* Sums over two sets, and double sums.                                      *)

\* The terms that are not zero make the sum.
LEMMA TotalOfPart ==
  ASSUME NEW f, IsFiniteSet(DOMAIN f), NEW g, DOMAIN g \subseteq DOMAIN f,
         \A i \in DOMAIN f : f[i] \in Int,
         \A i \in DOMAIN g : g[i] = f[i],
         \A i \in DOMAIN f \ DOMAIN g : f[i] = 0
  PROVE  Total(f) = Total(g) /\ Total(f) \in Int
<1> DEFINE D == DOMAIN f
           R == DOMAIN g
<1>1. IsFiniteSet(R) /\ R \in SUBSET D
  BY FS_Subset
<1>2. SumFunctionOnSet(f, D) = SumFunctionOnSet(f, R)
  BY <1>1, SumPart
<1>3. SumFunctionOnSet(g, R) = SumFunctionOnSet(f, R)
  BY <1>1, SumSame
<1>4. SumFunctionOnSet(f, D) \in Int
  BY SumPull
<1> QED
  BY <1>2, <1>3, <1>4 DEF Total

\* A sum over two sets without a common member.
LEMMA SumOfTwo ==
  ASSUME NEW S, IsFiniteSet(S), NEW R, IsFiniteSet(R), S \cap R = {},
         NEW f, \A x \in S \cup R : f[x] \in Int
  PROVE  SumFunctionOnSet(f, S \cup R) = SumFunctionOnSet(f, S) + SumFunctionOnSet(f, R)
<1> DEFINE sum(s) == SumFunctionOnSet(f, s)
           T == {s \in SUBSET S : sum(s \cup R) = sum(s) + sum(R)}
<1>0. sum(R) \in Int
  BY SumPull
<1>1. {} \in T
  <2>1. sum({}) = 0 /\ {} \cup R = R
    BY SumEmpty
  <2> HIDE DEF sum
  <2> QED
    BY <1>0, <2>1
<1>2. ASSUME NEW s \in SUBSET S, NEW x \in S \ s, s \in T
      PROVE  s \cup {x} \in T
  <2>1. IsFiniteSet(s) /\ IsFiniteSet(s \cup R) /\ x \notin s \cup R
    BY FS_Subset, FS_Union
  <2>2. /\ sum(s) \in Int /\ sum(s \cup {x}) = f[x] + sum(s)
        /\ sum((s \cup R) \cup {x}) = f[x] + sum(s \cup R)
    <3>1. f[x] \in Int /\ (\A y \in s : f[y] \in Int) /\ (\A y \in s \cup R : f[y] \in Int)
      OBVIOUS
    <3> QED
      BY <2>1, <3>1, SumMore
  <2>3. (s \cup {x}) \cup R = (s \cup R) \cup {x}
    OBVIOUS
  <2> HIDE DEF sum
  <2>4. sum(s \cup R) = sum(s) + sum(R) /\ f[x] \in Int
    BY <1>2
  <2>5. sum((s \cup {x}) \cup R) = sum(s \cup {x}) + sum(R)
    <3>1. sum((s \cup {x}) \cup R) = f[x] + (sum(s) + sum(R))
      BY <2>2, <2>3, <2>4
    <3>2. f[x] + (sum(s) + sum(R)) = (f[x] + sum(s)) + sum(R)
      BY <1>0, <2>2, <2>4
    <3> QED
      BY <2>2, <3>1, <3>2
  <2> QED
    BY <2>5
<1> HIDE DEF T
<1>3. S \in T
  BY <1>1, <1>2, SetInduction
<1> QED
  BY <1>3 DEF T

\* A sum of ones counts.
LEMMA SumOfOnes ==
  ASSUME NEW S, IsFiniteSet(S), NEW f, \A x \in S : f[x] = 1
  PROVE  SumFunctionOnSet(f, S) = Cardinality(S)
<1> DEFINE T == {s \in SUBSET S : SumFunctionOnSet(f, s) = Cardinality(s)}
<1>1. {} \in T
  BY SumEmpty, FS_EmptySet
<1>2. ASSUME NEW s \in SUBSET S, NEW x \in S \ s, s \in T
      PROVE  s \cup {x} \in T
  <2>1. IsFiniteSet(s)
    BY FS_Subset
  <2>2. SumFunctionOnSet(f, s \cup {x}) = f[x] + SumFunctionOnSet(f, s)
    BY <2>1, SumMore
  <2>3. Cardinality(s \cup {x}) = Cardinality(s) + 1 /\ Cardinality(s) \in Nat
    BY <2>1, FS_AddElement, FS_CardinalityType
  <2>4. SumFunctionOnSet(f, s) = Cardinality(s) /\ f[x] = 1
    BY <1>2
  <2> QED
    BY <2>2, <2>3, <2>4
<1> HIDE DEF T
<1>3. S \in T
  BY <1>1, <1>2, SetInduction
<1> QED
  BY <1>3 DEF T

\* A function of pairs, with its first or its second argument given.
Row(f, x, R) == [y \in R |-> f[<<x, y>>]]
Col(f, S, y) == [x \in S |-> f[<<x, y>>]]
Rows(f, S, R) == [x \in S |-> SumFunctionOnSet(Row(f, x, R), R)]
Cols(f, S, R) == [y \in R |-> SumFunctionOnSet(Col(f, S, y), S)]

\* A double sum may be taken in either order.
LEMMA SumSwap ==
  ASSUME NEW S, IsFiniteSet(S), NEW R, IsFiniteSet(R), NEW f,
         \A x \in S : \A y \in R : f[<<x, y>>] \in Int
  PROVE  SumFunctionOnSet(Rows(f, S, R), S) = SumFunctionOnSet(Cols(f, S, R), R)
<1> DEFINE sum(g, s) == SumFunctionOnSet(g, s)
           cols(s) == [y \in R |-> sum(Col(f, S, y), s)]
           T == {s \in SUBSET S : sum(Rows(f, S, R), s) = sum(cols(s), R)}
<1>0. \A x \in S : \A y \in R : Col(f, S, y)[x] = f[<<x, y>>] /\ Row(f, x, R)[y] = f[<<x, y>>]
  BY DEF Row, Col
<1>1. {} \in T
  <2>1. \A y \in R : cols({})[y] = 0
    BY SumEmpty
  <2>2. sum(cols({}), R) = sum(cols({}), {})
    <3> HIDE DEF cols
    <3>1. (\A y \in R : cols({})[y] \in Int) /\ (\A y \in R \ {} : cols({})[y] = 0) /\ {} \in SUBSET R
      BY <2>1
    <3> QED
      BY <3>1, SumPart
  <2> QED
    BY <2>2, SumEmpty
<1>2. ASSUME NEW s \in SUBSET S, NEW x \in S \ s, s \in T
      PROVE  s \cup {x} \in T
  <2>1. IsFiniteSet(s)
    BY FS_Subset
  <2>2. ASSUME NEW y \in R
        PROVE  /\ cols(s)[y] \in Int /\ Row(f, x, R)[y] \in Int
               /\ cols(s \cup {x})[y] = Row(f, x, R)[y] + cols(s)[y]
    <3>1. \A z \in s \cup {x} : Col(f, S, y)[z] \in Int
      BY <1>0
    <3>2. /\ sum(Col(f, S, y), s) \in Int
          /\ sum(Col(f, S, y), s \cup {x}) = Col(f, S, y)[x] + sum(Col(f, S, y), s)
      BY <2>1, <3>1, SumMore
    <3> QED
      BY <1>0, <3>2
  <2>3. sum(cols(s \cup {x}), R) = sum(Row(f, x, R), R) + sum(cols(s), R) /\ sum(Row(f, x, R), R) \in Int
    <3> DEFINE f1 == Row(f, x, R)
               f2 == cols(s)
               f3 == cols(s \cup {x})
    <3>1. \A y \in R : f1[y] \in Int /\ f2[y] \in Int /\ f3[y] = f1[y] + f2[y]
      BY <2>2
    <3> HIDE DEF f1, f2, f3
    <3>2. sum(f3, R) = sum(f1, R) + sum(f2, R) /\ sum(f1, R) \in Int
      BY <3>1, SumPlus, SumPull
    <3> QED
      BY <3>2 DEF f1, f2, f3
  <2>4. \A z \in S : Rows(f, S, R)[z] \in Int
    <3> SUFFICES ASSUME NEW z \in S
                 PROVE  Rows(f, S, R)[z] \in Int
      OBVIOUS
    <3>1. \A y \in R : Row(f, z, R)[y] \in Int
      BY <1>0
    <3>2. sum(Row(f, z, R), R) \in Int
      BY <3>1, SumPull
    <3> QED
      BY <3>2 DEF Rows
  <2>5. sum(Rows(f, S, R), s \cup {x}) = Rows(f, S, R)[x] + sum(Rows(f, S, R), s)
    <3>1. Rows(f, S, R)[x] \in Int /\ \A z \in s : Rows(f, S, R)[z] \in Int
      BY <2>4
    <3> QED
      BY <2>1, <3>1, SumMore
  <2>6. Rows(f, S, R)[x] = sum(Row(f, x, R), R)
    BY DEF Rows
  <2> QED
    BY <1>2, <2>3, <2>5, <2>6
<1> HIDE DEF T
<1>3. S \in T
  BY <1>1, <1>2, SetInduction
<1>4. cols(S) = Cols(f, S, R)
  BY DEF Cols
<1> QED
  BY <1>3, <1>4 DEF T

\* The sum over the pairs with a given first member.
LEMMA SumRow ==
  ASSUME NEW R, IsFiniteSet(R), NEW x, NEW f, \A y \in R : f[<<x, y>>] \in Int
  PROVE  SumFunctionOnSet(f, {x} \X R) = SumFunctionOnSet(Row(f, x, R), R)
<1> DEFINE sum(g, s) == SumFunctionOnSet(g, s)
           r == Row(f, x, R)
           T == {s \in SUBSET R : sum(f, {x} \X s) = sum(r, s)}
<1>0. \A y \in R : r[y] = f[<<x, y>>] /\ r[y] \in Int
  BY DEF Row
<1> HIDE DEF r
<1>1. {} \in T
  <2>1. {x} \X {} = {}
    OBVIOUS
  <2> QED
    BY <2>1, SumEmpty
<1>2. ASSUME NEW s \in SUBSET R, NEW y \in R \ s, s \in T
      PROVE  s \cup {y} \in T
  <2> DEFINE P == {x} \X s
             p == <<x, y>>
  <2>1. IsFiniteSet(s) /\ IsFiniteSet(P)
    BY FS_Subset, FS_Singleton, FS_Product
  <2>2. {x} \X (s \cup {y}) = P \cup {p} /\ p \notin P
    OBVIOUS
  <2>3. f[p] \in Int /\ \A q \in P : f[q] \in Int
    OBVIOUS
  <2> HIDE DEF P, p
  <2>4. sum(f, P \cup {p}) = f[p] + sum(f, P)
    BY <2>1, <2>2, <2>3, SumMore
  <2>5. sum(r, s \cup {y}) = r[y] + sum(r, s)
    <3>1. r[y] \in Int /\ \A z \in s : r[z] \in Int
      BY <1>0
    <3> QED
      BY <2>1, <3>1, SumMore
  <2>6. sum(f, P) = sum(r, s) /\ f[p] = r[y]
    BY <1>0, <1>2 DEF P, p
  <2> QED
    BY <2>2, <2>4, <2>5, <2>6
<1> HIDE DEF T
<1>3. R \in T
  BY <1>1, <1>2, SetInduction
<1> QED
  BY <1>3 DEF T, r

\* A sum over pairs is a double sum.
LEMMA SumOfPairs ==
  ASSUME NEW S, IsFiniteSet(S), NEW R, IsFiniteSet(R), NEW f,
         \A x \in S : \A y \in R : f[<<x, y>>] \in Int
  PROVE  SumFunctionOnSet(f, S \X R) = SumFunctionOnSet(Rows(f, S, R), S)
<1> DEFINE sum(g, s) == SumFunctionOnSet(g, s)
           r == Rows(f, S, R)
           T == {s \in SUBSET S : sum(f, s \X R) = sum(r, s)}
<1>0. ASSUME NEW x \in S
      PROVE  r[x] = sum(f, {x} \X R) /\ r[x] \in Int
  <2>1. \A y \in R : Row(f, x, R)[y] \in Int
    BY DEF Row
  <2>2. sum(Row(f, x, R), R) \in Int
    BY <2>1, SumPull
  <2>3. sum(f, {x} \X R) = sum(Row(f, x, R), R)
    BY SumRow
  <2> QED
    BY <2>2, <2>3 DEF Rows
<1> HIDE DEF r
<1>1. {} \in T
  <2>1. {} \X R = {}
    OBVIOUS
  <2> QED
    BY <2>1, SumEmpty
<1>2. ASSUME NEW s \in SUBSET S, NEW x \in S \ s, s \in T
      PROVE  s \cup {x} \in T
  <2> DEFINE P == s \X R
             Q == {x} \X R
  <2>1. IsFiniteSet(s) /\ IsFiniteSet(P) /\ IsFiniteSet(Q)
    BY FS_Subset, FS_Singleton, FS_Product
  <2>2. (s \cup {x}) \X R = P \cup Q /\ P \cap Q = {}
    OBVIOUS
  <2>3. \A q \in P \cup Q : f[q] \in Int
    OBVIOUS
  <2> HIDE DEF P, Q
  <2>4. sum(f, P \cup Q) = sum(f, P) + sum(f, Q) /\ sum(f, P) \in Int /\ sum(f, Q) \in Int
    <3>1. (\A q \in P : f[q] \in Int) /\ \A q \in Q : f[q] \in Int
      BY <2>3
    <3> QED
      BY <2>1, <2>2, <2>3, <3>1, SumOfTwo, SumPull
  <2>5. sum(r, s \cup {x}) = r[x] + sum(r, s) /\ sum(r, s) \in Int
    <3>1. r[x] \in Int /\ \A z \in s : r[z] \in Int
      BY <1>0
    <3> QED
      BY <2>1, <3>1, SumMore
  <2>6. sum(f, P) = sum(r, s) /\ sum(f, Q) = r[x]
    BY <1>0, <1>2 DEF P, Q
  <2> HIDE DEF sum
  <2>7. sum(f, P \cup Q) = sum(r, s \cup {x})
    BY <2>4, <2>5, <2>6
  <2> QED
    BY <2>2, <2>7
<1> HIDE DEF T
<1>3. S \in T
  BY <1>1, <1>2, SetInduction
<1> QED
  BY <1>3 DEF T, r

-----------------------------------------------------------------------------
(* The score of a person.                                                    *)

\* The votes of a person on a theme, and those that weigh.
AreVotes(cs) ==
  /\ IsFiniteSet(DOMAIN cs)
  /\ \A i \in DOMAIN cs : cs[i].apport \in Int \cup {None} /\ cs[i].poids \in Nat
Weighs(cs) == {i \in DOMAIN cs : cs[i].apport # None /\ cs[i].poids > 0}

Weight(cs)   == Total([i \in Weighs(cs) |-> cs[i].poids])
Weighted(cs) == Total([i \in Weighs(cs) |-> cs[i].apport * cs[i].poids])
Spread(cs)   ==
  LET far(i) == cs[i].apport * Weight(cs) - Weighted(cs)
  IN  Total([i \in Weighs(cs) |-> cs[i].poids * far(i) * far(i)])

\* The weight is 0 exactly when no vote weighs, and the sums are integers.
LEMMA WeighsWell ==
  ASSUME NEW cs, AreVotes(cs)
  PROVE  /\ IsFiniteSet(Weighs(cs)) /\ Weighs(cs) \subseteq DOMAIN cs
         /\ \A i \in Weighs(cs) : cs[i].apport \in Int /\ cs[i].poids \in Nat \ {0}
         /\ Weight(cs) \in Nat /\ (Weight(cs) = 0 <=> Weighs(cs) = {})
         /\ Weighted(cs) \in Int /\ Spread(cs) \in Nat
<1> DEFINE W == Weighs(cs)
           w == [i \in W |-> cs[i].poids]
           a == [i \in W |-> cs[i].apport * cs[i].poids]
<1>1. IsFiniteSet(W) /\ W \subseteq DOMAIN cs /\ \A i \in W : cs[i].apport \in Int /\ cs[i].poids \in Nat \ {0}
  <2>1. W \subseteq DOMAIN cs
    BY DEF Weighs
  <2>2. \A i \in W : cs[i].apport \in Int /\ cs[i].poids \in Nat \ {0}
    BY DEF AreVotes, Weighs
  <2> QED
    BY <2>1, <2>2, FS_Subset DEF AreVotes
<1> HIDE DEF W
<1>2. /\ \A i \in W : w[i] \in Nat \ {0} /\ a[i] \in Int
      /\ DOMAIN w = W /\ DOMAIN a = W
  BY <1>1
<1>3. Weight(cs) = SumFunctionOnSet(w, W) /\ Weighted(cs) = SumFunctionOnSet(a, W)
  BY <1>2 DEF Weight, Weighted, Total, W
<1> HIDE DEF w, a
<1>4. Weighted(cs) \in Int /\ Weight(cs) \in Nat
  <2>1. \A i \in W : w[i] \in Nat
    BY <1>2
  <2> QED
    BY <1>1, <1>2, <1>3, <2>1, SumPull, SumNat
<1>5. Weight(cs) = 0 <=> W = {}
  <2>1. CASE W = {}
    BY <1>3, <2>1, SumEmpty
  <2>2. CASE W # {}
    <3>1. PICK i \in W : TRUE
      BY <2>2
    <3>2. \A j \in W : w[j] \in Nat
      BY <1>2
    <3>3. w[i] <= SumFunctionOnSet(w, W)
      BY <1>1, <3>2, SumAtLeast
    <3> QED
      BY <1>2, <1>3, <1>4, <2>2, <3>3
  <2> QED
    BY <2>1, <2>2
<1>6. Spread(cs) \in Nat
  <2> DEFINE far(i) == cs[i].apport * Weight(cs) - Weighted(cs)
             h == [i \in W |-> cs[i].poids * far(i) * far(i)]
  <2>1. ASSUME NEW i \in W
        PROVE  h[i] \in Nat
    <3>1. far(i) \in Int /\ cs[i].poids \in Nat
      BY <1>1, <1>4
    <3>2. far(i) * far(i) \in Nat
      <4> HIDE DEF far
      <4> QED
        BY <3>1
    <3>3. cs[i].poids * far(i) * far(i) = cs[i].poids * (far(i) * far(i))
      <4> HIDE DEF far
      <4> QED
        BY <3>1
    <3> HIDE DEF far
    <3>4. cs[i].poids * (far(i) * far(i)) \in Nat
      BY <3>1, <3>2
    <3> QED
      BY <3>3, <3>4
  <2>2. DOMAIN h = W /\ Spread(cs) = Total(h)
    BY DEF Spread, W
  <2> HIDE DEF h
  <2> QED
    BY <1>1, <2>1, <2>2, SumNat DEF Total
<1> QED
  BY <1>1, <1>4, <1>5, <1>6 DEF W

\* What aggregate computes, in these terms.
LEMMA AggregateIs ==
  ASSUME NEW cs, AreVotes(cs)
  PROVE  Scores!Aggregate(cs) =
           IF Weighs(cs) = {} THEN None
           ELSE [score         |-> <<Weighted(cs), Weight(cs) * Unit>>,
                 variance      |-> <<Spread(cs), Weight(cs) * Weight(cs) * Weight(cs) * Unit * Unit>>,
                 contributions |-> Cardinality(Weighs(cs)),
                 abstentions   |-> Cardinality({i \in DOMAIN cs : cs[i].apport = None})]
<1> DEFINE W == Weighs(cs)
           V == {i \in DOMAIN cs : cs[i].apport # None}
           voted == [i \in V |-> cs[i]]
           sum(f) == Scores!SumFunction(f)
<1>1. Scores!Expressed(cs) = voted
  BY DEF Scores!Expressed, Scores!Where, Scores!RestrictDomain, Scores!Restrict
<1>2. Scores!Heavy(voted) = [i \in W |-> cs[i]]
  BY DEF Scores!Heavy, Scores!Where, Scores!RestrictDomain, Scores!Restrict, Weighs
<1>3. DOMAIN cs \ DOMAIN voted = {i \in DOMAIN cs : cs[i].apport = None}
  OBVIOUS
<1>4. /\ IsFiniteSet(V) /\ W \subseteq V /\ DOMAIN voted = V
      /\ \A i \in V : cs[i].apport \in Int /\ cs[i].poids \in Nat
      /\ \A i \in V \ W : cs[i].poids = 0
  <2>1. V \subseteq DOMAIN cs /\ W \subseteq V
    BY DEF Weighs
  <2>2. \A i \in V : cs[i].apport \in Int /\ cs[i].poids \in Nat
    BY DEF AreVotes
  <2>3. \A i \in V \ W : cs[i].poids = 0
    BY <2>2 DEF Weighs
  <2> QED
    BY <2>1, <2>2, <2>3, FS_Subset DEF AreVotes
<1> HIDE DEF V, W
<1>5. sum([i \in V |-> cs[i].poids]) = Weight(cs)
  <2> DEFINE f == [i \in V |-> cs[i].poids]
             g == [i \in W |-> cs[i].poids]
  <2>1. /\ DOMAIN f = V /\ DOMAIN g = W /\ (\A i \in V : f[i] \in Int)
        /\ (\A i \in W : g[i] = f[i]) /\ \A i \in V \ W : f[i] = 0
    BY <1>4
  <2>2. Weight(cs) = Total(g)
    BY DEF Weight, W
  <2> HIDE DEF f, g
  <2>3. Total(f) = Total(g)
    BY <1>4, <2>1, TotalOfPart
  <2> QED
    BY <2>2, <2>3, SumsAre DEF f
<1>6. sum([i \in V |-> cs[i].apport * cs[i].poids]) = Weighted(cs)
  <2> DEFINE f == [i \in V |-> cs[i].apport * cs[i].poids]
             g == [i \in W |-> cs[i].apport * cs[i].poids]
  <2>1. /\ DOMAIN f = V /\ DOMAIN g = W /\ (\A i \in V : f[i] \in Int)
        /\ (\A i \in W : g[i] = f[i]) /\ \A i \in V \ W : f[i] = 0
    BY <1>4
  <2>2. Weighted(cs) = Total(g)
    BY DEF Weighted, W
  <2> HIDE DEF f, g
  <2>3. Total(f) = Total(g)
    BY <1>4, <2>1, TotalOfPart
  <2> QED
    BY <2>2, <2>3, SumsAre DEF f
<1> DEFINE far(i) == cs[i].apport * Weight(cs) - Weighted(cs)
<1>7. sum([i \in V |-> cs[i].poids * far(i) * far(i)]) = Spread(cs)
  <2> DEFINE f == [i \in V |-> cs[i].poids * far(i) * far(i)]
             g == [i \in W |-> cs[i].poids * far(i) * far(i)]
  <2>1. \A i \in V : far(i) \in Int
    BY <1>4, WeighsWell
  <2>2. Spread(cs) = Total(g)
    BY DEF Spread, W
  <2> HIDE DEF far
  <2>3. /\ DOMAIN f = V /\ DOMAIN g = W /\ (\A i \in V : f[i] \in Int)
        /\ (\A i \in W : g[i] = f[i]) /\ \A i \in V \ W : f[i] = 0
    BY <1>4, <2>1
  <2> HIDE DEF f, g
  <2>4. Total(f) = Total(g)
    BY <1>4, <2>3, TotalOfPart
  <2> QED
    BY <2>2, <2>4, SumsAre DEF f
<1>8. Weight(cs) <= 0 <=> W = {}
  BY WeighsWell DEF W
<1>9. /\ Scores!Weight(voted) = Weight(cs) /\ Scores!Weighted(voted) = Weighted(cs)
      /\ Scores!Spread(voted, Weighted(cs), Weight(cs)) = Spread(cs)
  <2>1. /\ sum([i \in DOMAIN voted |-> voted[i].poids]) = Weight(cs)
        /\ sum([i \in DOMAIN voted |-> voted[i].apport * voted[i].poids]) = Weighted(cs)
        /\ sum([i \in DOMAIN voted |-> voted[i].poids * (voted[i].apport * Weight(cs) - Weighted(cs))
                                                      * (voted[i].apport * Weight(cs) - Weighted(cs))]) = Spread(cs)
    BY <1>5, <1>6, <1>7
  <2> HIDE DEF voted
  <2> QED
    BY <2>1 DEF Scores!Weight, Scores!Weighted, Scores!Spread, Scores!Sum
<1>10. DOMAIN Scores!Heavy(voted) = W
  BY <1>2
<1>11. \A x : Scores!Cardinality(x) = Cardinality(x)
  BY DEF Scores!Cardinality, Cardinality, Scores!IsFiniteSet, IsFiniteSet
<1> HIDE DEF voted
<1> QED
  BY <1>1, <1>3, <1>8, <1>9, <1>10, <1>11 DEF Scores!Aggregate, W

\* A sum of three multiples.
LEMMA SumLinear ==
  ASSUME NEW S, IsFiniteSet(S), NEW f, NEW f1, NEW f2, NEW f3,
         NEW c1 \in Int, NEW c2 \in Int, NEW c3 \in Int,
         \A x \in S : /\ f1[x] \in Int /\ f2[x] \in Int /\ f3[x] \in Int
                      /\ f[x] = c1 * f1[x] + c2 * f2[x] + c3 * f3[x]
  PROVE  SumFunctionOnSet(f, S) = c1 * SumFunctionOnSet(f1, S) + c2 * SumFunctionOnSet(f2, S)
                                    + c3 * SumFunctionOnSet(f3, S)
<1> DEFINE sum(g) == SumFunctionOnSet(g, S)
           g1 == [x \in S |-> c1 * f1[x]]
           g2 == [x \in S |-> c2 * f2[x]]
           g3 == [x \in S |-> c3 * f3[x]]
           g12 == [x \in S |-> g1[x] + g2[x]]
<1>1. \A x \in S : g1[x] = c1 * f1[x] /\ g1[x] \in Int
  OBVIOUS
<1>2. \A x \in S : g2[x] = c2 * f2[x] /\ g2[x] \in Int
  OBVIOUS
<1>3. \A x \in S : g3[x] = c3 * f3[x] /\ g3[x] \in Int
  OBVIOUS
<1> HIDE DEF g1, g2, g3
<1>4. \A x \in S : g12[x] = g1[x] + g2[x] /\ g12[x] \in Int
  BY <1>1, <1>2
<1> HIDE DEF g12
<1>5. \A x \in S : f[x] = g12[x] + g3[x]
  BY <1>1, <1>2, <1>3, <1>4
<1>6. sum(g1) = c1 * sum(f1) /\ sum(g2) = c2 * sum(f2) /\ sum(g3) = c3 * sum(f3)
  BY <1>1, <1>2, <1>3, SumTimes
<1>7. sum(g12) = sum(g1) + sum(g2) /\ sum(f) = sum(g12) + sum(g3)
  BY <1>1, <1>2, <1>3, <1>4, <1>5, SumPlus
<1> HIDE DEF sum
<1>8. sum(f) = c1 * sum(f1) + c2 * sum(f2) + c3 * sum(f3)
  BY <1>6, <1>7
<1> QED
  BY <1>8 DEF sum

\* The sums of the weights, of the weighted answers, and of their squares.
Sum0(w, S)    == SumFunctionOnSet(w, S)
Sum1(w, a, S) == SumFunctionOnSet([i \in S |-> a[i] * w[i]], S)
Sum2(w, a, S) == SumFunctionOnSet([i \in S |-> a[i] * a[i] * w[i]], S)

\* The three sums are integers.
LEMMA SumsOfWeights ==
  ASSUME NEW S, IsFiniteSet(S), NEW w, NEW a, \A i \in S : w[i] \in Int /\ a[i] \in Int
  PROVE  Sum0(w, S) \in Int /\ Sum1(w, a, S) \in Int /\ Sum2(w, a, S) \in Int
<1> DEFINE f1 == [i \in S |-> a[i] * w[i]]
           f2 == [i \in S |-> a[i] * a[i] * w[i]]
<1>1. \A i \in S : f1[i] \in Int /\ f2[i] \in Int
  OBVIOUS
<1> HIDE DEF f1, f2
<1>2. SumFunctionOnSet(w, S) \in Int /\ SumFunctionOnSet(f1, S) \in Int /\ SumFunctionOnSet(f2, S) \in Int
  BY <1>1, SumPull
<1> QED
  BY <1>2 DEF Sum0, Sum1, Sum2, f1, f2

\* The squared distances to the mean, times the weight squared.
LEMMA SpreadIs ==
  ASSUME NEW S, IsFiniteSet(S), NEW w, NEW a, \A i \in S : w[i] \in Int /\ a[i] \in Int,
         NEW k \in Int, NEW t \in Int, NEW f,
         \A i \in S : f[i] = w[i] * (a[i] * k - t) * (a[i] * k - t)
  PROVE  SumFunctionOnSet(f, S) = (k * k) * Sum2(w, a, S) + (-(2 * k * t)) * Sum1(w, a, S)
                                    + (t * t) * Sum0(w, S)
<1> DEFINE f1 == [i \in S |-> a[i] * w[i]]
           f2 == [i \in S |-> a[i] * a[i] * w[i]]
<1>1. ASSUME NEW i \in S
      PROVE  /\ f2[i] \in Int /\ f1[i] \in Int /\ w[i] \in Int
             /\ f[i] = (k * k) * f2[i] + (-(2 * k * t)) * f1[i] + (t * t) * w[i]
  <2>1. w[i] \in Int /\ a[i] \in Int /\ f[i] = w[i] * (a[i] * k - t) * (a[i] * k - t)
        /\ f1[i] = a[i] * w[i] /\ f2[i] = a[i] * a[i] * w[i]
    OBVIOUS
  <2> HIDE DEF f1, f2
  <2>2. ASSUME NEW x \in Int, NEW y \in Int
        PROVE  x * (y * k - t) * (y * k - t) =
                 (k * k) * (y * y * x) + (-(2 * k * t)) * (y * x) + (t * t) * x
    OBVIOUS
  <2> QED
    BY <2>1, <2>2
<1> HIDE DEF f1, f2
<1>2. k * k \in Int /\ -(2 * k * t) \in Int /\ t * t \in Int
  OBVIOUS
<1>3. SumFunctionOnSet(f, S) = (k * k) * SumFunctionOnSet(f2, S) + (-(2 * k * t)) * SumFunctionOnSet(f1, S)
                                 + (t * t) * SumFunctionOnSet(w, S)
  BY <1>1, <1>2, SumLinear
<1> QED
  BY <1>3 DEF Sum0, Sum1, Sum2, f1, f2

\* The squared distances of two answers, over all pairs of them.
LEMMA PairsSum ==
  ASSUME NEW S, IsFiniteSet(S), NEW w, NEW a, \A i \in S : w[i] \in Int /\ a[i] \in Int,
         NEW f, \A i, j \in S : f[<<i, j>>] = w[i] * w[j] * (a[i] - a[j]) * (a[i] - a[j])
  PROVE  SumFunctionOnSet(f, S \X S) =
           2 * (Sum0(w, S) * Sum2(w, a, S) - Sum1(w, a, S) * Sum1(w, a, S))
<1> DEFINE f1 == [i \in S |-> a[i] * w[i]]
           f2 == [i \in S |-> a[i] * a[i] * w[i]]
           s0 == Sum0(w, S)
           s1 == Sum1(w, a, S)
           s2 == Sum2(w, a, S)
           r == Rows(f, S, S)
<1>1. s0 \in Int /\ s1 \in Int /\ s2 \in Int
  BY SumsOfWeights
<1>2. ASSUME NEW i \in S, NEW j \in S
      PROVE  f[<<i, j>>] = (w[i] * a[i] * a[i]) * w[j] + (-(2 * w[i] * a[i])) * f1[j] + w[i] * f2[j]
  <2>1. /\ w[i] \in Int /\ a[i] \in Int /\ w[j] \in Int /\ a[j] \in Int
        /\ f1[j] = a[j] * w[j] /\ f2[j] = a[j] * a[j] * w[j]
    OBVIOUS
  <2>2. f[<<i, j>>] = w[i] * w[j] * (a[i] - a[j]) * (a[i] - a[j])
    OBVIOUS
  <2> HIDE DEF f1, f2
  <2>3. ASSUME NEW x \in Int, NEW y \in Int, NEW u \in Int, NEW v \in Int
        PROVE  x * u * (y - v) * (y - v) =
                 (x * y * y) * u + (-(2 * x * y)) * (v * u) + x * (v * v * u)
    OBVIOUS
  <2> QED
    BY <2>1, <2>2, <2>3
<1>3. \A i \in S : f1[i] = a[i] * w[i] /\ f2[i] = a[i] * a[i] * w[i] /\ f1[i] \in Int /\ f2[i] \in Int
  OBVIOUS
<1> HIDE DEF f1, f2
<1>4. ASSUME NEW i \in S, NEW j \in S
      PROVE  f[<<i, j>>] \in Int
  <2>1. w[i] \in Int /\ a[i] \in Int /\ w[j] \in Int /\ a[j] \in Int
    OBVIOUS
  <2>2. w[i] * w[j] * (a[i] - a[j]) * (a[i] - a[j]) \in Int
    BY <2>1
  <2> QED
    BY <2>2
<1>5. SumFunctionOnSet(f, S \X S) = SumFunctionOnSet(r, S)
  BY <1>4, SumOfPairs
<1>6. SumFunctionOnSet(w, S) = s0 /\ SumFunctionOnSet(f1, S) = s1 /\ SumFunctionOnSet(f2, S) = s2
  BY DEF Sum0, Sum1, Sum2, f1, f2
<1>7. ASSUME NEW i \in S
      PROVE  r[i] = s0 * f2[i] + (-(2 * s1)) * f1[i] + s2 * w[i]
  <2> DEFINE g == Row(f, i, S)
             c1 == w[i] * a[i] * a[i]
             c2 == -(2 * w[i] * a[i])
  <2>1. \A j \in S : g[j] = f[<<i, j>>]
    BY DEF Row
  <2>2. c1 \in Int /\ c2 \in Int /\ w[i] \in Int
    OBVIOUS
  <2>3. \A j \in S : /\ w[j] \in Int /\ f1[j] \in Int /\ f2[j] \in Int
                     /\ g[j] = c1 * w[j] + c2 * f1[j] + w[i] * f2[j]
    BY <1>2, <1>3, <2>1
  <2> HIDE DEF g, c1, c2
  <2>4. SumFunctionOnSet(g, S) = c1 * s0 + c2 * s1 + w[i] * s2
    <3> HIDE DEF s0, s1, s2
    <3>1. SumFunctionOnSet(g, S) = c1 * SumFunctionOnSet(w, S) + c2 * SumFunctionOnSet(f1, S)
                                     + w[i] * SumFunctionOnSet(f2, S)
      BY <2>2, <2>3, SumLinear
    <3> QED
      BY <1>6, <3>1
  <2>5. r[i] = SumFunctionOnSet(g, S)
    BY DEF Rows, g
  <2>6. w[i] \in Int /\ a[i] \in Int
    OBVIOUS
  <2> HIDE DEF s0, s1, s2, r
  <2>7. ASSUME NEW x \in Int, NEW y \in Int
        PROVE  (x * y * y) * s0 + (-(2 * x * y)) * s1 + x * s2 =
                 s0 * (y * y * x) + (-(2 * s1)) * (y * x) + s2 * x
    BY <1>1
  <2> QED
    BY <1>3, <2>4, <2>5, <2>6, <2>7 DEF c1, c2
<1> HIDE DEF s0, s1, s2, r
<1>8. SumFunctionOnSet(r, S) = s0 * s2 + (-(2 * s1)) * s1 + s2 * s0
  <2> DEFINE k == -(2 * s1)
  <2>1. k \in Int
    BY <1>1
  <2>2. \A i \in S : /\ f2[i] \in Int /\ f1[i] \in Int /\ w[i] \in Int
                     /\ r[i] = s0 * f2[i] + k * f1[i] + s2 * w[i]
    BY <1>3, <1>7
  <2> HIDE DEF k
  <2>3. SumFunctionOnSet(r, S) = s0 * SumFunctionOnSet(f2, S) + k * SumFunctionOnSet(f1, S)
                                   + s2 * SumFunctionOnSet(w, S)
    <3>1. /\ IsFiniteSet(S) /\ s0 \in Int /\ k \in Int /\ s2 \in Int
          /\ \A x \in S : /\ f2[x] \in Int /\ f1[x] \in Int /\ w[x] \in Int
                         /\ r[x] = s0 * f2[x] + k * f1[x] + s2 * w[x]
      BY <1>1, <2>1, <2>2
    <3> QED
      BY ONLY <3>1, SumLinear
  <2> QED
    BY <1>6, <2>3 DEF k
<1>9. s0 * s2 + (-(2 * s1)) * s1 + s2 * s0 = 2 * (s0 * s2 - s1 * s1)
  BY <1>1
<1> QED
  BY <1>5, <1>8, <1>9 DEF s0, s1, s2

\* A weighted sum lies between what the weights give the least and the greatest.
LEMMA MeanWithin ==
  ASSUME NEW S, IsFiniteSet(S), NEW w, NEW a, NEW lo \in Int, NEW hi \in Int,
         \A i \in S : w[i] \in Nat /\ a[i] \in Int /\ lo <= a[i] /\ a[i] <= hi
  PROVE  lo * Sum0(w, S) <= Sum1(w, a, S) /\ Sum1(w, a, S) <= hi * Sum0(w, S)
<1> DEFINE f == [i \in S |-> a[i] * w[i]]
           g == [i \in S |-> lo * w[i]]
           h == [i \in S |-> hi * w[i]]
<1>1. ASSUME NEW i \in S
      PROVE  /\ w[i] \in Int /\ f[i] \in Int /\ g[i] \in Int /\ h[i] \in Int
             /\ g[i] = lo * w[i] /\ h[i] = hi * w[i] /\ g[i] <= f[i] /\ f[i] <= h[i]
  <2>1. w[i] \in Nat /\ a[i] \in Int /\ lo <= a[i] /\ a[i] <= hi
    OBVIOUS
  <2>2. lo * w[i] <= a[i] * w[i] /\ a[i] * w[i] <= hi * w[i]
    BY <2>1
  <2> QED
    BY <2>1, <2>2
<1> HIDE DEF f, g, h
<1>2. SumFunctionOnSet(g, S) <= SumFunctionOnSet(f, S) /\ SumFunctionOnSet(f, S) <= SumFunctionOnSet(h, S)
  BY <1>1, SumOrder
<1>3. /\ SumFunctionOnSet(g, S) = lo * SumFunctionOnSet(w, S)
      /\ SumFunctionOnSet(h, S) = hi * SumFunctionOnSet(w, S)
  BY <1>1, SumTimes
<1> QED
  BY <1>2, <1>3 DEF Sum0, Sum1, f

\* Two integers whose difference is 0 are equal.
LEMMA NoDifference ==
  \A x, y \in Int : x - y \in Int /\ (x - y = 0 => x = y)
OBVIOUS

\* A factor that is not 0 may be cancelled.
LEMMA SameMultiple ==
  ASSUME NEW k \in Nat \ {0}, NEW x \in Int, NEW y \in Int, x * k = y * k
  PROVE  x = y
<1>1. ASSUME NEW u \in Int, NEW v \in Int, u < v
      PROVE  u * k < v * k
  <2>1. (v - u) * k > 0
    BY <1>1
  <2>2. (v - u) * k = v * k - u * k /\ u * k \in Int /\ v * k \in Int
    OBVIOUS
  <2> QED
    BY <2>1, <2>2
<1>2. ~(x < y) /\ ~(y < x)
  BY <1>1
<1> QED
  BY <1>2

\* The distances to the mean are all zero exactly when the answers are one.
LEMMA SpreadZero ==
  ASSUME NEW S, IsFiniteSet(S), NEW w, NEW a, \A i \in S : w[i] \in Nat \ {0} /\ a[i] \in Int,
         NEW k \in Nat \ {0}, k = Sum0(w, S), NEW t \in Int, t = Sum1(w, a, S),
         NEW f, \A i \in S : f[i] = w[i] * (a[i] * k - t) * (a[i] * k - t)
  PROVE  SumFunctionOnSet(f, S) = 0 <=> \A i, j \in S : a[i] = a[j]
<1>1. ASSUME NEW i \in S
      PROVE  f[i] \in Nat /\ (f[i] = 0 => a[i] * k = t)
  <2> DEFINE d == a[i] * k - t
  <2>1. w[i] \in Nat \ {0} /\ a[i] \in Int /\ a[i] * k \in Int
    OBVIOUS
  <2>2. d \in Int /\ f[i] = w[i] * d * d /\ (d = 0 => a[i] * k = t)
    <3>1. f[i] = w[i] * d * d
      OBVIOUS
    <3>2. a[i] * k - t \in Int /\ (a[i] * k - t = 0 => a[i] * k = t)
      BY <2>1, NoDifference
    <3> QED
      BY <3>1, <3>2
  <2> HIDE DEF d
  <2>3. w[i] * d * d = w[i] * (d * d)
    BY <2>1, <2>2
  <2>4. d * d \in Nat /\ (d # 0 => d * d # 0)
    BY <2>2
  <2> DEFINE q == d * d
  <2> HIDE DEF q
  <2>5. q \in Nat /\ w[i] * q \in Nat /\ (w[i] * q = 0 => q = 0)
    <3>1. q \in Nat
      BY <2>4 DEF q
    <3> QED
      BY <2>1, <3>1
  <2> QED
    BY <2>2, <2>3, <2>4, <2>5 DEF q
<1>2. ASSUME SumFunctionOnSet(f, S) = 0, NEW i \in S, NEW j \in S
      PROVE  a[i] = a[j]
  <2>1. \A x \in S : f[x] \in Nat
    BY <1>1
  <2>2. f[i] <= 0 /\ f[j] <= 0
    BY <1>2, <2>1, SumAtLeast
  <2>3. f[i] = 0 /\ f[j] = 0
    BY <2>1, <2>2
  <2>4. a[i] * k = t /\ a[j] * k = t /\ a[i] \in Int /\ a[j] \in Int
    BY <1>1, <2>3
  <2> DEFINE x == a[i]
             y == a[j]
  <2>5. k \in Nat \ {0} /\ x \in Int /\ y \in Int /\ x * k = y * k
    BY <2>4
  <2> HIDE DEF x, y
  <2>6. x = y
    BY ONLY <2>5, SameMultiple
  <2> QED
    BY <2>6 DEF x, y
<1>3. ASSUME \A i, j \in S : a[i] = a[j]
      PROVE  SumFunctionOnSet(f, S) = 0
  <2>1. CASE S = {}
    BY <2>1, SumEmpty
  <2>2. CASE S # {}
    <3>1. PICK i \in S : TRUE
      BY <2>2
    <3> DEFINE c == a[i]
    <3>2. c \in Int /\ \A j \in S : a[j] = c
      BY <1>3
    <3> HIDE DEF c
    <3>3. c * Sum0(w, S) <= Sum1(w, a, S) /\ Sum1(w, a, S) <= c * Sum0(w, S)
      <4>1. \A j \in S : w[j] \in Nat /\ a[j] \in Int /\ c <= a[j] /\ a[j] <= c
        BY <3>2
      <4> QED
        BY <3>2, <4>1, MeanWithin
    <3>4. c * k = t
      <4>1. c * k \in Int
        BY <3>2
      <4> QED
        BY <3>3, <4>1
    <3>5. \A j \in S : f[j] = 0
      <4> SUFFICES ASSUME NEW j \in S
                   PROVE  f[j] = 0
        OBVIOUS
      <4>1. f[j] = w[j] * (c * k - t) * (c * k - t) /\ w[j] \in Nat
        BY <3>2
      <4>2. c * k - t = 0
        BY <3>4
      <4> QED
        BY <4>1, <4>2
    <3>6. SumFunctionOnSet(f, S) = SumFunctionOnSet(f, {})
      <4>1. {} \in SUBSET S /\ (\A j \in S : f[j] \in Int) /\ (\A j \in S \ {} : f[j] = 0)
        BY <3>5
      <4> QED
        BY <4>1, SumPart
    <3> QED
      BY <3>6, SumEmpty
  <2> QED
    BY <2>1, <2>2
<1> QED
  BY <1>2, <1>3

\* A member that bounds the others from below is their minimum.
LEMMA MinOf ==
  ASSUME NEW S, NEW m \in S, \A x \in S : x \in Int /\ m <= x
  PROVE  Min(S) = m
BY DEF Min

\* What a score says of the votes that weigh.
LEMMA ScoreIs ==
  ASSUME NEW cs, AreVotes(cs), Weighs(cs) # {}
  PROVE  LET W == Weighs(cs)
             apports == {cs[i].apport : i \in W}
             pairs == SumFunction([p \in W \X W |->
                                     cs[p[1]].poids * cs[p[2]].poids
                                       * (cs[p[1]].apport - cs[p[2]].apport)
                                       * (cs[p[1]].apport - cs[p[2]].apport)])
             k == Weight(cs)
         IN  /\ Weighted(cs) \in (Min(apports) * k)..(Max(apports) * k)
             /\ Spread(cs) = 0 <=> Cardinality(apports) = 1
             /\ 2 * k * k * Unit * Unit * Spread(cs) = pairs * (k * k * k * Unit * Unit)
<1> DEFINE W == Weighs(cs)
           w == [i \in W |-> cs[i].poids]
           a == [i \in W |-> cs[i].apport]
           k == Weight(cs)
           t == Weighted(cs)
           far(i) == cs[i].apport * k - t
           f == [i \in W |-> cs[i].poids * far(i) * far(i)]
           apports == {cs[i].apport : i \in W}
           g == [p \in W \X W |-> cs[p[1]].poids * cs[p[2]].poids
                                    * (cs[p[1]].apport - cs[p[2]].apport)
                                    * (cs[p[1]].apport - cs[p[2]].apport)]
<1>1. /\ IsFiniteSet(W) /\ W # {} /\ k \in Nat \ {0} /\ t \in Int /\ Spread(cs) \in Nat
      /\ \A i \in W : cs[i].apport \in Int /\ cs[i].poids \in Nat \ {0}
  BY WeighsWell
<1>2. /\ k = SumFunctionOnSet(w, W) /\ Spread(cs) = SumFunctionOnSet(f, W)
      /\ t = SumFunctionOnSet([i \in W |-> cs[i].apport * cs[i].poids], W)
      /\ SumFunction(g) = SumFunctionOnSet(g, W \X W)
  BY SumsAre DEF Weight, Weighted, Spread, Total
<1>3. \A i \in W : w[i] = cs[i].poids /\ a[i] = cs[i].apport
  OBVIOUS
<1>4. \A i \in W : f[i] = w[i] * (a[i] * k - t) * (a[i] * k - t)
  OBVIOUS
<1>5. \A i, j \in W : g[<<i, j>>] = w[i] * w[j] * (a[i] - a[j]) * (a[i] - a[j])
  OBVIOUS
<1>6. [i \in W |-> cs[i].apport * cs[i].poids] = [i \in W |-> a[i] * w[i]]
  OBVIOUS
<1>7. apports = {a[i] : i \in W}
  OBVIOUS
<1> HIDE DEF W, w, a, k, t, f, g
<1>8. k = Sum0(w, W) /\ t = Sum1(w, a, W)
  BY <1>2, <1>6 DEF Sum0, Sum1
<1>9. \A i \in W : w[i] \in Nat \ {0} /\ a[i] \in Int
  BY <1>1, <1>3
<1>10. Spread(cs) = 0 <=> \A i, j \in W : a[i] = a[j]
  <2>1. SumFunctionOnSet(f, W) = 0 <=> \A i, j \in W : a[i] = a[j]
    BY <1>1, <1>4, <1>8, <1>9, SpreadZero
  <2> QED
    BY <1>2, <2>1
<1>11. PICK hi \in W : \A i \in W : a[i] <= a[hi]
  BY <1>1, <1>9, GreatestAt
<1>12. PICK lo \in W : \A i \in W : a[lo] <= a[i]
  <2> DEFINE b == [i \in W |-> -a[i]]
  <2>1. \A i \in W : b[i] = -a[i] /\ b[i] \in Int
    BY <1>9
  <2> HIDE DEF b
  <2>2. PICK lo \in W : \A i \in W : b[i] <= b[lo]
    BY <1>1, <2>1, GreatestAt
  <2>3. \A i \in W : a[lo] <= a[i]
    BY <1>9, <2>1, <2>2
  <2> QED
    BY <2>3
<1> HIDE DEF apports
<1>13. Max(apports) = a[hi] /\ Min(apports) = a[lo]
  <2>1. /\ a[hi] \in apports /\ a[lo] \in apports
        /\ \A x \in apports : x \in Int /\ x <= a[hi] /\ a[lo] <= x
    BY <1>7, <1>9, <1>11, <1>12
  <2> QED
    BY <2>1, MaxOf, MinOf
<1>14. t \in (Min(apports) * k)..(Max(apports) * k)
  <2>1. \A i \in W : w[i] \in Nat /\ a[i] \in Int /\ a[lo] <= a[i] /\ a[i] <= a[hi]
    BY <1>9, <1>11, <1>12
  <2>2. a[lo] * k <= t /\ t <= a[hi] * k
    BY <1>1, <1>8, <2>1, MeanWithin
  <2>3. a[lo] * k \in Int /\ a[hi] * k \in Int
    BY <1>1, <1>9
  <2> QED
    BY <1>1, <1>13, <2>2, <2>3
<1>15. Cardinality(apports) = 1 <=> \A i, j \in W : a[i] = a[j]
  <2>1. IsFiniteSet(apports)
    <3>1. apports \subseteq a[lo]..a[hi] /\ a[lo] \in Int /\ a[hi] \in Int
      BY <1>7, <1>9, <1>11, <1>12
    <3> QED
      BY <3>1, FS_Interval, FS_Subset
  <2>2. Cardinality(apports) = 1 <=> \E x : apports = {x}
    BY <2>1, FS_Singleton
  <2>3. ASSUME NEW x, apports = {x}
        PROVE  \A i, j \in W : a[i] = a[j]
    BY <1>7, <2>3
  <2>4. ASSUME \A i, j \in W : a[i] = a[j]
        PROVE  \E x : apports = {x}
    <3>1. apports = {a[hi]}
      BY <1>7, <2>4
    <3> QED
      BY <3>1
  <2> QED
    BY <2>2, <2>3, <2>4
<1>16. 2 * k * k * Unit * Unit * Spread(cs) = SumFunction(g) * (k * k * k * Unit * Unit)
  <2> DEFINE q == Sum2(w, a, W)
  <2>1. \A i \in W : w[i] \in Int /\ a[i] \in Int
    BY <1>9
  <2>2. q \in Int /\ Unit \in Int /\ k \in Int
    BY <1>1, <2>1, SumsOfWeights, CalculsAssumption
  <2>3. SumFunction(g) = 2 * (k * q - t * t)
    BY <1>1, <1>2, <1>5, <1>8, <2>1, PairsSum
  <2>4. Spread(cs) = (k * k) * q + (-(2 * k * t)) * t + (t * t) * k
    <3>1. SumFunctionOnSet(f, W) = (k * k) * Sum2(w, a, W) + (-(2 * k * t)) * Sum1(w, a, W)
                                     + (t * t) * Sum0(w, W)
      BY <1>1, <1>4, <2>1, <2>2, SpreadIs
    <3> QED
      BY <1>2, <1>8, <3>1
  <2> HIDE DEF q
  <2>5. 2 * k * k * Unit * Unit * ((k * k) * q + (-(2 * k * t)) * t + (t * t) * k)
          = (2 * (k * q - t * t)) * (k * k * k * Unit * Unit)
    BY <1>1, <2>2
  <2> QED
    BY <2>3, <2>4, <2>5
<1> QED
  BY <1>10, <1>14, <1>15, <1>16 DEF W, k, t, g, apports

\* What a label, a measure and the votes of the members may be.
IsScrutin(s) ==
  /\ s.position \in -Unit..Unit /\ s.estimate \in Int
  /\ s.poids \in Nat /\ s.confiance \in Nat /\ s.bipolarite \in 0..Unit
  /\ s.votes \in [Members -> {"pour", "contre", "abstention", "non_votant"}]
AreScrutins(list) == IsFiniteSet(DOMAIN list) /\ \A i \in DOMAIN list : IsScrutin(list[i])

\* What is left of the input is a list of scrutins, whatever it is fed next.
ScrutinsInv == kind = "scrutins" => input \in Seq(ScrutinItems)

\* It stays one: AddScrutin appends an item, the other actions need another kind.
LEMMA ScrutinsInductive ==
  Spec => []ScrutinsInv
<1>1. Init => ScrutinsInv
  BY DEF Init, ScrutinsInv
<1>2. ScrutinsInv /\ [Next]_vars => ScrutinsInv'
  <2> SUFFICES ASSUME ScrutinsInv, [Next]_vars
               PROVE  ScrutinsInv'
    OBVIOUS
  <2>1. CASE AddScrutin
    <3>1. PICK s \in ScrutinItems : kind = "scrutins" /\ kind' = kind /\ input' = Append(input, s)
      BY <2>1 DEF AddScrutin, Add
    <3>2. input \in Seq(ScrutinItems)
      BY <3>1 DEF ScrutinsInv
    <3> QED
      BY <3>1, <3>2 DEF ScrutinsInv
  <2>2. CASE AddMandat \/ AddSegment \/ AddGroupe
    BY <2>2 DEF AddMandat, AddSegment, AddGroupe, Add, ScrutinsInv
  <2>3. CASE UNCHANGED vars
    BY <2>3 DEF vars, ScrutinsInv
  <2> QED
    BY <2>1, <2>2, <2>3 DEF Next
<1> QED
  BY <1>1, <1>2, PTL DEF Spec

\* Hence what Scoring reads has the types its caller gives it.
LEMMA ScrutinsFed ==
  ASSUME ScrutinsInv, kind = "scrutins"
  PROVE  AreScrutins(input)
<1>1. input \in Seq(ScrutinItems) /\ DOMAIN input = 1..Len(input) /\ Len(input) \in Nat
  BY DEF ScrutinsInv
<1>2. \A i \in DOMAIN input : IsScrutin(input[i])
  BY <1>1, CalculsAssumption DEF IsScrutin
<1> QED
  BY <1>1, <1>2, FS_Interval DEF AreScrutins

\* The weight of a scrutin is a natural.
LEMMA PoidsIs ==
  ASSUME NEW s, IsScrutin(s)
  PROVE  Scores!Poids(s) \in Nat
<1>1. s.poids \in Nat /\ s.confiance \in Nat /\ Unit - s.bipolarite \in Nat
  BY CalculsAssumption DEF IsScrutin
<1> DEFINE u == Unit - s.bipolarite
<1> HIDE DEF u
<1>2. s.poids * s.confiance * u \in Nat
  BY <1>1 DEF u
<1> QED
  BY <1>2 DEF Scores!Poids, u

\* What a person's votes on a list of scrutins contribute.
Cast(list, m) ==
  [i \in {k \in DOMAIN list : list[k].votes[m] # "non_votant"} |-> Scores!Contribution(list[i], m)]

\* The contributions a person is scored on.
LEMMA CastWell ==
  ASSUME NEW list, AreScrutins(list), NEW m \in Members
  PROVE  /\ AreVotes(Cast(list, m)) /\ Scores!Person(list, m) = Scores!Aggregate(Cast(list, m))
         /\ LET all == Scores!Voted(list, m)
            IN  [i \in DOMAIN all |-> Scores!Contribution(all[i], m)] = Cast(list, m)
<1> DEFINE V == {k \in DOMAIN list : list[k].votes[m] # "non_votant"}
           all == [i \in V |-> list[i]]
<1>1. Scores!Voted(list, m) = all
  BY DEF Scores!Voted, Scores!Where, Scores!RestrictDomain, Scores!Restrict
<1>2. [i \in DOMAIN all |-> Scores!Contribution(all[i], m)] = Cast(list, m)
  <2>1. DOMAIN all = V /\ \A i \in V : all[i] = list[i]
    OBVIOUS
  <2> HIDE DEF all
  <2> QED
    BY <2>1 DEF Cast
<1>3. DOMAIN Cast(list, m) = V /\ \A i \in V : Cast(list, m)[i] = Scores!Contribution(list[i], m)
  BY DEF Cast
<1>4. ASSUME NEW i \in V
      PROVE  LET c == Scores!Contribution(list[i], m)
             IN  c.apport \in Int \cup {None} /\ c.poids \in Nat
  <2> DEFINE s == list[i]
  <2>1. IsScrutin(s)
    BY DEF AreScrutins
  <2>2. Scores!Poids(s) \in Nat /\ s.position \in Int /\ -s.position \in Int
    BY <2>1, PoidsIs, CalculsAssumption DEF IsScrutin
  <2>3. Scores!Apport(s.votes[m], s.position) \in Int \cup {None}
    BY <2>2 DEF Scores!Apport
  <2> HIDE DEF s
  <2>4. LET c == Scores!Contribution(s, m) IN c.apport \in Int \cup {None} /\ c.poids \in Nat
    BY <2>2, <2>3 DEF Scores!Contribution
  <2> QED
    BY <2>4 DEF s
<1>5. IsFiniteSet(V)
  BY FS_Subset DEF AreScrutins
<1>6. AreVotes(Cast(list, m))
  BY <1>3, <1>4, <1>5 DEF AreVotes
<1> HIDE DEF all
<1> QED
  BY <1>1, <1>2, <1>6 DEF Scores!Person

\* ScoreIsWeightedMean: the score of a person is the weighted mean of the votes
\* that weigh, whatever the votes, the labels, the weights and their number.
THEOREM ScoreIsWeightedMeanCorrect ==
  Spec => []ScoreIsWeightedMean
<1>1. ScrutinsInv => ScoreIsWeightedMean
  <2> SUFFICES ASSUME ScrutinsInv, kind = "scrutins", NEW m \in Members
               PROVE  LET all    == Scores!Voted(input, m)
                          cs     == [i \in DOMAIN all |-> Scores!Contribution(all[i], m)]
                          weighs == {i \in DOMAIN all : cs[i].apport # None /\ cs[i].poids > 0}
                          weight == SumFunction([i \in weighs |-> cs[i].poids])
                          pairs  == SumFunction([p \in weighs \X weighs |->
                                                   cs[p[1]].poids * cs[p[2]].poids
                                                     * (cs[p[1]].apport - cs[p[2]].apport)
                                                     * (cs[p[1]].apport - cs[p[2]].apport)])
                          p == Scores!Person(input, m)
                      IN  /\ (p = None) <=> (weighs = {})
                          /\ p # None =>
                               LET apports == {cs[i].apport : i \in weighs} IN
                               /\ p.contributions = Cardinality(weighs)
                               /\ p.score[1] \in (Min(apports) * weight)..(Max(apports) * weight)
                               /\ p.score[2] = Unit * weight
                               /\ (p.variance[1] = 0) <=> (Cardinality(apports) = 1)
                               /\ 2 * weight * weight * Unit * Unit * p.variance[1] = pairs * p.variance[2]
    BY DEF ScoreIsWeightedMean
  <2> DEFINE all == Scores!Voted(input, m)
             cs  == Cast(input, m)
             W   == Weighs(cs)
             k   == Weight(cs)
             p   == Scores!Person(input, m)
             apports == {cs[i].apport : i \in W}
             pairs == SumFunction([q \in W \X W |->
                                     cs[q[1]].poids * cs[q[2]].poids
                                       * (cs[q[1]].apport - cs[q[2]].apport)
                                       * (cs[q[1]].apport - cs[q[2]].apport)])
  <2>1. /\ AreVotes(cs) /\ p = Scores!Aggregate(cs)
        /\ [i \in DOMAIN all |-> Scores!Contribution(all[i], m)] = cs
    BY ScrutinsFed, CastWell
  <2>2. DOMAIN all = DOMAIN cs
    BY <2>1
  <2> HIDE DEF all, cs
  <2>3. {i \in DOMAIN all : cs[i].apport # None /\ cs[i].poids > 0} = W
    BY <2>2 DEF Weighs
  <2>4. SumFunction([i \in W |-> cs[i].poids]) = k
    BY SumsAre DEF Weight
  <2>5. /\ IsFiniteSet(W) /\ k \in Nat /\ (k = 0 <=> W = {}) /\ Weighted(cs) \in Int /\ Spread(cs) \in Nat
        /\ Unit \in Nat
    BY <2>1, WeighsWell, CalculsAssumption
  <2>6. CASE W = {}
    <3>1. p = None
      BY <2>1, <2>6, AggregateIs
    <3> HIDE DEF p, W
    <3> QED
      BY <2>1, <2>3, <2>6, <3>1 DEF all, cs, p
  <2>7. CASE W # {}
    <3> DEFINE n == Cardinality({i \in DOMAIN cs : cs[i].apport = None})
               scaled == k * k * k * Unit * Unit
    <3>1. p = [score |-> <<Weighted(cs), k * Unit>>, variance |-> <<Spread(cs), scaled>>,
               contributions |-> Cardinality(W), abstentions |-> n]
      BY <2>1, <2>7, AggregateIs
    <3>2. n \in Nat /\ Cardinality(W) \in Nat /\ scaled \in Int /\ k * Unit \in Int /\ k * Unit = Unit * k
      <4>1. IsFiniteSet({i \in DOMAIN cs : cs[i].apport = None})
        BY <2>1, FS_Subset DEF AreVotes
      <4>2. n \in Nat /\ Cardinality(W) \in Nat
        BY <2>5, <4>1, FS_CardinalityType
      <4> HIDE DEF k
      <4>3. k * k * k * Unit * Unit \in Int /\ k * Unit \in Int /\ k * Unit = Unit * k
        BY <2>5
      <4> QED
        BY <4>2, <4>3
    <3>3. /\ Weighted(cs) \in (Min(apports) * k)..(Max(apports) * k)
          /\ (Spread(cs) = 0) <=> (Cardinality(apports) = 1)
          /\ 2 * k * k * Unit * Unit * Spread(cs) = pairs * scaled
      <4>1. AreVotes(cs) /\ Weighs(cs) # {}
        BY <2>1, <2>7
      <4> QED
        BY ONLY <4>1, ScoreIs, Zenon
    <3> HIDE DEF n, scaled, k, W, p
    <3>4. p # None
      <4>1. p \in [score : Int \X Int, variance : Int \X Int, contributions : Nat, abstentions : Nat]
        BY <2>5, <3>1, <3>2
      <4> QED
        BY <4>1, CalculsAssumption
    <3>5. /\ p.contributions = Cardinality(W) /\ p.score[1] = Weighted(cs) /\ p.score[2] = Unit * k
          /\ p.variance[1] = Spread(cs) /\ p.variance[2] = scaled
      BY <3>1, <3>2
    <3>6. /\ p.contributions = Cardinality(W)
          /\ p.score[1] \in (Min(apports) * k)..(Max(apports) * k)
          /\ p.score[2] = Unit * k
          /\ (p.variance[1] = 0) <=> (Cardinality(apports) = 1)
          /\ 2 * k * k * Unit * Unit * p.variance[1] = pairs * p.variance[2]
      BY <3>3, <3>5
    <3> HIDE DEF apports, pairs
    <3> QED
      BY <2>1, <2>3, <2>4, <2>7, <3>4, <3>6 DEF all, p, apports, pairs
  <2> QED
    BY <2>6, <2>7
<1> QED
  BY <1>1, ScrutinsInductive, PTL

-----------------------------------------------------------------------------
(* The score of a group.                                                     *)

\* A sum of two terms.
LEMMA SumOverTwo ==
  ASSUME NEW x, NEW y, x # y, NEW f, f[x] \in Int, f[y] \in Int
  PROVE  SumFunctionOnSet(f, {x, y}) = f[x] + f[y]
<1>1. IsFiniteSet({y}) /\ {x, y} = {y} \cup {x} /\ x \notin {y}
  BY FS_Singleton
<1>2. SumFunctionOnSet(f, {y}) = f[y]
  <2>1. SumFunctionOnSet(f, {} \cup {y}) = f[y] + SumFunctionOnSet(f, {})
    BY FS_EmptySet, SumMore
  <2>2. {} \cup {y} = {y} /\ SumFunctionOnSet(f, {}) = 0
    BY SumEmpty
  <2> QED
    BY <2>1, <2>2
<1>3. SumFunctionOnSet(f, {y} \cup {x}) = f[x] + SumFunctionOnSet(f, {y})
  BY <1>1, SumMore
<1> QED
  BY <1>1, <1>2, <1>3

Polls == {"pour", "contre"}

\* The scrutins whose votes weigh, for a group and for its members.
Weighty(list) ==
  {i \in DOMAIN list : Scores!Agrees(list[i]) /\ Scores!Poids(list[i]) > 0}

\* What the vote of one member on one of them is worth: its weight, its
\* weighted answer, and itself.
VoteWeight(list) ==
  [x \in Weighty(list) \X Members |->
     IF list[x[1]].votes[x[2]] \in Polls THEN Scores!Poids(list[x[1]]) ELSE 0]

VoteAnswer(list) ==
  [x \in Weighty(list) \X Members |->
     IF list[x[1]].votes[x[2]] = "pour" THEN list[x[1]].position * Scores!Poids(list[x[1]])
     ELSE IF list[x[1]].votes[x[2]] = "contre" THEN (-list[x[1]].position) * Scores!Poids(list[x[1]])
     ELSE 0]

VoteOne(list) ==
  [x \in Weighty(list) \X Members |-> IF list[x[1]].votes[x[2]] \in Polls THEN 1 ELSE 0]

Kept(list) == [i \in {k \in DOMAIN list : ~Neutral(list[k])} |-> list[i]]

\* A label that is not at 0 is kept by one filter exactly when it is by the other.
LEMMA FiltersAgree ==
  ASSUME NEW s, IsScrutin(s)
  PROVE  Scores!Agrees(s) <=> ~Neutral(s) /\ ~Scores!DesaccordMesure(s)
<1> DEFINE p == s.position
           e == s.estimate
<1>1. p \in Int /\ e \in Int /\ GaucheDroite \in BOOLEAN
  BY CalculsAssumption DEF IsScrutin
<1>2. ASSUME NEW u \in Int, NEW v \in Int
      PROVE  u * v < 0 <=> (u < 0 /\ v > 0) \/ (u > 0 /\ v < 0)
  <2>1. CASE u > 0 /\ v > 0
    <3>1. u * v > 0
      BY <2>1
    <3> QED
      BY <2>1, <3>1
  <2>2. CASE u < 0 /\ v < 0
    <3>1. u * v > 0
      BY <2>2
    <3> QED
      BY <2>2, <3>1
  <2>3. CASE u = 0 \/ v = 0
    <3>1. u * v = 0
      BY <2>3
    <3> QED
      BY <2>3, <3>1
  <2>4. CASE u < 0 /\ v > 0
    <3>1. u * v < 0
      BY <2>4
    <3> QED
      BY <2>4, <3>1
  <2>5. CASE u > 0 /\ v < 0
    <3>1. u * v < 0
      BY <2>5
    <3> QED
      BY <2>5, <3>1
  <2> QED
    BY <2>1, <2>2, <2>3, <2>4, <2>5
<1>3. /\ Scores!Agrees(s) <=> ~GaucheDroite \/ e = 0 \/ Scores!Sign(p) = Scores!Sign(e)
      /\ Neutral(s) <=> GaucheDroite /\ p = 0 /\ e # 0
      /\ Scores!DesaccordMesure(s) <=> GaucheDroite /\ e # 0 /\ p * e < 0
  BY DEF Scores!Agrees, Neutral, Scores!DesaccordMesure
<1>4. p * e < 0 <=> (p < 0 /\ e > 0) \/ (p > 0 /\ e < 0)
  BY <1>1, <1>2
<1> HIDE DEF p, e
<1>5. /\ Scores!Sign(p) = IF p > 0 THEN 1 ELSE IF p < 0 THEN -1 ELSE 0
      /\ Scores!Sign(e) = IF e > 0 THEN 1 ELSE IF e < 0 THEN -1 ELSE 0
  BY DEF Scores!Sign
<1>6. e # 0 /\ p # 0 => (Scores!Sign(p) = Scores!Sign(e) <=> ~(p * e < 0))
  BY <1>1, <1>4, <1>5
<1>7. e # 0 /\ p = 0 => Scores!Sign(p) # Scores!Sign(e)
  BY <1>1, <1>5
<1>8. p = 0 => ~(p * e < 0)
  BY <1>1, <1>4
<1> QED
  BY <1>3, <1>6, <1>7, <1>8

\* The scrutins that are kept are scrutins, each in its place.
LEMMA WellKept ==
  ASSUME NEW list, AreScrutins(list)
  PROVE  /\ AreScrutins(Kept(list))
         /\ DOMAIN Kept(list) = {k \in DOMAIN list : ~Neutral(list[k])}
         /\ \A i \in DOMAIN Kept(list) : Kept(list)[i] = list[i]
<1>1. DOMAIN Kept(list) = {k \in DOMAIN list : ~Neutral(list[k])}
  BY DEF Kept
<1>2. \A i \in DOMAIN Kept(list) : Kept(list)[i] = list[i]
  BY DEF Kept
<1>3. IsFiniteSet({k \in DOMAIN list : ~Neutral(list[k])})
  BY FS_Subset DEF AreScrutins
<1>4. AreScrutins(Kept(list))
  BY <1>1, <1>2, <1>3 DEF AreScrutins
<1> QED
  BY <1>1, <1>2, <1>4

\* What a vote is worth is an integer.
LEMMA VotesWell ==
  ASSUME NEW list, AreScrutins(list)
  PROVE  /\ IsFiniteSet(Weighty(list)) /\ Weighty(list) \subseteq DOMAIN list
         /\ \A i \in Weighty(list) :
              /\ IsScrutin(list[i]) /\ Scores!Poids(list[i]) \in Nat \ {0}
              /\ \A m \in Members : /\ VoteWeight(list)[<<i, m>>] \in Nat
                                    /\ VoteAnswer(list)[<<i, m>>] \in Int
                                    /\ VoteOne(list)[<<i, m>>] \in Nat
<1>1. IsFiniteSet(Weighty(list)) /\ Weighty(list) \subseteq DOMAIN list
  BY FS_Subset DEF AreScrutins, Weighty
<1>2. ASSUME NEW i \in Weighty(list)
      PROVE  /\ IsScrutin(list[i]) /\ Scores!Poids(list[i]) \in Nat \ {0} /\ list[i].position \in Int
  <2>1. IsScrutin(list[i])
    BY <1>1 DEF AreScrutins
  <2>2. list[i].position \in Int
    BY <2>1, CalculsAssumption DEF IsScrutin
  <2> QED
    BY <2>1, <2>2, PoidsIs DEF Weighty
<1>3. ASSUME NEW i \in Weighty(list), NEW m \in Members
      PROVE  /\ VoteWeight(list)[<<i, m>>] \in Nat
             /\ VoteAnswer(list)[<<i, m>>] \in Int
             /\ VoteOne(list)[<<i, m>>] \in Nat
  <2> DEFINE q == Scores!Poids(list[i])
             r == list[i].position
  <2>1. q \in Nat /\ r \in Int
    BY <1>2
  <2>2. r * q \in Int /\ (-r) * q \in Int
    <3> HIDE DEF q, r
    <3> QED
      BY <2>1
  <2>3. VoteWeight(list)[<<i, m>>] \in {q, 0} /\ VoteAnswer(list)[<<i, m>>] \in {r * q, (-r) * q, 0}
        /\ VoteOne(list)[<<i, m>>] \in {0, 1}
    BY DEF VoteWeight, VoteAnswer, VoteOne
  <2> HIDE DEF q, r
  <2> QED
    BY <2>1, <2>2, <2>3
<1> QED
  BY <1>1, <1>2, <1>3

\* What the votes of one member add up to.
LEMMA MemberSums ==
  ASSUME NEW list, AreScrutins(list), NEW m \in Members
  PROVE  LET c == Cast(Kept(list), m)
             G == Weighty(list)
         IN  /\ Weight(c) = SumFunctionOnSet(Col(VoteWeight(list), G, m), G)
             /\ Weighted(c) = SumFunctionOnSet(Col(VoteAnswer(list), G, m), G)
             /\ Cardinality(Weighs(c)) = SumFunctionOnSet(Col(VoteOne(list), G, m), G)
<1> DEFINE c == Cast(Kept(list), m)
           G == Weighty(list)
           H == {i \in G : list[i].votes[m] \in Polls}
           N == {k \in DOMAIN list : ~Neutral(list[k])}
           vote(i) == list[i].votes[m]
<1>1. /\ DOMAIN Kept(list) = N /\ (\A i \in N : Kept(list)[i] = list[i])
      /\ \A i \in DOMAIN list : IsScrutin(list[i])
  <2>1. DOMAIN Kept(list) = N /\ \A i \in N : Kept(list)[i] = list[i]
    BY DEF Kept
  <2> QED
    BY <2>1 DEF AreScrutins
<1>2. /\ DOMAIN c = {i \in N : vote(i) # "non_votant"}
      /\ \A i \in DOMAIN c : c[i] = Scores!Contribution(list[i], m)
  <2>1. DOMAIN c = {i \in N : vote(i) # "non_votant"} /\ N \subseteq DOMAIN list
    BY <1>1 DEF Cast
  <2>2. \A i \in DOMAIN c : c[i] = Scores!Contribution(Kept(list)[i], m)
    BY DEF Cast
  <2> QED
    BY <1>1, <2>1, <2>2
<1>3. ASSUME NEW i \in DOMAIN c
      PROVE  /\ c[i].apport = Scores!Apport(vote(i), list[i].position)
             /\ c[i].poids = IF vote(i) = "abstention" \/ Scores!DesaccordMesure(list[i])
                             THEN 0 ELSE Scores!Poids(list[i])
  <2>1. c[i] = Scores!Contribution(list[i], m)
    BY <1>2
  <2> HIDE DEF c
  <2> QED
    BY <2>1 DEF Scores!Contribution
<1>4. ASSUME NEW i \in DOMAIN list
      PROVE  vote(i) \in {"pour", "contre", "abstention", "non_votant"} /\ list[i].position \in Int
             /\ None \notin Int
  <2>1. IsScrutin(list[i])
    BY <1>1
  <2> QED
    BY <2>1, CalculsAssumption DEF IsScrutin
<1>5. ASSUME NEW i \in DOMAIN c
      PROVE  c[i].apport # None <=> vote(i) \in Polls
  <2>1. vote(i) \in {"pour", "contre", "abstention"} /\ list[i].position \in Int /\ None \notin Int
    BY <1>2, <1>4
  <2>2. -list[i].position \in Int
    BY <2>1
  <2> HIDE DEF c, vote
  <2> QED
    BY <1>3, <2>1, <2>2 DEF Scores!Apport, Polls
<1>6. Weighs(c) = H
  <2>1. ASSUME NEW i
        PROVE  i \in Weighs(c) <=> i \in H
    <3>1. i \in Weighs(c) <=> i \in DOMAIN c /\ vote(i) \in Polls /\ c[i].poids > 0
      BY <1>5 DEF Weighs
    <3>2. i \in DOMAIN list => (Scores!Agrees(list[i]) <=> ~Neutral(list[i]) /\ ~Scores!DesaccordMesure(list[i]))
      BY <1>1, FiltersAgree
    <3>3. i \in H <=> /\ i \in DOMAIN list /\ Scores!Agrees(list[i]) /\ Scores!Poids(list[i]) > 0
                      /\ vote(i) \in Polls
      BY DEF Weighty
    <3>4. i \in DOMAIN c <=> i \in DOMAIN list /\ ~Neutral(list[i]) /\ vote(i) # "non_votant"
      BY <1>2
    <3>5. i \in DOMAIN c /\ vote(i) \in Polls =>
            (c[i].poids > 0 <=> ~Scores!DesaccordMesure(list[i]) /\ Scores!Poids(list[i]) > 0)
      <4> SUFFICES ASSUME i \in DOMAIN c, vote(i) \in Polls
                   PROVE  c[i].poids > 0 <=> ~Scores!DesaccordMesure(list[i]) /\ Scores!Poids(list[i]) > 0
        OBVIOUS
      <4>1. vote(i) # "abstention"
        BY DEF Polls
      <4>2. c[i].poids = IF Scores!DesaccordMesure(list[i]) THEN 0 ELSE Scores!Poids(list[i])
        BY <1>3, <4>1
      <4> HIDE DEF c
      <4> QED
        BY <4>2
    <3>6. vote(i) \in Polls => vote(i) # "non_votant"
      BY DEF Polls
    <3> HIDE DEF c, H, vote
    <3> QED
      BY <3>1, <3>2, <3>3, <3>4, <3>5, <3>6
  <2> HIDE DEF c, H
  <2> QED
    BY <2>1
<1>7. ASSUME NEW i \in G
      PROVE  /\ i \in H => /\ VoteWeight(list)[<<i, m>>] = c[i].poids /\ VoteOne(list)[<<i, m>>] = 1
                           /\ VoteAnswer(list)[<<i, m>>] = c[i].apport * c[i].poids
             /\ i \notin H => /\ VoteWeight(list)[<<i, m>>] = 0 /\ VoteOne(list)[<<i, m>>] = 0
                              /\ VoteAnswer(list)[<<i, m>>] = 0
  <2>1. i \in H => i \in DOMAIN c /\ c[i].poids > 0
    BY <1>6 DEF Weighs
  <2>2. i \in H => c[i].poids = Scores!Poids(list[i]) /\ c[i].apport = Scores!Apport(vote(i), list[i].position)
    <3> HIDE DEF c, H
    <3> QED
      BY <1>3, <2>1
  <2>3. i \in H <=> vote(i) \in Polls
    OBVIOUS
  <2>4. /\ VoteWeight(list)[<<i, m>>] = (IF vote(i) \in Polls THEN Scores!Poids(list[i]) ELSE 0)
        /\ VoteOne(list)[<<i, m>>] = (IF vote(i) \in Polls THEN 1 ELSE 0)
        /\ VoteAnswer(list)[<<i, m>>] =
             (IF vote(i) = "pour" THEN list[i].position * Scores!Poids(list[i])
              ELSE IF vote(i) = "contre" THEN (-list[i].position) * Scores!Poids(list[i]) ELSE 0)
    BY DEF VoteWeight, VoteOne, VoteAnswer
  <2>5. /\ vote(i) = "pour" => Scores!Apport(vote(i), list[i].position) = list[i].position
        /\ vote(i) = "contre" => Scores!Apport(vote(i), list[i].position) = -list[i].position
    BY DEF Scores!Apport
  <2> HIDE DEF c, H, vote
  <2> QED
    BY <2>2, <2>3, <2>4, <2>5 DEF Polls
<1>8. /\ IsFiniteSet(G) /\ H \subseteq G
      /\ \A i \in G : /\ VoteWeight(list)[<<i, m>>] \in Int /\ VoteAnswer(list)[<<i, m>>] \in Int
                      /\ VoteOne(list)[<<i, m>>] \in Int
  BY VotesWell
<1> HIDE DEF c, G, H
<1>9. Weight(c) = SumFunctionOnSet(Col(VoteWeight(list), G, m), G)
  <2> DEFINE f == Col(VoteWeight(list), G, m)
             g == [i \in H |-> c[i].poids]
  <2>1. DOMAIN f = G /\ DOMAIN g = H /\ \A i \in G : f[i] = VoteWeight(list)[<<i, m>>]
    BY DEF Col
  <2>2. \A i \in H : g[i] = f[i]
    BY <1>7, <1>8, <2>1
  <2>3. Weight(c) = Total(g)
    BY <1>6 DEF Weight
  <2> HIDE DEF f, g
  <2>4. (\A i \in DOMAIN f : f[i] \in Int) /\ \A i \in DOMAIN f \ DOMAIN g : f[i] = 0
    BY <1>7, <1>8, <2>1
  <2>5. Total(f) = Total(g)
    BY <1>8, <2>1, <2>2, <2>4, TotalOfPart
  <2> QED
    BY <2>1, <2>3, <2>5 DEF f, Total
<1>10. Weighted(c) = SumFunctionOnSet(Col(VoteAnswer(list), G, m), G)
  <2> DEFINE f == Col(VoteAnswer(list), G, m)
             g == [i \in H |-> c[i].apport * c[i].poids]
  <2>1. DOMAIN f = G /\ DOMAIN g = H /\ \A i \in G : f[i] = VoteAnswer(list)[<<i, m>>]
    BY DEF Col
  <2>2. \A i \in H : g[i] = f[i]
    BY <1>7, <1>8, <2>1
  <2>3. Weighted(c) = Total(g)
    BY <1>6 DEF Weighted
  <2> HIDE DEF f, g
  <2>4. (\A i \in DOMAIN f : f[i] \in Int) /\ \A i \in DOMAIN f \ DOMAIN g : f[i] = 0
    BY <1>7, <1>8, <2>1
  <2>5. Total(f) = Total(g)
    BY <1>8, <2>1, <2>2, <2>4, TotalOfPart
  <2> QED
    BY <2>1, <2>3, <2>5 DEF f, Total
<1>11. Cardinality(Weighs(c)) = SumFunctionOnSet(Col(VoteOne(list), G, m), G)
  <2> DEFINE f == Col(VoteOne(list), G, m)
  <2>1. \A i \in G : f[i] = VoteOne(list)[<<i, m>>]
    BY DEF Col
  <2> HIDE DEF f
  <2>2. /\ (\A i \in G : f[i] \in Int) /\ (\A i \in H : f[i] = 1) /\ \A i \in G \ H : f[i] = 0
    BY <1>7, <1>8, <2>1
  <2>3. SumFunctionOnSet(f, G) = SumFunctionOnSet(f, H)
    BY <1>8, <2>2, SumPart
  <2>4. SumFunctionOnSet(f, H) = Cardinality(H)
    BY <1>8, <2>2, FS_Subset, SumOfOnes
  <2> QED
    BY <1>6, <2>3, <2>4 DEF f
<1> QED
  BY <1>9, <1>10, <1>11 DEF c, G

\* What is left of the scrutins of a group, and what of it weighs.
Agreed(list)  == [i \in {k \in DOMAIN list : Scores!Agrees(list[k])} |-> list[i]]
Heavies(list) == [i \in Weighty(list) |-> list[i]]

\* The sides of these scrutins, one contribution each, those of no vote left out.
Side(list, x) ==
  [apport |-> Scores!Apport(x[2], list[x[1]].position),
   poids  |-> Scores!Poids(list[x[1]]) * Scores!Count(list[x[1]], x[2])]
SidesOf(list) == {x \in Weighty(list) \X Polls : Side(list, x).poids > 0}

\* What process_groupe_theme_group computes, in these terms.
LEMMA GroupeIs ==
  ASSUME NEW list
  PROVE  /\ Scores!Where(list, LAMBDA s : ~Neutral(s)) = Kept(list)
         /\ LET sides == [x \in SidesOf(list) |-> Side(list, x)]
                total == Scores!Aggregate(sides)
                cohesion == Scores!Cohesion(Agreed(list))
            IN  Scores!Groupe(list) =
                  IF total = None \/ cohesion = None THEN None
                  ELSE [score |-> total.score, cohesion |-> cohesion,
                        contributions |-> Scores!Sum(Heavies(list), Scores!Voters)]
<1>1. Scores!Where(list, LAMBDA s : ~Neutral(s)) = Kept(list)
  BY DEF Scores!Where, Scores!RestrictDomain, Scores!Restrict, Kept
<1>2. Scores!Where(list, Scores!Agrees) = Agreed(list)
  BY DEF Scores!Where, Scores!RestrictDomain, Scores!Restrict, Agreed
<1>3. Scores!Weighing(Agreed(list)) = Heavies(list)
  <2>1. Scores!Weighing(Agreed(list)) =
          [i \in {k \in DOMAIN Agreed(list) : Scores!Poids(Agreed(list)[k]) > 0} |-> Agreed(list)[i]]
    BY DEF Scores!Weighing, Scores!Where, Scores!RestrictDomain, Scores!Restrict
  <2>2. DOMAIN Agreed(list) = {k \in DOMAIN list : Scores!Agrees(list[k])}
        /\ \A k \in DOMAIN Agreed(list) : Agreed(list)[k] = list[k]
    BY DEF Agreed
  <2>3. {k \in DOMAIN Agreed(list) : Scores!Poids(Agreed(list)[k]) > 0} = Weighty(list)
    BY <2>2 DEF Weighty
  <2>4. \A k \in Weighty(list) : Agreed(list)[k] = list[k]
    BY <2>2, <2>3
  <2> QED
    BY <2>1, <2>3, <2>4 DEF Heavies
<1>4. Scores!Sides(Heavies(list)) = [x \in SidesOf(list) |-> Side(list, x)]
  <2> DEFINE f == [x \in Weighty(list) \X Polls |-> Side(list, x)]
  <2>1. DOMAIN Heavies(list) = Weighty(list) /\ \A i \in Weighty(list) : Heavies(list)[i] = list[i]
    BY DEF Heavies
  <2>2. Scores!Sides(Heavies(list)) = Scores!Heavy(f)
    <3>1. Scores!Sides(Heavies(list)) =
            Scores!Heavy([x \in Weighty(list) \X {"pour", "contre"} |->
                            [apport |-> Scores!Apport(x[2], Heavies(list)[x[1]].position),
                             poids  |-> Scores!Poids(Heavies(list)[x[1]])
                                          * Scores!Count(Heavies(list)[x[1]], x[2])]])
      BY <2>1 DEF Scores!Sides
    <3>2. \A x \in Weighty(list) \X Polls : Heavies(list)[x[1]] = list[x[1]]
      BY <2>1
    <3> QED
      BY <3>1, <3>2 DEF Side, Polls
  <2>3. Scores!Heavy(f) = [x \in {y \in DOMAIN f : f[y].poids > 0} |-> f[x]]
    BY DEF Scores!Heavy, Scores!Where, Scores!RestrictDomain, Scores!Restrict
  <2>4. DOMAIN f = Weighty(list) \X Polls /\ \A x \in DOMAIN f : f[x] = Side(list, x)
    OBVIOUS
  <2> HIDE DEF f
  <2>5. {y \in DOMAIN f : f[y].poids > 0} = SidesOf(list)
    BY <2>4 DEF SidesOf
  <2>6. \A x \in SidesOf(list) : f[x] = Side(list, x)
    BY <2>4 DEF SidesOf
  <2> QED
    BY <2>2, <2>3, <2>5, <2>6
<1> QED
  BY <1>1, <1>2, <1>3, <1>4 DEF Scores!Groupe

\* The counts of scrutin_groupe, as sums over the members.
Votes01(s, vote) == [m \in Members |-> IF s.votes[m] = vote THEN 1 ELSE 0]

\* A count is a sum of ones over the members.
LEMMA CountIs ==
  ASSUME NEW s, NEW vote
  PROVE  /\ Scores!Count(s, vote) = SumFunctionOnSet(Votes01(s, vote), Members)
         /\ Scores!Count(s, vote) \in Nat
         /\ \A m \in Members : Votes01(s, vote)[m] \in Nat
<1>1. Scores!Count(s, vote) = SumFunctionOnSet(Votes01(s, vote), Members)
  <2>1. Scores!Count(s, vote) = Total(Votes01(s, vote))
    BY SumsAre DEF Scores!Count, Votes01
  <2>2. DOMAIN Votes01(s, vote) = Members
    BY DEF Votes01
  <2> QED
    BY <2>1, <2>2 DEF Total
<1>2. \A m \in Members : Votes01(s, vote)[m] \in Nat
  BY DEF Votes01
<1> QED
  BY <1>1, <1>2, SumNat, CalculsAssumption

\* What one scrutin adds up to, over the members.
LEMMA ScrutinSums ==
  ASSUME NEW list, AreScrutins(list), NEW i \in Weighty(list)
  PROVE  LET p == Scores!Count(list[i], "pour")
             c == Scores!Count(list[i], "contre")
             q == Scores!Poids(list[i])
             r == list[i].position
         IN  /\ SumFunctionOnSet(Row(VoteWeight(list), i, Members), Members) = q * p + q * c
             /\ SumFunctionOnSet(Row(VoteAnswer(list), i, Members), Members) = (r * q) * p + ((-r) * q) * c
             /\ SumFunctionOnSet(Row(VoteOne(list), i, Members), Members) = p + c
<1> DEFINE p == Scores!Count(list[i], "pour")
           c == Scores!Count(list[i], "contre")
           q == Scores!Poids(list[i])
           r == list[i].position
           f == Votes01(list[i], "pour")
           g == Votes01(list[i], "contre")
           weight == Row(VoteWeight(list), i, Members)
           answer == Row(VoteAnswer(list), i, Members)
           one    == Row(VoteOne(list), i, Members)
           vote(m) == list[i].votes[m]
<1>1. p = SumFunctionOnSet(f, Members) /\ c = SumFunctionOnSet(g, Members) /\ p \in Nat /\ c \in Nat
  BY CountIs
<1>2. q \in Nat /\ r \in Int /\ IsFiniteSet(Members)
  BY VotesWell, CalculsAssumption DEF IsScrutin
<1>3. r * q \in Int /\ (-r) * q \in Int
  <2> HIDE DEF r, q
  <2> QED
    BY <1>2
<1>4. ASSUME NEW m \in Members
      PROVE  /\ f[m] = (IF vote(m) = "pour" THEN 1 ELSE 0) /\ g[m] = (IF vote(m) = "contre" THEN 1 ELSE 0)
             /\ weight[m] = (IF vote(m) \in Polls THEN q ELSE 0)
             /\ answer[m] = (IF vote(m) = "pour" THEN r * q ELSE IF vote(m) = "contre" THEN (-r) * q ELSE 0)
             /\ one[m] = (IF vote(m) \in Polls THEN 1 ELSE 0)
  BY DEF Votes01, Row, VoteWeight, VoteAnswer, VoteOne
<1> DEFINE u == r * q
           v == (-r) * q
<1> HIDE DEF p, c, q, r, f, g, weight, answer, one, vote, u, v
<1>5. ASSUME NEW m \in Members
      PROVE  /\ f[m] \in Int /\ g[m] \in Int
             /\ weight[m] = q * f[m] + q * g[m] + 0 * g[m]
             /\ answer[m] = u * f[m] + v * g[m] + 0 * g[m]
             /\ one[m] = 1 * f[m] + 1 * g[m] + 0 * g[m]
  <2>1. CASE vote(m) = "pour"
    <3>1. f[m] = 1 /\ g[m] = 0 /\ weight[m] = q /\ answer[m] = u /\ one[m] = 1
      BY <1>4, <2>1 DEF Polls, u
    <3> QED
      BY <1>2, <1>3, <3>1 DEF u, v
  <2>2. CASE vote(m) = "contre"
    <3>1. f[m] = 0 /\ g[m] = 1 /\ weight[m] = q /\ answer[m] = v /\ one[m] = 1
      BY <1>4, <2>2 DEF Polls, v
    <3> QED
      BY <1>2, <1>3, <3>1 DEF u, v
  <2>3. CASE vote(m) \notin Polls
    <3>1. f[m] = 0 /\ g[m] = 0 /\ weight[m] = 0 /\ answer[m] = 0 /\ one[m] = 0
      BY <1>4, <2>3 DEF Polls
    <3> QED
      BY <1>2, <1>3, <3>1 DEF u, v
  <2> QED
    BY <2>1, <2>2, <2>3 DEF Polls
<1>6. u \in Int /\ v \in Int
  BY <1>3 DEF u, v
<1>7. /\ SumFunctionOnSet(weight, Members) = q * p + q * c + 0 * c
      /\ SumFunctionOnSet(answer, Members) = u * p + v * c + 0 * c
      /\ SumFunctionOnSet(one, Members) = 1 * p + 1 * c + 0 * c
  <2>1. IsFiniteSet(Members) /\ q \in Int /\ u \in Int /\ v \in Int /\ 0 \in Int /\ 1 \in Int
    BY <1>2, <1>6
  <2>2. SumFunctionOnSet(weight, Members) = q * SumFunctionOnSet(f, Members)
                                              + q * SumFunctionOnSet(g, Members)
                                              + 0 * SumFunctionOnSet(g, Members)
    BY ONLY <1>5, <2>1, SumLinear
  <2>3. SumFunctionOnSet(answer, Members) = u * SumFunctionOnSet(f, Members)
                                              + v * SumFunctionOnSet(g, Members)
                                              + 0 * SumFunctionOnSet(g, Members)
    BY ONLY <1>5, <2>1, SumLinear
  <2>4. SumFunctionOnSet(one, Members) = 1 * SumFunctionOnSet(f, Members)
                                           + 1 * SumFunctionOnSet(g, Members)
                                           + 0 * SumFunctionOnSet(g, Members)
    BY ONLY <1>5, <2>1, SumLinear
  <2> QED
    BY <1>1, <2>2, <2>3, <2>4
<1>8. /\ SumFunctionOnSet(weight, Members) = q * p + q * c
      /\ SumFunctionOnSet(answer, Members) = u * p + v * c
      /\ SumFunctionOnSet(one, Members) = p + c
  BY <1>1, <1>2, <1>6, <1>7
<1> QED
  BY <1>8 DEF p, c, q, r, weight, answer, one, u, v

\* The three sums over the votes of the members, taken member by member.
Summed(f, list) ==
  SumFunctionOnSet(Cols(f, Weighty(list), Members), Members)

\* The sides weigh what the votes of the members weigh, and answer the same.
LEMMA SidesSums ==
  ASSUME NEW list, AreScrutins(list)
  PROVE  LET sides == [x \in SidesOf(list) |-> Side(list, x)]
         IN  /\ AreVotes(sides) /\ Weighs(sides) = SidesOf(list)
             /\ Weight(sides) = Summed(VoteWeight(list), list)
             /\ Weighted(sides) = Summed(VoteAnswer(list), list)
             /\ Scores!Sum(Heavies(list), Scores!Voters) = Summed(VoteOne(list), list)
<1> DEFINE G == Weighty(list)
           X == SidesOf(list)
           sides == [x \in X |-> Side(list, x)]
           q(i) == Scores!Poids(list[i])
           r(i) == list[i].position
           p(i) == Scores!Count(list[i], "pour")
           c(i) == Scores!Count(list[i], "contre")
<1>1. /\ IsFiniteSet(G) /\ IsFiniteSet(Polls) /\ IsFiniteSet(G \X Polls) /\ IsFiniteSet(Members)
      /\ X \in SUBSET (G \X Polls) /\ IsFiniteSet(X)
  <2>1. IsFiniteSet(G) /\ IsFiniteSet(Polls)
    <3>1. IsFiniteSet({"pour"}) /\ IsFiniteSet({"contre"}) /\ Polls = {"pour"} \cup {"contre"}
      BY FS_Singleton DEF Polls
    <3>2. IsFiniteSet(Polls)
      BY <3>1, FS_Union
    <3> QED
      BY <3>2, VotesWell
  <2>2. IsFiniteSet(G \X Polls) /\ X \in SUBSET (G \X Polls)
    BY <2>1, FS_Product DEF SidesOf
  <2> QED
    BY <2>1, <2>2, FS_Subset, CalculsAssumption
<1>2. ASSUME NEW i \in G
      PROVE  /\ q(i) \in Nat /\ r(i) \in Int /\ p(i) \in Nat /\ c(i) \in Nat
             /\ Side(list, <<i, "pour">>) = [apport |-> r(i), poids |-> q(i) * p(i)]
             /\ Side(list, <<i, "contre">>) = [apport |-> -r(i), poids |-> q(i) * c(i)]
  <2>1. q(i) \in Nat /\ r(i) \in Int
    BY VotesWell, CalculsAssumption DEF IsScrutin
  <2>2. p(i) \in Nat /\ c(i) \in Nat
    BY CountIs
  <2> QED
    BY <2>1, <2>2 DEF Side, Scores!Apport
<1>3. ASSUME NEW x \in G \X Polls
      PROVE  Side(list, x).apport \in Int /\ Side(list, x).poids \in Nat
  <2>1. PICK i \in G, v \in Polls : x = <<i, v>>
    OBVIOUS
  <2>2. v = "pour" \/ v = "contre"
    BY DEF Polls
  <2>3. ASSUME NEW a \in Nat, NEW b \in Nat
        PROVE  a * b \in Nat
    OBVIOUS
  <2>4. ASSUME NEW a \in Int
        PROVE  -a \in Int
    OBVIOUS
  <2> HIDE DEF G, q, r, p, c
  <2>5. q(i) \in Nat /\ r(i) \in Int /\ p(i) \in Nat /\ c(i) \in Nat
    BY <1>2
  <2>6. q(i) * p(i) \in Nat /\ q(i) * c(i) \in Nat /\ r(i) \in Int /\ -r(i) \in Int
    BY <2>3, <2>4, <2>5
  <2>7. CASE v = "pour"
    <3>1. Side(list, x) = [apport |-> r(i), poids |-> q(i) * p(i)]
      BY <1>2, <2>1, <2>7
    <3> QED
      BY <2>6, <3>1
  <2>8. CASE v = "contre"
    <3>1. Side(list, x) = [apport |-> -r(i), poids |-> q(i) * c(i)]
      BY <1>2, <2>1, <2>8
    <3> QED
      BY <2>6, <3>1
  <2> QED
    BY <2>2, <2>7, <2>8
<1>4. /\ \A x \in X : sides[x].apport \in Int /\ sides[x].poids \in Nat \ {0}
      /\ DOMAIN sides = X
  BY <1>1, <1>3 DEF SidesOf
<1>5. \A x \in (G \X Polls) \ X : Side(list, x).poids = 0
  BY <1>3 DEF SidesOf
<1>6. AreVotes(sides) /\ Weighs(sides) = X
  <2> HIDE DEF X, sides
  <2>1. None \notin Int
    BY CalculsAssumption
  <2> QED
    BY <1>1, <1>4, <2>1 DEF AreVotes, Weighs
<1> HIDE DEF G, X, q, r, p, c
<1>7. Weight(sides) = Summed(VoteWeight(list), list)
  <2> DEFINE f == [x \in G \X Polls |-> Side(list, x).poids]
             g == [x \in X |-> sides[x].poids]
             rows == Rows(f, G, Polls)
             h == Rows(VoteWeight(list), G, Members)
  <2>1. /\ DOMAIN f = G \X Polls /\ DOMAIN g = X /\ (\A x \in G \X Polls : f[x] \in Int)
        /\ (\A x \in X : g[x] = f[x]) /\ \A x \in (G \X Polls) \ X : f[x] = 0
    BY <1>1, <1>3, <1>5
  <2>2. ASSUME NEW i \in G
        PROVE  f[<<i, "pour">>] = q(i) * p(i) /\ f[<<i, "contre">>] = q(i) * c(i)
    <3>1. <<i, "pour">> \in G \X Polls /\ <<i, "contre">> \in G \X Polls
      BY DEF Polls
    <3>2. /\ f[<<i, "pour">>] = Side(list, <<i, "pour">>).poids
          /\ f[<<i, "contre">>] = Side(list, <<i, "contre">>).poids
      BY <3>1
    <3>3. Side(list, <<i, "pour">>) = [apport |-> r(i), poids |-> q(i) * p(i)]
      BY <1>2
    <3>4. Side(list, <<i, "contre">>) = [apport |-> -r(i), poids |-> q(i) * c(i)]
      BY <1>2
    <3>5. Side(list, <<i, "pour">>).poids = q(i) * p(i) /\ Side(list, <<i, "contre">>).poids = q(i) * c(i)
      BY <3>3, <3>4
    <3> QED
      BY ONLY <3>2, <3>5
  <2>3. Weight(sides) = Total(g)
    BY <1>6 DEF Weight
  <2> HIDE DEF f, g, sides
  <2>4. Total(f) = Total(g)
    BY <1>1, <2>1, TotalOfPart
  <2>5. SumFunctionOnSet(f, G \X Polls) = SumFunctionOnSet(rows, G)
    <3>1. \A i \in G : \A v \in Polls : f[<<i, v>>] \in Int
      BY <2>1
    <3> QED
      BY <1>1, <3>1, SumOfPairs
  <2>6. \A i \in G : rows[i] = h[i]
    <3> SUFFICES ASSUME NEW i \in G
                 PROVE  rows[i] = h[i]
      OBVIOUS
    <3> DEFINE e == Row(f, i, Polls)
    <3>1. e["pour"] = q(i) * p(i) /\ e["contre"] = q(i) * c(i) /\ e["pour"] \in Int /\ e["contre"] \in Int
      BY <2>1, <2>2 DEF Row, Polls
    <3>2. rows[i] = SumFunctionOnSet(e, {"pour", "contre"})
      BY DEF Rows, Polls
    <3> HIDE DEF e
    <3>3. rows[i] = q(i) * p(i) + q(i) * c(i)
      <4>1. "pour" # "contre"
        OBVIOUS
      <4>2. SumFunctionOnSet(e, {"pour", "contre"}) = e["pour"] + e["contre"]
        BY <3>1, <4>1, SumOverTwo
      <4> QED
        BY <3>1, <3>2, <4>2
    <3>4. h[i] = q(i) * p(i) + q(i) * c(i)
      BY ScrutinSums DEF Rows, q, p, c, G
    <3> QED
      BY <3>3, <3>4
  <2>7. SumFunctionOnSet(rows, G) = SumFunctionOnSet(h, G)
    <3>1. DOMAIN rows = G /\ DOMAIN h = G
      BY DEF Rows
    <3>2. rows = h
      <4>1. rows = [i \in G |-> rows[i]] /\ h = [i \in G |-> h[i]]
        BY DEF Rows
      <4> HIDE DEF rows, h
      <4> QED
        BY <2>6, <4>1
    <3> QED
      BY <3>2
  <2>8. SumFunctionOnSet(h, G) = Summed(VoteWeight(list), list)
    BY <1>1, VotesWell, SumSwap DEF Summed, G
  <2> QED
    BY <2>1, <2>3, <2>4, <2>5, <2>7, <2>8 DEF Total
<1>8. Weighted(sides) = Summed(VoteAnswer(list), list)
  <2> DEFINE f == [x \in G \X Polls |-> Side(list, x).apport * Side(list, x).poids]
             g == [x \in X |-> sides[x].apport * sides[x].poids]
             rows == Rows(f, G, Polls)
             h == Rows(VoteAnswer(list), G, Members)
  <2>0. ASSUME NEW x \in G \X Polls
        PROVE  Side(list, x).apport * Side(list, x).poids \in Int
    BY <1>3
  <2>1. /\ DOMAIN f = G \X Polls /\ DOMAIN g = X /\ (\A x \in G \X Polls : f[x] \in Int)
        /\ (\A x \in X : g[x] = f[x]) /\ \A x \in (G \X Polls) \ X : f[x] = 0
    BY <1>1, <1>3, <1>5, <2>0
  <2>2. ASSUME NEW i \in G
        PROVE  f[<<i, "pour">>] = (r(i) * q(i)) * p(i) /\ f[<<i, "contre">>] = ((-r(i)) * q(i)) * c(i)
    <3>1. f[<<i, "pour">>] = r(i) * (q(i) * p(i)) /\ f[<<i, "contre">>] = (-r(i)) * (q(i) * c(i))
      <4>1. <<i, "pour">> \in G \X Polls /\ <<i, "contre">> \in G \X Polls
        BY DEF Polls
      <4>2. /\ f[<<i, "pour">>] = Side(list, <<i, "pour">>).apport * Side(list, <<i, "pour">>).poids
            /\ f[<<i, "contre">>] = Side(list, <<i, "contre">>).apport * Side(list, <<i, "contre">>).poids
        BY <4>1
      <4>3. Side(list, <<i, "pour">>) = [apport |-> r(i), poids |-> q(i) * p(i)]
        BY <1>2
      <4>4. Side(list, <<i, "contre">>) = [apport |-> -r(i), poids |-> q(i) * c(i)]
        BY <1>2
      <4>5. /\ Side(list, <<i, "pour">>).apport = r(i) /\ Side(list, <<i, "contre">>).apport = -r(i)
            /\ Side(list, <<i, "pour">>).poids = q(i) * p(i)
            /\ Side(list, <<i, "contre">>).poids = q(i) * c(i)
        BY <4>3, <4>4
      <4> QED
        BY ONLY <4>2, <4>5
    <3>2. ASSUME NEW a \in Int, NEW b \in Int, NEW d \in Int
          PROVE  a * (b * d) = (a * b) * d
      OBVIOUS
    <3>3. q(i) \in Int /\ r(i) \in Int /\ -r(i) \in Int /\ p(i) \in Int /\ c(i) \in Int
      <4>1. q(i) \in Nat /\ r(i) \in Int /\ p(i) \in Nat /\ c(i) \in Nat
        BY <1>2
      <4>2. ASSUME NEW a \in Int
            PROVE  -a \in Int
        OBVIOUS
      <4> QED
        BY <4>1, <4>2
    <3> HIDE DEF f
    <3> QED
      BY <3>1, <3>2, <3>3
  <2>3. Weighted(sides) = Total(g)
    BY <1>6 DEF Weighted
  <2> HIDE DEF f, g, sides
  <2>4. Total(f) = Total(g)
    BY <1>1, <2>1, TotalOfPart
  <2>5. SumFunctionOnSet(f, G \X Polls) = SumFunctionOnSet(rows, G)
    <3>1. \A i \in G : \A v \in Polls : f[<<i, v>>] \in Int
      BY <2>1
    <3> QED
      BY <1>1, <3>1, SumOfPairs
  <2>6. \A i \in G : rows[i] = h[i]
    <3> SUFFICES ASSUME NEW i \in G
                 PROVE  rows[i] = h[i]
      OBVIOUS
    <3> DEFINE e == Row(f, i, Polls)
    <3>1. /\ e["pour"] = (r(i) * q(i)) * p(i) /\ e["contre"] = ((-r(i)) * q(i)) * c(i)
          /\ e["pour"] \in Int /\ e["contre"] \in Int
      BY <2>1, <2>2 DEF Row, Polls
    <3>2. rows[i] = SumFunctionOnSet(e, {"pour", "contre"})
      BY DEF Rows, Polls
    <3> HIDE DEF e
    <3>3. rows[i] = (r(i) * q(i)) * p(i) + ((-r(i)) * q(i)) * c(i)
      <4>1. "pour" # "contre"
        OBVIOUS
      <4>2. SumFunctionOnSet(e, {"pour", "contre"}) = e["pour"] + e["contre"]
        BY <3>1, <4>1, SumOverTwo
      <4> QED
        BY <3>1, <3>2, <4>2
    <3>4. h[i] = (r(i) * q(i)) * p(i) + ((-r(i)) * q(i)) * c(i)
      BY ScrutinSums DEF Rows, q, p, c, r, G
    <3> QED
      BY <3>3, <3>4
  <2>7. SumFunctionOnSet(rows, G) = SumFunctionOnSet(h, G)
    <3>1. rows = [i \in G |-> rows[i]] /\ h = [i \in G |-> h[i]]
      BY DEF Rows
    <3> HIDE DEF rows, h
    <3> QED
      BY <2>6, <3>1
  <2>8. SumFunctionOnSet(h, G) = Summed(VoteAnswer(list), list)
    BY <1>1, VotesWell, SumSwap DEF Summed, G
  <2> QED
    BY <2>1, <2>3, <2>4, <2>5, <2>7, <2>8 DEF Total
<1>9. Scores!Sum(Heavies(list), Scores!Voters) = Summed(VoteOne(list), list)
  <2> DEFINE h == Rows(VoteOne(list), G, Members)
  <2>1. Scores!Sum(Heavies(list), Scores!Voters) = Total([i \in G |-> Scores!Voters(list[i])])
    BY SumsAre DEF Scores!Sum, Heavies, G
  <2>2. \A i \in G : Scores!Voters(list[i]) = h[i]
    BY ScrutinSums DEF Scores!Voters, Rows, G
  <2>3. [i \in G |-> Scores!Voters(list[i])] = h
    <3>1. h = [i \in G |-> h[i]]
      BY DEF Rows
    <3> HIDE DEF h
    <3> QED
      BY <2>2, <3>1
  <2>4. DOMAIN h = G
    BY DEF Rows
  <2>5. SumFunctionOnSet(h, G) = Summed(VoteOne(list), list)
    BY <1>1, VotesWell, SumSwap DEF Summed, G
  <2> QED
    BY <2>1, <2>3, <2>4, <2>5 DEF Total
<1> QED
  BY <1>6, <1>7, <1>8, <1>9 DEF X

\* A side that weighs has voters, and their majority is at least half of them.
LEMMA CohesionIs ==
  ASSUME NEW list, AreScrutins(list), SidesOf(list) # {}
  PROVE  LET c == Scores!Cohesion(Agreed(list))
         IN  c \in (Nat \ {0}) \X (Nat \ {0}) /\ c[1] \in 1..c[2] /\ 2 * c[1] >= c[2]
<1> DEFINE A == DOMAIN Agreed(list)
           f == [i \in A |-> Scores!Majority(list[i])]
           g == [i \in A |-> Scores!Voters(list[i])]
           maj == SumFunctionOnSet(f, A)
           tot == SumFunctionOnSet(g, A)
<1>1. IsFiniteSet(A) /\ Weighty(list) \subseteq A /\ \A i \in A : Agreed(list)[i] = list[i]
  <2>1. A = {k \in DOMAIN list : Scores!Agrees(list[k])} /\ \A i \in A : Agreed(list)[i] = list[i]
    BY DEF Agreed
  <2> HIDE DEF A
  <2>2. A \subseteq DOMAIN list
    BY <2>1
  <2> QED
    BY <2>1, <2>2, FS_Subset DEF AreScrutins, Weighty
<1>2. Scores!Sum(Agreed(list), Scores!Majority) = maj /\ Scores!Sum(Agreed(list), Scores!Voters) = tot
  BY <1>1, SumsAre DEF Scores!Sum, Total
<1> HIDE DEF A
<1>3. ASSUME NEW i \in A
      PROVE  f[i] \in Nat /\ g[i] \in Nat /\ f[i] <= g[i] /\ g[i] <= 2 * f[i]
  <2> DEFINE p == Scores!Count(list[i], "pour")
             c == Scores!Count(list[i], "contre")
             larger == IF p >= c THEN p ELSE c
  <2>1. p \in Nat /\ c \in Nat
    BY CountIs
  <2>2. f[i] = Scores!Max({p, c}) /\ g[i] = p + c
    BY DEF Scores!Majority, Scores!Voters
  <2> HIDE DEF p, c, f, g
  <2>3. Scores!Max({p, c}) = larger
    BY <2>1 DEF Scores!Max
  <2> QED
    BY <2>1, <2>2, <2>3
<1>4. PICK i \in Weighty(list) : Scores!Count(list[i], "pour") > 0 \/ Scores!Count(list[i], "contre") > 0
  <2>1. PICK x \in Weighty(list) \X Polls : Side(list, x).poids > 0
    BY DEF SidesOf
  <2> DEFINE n == Scores!Count(list[x[1]], x[2])
             q == Scores!Poids(list[x[1]])
  <2>2. q * n > 0
    BY <2>1 DEF Side
  <2>3. q \in Nat /\ n \in Nat
    BY VotesWell, CountIs
  <2> HIDE DEF n, q
  <2>4. n > 0
    BY <2>2, <2>3
  <2>5. x[1] \in Weighty(list) /\ (x[2] = "pour" \/ x[2] = "contre")
    BY DEF Polls
  <2> QED
    BY <2>4, <2>5 DEF n
<1>5. i \in A /\ g[i] > 0
  <2>1. i \in A /\ Scores!Count(list[i], "pour") \in Nat /\ Scores!Count(list[i], "contre") \in Nat
    BY <1>1, CountIs
  <2>2. g[i] = Scores!Count(list[i], "pour") + Scores!Count(list[i], "contre")
    BY <2>1 DEF Scores!Voters
  <2> HIDE DEF g
  <2> QED
    BY <1>4, <2>1, <2>2
<1> DEFINE h == [j \in A |-> 2 * f[j]]
<1>6. ASSUME NEW j \in A
      PROVE  h[j] = 2 * f[j] /\ h[j] \in Int
  BY <1>3
<1> HIDE DEF f, g, h
<1>7. maj \in Nat /\ tot \in Nat /\ g[i] <= tot
  BY <1>1, <1>3, <1>5, SumNat, SumAtLeast
<1>8. maj <= tot
  <2>1. \A j \in A : f[j] \in Int /\ g[j] \in Int /\ f[j] <= g[j]
    BY <1>3
  <2> QED
    BY <1>1, <2>1, SumOrder
<1>9. tot <= 2 * maj
  <2>1. \A j \in A : g[j] \in Int /\ h[j] \in Int /\ g[j] <= h[j]
    BY <1>3, <1>6
  <2>2. tot <= SumFunctionOnSet(h, A)
    BY <1>1, <2>1, SumOrder
  <2>3. SumFunctionOnSet(h, A) = 2 * maj
    <3>1. (\A j \in A : f[j] \in Int /\ h[j] = 2 * f[j]) /\ 2 \in Int
      BY <1>3, <1>6
    <3> QED
      BY <1>1, <3>1, SumTimes
  <2> QED
    BY <2>2, <2>3
<1> HIDE DEF maj, tot
<1>10. tot > 0 /\ maj > 0
  <2>1. g[i] \in Nat
    BY <1>3, <1>5
  <2> QED
    BY <1>5, <1>7, <1>9, <2>1
<1>11. Scores!Cohesion(Agreed(list)) = <<maj, tot>>
  BY <1>2, <1>7, <1>10 DEF Scores!Cohesion
<1> QED
  BY <1>7, <1>8, <1>9, <1>10, <1>11

\* GroupIsItsMembers: the score of a group, from its counts, is the mean of
\* those of its members, from their votes, weighted by what they rest on: for
\* any members, votes, labels and weights, and any number of scrutins.
THEOREM GroupIsItsMembersCorrect ==
  Spec => []GroupIsItsMembers
<1>1. ScrutinsInv => GroupIsItsMembers
  <2> SUFFICES ASSUME ScrutinsInv, kind = "scrutins"
               PROVE  LET kept    == Scores!Where(input, LAMBDA s : ~Neutral(s))
                          scored  == {m \in Members : Scores!Person(kept, m) # None}
                          of(m)   == Scores!Person(kept, m)
                          groupe  == Scores!Groupe(input)
                      IN  /\ (groupe = None) <=> (scored = {})
                          /\ groupe # None =>
                               /\ groupe.score = <<SumFunction([m \in scored |-> of(m).score[1]]),
                                                   SumFunction([m \in scored |-> of(m).score[2]])>>
                               /\ groupe.contributions = SumFunction([m \in scored |-> of(m).contributions])
                               /\ groupe.cohesion[1] \in 1..groupe.cohesion[2]
                               /\ 2 * groupe.cohesion[1] >= groupe.cohesion[2]
    BY DEF GroupIsItsMembers
  <2> DEFINE cast(m) == Cast(Kept(input), m)
             of(m)   == Scores!Person(Kept(input), m)
             scored  == {m \in Members : of(m) # None}
             groupe  == Scores!Groupe(input)
             sides   == [x \in SidesOf(input) |-> Side(input, x)]
             votes(m) == Cardinality(Weighs(cast(m)))
             cohesion == Scores!Cohesion(Agreed(input))
             n       == Scores!Sum(Heavies(input), Scores!Voters)
             total   == Scores!Aggregate(sides)
  <2>1. AreScrutins(input) /\ AreScrutins(Kept(input)) /\ IsFiniteSet(Members) /\ Unit \in Nat \ {0}
    BY ScrutinsFed, WellKept, CalculsAssumption
  <2>2. ASSUME NEW m \in Members
        PROVE  /\ m \in scored <=> Weighs(cast(m)) # {}
               /\ m \in scored => /\ of(m).score[1] = Weighted(cast(m))
                                  /\ of(m).score[2] = Weight(cast(m)) * Unit
                                  /\ of(m).contributions = votes(m)
               /\ m \notin scored => Weighted(cast(m)) = 0 /\ Weight(cast(m)) = 0 /\ votes(m) = 0
               /\ Weight(cast(m)) \in Nat /\ (Weight(cast(m)) = 0 <=> Weighs(cast(m)) = {})
               /\ Weighted(cast(m)) \in Int /\ votes(m) \in Nat
    <3> DEFINE c == cast(m)
               rest == Cardinality({i \in DOMAIN c : c[i].apport = None})
               square == Weight(c) * Weight(c) * Weight(c) * Unit * Unit
               record == [score |-> <<Weighted(c), Weight(c) * Unit>>, variance |-> <<Spread(c), square>>,
                          contributions |-> Cardinality(Weighs(c)), abstentions |-> rest]
    <3>1. AreVotes(c) /\ of(m) = Scores!Aggregate(c)
      BY <2>1, CastWell
    <3> HIDE DEF c
    <3>2. /\ IsFiniteSet(Weighs(c)) /\ Weight(c) \in Nat /\ (Weight(c) = 0 <=> Weighs(c) = {})
          /\ Weighted(c) \in Int /\ Spread(c) \in Nat
      BY <3>1, WeighsWell
    <3>3. Cardinality(Weighs(c)) \in Nat /\ rest \in Nat
      <4>1. IsFiniteSet({i \in DOMAIN c : c[i].apport = None})
        BY <3>1, FS_Subset DEF AreVotes
      <4> QED
        BY <3>2, <4>1, FS_CardinalityType
    <3>4. square \in Int /\ Weight(c) * Unit \in Int
      <4> DEFINE k == Weight(c)
      <4>1. k \in Nat /\ Unit \in Nat
        BY <2>1, <3>2
      <4> HIDE DEF k
      <4>2. k * k * k * Unit * Unit \in Int /\ k * Unit \in Int
        BY <4>1
      <4> QED
        BY <4>2 DEF k
    <3> HIDE DEF rest, square
    <3>5. record # None
      <4>1. record \in [score : Int \X Int, variance : Int \X Int, contributions : Nat, abstentions : Nat]
        BY <3>2, <3>3, <3>4
      <4> HIDE DEF record
      <4> QED
        BY <4>1, CalculsAssumption
    <3>6. of(m) = IF Weighs(c) = {} THEN None ELSE record
      BY <3>1, AggregateIs DEF rest, square
    <3> HIDE DEF of
    <3>7. m \in scored <=> Weighs(c) # {}
      BY <3>5, <3>6
    <3>8. Weighs(c) = {} => Weighted(c) = 0 /\ Cardinality(Weighs(c)) = 0
      <4> SUFFICES ASSUME Weighs(c) = {}
                   PROVE  Weighted(c) = 0 /\ Cardinality(Weighs(c)) = 0
        OBVIOUS
      <4>1. Weighted(c) = SumFunctionOnSet([i \in Weighs(c) |-> c[i].apport * c[i].poids], {})
        BY DEF Weighted, Total
      <4> QED
        BY <4>1, SumEmpty, FS_EmptySet
    <3>9. m \in scored => of(m) = record
      BY <3>6, <3>7
    <3> HIDE DEF scored
    <3> QED
      BY <3>2, <3>3, <3>7, <3>8, <3>9 DEF c
  <2> DEFINE W == Summed(VoteWeight(input), input)
             T == Summed(VoteAnswer(input), input)
             N == Summed(VoteOne(input), input)
             fw == Cols(VoteWeight(input), Weighty(input), Members)
             ft == Cols(VoteAnswer(input), Weighty(input), Members)
             fn == Cols(VoteOne(input), Weighty(input), Members)
  <2>3. ASSUME NEW m \in Members
        PROVE  fw[m] = Weight(cast(m)) /\ ft[m] = Weighted(cast(m)) /\ fn[m] = votes(m)
    BY <2>1, MemberSums DEF Cols
  <2>4. W = SumFunctionOnSet(fw, Members) /\ T = SumFunctionOnSet(ft, Members) /\ N = SumFunctionOnSet(fn, Members)
    BY DEF Summed
  <2>5. /\ AreVotes(sides) /\ Weighs(sides) = SidesOf(input)
        /\ Weight(sides) = W /\ Weighted(sides) = T /\ n = N
    BY <2>1, SidesSums
  <2>6. /\ Scores!Where(input, LAMBDA s : ~Neutral(s)) = Kept(input)
        /\ groupe = IF total = None \/ cohesion = None THEN None
                    ELSE [score |-> total.score, cohesion |-> cohesion, contributions |-> n]
    BY GroupeIs
  <2> HIDE DEF cast, votes, of, scored, groupe, sides, cohesion, n, total, W, T, N, fw, ft, fn
  <2>7. scored \in SUBSET Members
    BY DEF scored
  <2>8. /\ W \in Nat /\ T \in Int /\ N \in Nat /\ (W = 0 <=> scored = {})
        /\ W = SumFunctionOnSet(fw, scored) /\ T = SumFunctionOnSet(ft, scored)
        /\ N = SumFunctionOnSet(fn, scored)
    <3>1. \A m \in Members : fw[m] \in Nat /\ ft[m] \in Int /\ fn[m] \in Nat
      BY <2>2, <2>3
    <3>2. \A m \in Members \ scored : fw[m] = 0 /\ ft[m] = 0 /\ fn[m] = 0
      BY <2>2, <2>3
    <3>3. /\ W = SumFunctionOnSet(fw, scored) /\ T = SumFunctionOnSet(ft, scored)
          /\ N = SumFunctionOnSet(fn, scored)
      <4>1. W = SumFunctionOnSet(fw, scored)
        BY <2>1, <2>4, <2>7, <3>1, <3>2, SumPart
      <4>2. T = SumFunctionOnSet(ft, scored)
        BY <2>1, <2>4, <2>7, <3>1, <3>2, SumPart
      <4>3. N = SumFunctionOnSet(fn, scored)
        BY <2>1, <2>4, <2>7, <3>1, <3>2, SumPart
      <4> QED
        BY <4>1, <4>2, <4>3
    <3>4. W \in Nat /\ T \in Int /\ N \in Nat
      BY <2>1, <2>4, <3>1, SumNat, SumPull
    <3>5. CASE scored = {}
      BY <3>3, <3>4, <3>5, SumEmpty
    <3>6. CASE scored # {}
      <4>1. PICK m \in scored : TRUE
        BY <3>6
      <4>2. m \in Members /\ fw[m] # 0
        BY <2>2, <2>3, <2>7
      <4>3. fw[m] <= W
        BY <2>1, <2>4, <3>1, <4>2, SumAtLeast
      <4> QED
        BY <3>1, <3>3, <3>4, <3>6, <4>2, <4>3
    <3> QED
      BY <3>3, <3>4, <3>5, <3>6
  <2>9. /\ SumFunction([m \in scored |-> of(m).score[1]]) = T
        /\ SumFunction([m \in scored |-> of(m).score[2]]) = W * Unit
        /\ SumFunction([m \in scored |-> of(m).contributions]) = N
    <3> DEFINE f1 == [m \in scored |-> of(m).score[1]]
               f2 == [m \in scored |-> of(m).score[2]]
               f3 == [m \in scored |-> of(m).contributions]
    <3>1. /\ SumFunction(f1) = SumFunctionOnSet(f1, scored) /\ SumFunction(f2) = SumFunctionOnSet(f2, scored)
          /\ SumFunction(f3) = SumFunctionOnSet(f3, scored)
      BY SumsAre DEF Total
    <3>2. ASSUME NEW m \in scored
          PROVE  /\ f1[m] = ft[m] /\ f2[m] = Unit * fw[m] /\ f3[m] = fn[m]
                 /\ ft[m] \in Int /\ fw[m] \in Int /\ fn[m] \in Int
      <4>1. /\ f1[m] = Weighted(cast(m)) /\ f2[m] = Weight(cast(m)) * Unit /\ f3[m] = votes(m)
            /\ Weighted(cast(m)) \in Int /\ Weight(cast(m)) \in Nat /\ votes(m) \in Nat
        BY <2>2, <2>7
      <4>2. fw[m] = Weight(cast(m)) /\ ft[m] = Weighted(cast(m)) /\ fn[m] = votes(m)
        BY <2>3, <2>7
      <4> HIDE DEF f1, f2, f3
      <4>3. Weight(cast(m)) * Unit = Unit * Weight(cast(m))
        BY <2>1, <4>1
      <4> QED
        BY <4>1, <4>2, <4>3
    <3> HIDE DEF f1, f2, f3
    <3>3. IsFiniteSet(scored) /\ Unit \in Int
      BY <2>1, <2>7, FS_Subset
    <3>4. SumFunctionOnSet(f1, scored) = T /\ SumFunctionOnSet(f3, scored) = N
      BY <2>8, <3>2, <3>3, SumSame
    <3>5. SumFunctionOnSet(f2, scored) = Unit * W
      BY <2>8, <3>2, <3>3, SumTimes
    <3>6. Unit * W = W * Unit
      BY <2>1, <2>8
    <3> QED
      BY <3>1, <3>4, <3>5, <3>6 DEF f1, f2, f3
  <2>10. CASE SidesOf(input) = {}
    <3>1. total = None
      BY <2>5, <2>10, AggregateIs DEF total
    <3>2. W = 0
      <4>1. Weight(sides) = 0
        BY <2>5, <2>10, WeighsWell
      <4> QED
        BY <2>5, <4>1
    <3>3. groupe = None /\ scored = {}
      BY <2>6, <2>8, <3>1, <3>2
    <3> QED
      BY <2>6, <3>3 DEF groupe, scored, of
  <2>11. CASE SidesOf(input) # {}
    <3>1. W # 0 /\ scored # {}
      <4>1. Weight(sides) # 0
        BY <2>5, <2>11, WeighsWell
      <4> QED
        BY <2>5, <2>8, <4>1
    <3> DEFINE square == Weight(sides) * Weight(sides) * Weight(sides) * Unit * Unit
               many   == Cardinality(Weighs(sides))
               rest   == Cardinality({i \in DOMAIN sides : sides[i].apport = None})
    <3>2. total = [score |-> <<T, W * Unit>>, variance |-> <<Spread(sides), square>>,
                   contributions |-> many, abstentions |-> rest]
      BY <2>5, <2>11, AggregateIs DEF total
    <3>3. total.score = <<T, W * Unit>> /\ total # None
      <4>1. Spread(sides) \in Nat /\ many \in Nat /\ rest \in Nat
        <5>1. IsFiniteSet({i \in DOMAIN sides : sides[i].apport = None}) /\ IsFiniteSet(Weighs(sides))
          BY <2>5, FS_Subset, WeighsWell DEF AreVotes
        <5> QED
          BY <2>5, <5>1, WeighsWell, FS_CardinalityType
      <4>2. square \in Int /\ W * Unit \in Int
        <5>1. square = W * W * W * Unit * Unit
          BY <2>5
        <5>2. W * W * W * Unit * Unit \in Int /\ W * Unit \in Int
          BY <2>1, <2>8
        <5> QED
          BY <5>1, <5>2
      <4> HIDE DEF square, many, rest
      <4>3. total \in [score : Int \X Int, variance : Int \X Int, contributions : Nat, abstentions : Nat]
        BY <2>8, <3>2, <4>1, <4>2
      <4> QED
        BY <3>2, <4>3, CalculsAssumption
    <3>4. /\ cohesion \in (Nat \ {0}) \X (Nat \ {0}) /\ cohesion[1] \in 1..cohesion[2]
          /\ 2 * cohesion[1] >= cohesion[2]
      BY <2>1, <2>11, CohesionIs DEF cohesion
    <3>5. cohesion # None
      <4>1. cohesion \in Int \X Int
        BY <3>4
      <4> QED
        BY <4>1, CalculsAssumption
    <3>6. groupe = [score |-> <<T, W * Unit>>, cohesion |-> cohesion, contributions |-> N]
      BY <2>5, <2>6, <3>3, <3>5
    <3>7. groupe # None
      <4>1. W * Unit \in Int /\ cohesion \in Int \X Int
        BY <2>1, <2>8, <3>4
      <4>2. groupe \in [score : Int \X Int, cohesion : Int \X Int, contributions : Nat]
        BY <2>8, <3>6, <4>1
      <4> QED
        BY <4>2, CalculsAssumption
    <3>8. groupe.score = <<T, W * Unit>> /\ groupe.cohesion = cohesion /\ groupe.contributions = N
      BY <3>6
    <3>9. /\ groupe.score = <<SumFunction([m \in scored |-> of(m).score[1]]),
                              SumFunction([m \in scored |-> of(m).score[2]])>>
          /\ groupe.contributions = SumFunction([m \in scored |-> of(m).contributions])
          /\ groupe.cohesion[1] \in 1..groupe.cohesion[2]
          /\ 2 * groupe.cohesion[1] >= groupe.cohesion[2]
      BY <2>9, <3>4, <3>8
    <3> QED
      BY <2>6, <3>1, <3>7, <3>9 DEF groupe, scored, of
  <2> QED
    BY <2>10, <2>11
<1> QED
  BY <1>1, ScrutinsInductive, PTL

-----------------------------------------------------------------------------
(* The page of a person.                                                     *)

\* A finite set of integers has a least and a greatest one.
LEMMA Extremes ==
  ASSUME NEW S, IsFiniteSet(S), S # {}, \A x \in S : x \in Int
  PROVE  /\ Frises!Max(S) \in S /\ \A x \in S : x <= Frises!Max(S)
         /\ Frises!Min(S) \in S /\ \A x \in S : Frises!Min(S) <= x
<1>1. PICK m \in S : \A x \in S : x <= m
  BY Greatest
<1> DEFINE f == [x \in S |-> -x]
<1>2. \A x \in S : f[x] = -x /\ f[x] \in Int
  OBVIOUS
<1> HIDE DEF f
<1>3. PICK l \in S : \A x \in S : f[x] <= f[l]
  BY <1>2, GreatestAt
<1>4. \A x \in S : l <= x
  <2> TAKE x \in S
  <2>1. -x <= -l /\ x \in Int /\ l \in Int
    BY <1>2, <1>3
  <2> QED
    BY <2>1
<1>5. Frises!Max(S) = m /\ Frises!Min(S) = l
  BY <1>1, <1>4 DEF Frises!Max, Frises!Min
<1> QED
  BY <1>1, <1>4, <1>5

\* A division by d rounds down.
LEMMA Divided ==
  ASSUME NEW a \in Int, NEW d \in Nat \ {0}
  PROVE  a \div d \in Int /\ d * (a \div d) <= a /\ a < d * (a \div d + 1)
OBVIOUS

LEMMA DividedGrows ==
  ASSUME NEW a \in Int, NEW b \in Int, a <= b, NEW d \in Nat \ {0}
  PROVE  a \div d <= b \div d
<1> DEFINE p == a \div d
           q == b \div d
<1>1. p \in Int /\ q \in Int /\ d * p <= a /\ a < d * (p + 1) /\ d * q <= b /\ b < d * (q + 1)
  BY Divided
<1> HIDE DEF p, q
<1>2. d * p < d * (q + 1)
  BY <1>1
<1>3. ~(q + 1 <= p)
  <2> SUFFICES ASSUME q + 1 <= p
               PROVE  FALSE
    OBVIOUS
  <2>1. d * (q + 1) <= d * p
    BY <1>1
  <2> QED
    BY <1>1, <1>2, <2>1
<1> QED
  BY <1>1, <1>3 DEF p, q

\* The segments of a page, each with its key.
Segments == {s \in [key : Nat, piste : Pistes, debut : Int, fin : Int \cup {NoEnd}] :
               s.fin # NoEnd => s.debut <= s.fin}
OneKey(S) == \A s, r \in S : s.key = r.key => s = r

SegmentsInv ==
  kind = "segments" => input \in Seq(Segments) /\ \A i \in 1..Len(input) : input[i].key = i

\* AddSegment appends a segment with a new key.
LEMMA SegmentsInductive ==
  Spec => []SegmentsInv
<1>1. Init => SegmentsInv
  BY DEF Init, SegmentsInv
<1>2. SegmentsInv /\ [Next]_vars => SegmentsInv'
  <2> SUFFICES ASSUME SegmentsInv, [Next]_vars
               PROVE  SegmentsInv'
    OBVIOUS
  <2>1. CASE AddSegment
    <3> DEFINE n == Len(input) + 1
    <3>1. PICK s \in SegmentItems :
            Add("segments", [key |-> n, piste |-> s.piste, debut |-> s.debut, fin |-> s.fin])
      BY <2>1 DEF AddSegment
    <3> DEFINE r == [key |-> n, piste |-> s.piste, debut |-> s.debut, fin |-> s.fin]
    <3>2. kind = "segments" /\ kind' = kind /\ input' = Append(input, r)
      BY <3>1 DEF Add
    <3>3. input \in Seq(Segments) /\ \A i \in 1..Len(input) : input[i].key = i
      BY <3>2 DEF SegmentsInv
    <3>4. s \in [piste : Pistes, debut : Int, fin : Int \cup {NoEnd}] /\ (s.fin # NoEnd => s.debut <= s.fin)
      BY CalculsAssumption
    <3>5. r \in Segments /\ r.key = n
      <4>1. n \in Nat
        BY <3>3
      <4> HIDE DEF n
      <4> QED
        BY <3>4, <4>1 DEF Segments
    <3> HIDE DEF r
    <3>6. input' \in Seq(Segments) /\ Len(input') = n
      BY <3>2, <3>3, <3>5
    <3>7. \A i \in 1..Len(input') : input'[i].key = i
      BY <3>2, <3>3, <3>5, <3>6
    <3> QED
      BY <3>6, <3>7 DEF SegmentsInv
  <2>2. CASE AddMandat \/ AddGroupe \/ AddScrutin
    BY <2>2 DEF AddMandat, AddGroupe, AddScrutin, Add, SegmentsInv
  <2>3. CASE UNCHANGED vars
    BY <2>3 DEF vars, SegmentsInv
  <2> QED
    BY <2>1, <2>2, <2>3 DEF Next
<1> QED
  BY <1>1, <1>2, PTL DEF Spec

\* The sort of _place_piste: the segments one by one, the earlier ones first.
InOrderOf(list, S) ==
  /\ list \in Bijection(1..Cardinality(S), S)
  /\ \A i, j \in 1..Cardinality(S) : i < j => Frises!Earlier(list[i], list[j])

\* Starts, ends and keys order the segments of a page.
LEMMA SegmentsOrdered ==
  ASSUME NEW a \in Segments, NEW b \in Segments
  PROVE  /\ ~Frises!Earlier(a, a)
         /\ a.key # b.key => Frises!Earlier(a, b) \/ Frises!Earlier(b, a)
         /\ Frises!Earlier(a, b) => a.debut <= b.debut
         /\ \A c \in Segments : Frises!Earlier(a, b) /\ Frises!Earlier(b, c) => Frises!Earlier(a, c)
<1>1. /\ a.debut \in Int /\ a.fin \in Int \cup {NoEnd} /\ a.key \in Nat
      /\ b.debut \in Int /\ b.fin \in Int \cup {NoEnd} /\ b.key \in Nat
  BY DEF Segments
<1>2. NoEnd \notin Int
  BY CalculsAssumption
<1>3. ASSUME NEW c \in Segments, Frises!Earlier(a, b), Frises!Earlier(b, c)
      PROVE  Frises!Earlier(a, c)
  <2>1. c.debut \in Int /\ c.fin \in Int \cup {NoEnd} /\ c.key \in Nat
    BY DEF Segments
  <2> QED
    BY <1>1, <1>2, <1>3, <2>1 DEF Frises!Earlier
<1> QED
  BY <1>1, <1>2, <1>3 DEF Frises!Earlier

\* Frise uses the library as Calculs does.
LEMMA FrisesUses ==
  \A S, T : Frises!Cardinality(S) = Cardinality(S) /\ Frises!Bijection(S, T) = Bijection(S, T)
BY DEF Frises!Cardinality, Cardinality, Frises!Bijection, Bijection, Frises!Injection, Injection,
       Frises!Surjection, Surjection, Frises!IsInjective, IsInjective

\* The order exists, whatever the segments.
LEMMA SortedIs ==
  ASSUME NEW S \in SUBSET Segments, IsFiniteSet(S), OneKey(S)
  PROVE  InOrderOf(Frises!Sorted(S), S)
<1> DEFINE n == Cardinality(S)
<1>1. n \in Nat /\ ExistsBijection(1..n, S)
  BY FS_CardinalityType
<1>2. PICK b : b \in Bijection(1..n, S)
  BY <1>1 DEF ExistsBijection
<1>3. /\ \A i \in 1..n : b[i] \in S
      /\ \A i, j \in 1..n : b[i] = b[j] => i = j
      /\ \A s \in S : \E i \in 1..n : b[i] = s
  BY <1>2 DEF Bijection, Injection, Surjection, IsInjective
<1> DEFINE F == {p \in (1..n) \X (1..n) : Frises!Earlier(b[p[1]], b[p[2]])}
<1>4. \A i, j \in 1..n : <<i, j>> \in F <=> Frises!Earlier(b[i], b[j])
  OBVIOUS
<1> HIDE DEF n, F
<1>5. \A i \in 1..n : <<i, i>> \notin F
  BY <1>3, <1>4, SegmentsOrdered
<1>6. \A i, j \in 1..n : i # j => <<i, j>> \in F \/ <<j, i>> \in F
  BY <1>3, <1>4, SegmentsOrdered DEF OneKey
<1>7. \A i, j, k \in 1..n : <<i, j>> \in F /\ <<j, k>> \in F => <<i, k>> \in F
  BY <1>3, <1>4, SegmentsOrdered
<1>8. PICK p \in Bijection(1..n, 1..n) : \A i, j \in 1..n : i < j => <<p[i], p[j]>> \in F
  BY <1>1, <1>5, <1>6, <1>7, OrderExists
<1>9. /\ \A i \in 1..n : p[i] \in 1..n
      /\ \A i, j \in 1..n : p[i] = p[j] => i = j
      /\ \A k \in 1..n : \E i \in 1..n : p[i] = k
  BY <1>8 DEF Bijection, Injection, Surjection, IsInjective
<1> DEFINE list == [i \in 1..n |-> b[p[i]]]
<1>10. list \in [1..n -> S]
  BY <1>3, <1>9
<1>11. \A i, j \in 1..n : list[i] = list[j] => i = j
  BY <1>3, <1>9
<1>12. \A s \in S : \E i \in 1..n : list[i] = s
  <2> TAKE s \in S
  <2>1. PICK k \in 1..n : b[k] = s
    BY <1>3
  <2>2. PICK i \in 1..n : p[i] = k
    BY <1>9
  <2> QED
    BY <2>1, <2>2
<1>13. \A i, j \in 1..n : i < j => Frises!Earlier(list[i], list[j])
  BY <1>4, <1>8, <1>9
<1> HIDE DEF list
<1>14. list \in Bijection(1..n, S)
  BY <1>10, <1>11, <1>12 DEF Bijection, Injection, Surjection, IsInjective
<1>15. InOrderOf(list, S)
  BY <1>13, <1>14 DEF InOrderOf, n
<1>16. Frises!Sorted(S) = CHOOSE l : InOrderOf(l, S)
  BY FrisesUses DEF Frises!Sorted, InOrderOf
<1> QED
  BY <1>15, <1>16

\* The row _place_piste gives a segment: the first free one, or a new one.
LEMMA FirstFreeIs ==
  ASSUME NEW ends \in Seq(Int), NEW column \in Int
  PROVE  LET row == Frises!FirstFree(ends, column)
         IN  /\ row \in 1..(Len(ends) + 1)
             /\ row <= Len(ends) => ends[row] <= column
             /\ row = Len(ends) + 1 => \A r \in 1..Len(ends) : ends[r] > column
<1> DEFINE n == Len(ends)
           S == {r \in DOMAIN ends : ends[r] <= column} \cup {n + 1}
<1>1. n \in Nat /\ DOMAIN ends = 1..n /\ \A r \in 1..n : ends[r] \in Int
  OBVIOUS
<1>2. Frises!FirstFree(ends, column) = Frises!Min(S)
  BY DEF Frises!FirstFree
<1> HIDE DEF n
<1>3. S \in SUBSET (1..(n + 1)) /\ S # {}
  BY <1>1
<1>4. IsFiniteSet(S) /\ \A x \in S : x \in Int
  <2>1. IsFiniteSet(1..(n + 1))
    BY <1>1, FS_Interval
  <2> HIDE DEF S
  <2>2. IsFiniteSet(S)
    BY <1>3, <2>1, FS_Subset
  <2>3. \A x \in 1..(n + 1) : x \in Int
    BY <1>1
  <2> QED
    BY <1>3, <2>2, <2>3
<1>5. Frises!Min(S) \in S /\ \A x \in S : Frises!Min(S) <= x
  <2> HIDE DEF S
  <2> QED
    BY <1>3, <1>4, Extremes
<1> DEFINE row == Frises!Min(S)
<1>6. row \in 1..(n + 1) /\ (row <= n => ends[row] <= column)
  BY <1>1, <1>3, <1>5
<1>7. ASSUME row = n + 1, NEW r \in 1..n
      PROVE  ends[r] > column
  <2>1. ~(ends[r] <= column)
    <3>1. r \notin S
      <4> HIDE DEF S
      <4> QED
        BY <1>1, <1>5, <1>7
    <3> QED
      BY <1>1, <3>1
  <2> QED
    BY <1>1, <2>1
<1> QED
  BY <1>2, <1>6, <1>7 DEF n

\* The rows of the first n mandates.
Rowed(n, ends, row) ==
  ends \in Seq(Int) /\ row \in [1..n -> 1..Len(ends)]

\* No two mandates of one row meet, and each row ends with one, when they occupy the
\* columns from start[i] to end[i] - 1.
Apart(n, ends, row, start, end) ==
  /\ \A i \in 1..n : end[i] <= ends[row[i]]
  /\ \A i, j \in 1..n : i < j /\ row[i] = row[j] => end[i] <= start[j]
  /\ \A r \in 1..Len(ends) : \E i \in 1..n : row[i] = r /\ ends[r] = end[i]

\* All rows are taken in the column where the last one was opened.
Crowded(n, ends, row, start, end) ==
  Len(ends) # 0 => \E k \in 1..n : \A r \in 1..Len(ends) : \E i \in 1..n :
                     row[i] = r /\ start[i] <= start[k] /\ start[k] < end[i]

\* One turn of _place_piste: the rows after it.
Grown(ends, new, last) ==
  [r \in DOMAIN ends \cup {new} |-> IF r = new THEN last ELSE ends[r]]
Assigned(n, row, new) == [i \in 1..(n + 1) |-> IF i = n + 1 THEN new ELSE row[i]]

LEMMA GrownIs ==
  ASSUME NEW ends \in Seq(Int), NEW last \in Int, NEW new \in 1..(Len(ends) + 1)
  PROVE  LET M == IF new = Len(ends) + 1 THEN new ELSE Len(ends)
         IN  /\ Grown(ends, new, last) \in Seq(Int) /\ Len(Grown(ends, new, last)) = M
             /\ M \in Nat /\ new \in 1..M /\ Grown(ends, new, last)[new] = last
             /\ \A r \in 1..M : r # new => r \in 1..Len(ends) /\ Grown(ends, new, last)[r] = ends[r]
<1> DEFINE L == Len(ends)
           M == IF new = L + 1 THEN new ELSE L
           g == Grown(ends, new, last)
<1>1. L \in Nat /\ DOMAIN ends = 1..L /\ \A r \in 1..L : ends[r] \in Int
  OBVIOUS
<1> HIDE DEF L
<1>2. M \in Nat /\ DOMAIN ends \cup {new} = 1..M /\ new \in 1..M /\ \A r \in 1..M : r # new => r \in 1..L
  BY <1>1 DEF L
<1>3. g = [r \in 1..M |-> IF r = new THEN last ELSE ends[r]]
  BY <1>2 DEF Grown
<1>4. g \in [1..M -> Int] /\ g[new] = last /\ \A r \in 1..M : r # new => g[r] = ends[r]
  BY <1>1, <1>2, <1>3
<1>5. g \in Seq(Int) /\ Len(g) = M
  <2> HIDE DEF g, M
  <2> QED
    BY <1>2, <1>4
<1> QED
  BY <1>2, <1>4, <1>5 DEF L

LEMMA AssignedIs ==
  ASSUME NEW n \in Nat, NEW row, NEW new
  PROVE  /\ Assigned(n, row, new)[n + 1] = new
         /\ \A i \in 1..n : Assigned(n, row, new)[i] = row[i]
         /\ \A i \in 1..(n + 1) : i = n + 1 \/ i \in 1..n
BY DEF Assigned

LEMMA RowedStep ==
  ASSUME NEW n \in Nat, NEW ends, NEW row, Rowed(n, ends, row), NEW first \in Int, NEW last \in Int
  PROVE  LET new == Frises!FirstFree(ends, first)
         IN  Rowed(n + 1, Grown(ends, new, last), Assigned(n, row, new))
<1> DEFINE new   == Frises!FirstFree(ends, first)
           ends2 == Grown(ends, new, last)
           row2  == Assigned(n, row, new)
<1>1. /\ ends \in Seq(Int) /\ Len(ends) \in Nat
      /\ \A i \in 1..n : row[i] \in 1..Len(ends)
  BY DEF Rowed
<1>2. new \in 1..(Len(ends) + 1)
  BY <1>1, FirstFreeIs
<1> HIDE DEF new
<1>3. /\ ends2 \in Seq(Int) /\ Len(ends2) \in Nat /\ new \in 1..Len(ends2) /\ Len(ends) <= Len(ends2)
  BY <1>1, <1>2, GrownIs
<1>4. /\ row2[n + 1] = new /\ \A i \in 1..n : row2[i] = row[i]
      /\ \A i \in 1..(n + 1) : i = n + 1 \/ i \in 1..n
  BY AssignedIs
<1>5. row2 = [i \in 1..(n + 1) |-> row2[i]]
  BY DEF Assigned
<1> HIDE DEF ends2, row2
<1>6. \A i \in 1..(n + 1) : row2[i] \in 1..Len(ends2)
  <2> TAKE i \in 1..(n + 1)
  <2>1. CASE i = n + 1
    BY <1>3, <1>4, <2>1
  <2>2. CASE i \in 1..n
    <3>1. row2[i] \in 1..Len(ends)
      BY <1>1, <1>4, <2>2
    <3> QED
      BY <1>1, <1>3, <3>1
  <2> QED
    BY <1>4, <2>1, <2>2
<1> QED
  BY <1>3, <1>5, <1>6 DEF Rowed, new, ends2, row2

\* Mandates sorted by their start.
LEMMA ApartStep ==
  ASSUME NEW N \in Nat, NEW start \in [1..N -> Int], NEW end \in [1..N -> Int],
         \A i, j \in 1..N : i < j => start[i] <= start[j], \A i \in 1..N : start[i] < end[i],
         NEW n \in 0..(N - 1), NEW ends, NEW row,
         Rowed(n, ends, row), Apart(n, ends, row, start, end), Crowded(n, ends, row, start, end)
  PROVE  LET new   == Frises!FirstFree(ends, start[n + 1])
             ends2 == Grown(ends, new, end[n + 1])
             row2  == Assigned(n, row, new)
         IN  Apart(n + 1, ends2, row2, start, end) /\ Crowded(n + 1, ends2, row2, start, end)
<1> DEFINE new   == Frises!FirstFree(ends, start[n + 1])
           ends2 == Grown(ends, new, end[n + 1])
           row2  == Assigned(n, row, new)
           L     == Len(ends)
           M     == Len(ends2)
<1>1. ends \in Seq(Int) /\ L \in Nat /\ \A i \in 1..n : row[i] \in 1..L
  BY DEF Rowed
<1>2. n \in Nat /\ n + 1 \in 1..N /\ start[n + 1] \in Int /\ end[n + 1] \in Int /\ start[n + 1] < end[n + 1]
  OBVIOUS
<1>3. \A i \in 1..n : /\ i \in 1..N /\ i < n + 1 /\ start[i] \in Int /\ end[i] \in Int
                      /\ start[i] <= start[n + 1] /\ start[i] < end[i]
  BY <1>2
<1>4. /\ new \in 1..(L + 1)
      /\ new <= L => ends[new] <= start[n + 1]
      /\ new = L + 1 => \A r \in 1..L : ends[r] > start[n + 1]
  BY <1>1, <1>2, FirstFreeIs
<1> HIDE DEF new
<1>5. /\ M = IF new = L + 1 THEN new ELSE L
      /\ M \in Nat /\ new \in 1..M /\ ends2[new] = end[n + 1]
      /\ \A r \in 1..M : r # new => r \in 1..L /\ ends2[r] = ends[r]
  <2> DEFINE last == end[n + 1]
  <2>1. last \in Int
    BY <1>2
  <2> HIDE DEF last
  <2>2. LET m == IF new = Len(ends) + 1 THEN new ELSE Len(ends)
            g == Grown(ends, new, last)
        IN  /\ Len(g) = m /\ m \in Nat /\ new \in 1..m /\ g[new] = last
            /\ \A r \in 1..m : r # new => r \in 1..Len(ends) /\ g[r] = ends[r]
    BY <1>1, <1>4, <2>1, GrownIs
  <2> QED
    BY <2>2 DEF last
<1>6. /\ row2[n + 1] = new /\ \A i \in 1..n : row2[i] = row[i]
      /\ \A i \in 1..(n + 1) : i = n + 1 \/ i \in 1..n
  <2>1. n + 1 \in 1..(n + 1) /\ \A i \in 1..n : i \in 1..(n + 1) /\ i # n + 1
    BY <1>2
  <2>2. \A i \in 1..(n + 1) : i = n + 1 \/ i \in 1..n
    BY <1>2
  <2>3. row2 = [i \in 1..(n + 1) |-> IF i = n + 1 THEN new ELSE row[i]]
    BY DEF Assigned
  <2> HIDE DEF row2
  <2> QED
    BY <2>1, <2>2, <2>3
<1>7. /\ \A i \in 1..n : end[i] <= ends[row[i]]
      /\ \A i, j \in 1..n : i < j /\ row[i] = row[j] => end[i] <= start[j]
      /\ \A r \in 1..L : \E i \in 1..n : row[i] = r /\ ends[r] = end[i]
  BY DEF Apart
<1> HIDE DEF ends2, row2, M, L
<1>8. \A i \in 1..n : i \in 1..(n + 1) /\ n + 1 \in 1..(n + 1) /\ \A r \in 1..L : ends[r] \in Int
  BY <1>1, <1>2 DEF L
<1>9. ASSUME NEW i \in 1..n
      PROVE  row2[i] = new => end[i] <= start[n + 1]
  <2>1. row[i] \in 1..L /\ row2[i] = row[i] /\ end[i] <= ends[row[i]] /\ end[i] \in Int /\ ends[row[i]] \in Int
    BY <1>1, <1>3, <1>6, <1>7, <1>8
  <2> SUFFICES ASSUME row[i] = new
               PROVE  end[i] <= start[n + 1]
    BY <2>1
  <2>2. ends[new] <= start[n + 1]
    BY <1>1, <1>4, <2>1
  <2> QED
    BY <1>2, <2>1, <2>2
<1>10. \A i \in 1..(n + 1) : end[i] <= ends2[row2[i]]
  <2> TAKE i \in 1..(n + 1)
  <2>1. CASE i = n + 1
    BY <1>2, <1>5, <1>6, <2>1
  <2>2. CASE i \in 1..n /\ row2[i] = new
    BY <1>2, <1>3, <1>5, <1>9, <2>2
  <2>3. CASE i \in 1..n /\ row2[i] # new
    <3>1. row[i] \in 1..M
      BY <1>1, <1>4, <1>5, <2>3
    <3> QED
      BY <1>5, <1>6, <1>7, <2>3, <3>1
  <2> QED
    BY <1>6, <2>1, <2>2, <2>3
<1>11. \A i, j \in 1..(n + 1) : i < j /\ row2[i] = row2[j] => end[i] <= start[j]
  <2> SUFFICES ASSUME NEW i \in 1..(n + 1), NEW j \in 1..(n + 1), i < j, row2[i] = row2[j]
               PROVE  end[i] <= start[j]
    OBVIOUS
  <2>1. i \in 1..n
    BY <1>2
  <2>2. CASE j = n + 1
    BY <1>6, <1>9, <2>1, <2>2
  <2>3. CASE j \in 1..n
    BY <1>6, <1>7, <2>1, <2>3
  <2> QED
    BY <1>6, <2>2, <2>3
<1>12. \A r \in 1..M : \E i \in 1..(n + 1) : row2[i] = r /\ ends2[r] = end[i]
  <2> TAKE r \in 1..M
  <2>1. CASE r = new
    BY <1>2, <1>5, <1>6, <2>1
  <2>2. CASE r # new
    <3>1. r \in 1..L /\ ends2[r] = ends[r]
      BY <1>5, <2>2
    <3>2. PICK i \in 1..n : row[i] = r /\ ends[r] = end[i]
      BY <1>7, <3>1
    <3> QED
      BY <1>6, <1>8, <3>1, <3>2
  <2> QED
    BY <2>1, <2>2
<1>13. Apart(n + 1, ends2, row2, start, end)
  BY <1>10, <1>11, <1>12 DEF Apart, M
<1>14. Crowded(n + 1, ends2, row2, start, end)
  <2>1. CASE new = L + 1
    <3>1. ASSUME NEW r \in 1..M
          PROVE  \E i \in 1..(n + 1) : row2[i] = r /\ start[i] <= start[n + 1] /\ start[n + 1] < end[i]
      <4>1. PICK i \in 1..(n + 1) : row2[i] = r /\ ends2[r] = end[i]
        BY <1>12
      <4>2. CASE i = n + 1
        BY <1>2, <4>1, <4>2
      <4>3. CASE i \in 1..n
        <5>1. row[i] = r /\ r \in 1..L /\ r # new
          BY <1>1, <1>6, <2>1, <4>1, <4>3
        <5>2. ends2[r] = ends[r] /\ ends[r] > start[n + 1] /\ start[i] <= start[n + 1]
          BY <1>3, <1>4, <1>5, <2>1, <4>3, <5>1
        <5> QED
          BY <1>2, <1>3, <1>8, <4>1, <4>3, <5>2
      <4> QED
        BY <1>6, <4>2, <4>3
    <3>2. n + 1 \in 1..(n + 1)
      BY <1>2
    <3> QED
      BY <3>1, <3>2 DEF Crowded, M
  <2>2. CASE new # L + 1
    <3>1. M = L /\ L # 0
      BY <1>1, <1>4, <1>5, <2>2
    <3>2. PICK k \in 1..n : \A r \in 1..L : \E i \in 1..n : row[i] = r /\ start[i] <= start[k] /\ start[k] < end[i]
      BY <3>1 DEF Crowded, L
    <3>3. \A r \in 1..L : \E i \in 1..(n + 1) : row2[i] = r /\ start[i] <= start[k] /\ start[k] < end[i]
      BY <1>6, <1>8, <3>2
    <3>4. k \in 1..(n + 1)
      BY <1>8
    <3> QED
      BY <3>1, <3>3, <3>4 DEF Crowded, M
  <2> QED
    BY <2>1, <2>2
<1> QED
  BY <1>13, <1>14 DEF new, ends2, row2

\* Months and columns.
LEMMA MonthIs ==
  /\ \A a \in Int : Frises!Month(a) \in Int
  /\ \A a, b \in Int : a <= b => Frises!Month(a) <= Frises!Month(b)
<1>1. DaysPerMonth \in Nat \ {0}
  BY CalculsAssumption
<1> QED
  BY <1>1, Divided, DividedGrows DEF Frises!Month

\* The end of a mandate on the grid.
LEMMA ColumnEndIs ==
  ASSUME NEW s \in Segments, NEW first \in Int, NEW total \in Int
  PROVE  LET start == Frises!Column(first, s.debut)
             end   == Frises!ColumnEnd(s, first, total)
         IN  /\ start = Frises!Month(s.debut) - first + 1 /\ start \in Int /\ end \in Int
             /\ s.fin = NoEnd => end = total + 1
             /\ s.fin # NoEnd =>
                  /\ s.fin \in Int /\ s.debut <= s.fin
                  /\ end = Larger(Frises!Month(s.fin) - first + 1, start + 1)
<1>1. s.debut \in Int /\ s.fin \in Int \cup {NoEnd} /\ (s.fin # NoEnd => s.debut <= s.fin)
  BY DEF Segments
<1> DEFINE start == Frises!Column(first, s.debut)
           stop  == Frises!Column(first, s.fin)
<1>2. start = Frises!Month(s.debut) - first + 1 /\ start \in Int
  BY <1>1, MonthIs DEF Frises!Column
<1>3. CASE s.fin = NoEnd
  BY <1>2, <1>3 DEF Frises!ColumnEnd
<1>4. CASE s.fin # NoEnd
  <2>1. s.fin \in Int /\ stop = Frises!Month(s.fin) - first + 1 /\ stop \in Int
    BY <1>1, <1>4, MonthIs DEF Frises!Column
  <2>2. Frises!ColumnEnd(s, first, total) = Frises!Max({stop, start + 1})
    BY <1>4 DEF Frises!ColumnEnd
  <2> HIDE DEF stop, start
  <2> DEFINE S == {stop, start + 1}
             m == Larger(stop, start + 1)
  <2>3. m \in S /\ \A x \in S : x \in Int /\ x <= m
    BY <1>2, <2>1 DEF Larger
  <2> HIDE DEF S, m
  <2>4. Frises!Max(S) = m
    BY <2>3 DEF Frises!Max
  <2>5. m \in Int
    BY <2>3
  <2> QED
    BY <1>1, <1>2, <1>4, <2>1, <2>2, <2>4, <2>5 DEF S, m, start, stop
<1> QED
  BY <1>3, <1>4

\* A segment where _place_piste draws it.
Drawn(s, row, first, total) ==
  [segment |-> s, start |-> Frises!Column(first, s.debut),
   end |-> Frises!ColumnEnd(s, first, total), row |-> row]
Starts(list, N, first)      == [i \in 1..N |-> Frises!Column(first, list[i].debut)]
Ends(list, N, first, total) == [i \in 1..N |-> Frises!ColumnEnd(list[i], first, total)]

\* The first n turns of Place.
PlaceTurns(turn, list, n, first, total) ==
  turn = [k \in 0..n |-> IF k = 0 THEN [ends |-> <<>>, placed |-> {}]
                                  ELSE Frises!Put(turn[k - 1], list[k], first, total)]

LEMMA PlaceTurnsExist ==
  ASSUME NEW list, NEW first, NEW total
  PROVE  \A n \in Nat : \E f : PlaceTurns(f, list, n, first, total)
<1> DEFINE T == {n \in Nat : \E f : PlaceTurns(f, list, n, first, total)}
           none == [ends |-> <<>>, placed |-> {}]
           Next1(acc, k) == Frises!Put(acc, list[k], first, total)
<1> HIDE DEF none, Next1
<1>0. \A f, n : PlaceTurns(f, list, n, first, total)
                  <=> f = [k \in 0..n |-> IF k = 0 THEN none ELSE Next1(f[k - 1], k)]
  BY DEF PlaceTurns, none, Next1
<1>1. 0 \in T
  <2> DEFINE f == [k \in 0..0 |-> none]
  <2>1. \A k \in 0..0 : k = 0 /\ f[k] = none
    OBVIOUS
  <2>2. f = [k \in 0..0 |-> f[k]]
    OBVIOUS
  <2> HIDE DEF f
  <2>3. f = [k \in 0..0 |-> IF k = 0 THEN none ELSE Next1(f[k - 1], k)]
    BY <2>1, <2>2
  <2> QED
    BY <1>0, <2>3
<1>2. ASSUME NEW n \in Nat, n \in T
      PROVE  n + 1 \in T
  <2>1. PICK f : f = [k \in 0..n |-> IF k = 0 THEN none ELSE Next1(f[k - 1], k)]
    BY <1>0, <1>2
  <2> DEFINE g == [k \in 0..(n + 1) |-> IF k \in 0..n THEN f[k] ELSE Next1(f[k - 1], k)]
  <2>2. ASSUME NEW k \in 0..(n + 1)
        PROVE  g[k] = IF k = 0 THEN none ELSE Next1(g[k - 1], k)
    <3>1. CASE k \in 0..n
      <4>1. k = 0 \/ k - 1 \in 0..n
        BY <3>1
      <4>2. g[k] = f[k] /\ f[k] = IF k = 0 THEN none ELSE Next1(f[k - 1], k)
        BY <2>1, <3>1
      <4>3. k # 0 => g[k - 1] = f[k - 1]
        BY <4>1
      <4> QED
        BY <4>2, <4>3
    <3>2. CASE k \notin 0..n
      <4>1. k # 0 /\ k - 1 \in 0..n /\ k - 1 \in 0..(n + 1)
        BY <3>2
      <4>2. g[k] = Next1(f[k - 1], k)
        BY <3>2
      <4>3. g[k - 1] = f[k - 1]
        BY <4>1
      <4> QED
        BY <4>1, <4>2, <4>3
    <3> QED
      BY <3>1, <3>2
  <2>3. g = [k \in 0..(n + 1) |-> g[k]]
    OBVIOUS
  <2> HIDE DEF g
  <2>4. g = [k \in 0..(n + 1) |-> IF k = 0 THEN none ELSE Next1(g[k - 1], k)]
    BY <2>2, <2>3
  <2> QED
    BY <1>0, <2>4
<1> HIDE DEF T
<1>3. Nat \subseteq T
  BY <1>1, <1>2, Induction
<1> QED
  BY <1>3 DEF T

\* What Place has done after n turns.
PlacedWell(n, acc, list, N, first, total) ==
  \E row : /\ Rowed(n, acc.ends, row)
           /\ acc.placed = {Drawn(list[i], row[i], first, total) : i \in 1..n}
           /\ (\A i \in 1..N : Starts(list, N, first)[i] < Ends(list, N, first, total)[i]) =>
                /\ Apart(n, acc.ends, row, Starts(list, N, first), Ends(list, N, first, total))
                /\ Crowded(n, acc.ends, row, Starts(list, N, first), Ends(list, N, first, total))

LEMMA PlacedStep ==
  ASSUME NEW S \in SUBSET Segments, IsFiniteSet(S), NEW list, InOrderOf(list, S),
         NEW first \in Int, NEW total \in Int, NEW n \in 0..(Cardinality(S) - 1),
         NEW acc, PlacedWell(n, acc, list, Cardinality(S), first, total)
  PROVE  PlacedWell(n + 1, Frises!Put(acc, list[n + 1], first, total), list, Cardinality(S), first, total)
<1> DEFINE N     == Cardinality(S)
           start == Starts(list, N, first)
           end   == Ends(list, N, first, total)
           new   == Frises!FirstFree(acc.ends, start[n + 1])
           acc2  == Frises!Put(acc, list[n + 1], first, total)
<1>1. N \in Nat /\ n \in Nat /\ n + 1 \in 1..N
  BY FS_CardinalityType
<1>2. /\ \A i \in 1..N : list[i] \in Segments
      /\ \A i, j \in 1..N : i < j => Frises!Earlier(list[i], list[j])
  <2>1. list \in [1..N -> S]
    BY DEF InOrderOf, Bijection, Injection
  <2> HIDE DEF N
  <2>2. \A i \in 1..N : list[i] \in Segments
    BY <2>1
  <2> QED
    BY <2>2 DEF InOrderOf, N
<1> HIDE DEF N
<1>3. ASSUME NEW i \in 1..N
      PROVE  /\ start[i] = Frises!Column(first, list[i].debut) /\ start[i] \in Int
             /\ end[i] = Frises!ColumnEnd(list[i], first, total) /\ end[i] \in Int
             /\ start[i] = Frises!Month(list[i].debut) - first + 1
             /\ list[i].debut \in Int
  <2>1. list[i] \in Segments
    BY <1>2
  <2>2. list[i].debut \in Int
    BY <2>1 DEF Segments
  <2>3. /\ start[i] = Frises!Column(first, list[i].debut)
        /\ end[i] = Frises!ColumnEnd(list[i], first, total)
    BY DEF Starts, Ends
  <2> QED
    BY <2>1, <2>2, <2>3, ColumnEndIs
<1>4. start \in [1..N -> Int] /\ end \in [1..N -> Int]
  BY <1>3 DEF Starts, Ends
<1>5. \A i, j \in 1..N : i < j => start[i] <= start[j]
  <2> SUFFICES ASSUME NEW i \in 1..N, NEW j \in 1..N, i < j
               PROVE  start[i] <= start[j]
    OBVIOUS
  <2>1. list[i].debut <= list[j].debut
    BY <1>2, SegmentsOrdered
  <2>2. Frises!Month(list[i].debut) <= Frises!Month(list[j].debut)
    BY <1>3, <2>1, MonthIs
  <2>3. Frises!Month(list[i].debut) \in Int /\ Frises!Month(list[j].debut) \in Int
    BY <1>3, MonthIs
  <2> QED
    BY <1>3, <2>2, <2>3
<1>6. PICK row : /\ Rowed(n, acc.ends, row)
                 /\ acc.placed = {Drawn(list[i], row[i], first, total) : i \in 1..n}
                 /\ (\A i \in 1..N : start[i] < end[i]) =>
                      Apart(n, acc.ends, row, start, end) /\ Crowded(n, acc.ends, row, start, end)
  BY DEF PlacedWell, N
<1> DEFINE row2 == Assigned(n, row, new)
<1>7. /\ acc2.ends = Grown(acc.ends, new, end[n + 1])
      /\ acc2.placed = acc.placed \cup {Drawn(list[n + 1], new, first, total)}
  <2>1. /\ start[n + 1] = Frises!Column(first, list[n + 1].debut)
        /\ end[n + 1] = Frises!ColumnEnd(list[n + 1], first, total)
    BY <1>1, <1>3
  <2> HIDE DEF start, end
  <2> QED
    BY <2>1 DEF Frises!Put, Grown, Drawn
<1> HIDE DEF start, end, acc2, new
<1>8. row2[n + 1] = new /\ (\A i \in 1..n : row2[i] = row[i])
      /\ \A i \in 1..(n + 1) : i = n + 1 \/ i \in 1..n
  BY <1>1, AssignedIs
<1>9. acc2.placed = {Drawn(list[i], row2[i], first, total) : i \in 1..(n + 1)}
  <2> HIDE DEF row2
  <2>1. n + 1 \in 1..(n + 1) /\ \A i \in 1..n : i \in 1..(n + 1)
    BY <1>1
  <2> QED
    BY <1>6, <1>7, <1>8, <2>1
<1>10. Rowed(n + 1, acc2.ends, row2)
  <2>1. start[n + 1] \in Int /\ end[n + 1] \in Int
    BY <1>1, <1>3
  <2> QED
    BY <1>1, <1>6, <1>7, <2>1, RowedStep DEF new
<1>11. ASSUME \A i \in 1..N : start[i] < end[i]
       PROVE  Apart(n + 1, acc2.ends, row2, start, end) /\ Crowded(n + 1, acc2.ends, row2, start, end)
  <2>1. n \in 0..(N - 1)
    BY DEF N
  <2>2. /\ Rowed(n, acc.ends, row) /\ Apart(n, acc.ends, row, start, end)
        /\ Crowded(n, acc.ends, row, start, end)
    BY <1>6, <1>11
  <2>3. LET nw == Frises!FirstFree(acc.ends, start[n + 1])
            e2 == Grown(acc.ends, nw, end[n + 1])
            r2 == Assigned(n, row, nw)
        IN  Apart(n + 1, e2, r2, start, end) /\ Crowded(n + 1, e2, r2, start, end)
    <3> HIDE DEF row2
    <3>1. N \in Nat
      BY <1>1
    <3> QED
      BY <1>4, <1>5, <1>11, <2>1, <2>2, <3>1, ApartStep
  <2> QED
    BY <1>7, <2>3 DEF new
<1>12. PlacedWell(n + 1, acc2, list, N, first, total)
  <2> HIDE DEF row2
  <2> QED
    BY <1>9, <1>10, <1>11 DEF PlacedWell, start, end
<1> QED
  BY <1>12 DEF acc2, N

\* Where Place draws the segments of a track.
LEMMA PlaceIs ==
  ASSUME NEW S \in SUBSET Segments, IsFiniteSet(S), OneKey(S), NEW first \in Int, NEW total \in Int
  PROVE  \E list : /\ InOrderOf(list, S)
                   /\ PlacedWell(Cardinality(S), Frises!Place(S, first, total), list,
                                 Cardinality(S), first, total)
<1> DEFINE N    == Cardinality(S)
           list == Frises!Sorted(S)
           turn == CHOOSE turn : PlaceTurns(turn, list, N, first, total)
<1>1. N \in Nat
  BY FS_CardinalityType
<1>2. InOrderOf(list, S)
  BY SortedIs
<1>3. PlaceTurns(turn, list, N, first, total)
  BY <1>1, PlaceTurnsExist
<1>4. Frises!Place(S, first, total) = turn[N]
  <2> DEFINE M == Frises!Cardinality(S)
  <2>1. Frises!Place(S, first, total) = (CHOOSE t : PlaceTurns(t, list, M, first, total))[M]
    BY DEF Frises!Place, PlaceTurns
  <2>2. M = N
    BY FrisesUses
  <2> HIDE DEF M, N, list
  <2> QED
    BY <2>1, <2>2
<1> HIDE DEF turn, list, N
<1> DEFINE T == {n \in Nat : n <= N => PlacedWell(n, turn[n], list, N, first, total)}
<1>5. 0 \in T
  <2>1. turn[0] = [ends |-> <<>>, placed |-> {}]
    BY <1>1, <1>3 DEF PlaceTurns
  <2> DEFINE row == [i \in 1..0 |-> i]
  <2>2. Rowed(0, <<>>, row)
    BY DEF Rowed
  <2> HIDE DEF row
  <2>3. Apart(0, <<>>, row, Starts(list, N, first), Ends(list, N, first, total))
    BY DEF Apart
  <2>4. Crowded(0, <<>>, row, Starts(list, N, first), Ends(list, N, first, total))
    BY DEF Crowded
  <2>5. turn[0].ends = <<>> /\ turn[0].placed = {}
    BY <2>1
  <2>6. {Drawn(list[i], row[i], first, total) : i \in 1..0} = {}
    OBVIOUS
  <2> QED
    BY <2>2, <2>3, <2>4, <2>5, <2>6 DEF PlacedWell
<1>6. ASSUME NEW n \in Nat, n \in T
      PROVE  n + 1 \in T
  <2> SUFFICES ASSUME n + 1 <= N
               PROVE  PlacedWell(n + 1, turn[n + 1], list, N, first, total)
    OBVIOUS
  <2>1. n \in 0..(N - 1) /\ n + 1 \in 0..N /\ (n + 1) - 1 = n /\ n + 1 # 0
    BY <1>1
  <2>2. PlacedWell(n, turn[n], list, N, first, total)
    <3>1. n <= N
      BY <1>1
    <3> QED
      BY <1>6, <3>1
  <2>3. turn[n + 1] = Frises!Put(turn[n], list[n + 1], first, total)
    BY <1>3, <2>1 DEF PlaceTurns
  <2> QED
    BY <1>2, <2>1, <2>2, <2>3, PlacedStep DEF N
<1> HIDE DEF T
<1>7. Nat \subseteq T
  BY <1>5, <1>6, Induction
<1>8. PlacedWell(N, turn[N], list, N, first, total)
  BY <1>1, <1>7 DEF T
<1> QED
  BY <1>2, <1>4, <1>8 DEF N

-----------------------------------------------------------------------------
\* The markers of the first n columns.
Markers == [year : Int, start : Int, end : Int]
Marked(n, m, first) ==
  /\ m \in Seq(Markers)
  /\ n = 0 => Len(m) = 0
  /\ n # 0 => /\ Len(m) # 0 /\ m[Len(m)].start <= n /\ m[Len(m)].end = n + 1
              /\ m[Len(m)].year = Frises!Year(first, n)
  /\ \A c \in 1..n : \E i \in 1..Len(m) : c \in Columns(m[i])
  /\ \A i \in 1..Len(m) : \A c \in Columns(m[i]) : c \in 1..n /\ m[i].year = Frises!Year(first, c)
  /\ \A i, j \in 1..Len(m) : i < j =>
       m[i].year < m[j].year /\ \A c \in Columns(m[i]) : c \notin Columns(m[j])

LEMMA YearIs ==
  ASSUME NEW first \in Int, NEW n \in Int
  PROVE  /\ Frises!Year(first, n) \in Int /\ Frises!Year(first, n + 1) \in Int
         /\ Frises!Year(first, n) <= Frises!Year(first, n + 1)
<1>1. MonthsPerYear \in Nat \ {0}
  BY CalculsAssumption
<1>2. first + n - 1 \in Int /\ first + (n + 1) - 1 \in Int /\ first + n - 1 <= first + (n + 1) - 1
  OBVIOUS
<1> QED
  BY <1>1, <1>2, Divided, DividedGrows DEF Frises!Year

\* A column of the year of the last marker.
LEMMA MarkerLonger ==
  ASSUME NEW n \in Nat, NEW first \in Int, NEW m, Marked(n, m, first), Len(m) # 0,
         m[Len(m)].year = Frises!Year(first, n + 1)
  PROVE  Marked(n + 1, [m EXCEPT ![Len(m)].end = n + 2], first)
<1> DEFINE L == Len(m)
           g == [m EXCEPT ![L].end = n + 2]
           y == Frises!Year(first, n + 1)
<1>1. m \in Seq(Markers) /\ L \in Nat /\ L \in 1..L /\ n # 0 /\ m[L].year = y
  BY DEF Marked
<1>2. \A i \in 1..L : m[i] \in Markers
  BY <1>1
<1>3. /\ g \in Seq(Markers) /\ Len(g) = L
      /\ \A i \in 1..L : i # L => g[i] = m[i]
      /\ g[L].start = m[L].start /\ g[L].year = m[L].year /\ g[L].end = n + 2
  <2>1. n + 2 \in Int
    OBVIOUS
  <2>2. g = [i \in 1..L |-> IF i = L THEN [m[L] EXCEPT !.end = n + 2] ELSE m[i]]
    BY <1>1
  <2>3. [m[L] EXCEPT !.end = n + 2] \in Markers
    BY <1>1, <1>2, <2>1 DEF Markers
  <2>4. g \in [1..L -> Markers]
    <3> HIDE DEF g
    <3> QED
      BY <1>2, <2>2, <2>3
  <2>5. g[L] = [m[L] EXCEPT !.end = n + 2] /\ \A i \in 1..L : i # L => g[i] = m[i]
    BY <1>1, <2>2
  <2>6. g[L].start = m[L].start /\ g[L].year = m[L].year /\ g[L].end = n + 2
    BY <1>1, <1>2, <2>5 DEF Markers
  <2>7. g \in Seq(Markers) /\ Len(g) = L
    <3> HIDE DEF g, L
    <3> QED
      BY <1>1, <2>4
  <2> QED
    BY <2>5, <2>6, <2>7
<1> HIDE DEF g, L, y
<1>4. /\ m[L].start <= n /\ m[L].end = n + 1 /\ m[L].start \in Int
      /\ \A c \in 1..n : \E i \in 1..L : c \in Columns(m[i])
      /\ \A i \in 1..L : \A c \in Columns(m[i]) : c \in 1..n /\ m[i].year = Frises!Year(first, c)
      /\ \A i, j \in 1..L : i < j =>
           m[i].year < m[j].year /\ \A c \in Columns(m[i]) : c \notin Columns(m[j])
  BY <1>1, <1>2 DEF Marked, L, Markers
<1>5. \A c : c \in Columns(g[L]) <=> c \in Columns(m[L]) \/ c = n + 1
  <2>1. Columns(m[L]) = m[L].start..n /\ Columns(g[L]) = m[L].start..(n + 1)
    BY <1>3, <1>4 DEF Columns
  <2> QED
    BY <1>4, <2>1
<1>6. \A i \in 1..L : i # L => Columns(g[i]) = Columns(m[i])
  BY <1>3
<1>7. \A c \in 1..(n + 1) : \E i \in 1..L : c \in Columns(g[i])
  <2> TAKE c \in 1..(n + 1)
  <2>1. CASE c = n + 1
    BY <1>1, <1>5, <2>1
  <2>2. CASE c # n + 1
    <3>1. PICK i \in 1..L : c \in Columns(m[i])
      BY <1>4, <2>2
    <3> QED
      BY <1>5, <1>6, <3>1
  <2> QED
    BY <2>1, <2>2
<1>8. \A i \in 1..L : \A c \in Columns(g[i]) : c \in 1..(n + 1) /\ g[i].year = Frises!Year(first, c)
  <2> SUFFICES ASSUME NEW i \in 1..L, NEW c \in Columns(g[i])
               PROVE  c \in 1..(n + 1) /\ g[i].year = Frises!Year(first, c)
    OBVIOUS
  <2>1. CASE c \in Columns(m[i])
    <3>1. c \in 1..n /\ m[i].year = Frises!Year(first, c) /\ g[i].year = m[i].year
      BY <1>3, <1>4, <2>1
    <3> QED
      BY <3>1
  <2>2. CASE c \notin Columns(m[i])
    <3>1. i = L /\ c = n + 1
      BY <1>5, <1>6, <2>2
    <3> QED
      BY <1>1, <1>3, <3>1 DEF y
  <2> QED
    BY <2>1, <2>2
<1>9. \A i, j \in 1..L : i < j =>
        g[i].year < g[j].year /\ \A c \in Columns(g[i]) : c \notin Columns(g[j])
  <2> SUFFICES ASSUME NEW i \in 1..L, NEW j \in 1..L, i < j
               PROVE  g[i].year < g[j].year /\ \A c \in Columns(g[i]) : c \notin Columns(g[j])
    OBVIOUS
  <2>1. i # L /\ Columns(g[i]) = Columns(m[i]) /\ g[i].year = m[i].year /\ g[j].year = m[j].year
    BY <1>1, <1>3
  <2>2. \A c \in Columns(m[i]) : c # n + 1
    BY <1>4
  <2>3. \A c : c \in Columns(g[j]) => c \in Columns(m[j]) \/ c = n + 1
    BY <1>5, <1>6
  <2>4. m[i].year < m[j].year /\ \A c \in Columns(m[i]) : c \notin Columns(m[j])
    BY <1>4
  <2>5. g[i].year < g[j].year
    BY <2>1, <2>4
  <2> QED
    BY <2>1, <2>2, <2>3, <2>4, <2>5
<1>10. n + 1 # 0 /\ g[L].start <= n + 1 /\ g[L].end = (n + 1) + 1 /\ g[L].year = Frises!Year(first, n + 1) /\ L # 0
  BY <1>1, <1>3, <1>4 DEF y
<1>11. Marked(n + 1, g, first)
  BY <1>3, <1>7, <1>8, <1>9, <1>10 DEF Marked
<1> QED
  BY <1>11 DEF g, L

\* The first column of a year.
LEMMA MarkerNew ==
  ASSUME NEW n \in Nat, NEW first \in Int, NEW m, Marked(n, m, first),
         Len(m) # 0 => m[Len(m)].year # Frises!Year(first, n + 1)
  PROVE  Marked(n + 1, Append(m, [year |-> Frises!Year(first, n + 1), start |-> n + 1, end |-> n + 2]), first)
<1> DEFINE L == Len(m)
           y == Frises!Year(first, n + 1)
           r == [year |-> y, start |-> n + 1, end |-> n + 2]
           g == Append(m, r)
<1>1. m \in Seq(Markers) /\ L \in Nat /\ y \in Int
  <2>1. n \in Int
    OBVIOUS
  <2>2. y \in Int
    BY <2>1, YearIs
  <2> HIDE DEF y
  <2> QED
    BY <2>2 DEF Marked
<1>2. /\ \A c \in 1..n : \E i \in 1..L : c \in Columns(m[i])
      /\ \A i \in 1..L : \A c \in Columns(m[i]) : c \in 1..n /\ m[i].year = Frises!Year(first, c)
      /\ \A i, j \in 1..L : i < j =>
           m[i].year < m[j].year /\ \A c \in Columns(m[i]) : c \notin Columns(m[j])
  BY DEF Marked
<1>3. \A i \in 1..L : m[i].year < y
  <2> SUFFICES ASSUME NEW i \in 1..L
               PROVE  m[i].year < y
    OBVIOUS
  <2>1. L # 0 /\ n # 0 /\ L \in 1..L /\ m[L].year = Frises!Year(first, n) /\ m[L].year # y
    BY <1>1 DEF Marked
  <2>2. m[i].year \in Int /\ m[L].year \in Int /\ m[L].year < y
    <3>1. m[i] \in Markers /\ m[L] \in Markers
      BY <1>1, <2>1
    <3>2. Frises!Year(first, n) <= y
      <4>1. n \in Int
        OBVIOUS
      <4> QED
        BY <4>1, YearIs
    <3>3. m[i].year \in Int /\ m[L].year \in Int
      BY <3>1 DEF Markers
    <3> HIDE DEF y, L
    <3> QED
      BY <1>1, <2>1, <3>2, <3>3
  <2>3. i = L \/ m[i].year < m[L].year
    BY <1>1, <1>2, <2>1
  <2> QED
    BY <1>1, <2>2, <2>3
<1>4. r \in Markers /\ r.year = y /\ r.start = n + 1 /\ r.end = n + 2
  BY <1>1 DEF Markers
<1> HIDE DEF r, y
<1>5. /\ g \in Seq(Markers) /\ Len(g) = L + 1 /\ g[L + 1] = r
      /\ \A i \in 1..L : g[i] = m[i]
      /\ \A i \in 1..(L + 1) : i \in 1..L \/ i = L + 1
      /\ \A i \in 1..L : i \in 1..(L + 1) /\ L + 1 \in 1..(L + 1)
  BY <1>1, <1>4
<1> HIDE DEF g, L
<1>6. Columns(r) = {n + 1}
  BY <1>4 DEF Columns
<1>7. \A c \in 1..(n + 1) : \E i \in 1..(L + 1) : c \in Columns(g[i])
  <2> TAKE c \in 1..(n + 1)
  <2>1. CASE c = n + 1
    <3>1. L + 1 \in 1..(L + 1)
      BY <1>1
    <3> QED
      BY <1>5, <1>6, <2>1, <3>1
  <2>2. CASE c # n + 1
    <3>1. PICK i \in 1..L : c \in Columns(m[i])
      BY <1>2, <2>2
    <3> QED
      BY <1>5, <3>1
  <2> QED
    BY <2>1, <2>2
<1>8. \A i \in 1..(L + 1) : \A c \in Columns(g[i]) : c \in 1..(n + 1) /\ g[i].year = Frises!Year(first, c)
  <2> SUFFICES ASSUME NEW i \in 1..(L + 1), NEW c \in Columns(g[i])
               PROVE  c \in 1..(n + 1) /\ g[i].year = Frises!Year(first, c)
    OBVIOUS
  <2>1. CASE i \in 1..L
    <3>1. c \in 1..n /\ g[i].year = Frises!Year(first, c)
      BY <1>2, <1>5, <2>1
    <3> QED
      BY <3>1
  <2>2. CASE i = L + 1
    <3>1. c = n + 1 /\ g[i].year = y
      BY <1>4, <1>5, <1>6, <2>2
    <3> QED
      BY <3>1 DEF y
  <2> QED
    BY <1>5, <2>1, <2>2
<1>9. \A i, j \in 1..(L + 1) : i < j =>
        g[i].year < g[j].year /\ \A c \in Columns(g[i]) : c \notin Columns(g[j])
  <2> SUFFICES ASSUME NEW i \in 1..(L + 1), NEW j \in 1..(L + 1), i < j
               PROVE  g[i].year < g[j].year /\ \A c \in Columns(g[i]) : c \notin Columns(g[j])
    OBVIOUS
  <2>1. i \in 1..L
    BY <1>1
  <2>2. CASE j \in 1..L
    BY <1>2, <1>5, <2>1, <2>2
  <2>3. CASE j = L + 1
    <3>1. \A c \in Columns(m[i]) : c # n + 1
      BY <1>2, <2>1
    <3> QED
      BY <1>3, <1>4, <1>5, <1>6, <2>1, <2>3, <3>1
  <2> QED
    BY <1>5, <2>2, <2>3
<1>10. /\ n + 1 # 0 /\ Len(g) # 0 /\ g[Len(g)].start <= n + 1 /\ g[Len(g)].end = (n + 1) + 1
       /\ g[Len(g)].year = Frises!Year(first, n + 1)
  BY <1>1, <1>4, <1>5 DEF y
<1>11. Marked(n + 1, g, first)
  BY <1>5, <1>7, <1>8, <1>9, <1>10 DEF Marked
<1> QED
  BY <1>11 DEF g, r, y

\* The first n turns of YearMarkers.
YearTurns(turn, n, first) ==
  turn = [k \in 0..n |-> IF k = 0 THEN <<>>
                         ELSE Frises!NextMarker(turn[k - 1], k, Frises!Year(first, k))]

LEMMA YearTurnsExist ==
  ASSUME NEW first
  PROVE  \A n \in Nat : \E f : YearTurns(f, n, first)
<1> DEFINE T == {n \in Nat : \E f : YearTurns(f, n, first)}
           Next1(acc, k) == Frises!NextMarker(acc, k, Frises!Year(first, k))
<1> HIDE DEF Next1
<1>0. \A f, n : YearTurns(f, n, first)
                  <=> f = [k \in 0..n |-> IF k = 0 THEN <<>> ELSE Next1(f[k - 1], k)]
  BY DEF YearTurns, Next1
<1>1. 0 \in T
  <2> DEFINE f == [k \in 0..0 |-> <<>>]
  <2>1. \A k \in 0..0 : k = 0 /\ f[k] = <<>>
    OBVIOUS
  <2>2. f = [k \in 0..0 |-> f[k]]
    OBVIOUS
  <2> HIDE DEF f
  <2>3. f = [k \in 0..0 |-> IF k = 0 THEN <<>> ELSE Next1(f[k - 1], k)]
    BY <2>1, <2>2
  <2> QED
    BY <1>0, <2>3
<1>2. ASSUME NEW n \in Nat, n \in T
      PROVE  n + 1 \in T
  <2>1. PICK f : f = [k \in 0..n |-> IF k = 0 THEN <<>> ELSE Next1(f[k - 1], k)]
    BY <1>0, <1>2
  <2> DEFINE g == [k \in 0..(n + 1) |-> IF k \in 0..n THEN f[k] ELSE Next1(f[k - 1], k)]
  <2>2. ASSUME NEW k \in 0..(n + 1)
        PROVE  g[k] = IF k = 0 THEN <<>> ELSE Next1(g[k - 1], k)
    <3>1. CASE k \in 0..n
      <4>1. k = 0 \/ k - 1 \in 0..n
        BY <3>1
      <4>2. g[k] = f[k] /\ f[k] = IF k = 0 THEN <<>> ELSE Next1(f[k - 1], k)
        BY <2>1, <3>1
      <4>3. k # 0 => g[k - 1] = f[k - 1]
        BY <4>1
      <4> QED
        BY <4>2, <4>3
    <3>2. CASE k \notin 0..n
      <4>1. k # 0 /\ k - 1 \in 0..n /\ k - 1 \in 0..(n + 1)
        BY <3>2
      <4>2. g[k] = Next1(f[k - 1], k)
        BY <3>2
      <4>3. g[k - 1] = f[k - 1]
        BY <4>1
      <4> QED
        BY <4>1, <4>2, <4>3
    <3> QED
      BY <3>1, <3>2
  <2>3. g = [k \in 0..(n + 1) |-> g[k]]
    OBVIOUS
  <2> HIDE DEF g
  <2>4. g = [k \in 0..(n + 1) |-> IF k = 0 THEN <<>> ELSE Next1(g[k - 1], k)]
    BY <2>2, <2>3
  <2>5. YearTurns(g, n + 1, first)
    BY <1>0, <2>4
  <2> QED
    BY <2>5
<1> HIDE DEF T
<1>3. Nat \subseteq T
  BY <1>1, <1>2, Induction
<1> QED
  BY <1>3 DEF T

\* The scale of the years.
LEMMA YearMarkersAre ==
  ASSUME NEW first \in Int, NEW total \in Int
  PROVE  LET n == IF total <= 0 THEN 0 ELSE total
         IN  Marked(n, Frises!YearMarkers(first, total), first)
<1> DEFINE turn == CHOOSE turn : YearTurns(turn, total, first)
           years == Frises!YearMarkers(first, total)
<1>1. Marked(0, <<>>, first)
  BY DEF Marked
<1>2. CASE total <= 0
  <2>1. years = <<>>
    BY <1>2 DEF Frises!YearMarkers
  <2> QED
    BY <1>1, <1>2, <2>1
<1>3. CASE ~(total <= 0)
  <2>1. total \in Nat
    BY <1>3
  <2>2. YearTurns(turn, total, first)
    BY <2>1, YearTurnsExist
  <2>3. years = turn[total]
    BY <1>3 DEF Frises!YearMarkers, YearTurns
  <2> HIDE DEF turn, years
  <2> DEFINE T == {n \in Nat : n <= total => Marked(n, turn[n], first)}
  <2>4. 0 \in T
    <3>1. turn[0] = <<>>
      BY <2>1, <2>2 DEF YearTurns
    <3> QED
      BY <1>1, <3>1
  <2>5. ASSUME NEW n \in Nat, n \in T
        PROVE  n + 1 \in T
    <3> SUFFICES ASSUME n + 1 <= total
                 PROVE  Marked(n + 1, turn[n + 1], first)
      OBVIOUS
    <3> DEFINE m == turn[n]
               y == Frises!Year(first, n + 1)
    <3>1. n <= total /\ n + 1 \in 0..total /\ (n + 1) - 1 = n /\ n + 1 # 0 /\ (n + 1) + 1 = n + 2
      OBVIOUS
    <3>2. Marked(n, m, first)
      BY <2>5, <3>1
    <3>3. turn[n + 1] = Frises!NextMarker(m, n + 1, y)
      BY <2>2, <3>1 DEF YearTurns
    <3>4. m \in Seq(Markers) /\ (m # <<>> <=> Len(m) # 0)
      <4>1. m \in Seq(Markers)
        BY <3>2 DEF Marked
      <4> HIDE DEF m
      <4> QED
        BY <4>1
    <3> HIDE DEF m, y
    <3>5. CASE m # <<>> /\ m[Len(m)].year = y
      <4>1. turn[n + 1] = [m EXCEPT ![Len(m)].end = n + 2]
        BY <3>1, <3>3, <3>5 DEF Frises!NextMarker, Frises!Last
      <4> QED
        BY <3>2, <3>4, <3>5, <4>1, MarkerLonger DEF y
    <3>6. CASE ~(m # <<>> /\ m[Len(m)].year = y)
      <4>1. turn[n + 1] = Append(m, [year |-> y, start |-> n + 1, end |-> n + 2])
        BY <3>1, <3>3, <3>6 DEF Frises!NextMarker, Frises!Last
      <4> QED
        BY <3>2, <3>4, <3>6, <4>1, MarkerNew DEF y
    <3> QED
      BY <3>5, <3>6
  <2> HIDE DEF T
  <2>6. Nat \subseteq T
    BY <2>4, <2>5, Induction
  <2>7. Marked(total, turn[total], first)
    BY <2>1, <2>6 DEF T
  <2> QED
    BY <1>3, <2>3, <2>7 DEF years
<1> QED
  BY <1>2, <1>3

-----------------------------------------------------------------------------
\* A function on a finite set has finitely many values.
LEMMA ValuesFinite ==
  ASSUME NEW S, IsFiniteSet(S), NEW f
  PROVE  IsFiniteSet({f[x] : x \in S})
<1> DEFINE g == [x \in S |-> f[x]]
           V == {f[x] : x \in S}
<1>1. g \in Surjection(S, V)
  BY DEF Surjection
<1> QED
  BY <1>1, FS_Surjection

\* The grid reaches from the first month to the last one.
LEMMA GridIs ==
  ASSUME NEW S \in SUBSET Segments, IsFiniteSet(S), S # {}
  PROVE  LET first == Frises!FirstMonth(S)
             last  == Frises!Month(Frises!Latest(S))
         IN  /\ first \in Int /\ last \in Int /\ Frises!Total(S) = last + 1 - first
             /\ \A s \in S : /\ first <= Frises!Month(s.debut) /\ Frises!Month(s.debut) \in Int
                             /\ s.fin # NoEnd => /\ Frises!Month(s.fin) \in Int
                                                 /\ Frises!Month(s.debut) <= Frises!Month(s.fin)
                                                 /\ Frises!Month(s.fin) <= last
<1> DEFINE f == [s \in S |-> Frises!Month(s.debut)]
           g == [s \in S |-> IF s.fin = NoEnd THEN Today ELSE s.fin]
           A == {Frises!Month(s.debut) : s \in S}
           B == {IF s.fin = NoEnd THEN Today ELSE s.fin : s \in S}
<1>1. \A s \in S : /\ s.debut \in Int /\ s.fin \in Int \cup {NoEnd} /\ (s.fin # NoEnd => s.debut <= s.fin)
                   /\ Today \in Int
  BY CalculsAssumption DEF Segments
<1>2. \A s \in S : f[s] = Frises!Month(s.debut) /\ f[s] \in Int
  BY <1>1, MonthIs
<1>3. A = {f[s] : s \in S} /\ B = {g[s] : s \in S}
  OBVIOUS
<1>4. \A s \in S : g[s] \in Int /\ (s.fin # NoEnd => s.fin \in Int /\ g[s] = s.fin)
  BY <1>1
<1> HIDE DEF f, g
<1>5. /\ IsFiniteSet(A) /\ IsFiniteSet(B) /\ A # {} /\ B # {}
      /\ (\A x \in A : x \in Int) /\ (\A x \in B : x \in Int)
  <2> HIDE DEF A, B
  <2>1. IsFiniteSet(A) /\ IsFiniteSet(B)
    BY <1>3, ValuesFinite
  <2> QED
    BY <1>2, <1>3, <1>4, <2>1
<1> DEFINE first  == Frises!FirstMonth(S)
           latest == Frises!Latest(S)
<1>6. first = Frises!Min(A) /\ latest = Frises!Max(B)
  BY DEF Frises!FirstMonth, Frises!Latest
<1> HIDE DEF A, B, first, latest
<1>7. first \in A /\ (\A x \in A : first <= x) /\ latest \in B /\ (\A x \in B : x <= latest)
  BY <1>5, <1>6, Extremes
<1>8. first \in Int /\ latest \in Int
  BY <1>5, <1>7
<1>9. \A s \in S : f[s] \in A /\ g[s] \in B
  BY <1>3
<1>10. Frises!Total(S) = Frises!Month(latest) + 1 - first
  BY DEF Frises!Total, first, latest
<1>11. ASSUME NEW s \in S
       PROVE  /\ first <= Frises!Month(s.debut) /\ Frises!Month(s.debut) \in Int
              /\ s.fin # NoEnd => /\ Frises!Month(s.fin) \in Int
                                  /\ Frises!Month(s.debut) <= Frises!Month(s.fin)
                                  /\ Frises!Month(s.fin) <= Frises!Month(latest)
  <2>1. first <= Frises!Month(s.debut) /\ Frises!Month(s.debut) \in Int
    BY <1>2, <1>7, <1>9
  <2>2. s.fin # NoEnd => s.debut \in Int /\ s.fin \in Int /\ s.debut <= s.fin /\ s.fin <= latest
    BY <1>1, <1>4, <1>7, <1>9
  <2> QED
    BY <1>8, <2>1, <2>2, MonthIs
<1> QED
  BY <1>8, <1>10, <1>11, MonthIs DEF first, latest

\* A mandate is drawn inside of the grid unless it begins after it.
LEMMA InsideIs ==
  ASSUME NEW S \in SUBSET Segments, IsFiniteSet(S), NEW s \in S, NEW row
  PROVE  LET first == Frises!FirstMonth(S)
             last  == Frises!Month(Frises!Latest(S))
             total == Frises!Total(S)
             p     == Drawn(s, row, first, total)
             future == s.fin = NoEnd /\ Frises!Month(s.debut) > last
         IN  /\ p.start \in 1..total /\ p.end \in (p.start + 1)..(total + 1) <=> ~future
             /\ ~future => p.start < p.end
<1> DEFINE first == Frises!FirstMonth(S)
           last  == Frises!Month(Frises!Latest(S))
           total == Frises!Total(S)
           start == Frises!Column(first, s.debut)
           end   == Frises!ColumnEnd(s, first, total)
           a     == Frises!Month(s.debut)
           b     == Frises!Month(s.fin)
<1>1. /\ first \in Int /\ last \in Int /\ total = last + 1 - first /\ first <= a /\ a \in Int
      /\ s.fin # NoEnd => b \in Int /\ a <= b /\ b <= last
  BY GridIs
<1> HIDE DEF first, last, total, a, b
<1>2. total \in Int
  BY <1>1
<1>3. /\ start = a - first + 1 /\ start \in Int /\ end \in Int
      /\ s.fin = NoEnd => end = total + 1
      /\ s.fin # NoEnd => end = Larger(b - first + 1, start + 1)
  BY <1>1, <1>2, ColumnEndIs DEF a, b
<1>4. Drawn(s, row, first, total).start = start /\ Drawn(s, row, first, total).end = end
  BY DEF Drawn
<1> HIDE DEF start, end
<1>5. CASE s.fin = NoEnd
  <2>1. /\ (start \in 1..total /\ end \in (start + 1)..(total + 1)) <=> ~(a > last)
        /\ ~(a > last) => start < end
    BY <1>1, <1>2, <1>3, <1>5
  <2> QED
    BY <1>4, <1>5, <2>1 DEF first, last, total, a
<1>6. CASE s.fin # NoEnd
  <2>1. start \in 1..total /\ end \in (start + 1)..(total + 1) /\ start < end
    BY <1>1, <1>2, <1>3, <1>6 DEF Larger
  <2> QED
    BY <1>4, <1>6, <2>1 DEF first, last, total, a
<1> QED
  BY <1>5, <1>6

\* The rows of a track: apart, and as many as the fullest column needs.
Packed(placed, ends, total) ==
  /\ \A p, q \in placed : p # q /\ p.row = q.row => Columns(p) \cap Columns(q) = {}
  /\ Len(ends) = Max({Cardinality({p \in placed : c \in Columns(p)}) : c \in 1..total})

\* What the placement of a track gives, P[i] being where it draws its mandate i.
Filled(N, P, placed, ends, row, total, start, end) ==
  /\ N \in Nat /\ total \in Nat \ {0} /\ start \in [1..N -> Int] /\ end \in [1..N -> Int]
  /\ \A p : p \in placed <=> \E i \in 1..N : p = P[i]
  /\ \A i \in 1..N : /\ P[i].start = start[i] /\ P[i].end = end[i] /\ P[i].row = row[i]
                     /\ start[i] \in 1..total
  /\ Rowed(N, ends, row) /\ Apart(N, ends, row, start, end) /\ Crowded(N, ends, row, start, end)

LEMMA RowsAre ==
  ASSUME NEW N, NEW P, NEW placed, NEW ends, NEW row, NEW total, NEW start, NEW end,
         Filled(N, P, placed, ends, row, total, start, end)
  PROVE  Packed(placed, ends, total)
<1> DEFINE L     == Len(ends)
           In(c) == {p \in placed : c \in Columns(p)}
           X     == {Cardinality(In(c)) : c \in 1..total}
<1>0. /\ N \in Nat /\ total \in Nat \ {0} /\ start \in [1..N -> Int] /\ end \in [1..N -> Int]
      /\ \A p : p \in placed <=> \E i \in 1..N : p = P[i]
      /\ \A i \in 1..N : /\ P[i].start = start[i] /\ P[i].end = end[i] /\ P[i].row = row[i]
                         /\ start[i] \in 1..total
      /\ Rowed(N, ends, row) /\ Apart(N, ends, row, start, end) /\ Crowded(N, ends, row, start, end)
  BY DEF Filled
<1>1. L \in Nat /\ \A i \in 1..N : row[i] \in 1..L
  <2>1. ends \in Seq(Int) /\ row \in [1..N -> 1..L]
    BY <1>0 DEF Rowed
  <2> QED
    BY <2>1
<1>2. \A i \in 1..N : start[i] \in Int /\ end[i] \in Int
  BY <1>0
<1>3. \A i \in 1..N : Columns(P[i]) = start[i]..(end[i] - 1)
  BY <1>0 DEF Columns
<1>4. \A i, j \in 1..N : i < j /\ row[i] = row[j] => end[i] <= start[j]
  BY <1>0 DEF Apart
<1> HIDE DEF L
<1>5. \A p, q \in placed : p # q /\ p.row = q.row => Columns(p) \cap Columns(q) = {}
  <2> SUFFICES ASSUME NEW p \in placed, NEW q \in placed, p # q, p.row = q.row
               PROVE  Columns(p) \cap Columns(q) = {}
    OBVIOUS
  <2>1. PICK i \in 1..N : p = P[i]
    BY <1>0
  <2>2. PICK j \in 1..N : q = P[j]
    BY <1>0
  <2>3. row[i] = row[j] /\ (i < j \/ j < i)
    <3>1. i # j
      BY <2>1, <2>2
    <3> QED
      BY <1>0, <2>1, <2>2, <3>1
  <2>4. end[i] <= start[j] \/ end[j] <= start[i]
    BY <1>4, <2>3
  <2>5. Columns(p) = start[i]..(end[i] - 1) /\ Columns(q) = start[j]..(end[j] - 1)
    BY <1>3, <2>1, <2>2
  <2> QED
    BY <1>2, <2>4, <2>5
<1>6. \A p \in placed : p.row \in 1..L
  BY <1>0, <1>1
<1> HIDE DEF In
<1>7. ASSUME NEW c \in 1..total
      PROVE  IsFiniteSet(In(c)) /\ Cardinality(In(c)) \in Nat /\ Cardinality(In(c)) <= L
  <2> DEFINE f == [p \in In(c) |-> p.row]
  <2>1. f \in [In(c) -> 1..L]
    BY <1>6 DEF In
  <2>2. \A p, q \in In(c) : f[p] = f[q] => p = q
    BY <1>5 DEF In
  <2> HIDE DEF f
  <2>3. f \in Injection(In(c), 1..L)
    BY <2>1, <2>2 DEF Injection, IsInjective
  <2>4. IsFiniteSet(1..L) /\ Cardinality(1..L) = L
    BY <1>1, FS_Interval
  <2>5. IsFiniteSet(In(c)) /\ Cardinality(In(c)) <= L
    BY <2>3, <2>4, FS_Injection
  <2> QED
    BY <2>5, FS_CardinalityType
<1>8. ASSUME NEW c \in 1..total, \A r \in 1..L : \E p \in In(c) : p.row = r
      PROVE  Cardinality(In(c)) = L
  <2> DEFINE g == [r \in 1..L |-> CHOOSE p \in In(c) : p.row = r]
  <2>1. \A r \in 1..L : g[r] \in In(c) /\ g[r].row = r
    BY <1>8
  <2>2. g \in [1..L -> In(c)]
    BY <2>1
  <2> HIDE DEF g
  <2>3. g \in Injection(1..L, In(c))
    <3>1. \A r, q \in 1..L : g[r] = g[q] => r = q
      BY <2>1
    <3> QED
      BY <2>2, <3>1 DEF Injection, IsInjective
  <2>4. Cardinality(1..L) = L
    BY <1>1, FS_Interval
  <2>5. Cardinality(1..L) <= Cardinality(In(c))
    BY <1>7, <2>3, FS_Injection
  <2> QED
    BY <1>1, <1>7, <2>4, <2>5
<1>9. L \in X
  <2>1. CASE L = 0
    <3>1. 1 \in 1..total
      BY <1>0
    <3>2. Cardinality(In(1)) = L
      BY <1>8, <2>1, <3>1
    <3> QED
      BY <3>1, <3>2
  <2>2. CASE L # 0
    <3>1. PICK k \in 1..N : \A r \in 1..L : \E i \in 1..N :
                              row[i] = r /\ start[i] <= start[k] /\ start[k] < end[i]
      BY <1>0, <2>2 DEF Crowded, L
    <3> DEFINE c == start[k]
    <3>2. c \in 1..total
      BY <1>0
    <3>3. ASSUME NEW r \in 1..L
          PROVE  \E p \in In(c) : p.row = r
      <4>1. PICK i \in 1..N : row[i] = r /\ start[i] <= c /\ c < end[i]
        BY <3>1
      <4>2. c \in Columns(P[i])
        BY <1>0, <1>2, <1>3, <3>2, <4>1
      <4>3. P[i] \in In(c) /\ P[i].row = r
        BY <1>0, <4>1, <4>2 DEF In
      <4> QED
        BY <4>3
    <3> HIDE DEF c
    <3>4. Cardinality(In(c)) = L
      BY <1>8, <3>2, <3>3
    <3> QED
      BY <3>2, <3>4
  <2> QED
    BY <2>1, <2>2
<1>10. \A x \in X : x \in Int /\ x <= L
  BY <1>7
<1>11. Max(X) = L
  <2> HIDE DEF X
  <2> QED
    BY <1>9, <1>10, MaxOf
<1> QED
  BY <1>5, <1>11 DEF In, X, L, Packed

\* The segments of a page: finitely many, each with its key.
LEMMA SegmentsFed ==
  ASSUME SegmentsInv, kind = "segments", input # <<>>
  PROVE  LET S == {input[i] : i \in DOMAIN input}
         IN  /\ S \in SUBSET Segments /\ S # {} /\ IsFiniteSet(S) /\ OneKey(S)
             /\ \A t : LET R == {s \in S : s.piste = t}
                       IN  R \in SUBSET Segments /\ R \in SUBSET S /\ IsFiniteSet(R) /\ OneKey(R)
<1> DEFINE S == {input[i] : i \in DOMAIN input}
<1>1. /\ input \in Seq(Segments) /\ DOMAIN input = 1..Len(input) /\ Len(input) \in Nat /\ Len(input) # 0
      /\ \A i \in 1..Len(input) : input[i] \in Segments /\ input[i].key = i
  BY DEF SegmentsInv
<1>2. S \in SUBSET Segments /\ OneKey(S)
  BY <1>1 DEF OneKey
<1>3. IsFiniteSet(S)
  <2>1. IsFiniteSet(DOMAIN input)
    BY <1>1, FS_Interval
  <2> QED
    BY <2>1, ValuesFinite
<1>4. S # {}
  <2>1. 1 \in DOMAIN input
    BY <1>1
  <2> QED
    BY <2>1
<1> HIDE DEF S
<1>5. ASSUME NEW t
      PROVE  LET R == {s \in S : s.piste = t}
             IN  R \in SUBSET Segments /\ R \in SUBSET S /\ IsFiniteSet(R) /\ OneKey(R)
  <2> DEFINE R == {s \in S : s.piste = t}
  <2>1. R \in SUBSET S
    OBVIOUS
  <2> HIDE DEF R
  <2>2. IsFiniteSet(R)
    BY <1>3, <2>1, FS_Subset
  <2> QED
    BY <1>2, <2>1, <2>2 DEF OneKey, R
<1> QED
  BY <1>2, <1>3, <1>4, <1>5 DEF S

\* One track of the page of S, whose segments are R.
Future(s, S)     == s.fin = NoEnd /\ Frises!Month(s.debut) > Frises!Month(Frises!Latest(S))
Inside(p, total) == p.start \in 1..total /\ p.end \in (p.start + 1)..(total + 1)

LEMMA TrackIs ==
  ASSUME NEW S \in SUBSET Segments, IsFiniteSet(S), S # {}, NEW R \in SUBSET S, IsFiniteSet(R), OneKey(R)
  PROVE  LET total  == Frises!Total(S)
             place  == Frises!Place(R, Frises!FirstMonth(S), total)
         IN  /\ \A s \in R : Cardinality({p \in place.placed : p.segment = s}) = 1
             /\ \A p \in place.placed : Inside(p, total) <=> ~Future(p.segment, S)
             /\ (\A s \in S : ~Future(s, S)) => Packed(place.placed, place.ends, total)
<1> DEFINE first  == Frises!FirstMonth(S)
           total  == Frises!Total(S)
           place  == Frises!Place(R, first, total)
           N      == Cardinality(R)
<1>1. first \in Int /\ total \in Int
  <2>1. first \in Int /\ Frises!Month(Frises!Latest(S)) \in Int
        /\ total = Frises!Month(Frises!Latest(S)) + 1 - first
    BY GridIs
  <2> HIDE DEF first, total
  <2> QED
    BY <2>1
<1>2. ASSUME NEW s \in S, NEW row
      PROVE  LET p == Drawn(s, row, first, total)
             IN  (Inside(p, total) <=> ~Future(s, S)) /\ (~Future(s, S) => p.start < p.end)
  BY InsideIs DEF Inside, Future
<1> HIDE DEF first, total
<1>3. R \in SUBSET Segments /\ N \in Nat
  BY FS_CardinalityType
<1>4. PICK list : InOrderOf(list, R) /\ PlacedWell(N, place, list, N, first, total)
  BY <1>1, <1>3, PlaceIs
<1> DEFINE start == Starts(list, N, first)
           end   == Ends(list, N, first, total)
<1>5. /\ \A i \in 1..N : list[i] \in R
      /\ \A i, j \in 1..N : list[i] = list[j] => i = j
      /\ \A s \in R : \E i \in 1..N : list[i] = s
  BY <1>4 DEF InOrderOf, Bijection, Injection, Surjection, IsInjective
<1> HIDE DEF place, N
<1>6. PICK row : /\ Rowed(N, place.ends, row)
                 /\ place.placed = {Drawn(list[i], row[i], first, total) : i \in 1..N}
                 /\ (\A i \in 1..N : start[i] < end[i]) =>
                      Apart(N, place.ends, row, start, end) /\ Crowded(N, place.ends, row, start, end)
  BY <1>4 DEF PlacedWell
<1> DEFINE P == [i \in 1..N |-> Drawn(list[i], row[i], first, total)]
<1>7. /\ place.placed = {P[i] : i \in 1..N}
      /\ \A i \in 1..N : P[i] = Drawn(list[i], row[i], first, total)
  BY <1>6
<1>8. \A i \in 1..N : /\ P[i].segment = list[i] /\ P[i].row = row[i]
                      /\ P[i].start = start[i] /\ P[i].end = end[i]
  BY DEF Drawn, Starts, Ends
<1>9. start \in [1..N -> Int] /\ end \in [1..N -> Int]
  <2>1. ASSUME NEW i \in 1..N
        PROVE  start[i] \in Int /\ end[i] \in Int
    <3>1. list[i] \in Segments
      BY <1>3, <1>5
    <3>2. start[i] = Frises!Column(first, list[i].debut) /\ end[i] = Frises!ColumnEnd(list[i], first, total)
      BY DEF Starts, Ends
    <3> QED
      BY <1>1, <3>1, <3>2, ColumnEndIs
  <2> QED
    BY <2>1 DEF Starts, Ends
<1> HIDE DEF P, start, end
<1>10. \A s \in R : Cardinality({p \in place.placed : p.segment = s}) = 1
  <2> TAKE s \in R
  <2>1. PICK i \in 1..N : list[i] = s
    BY <1>5
  <2>2. {p \in place.placed : p.segment = s} = {P[i]}
    BY <1>5, <1>7, <1>8, <2>1
  <2> QED
    BY <2>2, FS_Singleton
<1>11. \A p \in place.placed : Inside(p, total) <=> ~Future(p.segment, S)
  <2> TAKE p \in place.placed
  <2>1. PICK i \in 1..N : p = P[i]
    BY <1>7
  <2>2. p.segment = list[i] /\ p = Drawn(list[i], row[i], first, total) /\ list[i] \in S
    BY <1>5, <1>7, <1>8, <2>1
  <2> QED
    BY <1>2, <2>2
<1>12. ASSUME \A s \in S : ~Future(s, S)
       PROVE  Packed(place.placed, place.ends, total)
  <2>1. ASSUME NEW i \in 1..N
        PROVE  start[i] \in 1..total /\ start[i] < end[i]
    <3>1. list[i] \in S /\ ~Future(list[i], S)
      BY <1>5, <1>12
    <3>2. Inside(P[i], total) /\ P[i].start < P[i].end
      BY <1>2, <1>7, <3>1
    <3> QED
      BY <1>8, <3>2 DEF Inside
  <2>2. total \in Nat \ {0}
    <3>1. PICK s \in S : TRUE
      OBVIOUS
    <3> DEFINE p == Drawn(s, 0, first, total)
    <3>2. Inside(p, total)
      BY <1>2, <1>12, <3>1
    <3>3. p.start \in 1..total
      BY <3>2 DEF Inside
    <3> HIDE DEF p
    <3> QED
      BY <1>1, <3>3
  <2>3. Apart(N, place.ends, row, start, end) /\ Crowded(N, place.ends, row, start, end)
    BY <1>6, <2>1
  <2>4. N \in Nat
    BY <1>3
  <2>5. \A i \in 1..N : /\ P[i].start = start[i] /\ P[i].end = end[i] /\ P[i].row = row[i]
                        /\ start[i] \in 1..total
    BY <1>8, <2>1
  <2>6. Rowed(N, place.ends, row) /\ \A p : p \in place.placed <=> \E i \in 1..N : p = P[i]
    BY <1>6, <1>7
  <2>7. Filled(N, P, place.placed, place.ends, row, total, start, end)
    BY <1>9, <2>2, <2>3, <2>4, <2>5, <2>6 DEF Filled
  <2> QED
    BY <2>7, RowsAre
<1> QED
  BY <1>10, <1>11, <1>12 DEF place, first, total

\* FriseReadable: whatever the mandates of a person, their number and their
\* dates, build_timeline draws each once and inside of the grid, apart from
\* those of its row, in as few rows as the fullest column allows.
THEOREM FriseReadableCorrect ==
  Spec => []FriseReadable
<1>1. SegmentsInv => FriseReadable
  <2> SUFFICES ASSUME SegmentsInv, kind = "segments", input # <<>>
               PROVE  FriseReadable
    BY DEF FriseReadable
  <2> DEFINE S     == {input[i] : i \in DOMAIN input}
             frise == Frises!Timeline(S)
             first == Frises!FirstMonth(S)
             total == Frises!Total(S)
             R(t)  == {s \in S : s.piste = t}
             years == Frises!YearMarkers(first, total)
  <2>1. /\ S \in SUBSET Segments /\ S # {} /\ IsFiniteSet(S)
        /\ \A t : R(t) \in SUBSET S /\ IsFiniteSet(R(t)) /\ OneKey(R(t))
    BY SegmentsFed
  <2> HIDE DEF S
  <2>2. /\ frise.total = total /\ frise.years = years
        /\ \A t \in Pistes : frise.pistes[t] = Frises!Place(R(t), first, total)
    BY <2>1 DEF Frises!Timeline
  <2>3. first \in Int /\ total \in Int
    <3>1. first \in Int /\ Frises!Month(Frises!Latest(S)) \in Int
          /\ total = Frises!Month(Frises!Latest(S)) + 1 - first
      BY <2>1, GridIs
    <3> HIDE DEF first, total
    <3> QED
      BY <3>1
  <2>4. ASSUME NEW t \in Pistes
        PROVE  LET place == frise.pistes[t]
               IN  /\ \A s \in R(t) : Cardinality({p \in place.placed : p.segment = s}) = 1
                   /\ \A p \in place.placed : Inside(p, total) <=> ~Future(p.segment, S)
                   /\ (\A s \in S : ~Future(s, S)) => Packed(place.placed, place.ends, total)
    <3>1. frise.pistes[t] = Frises!Place(R(t), first, total)
      BY <2>2
    <3> DEFINE T == R(t)
    <3>2. T \in SUBSET S /\ IsFiniteSet(T) /\ OneKey(T)
      BY <2>1
    <3> DEFINE place == Frises!Place(T, first, total)
    <3> HIDE DEF T
    <3>3. /\ \A s \in T : Cardinality({p \in place.placed : p.segment = s}) = 1
          /\ \A p \in place.placed : Inside(p, total) <=> ~Future(p.segment, S)
          /\ (\A s \in S : ~Future(s, S)) => Packed(place.placed, place.ends, total)
      BY <2>1, <3>2, TrackIs
    <3>4. frise.pistes[t] = place
      BY <3>1 DEF T
    <3> HIDE DEF place, frise, first, total
    <3> QED
      BY <3>3, <3>4 DEF T
  <2>5. \A s \in S : Cardinality({p \in frise.pistes[s.piste].placed : p.segment = s}) = 1
    <3> TAKE s \in S
    <3>1. s.piste \in Pistes /\ s \in R(s.piste)
      BY <2>1 DEF Segments
    <3> HIDE DEF frise, R
    <3> QED
      BY <2>4, <3>1
  <2> DEFINE n == IF total <= 0 THEN 0 ELSE total
  <2>6. Marked(n, years, first)
    BY <2>3, YearMarkersAre
  <2> HIDE DEF frise, first, total, years
  <2>7. /\ DOMAIN years = 1..Len(years) /\ Len(years) \in Nat /\ \A i \in 1..Len(years) : years[i].year \in Int
    <3>1. years \in Seq(Markers)
      BY <2>6 DEF Marked
    <3>2. \A m \in Markers : m.year \in Int
      BY DEF Markers
    <3>3. \A i \in 1..Len(years) : years[i] \in Markers
      BY <3>1
    <3> QED
      BY <3>1, <3>2, <3>3
  <2>8. ASSUME NEW c \in 1..total
        PROVE  \E i \in DOMAIN years :
                 /\ c \in Columns(years[i])
                 /\ years[i].year = Frises!Year(first, c)
                 /\ \A j \in DOMAIN years : c \in Columns(years[j]) => i = j
    <3>1. c \in 1..n
      BY <2>3
    <3> HIDE DEF n
    <3>2. PICK i \in 1..Len(years) : c \in Columns(years[i])
      BY <2>6, <3>1 DEF Marked
    <3>3. years[i].year = Frises!Year(first, c)
      BY <2>6, <3>2 DEF Marked
    <3>4. ASSUME NEW j \in 1..Len(years), c \in Columns(years[j])
          PROVE  i = j
      <4>1. i < j \/ j < i \/ i = j
        BY <2>7
      <4> QED
        BY <2>6, <3>2, <3>4, <4>1 DEF Marked
    <3> QED
      BY <2>7, <3>2, <3>3, <3>4
  <2>9. \A i, j \in DOMAIN years : years[i].year = years[j].year => i = j
    <3> SUFFICES ASSUME NEW i \in 1..Len(years), NEW j \in 1..Len(years), years[i].year = years[j].year
                 PROVE  i = j
      BY <2>7
    <3>1. i < j \/ j < i \/ i = j
      BY <2>7
    <3>2. ~(i < j) /\ ~(j < i)
      BY <2>6, <2>7 DEF Marked
    <3> QED
      BY <3>1, <3>2
  <2>10. /\ \A t \in Pistes : \A p \in frise.pistes[t].placed : Inside(p, total) <=> ~Future(p.segment, S)
         /\ (\A s \in S : ~Future(s, S)) =>
              \A t \in Pistes : Packed(frise.pistes[t].placed, frise.pistes[t].ends, total)
    BY <2>4
  <2>11. /\ \A t \in Pistes : \A p \in frise.pistes[t].placed :
              Inside(p, frise.total) <=> ~Future(p.segment, S)
         /\ (\A s \in S : ~Future(s, S)) =>
              \A t \in Pistes : Packed(frise.pistes[t].placed, frise.pistes[t].ends, frise.total)
    BY <2>2, <2>10
  <2>12. /\ \A c \in 1..frise.total : \E i \in DOMAIN frise.years :
              /\ c \in Columns(frise.years[i])
              /\ frise.years[i].year = Frises!Year(first, c)
              /\ \A j \in DOMAIN frise.years : c \in Columns(frise.years[j]) => i = j
         /\ \A i, j \in DOMAIN frise.years : frise.years[i].year = frise.years[j].year => i = j
    BY <2>2, <2>8, <2>9
  <2> QED
    BY <2>5, <2>11, <2>12 DEF FriseReadable, Inside, Future, Packed, S, frise, first
<1> QED
  BY <1>1, SegmentsInductive, PTL
=============================================================================
