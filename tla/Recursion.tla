------------------------------- MODULE Recursion -------------------------------
(***************************************************************************)
(* Induction for the recursive functions and folds of the other modules.   *)
(* A fact about a number is proved for the set of numbers that have it:    *)
(* what is not in the set would have a least element.                      *)
(***************************************************************************)
EXTENDS Integers, FiniteSetsExt, SequencesExt, FiniteSetTheorems, SequenceTheorems,
        WellFoundedInduction, TLAPS

\* A set of numbers that is not empty has a least one.
LEMMA Least ==
  ASSUME NEW T, T \subseteq Nat, T # {}
  PROVE  \E m \in T : \A k \in T : m <= k
<1>1. PICK m \in T : \A k \in T : <<k, m>> \notin OpToRel(<, Nat)
  BY NatLessThanWellFounded, WFMin
<1>2. \A k \in T : ~ (k < m)
  BY <1>1 DEF OpToRel
<1> QED
  BY <1>2

\* A set of numbers with 0 in it and with each number's successor, up to n, has them all.
LEMMA Climb ==
  ASSUME NEW n \in Nat, NEW S, 0 \in S, \A d \in 1 .. n : d - 1 \in S => d \in S
  PROVE  \A d \in 0 .. n : d \in S
<1> DEFINE T == {d \in 0 .. n : d \notin S}
<1> SUFFICES ASSUME T # {} PROVE FALSE
  OBVIOUS
<1>1. T \subseteq Nat
  OBVIOUS
<1>2. PICK m \in T : \A k \in T : m <= k
  BY <1>1, Least
<1>3. m \in 1 .. n /\ m - 1 \notin T /\ m - 1 \in 0 .. n
  BY <1>2
<1> QED
  BY <1>3

-----------------------------------------------------------------------------
(***************************************************************************)
(* Sums.                                                                   *)
(***************************************************************************)

\* What the members of a set have in their field `value`, together.
Total(S) == MapThenSumSet(LAMBDA n : n.value, S)

\* The element that the fold of Total takes out of a set.
Taken(s) == CHOOSE x \in s : TRUE

\* The equation of the fold, for the subsets in D.
Folds(g, D) == g = [s \in D |-> IF s = {} THEN 0 ELSE Taken(s).value + g[s \ {Taken(s)}]]

\* Taking an element out makes a finite set smaller.
LEMMA TakenOut ==
  ASSUME NEW s, IsFiniteSet(s), NEW x \in s
  PROVE  /\ IsFiniteSet(s \ {x}) /\ s \ {x} \subseteq s
         /\ Cardinality(s) \in Nat /\ Cardinality(s) > 0
         /\ Cardinality(s \ {x}) = Cardinality(s) - 1
  BY FS_RemoveElement, FS_CardinalityType, FS_EmptySet

\* The fold over a finite set has a solution.
LEMMA FoldExists ==
  ASSUME NEW S, IsFiniteSet(S)
  PROVE  \E g : Folds(g, SUBSET S)
<1> DEFINE Small(n) == {s \in SUBSET S : Cardinality(s) <= n}
           N == {n \in Nat : \E g : Folds(g, Small(n))}
<1>1. \A s \in SUBSET S : IsFiniteSet(s) /\ Cardinality(s) \in Nat
  BY FS_Subset, FS_CardinalityType
<1>2. 0 \in N
  <2>1. \A s \in Small(0) : s = {}
    BY <1>1, FS_EmptySet
  <2>2. Folds([s \in Small(0) |-> 0], Small(0))
    BY <2>1 DEF Folds
  <2> QED
    BY <2>2
<1>3. ASSUME NEW n \in 1 .. Cardinality(S), n - 1 \in N
      PROVE  n \in N
  <2>1. PICK g : Folds(g, Small(n - 1))
    BY <1>3
  <2> DEFINE h == [s \in Small(n) |-> IF s = {} THEN 0
                                               ELSE Taken(s).value + g[s \ {Taken(s)}]]
  <2>2. ASSUME NEW s \in Small(n - 1)
        PROVE  s \in Small(n) /\ h[s] = g[s]
    <3>1. s \in Small(n)
      BY <1>1
    <3>2. g[s] = IF s = {} THEN 0 ELSE Taken(s).value + g[s \ {Taken(s)}]
      BY <2>1 DEF Folds
    <3> QED
      BY <3>1, <3>2
  <2>3. ASSUME NEW s \in Small(n), s # {}
        PROVE  s \ {Taken(s)} \in Small(n - 1)
    <3>1. Taken(s) \in s
      BY <2>3 DEF Taken
    <3> QED
      BY <1>1, <2>3, <3>1, TakenOut
  <2>4. Folds(h, Small(n))
    <3> HIDE DEF Small
    <3>1. \A s \in Small(n) : s # {} => h[s \ {Taken(s)}] = g[s \ {Taken(s)}]
      BY <2>2, <2>3
    <3> QED
      BY <3>1 DEF Folds
  <2> QED
    BY <2>4
<1>4. Cardinality(S) \in N
  <2> HIDE DEF N
  <2> QED
    BY <1>1, <1>2, <1>3, Climb
<1>5. Small(Cardinality(S)) = SUBSET S
  BY FS_Subset
<1> QED
  BY <1>4, <1>5

\* Two solutions agree where both are defined.
LEMMA FoldIsUnique ==
  ASSUME NEW S, IsFiniteSet(S), NEW T \in SUBSET S, NEW g, NEW h,
         Folds(g, SUBSET S), Folds(h, SUBSET T)
  PROVE  h[T] = g[T]
<1> DEFINE N == {n \in 0 .. Cardinality(T) :
                   \A s \in SUBSET T : Cardinality(s) = n => h[s] = g[s]}
<1>1. \A s \in SUBSET T : IsFiniteSet(s) /\ Cardinality(s) \in Nat
  BY FS_Subset, FS_CardinalityType
<1>2. ASSUME NEW s \in SUBSET T
      PROVE  /\ h[s] = IF s = {} THEN 0 ELSE Taken(s).value + h[s \ {Taken(s)}]
             /\ g[s] = IF s = {} THEN 0 ELSE Taken(s).value + g[s \ {Taken(s)}]
  <2>1. s \in SUBSET S
    OBVIOUS
  <2>2. ASSUME NEW D, s \in D, NEW f, Folds(f, D)
        PROVE  f[s] = IF s = {} THEN 0 ELSE Taken(s).value + f[s \ {Taken(s)}]
    BY <2>2 DEF Folds
  <2> QED
    BY <2>1, <2>2
<1>3. 0 \in N
  <2>1. 0 \in 0 .. Cardinality(T)
    BY <1>1
  <2>2. ASSUME NEW s \in SUBSET T, Cardinality(s) = 0
        PROVE  h[s] = g[s]
    <3>1. s = {}
      BY <1>1, <2>2, FS_EmptySet
    <3> QED
      BY <1>2, <3>1
  <2> QED
    BY <2>1, <2>2
<1>4. ASSUME NEW n \in 1 .. Cardinality(T), n - 1 \in N
      PROVE  n \in N
  <2> SUFFICES ASSUME NEW s \in SUBSET T, Cardinality(s) = n PROVE h[s] = g[s]
    BY <1>1
  <2>1. s # {}
    <3>1. n # 0 /\ Cardinality({}) = 0
      BY <1>1, FS_EmptySet
    <3> QED
      BY <3>1
  <2>2. Taken(s) \in s
    BY <2>1 DEF Taken
  <2>3. s \ {Taken(s)} \in SUBSET T /\ Cardinality(s \ {Taken(s)}) = n - 1
    BY <1>1, <2>2, TakenOut
  <2>4. h[s \ {Taken(s)}] = g[s \ {Taken(s)}]
    BY <1>4, <2>3
  <2> QED
    BY <1>2, <2>1, <2>4
<1>5. Cardinality(T) \in N
  <2> HIDE DEF N
  <2> QED
    BY <1>1, <1>3, <1>4, Climb
<1> QED
  BY <1>5

\* The worth of a finite set, taking out the element that the fold does.
LEMMA TotalTaken ==
  /\ Total({}) = 0
  /\ \A S : IsFiniteSet(S) /\ S # {} =>
       Total(S) = Taken(S).value + Total(S \ {Taken(S)})
<1>1. ASSUME NEW S, IsFiniteSet(S)
      PROVE  \E g : Folds(g, SUBSET S) /\ Total(S) = g[S]
  <2> DEFINE g == CHOOSE h : Folds(h, SUBSET S)
  <2>1. Folds(g, SUBSET S)
    BY <1>1, FoldExists
  <2>2. Total(S) = g[S]
    BY DEF Total, MapThenSumSet, MapThenFoldSet, Folds, Taken
  <2> QED
    BY <2>1, <2>2
<1>2. Total({}) = 0
  BY <1>1, FS_EmptySet DEF Folds
<1>3. ASSUME NEW S, IsFiniteSet(S), S # {}
      PROVE  Total(S) = Taken(S).value + Total(S \ {Taken(S)})
  <2> DEFINE T == S \ {Taken(S)}
  <2>1. Taken(S) \in S
    BY <1>3 DEF Taken
  <2>2. IsFiniteSet(T) /\ T \in SUBSET S
    BY <1>3, <2>1, TakenOut
  <2> HIDE DEF T
  <2>3. PICK g : Folds(g, SUBSET S) /\ Total(S) = g[S]
    BY <1>1, <1>3
  <2>4. PICK h : Folds(h, SUBSET T) /\ Total(T) = h[T]
    BY <1>1, <2>2
  <2>5. Total(T) = g[T]
    BY <1>3, <2>2, <2>3, <2>4, FoldIsUnique
  <2>6. g[S] = Taken(S).value + g[T]
    BY <1>3, <2>3 DEF Folds, T
  <2> QED
    BY <2>3, <2>5, <2>6 DEF T
<1> QED
  BY <1>2, <1>3

\* The worth of notes is a number, and any of them may be taken out.
LEMMA TotalOf ==
  ASSUME NEW S, IsFiniteSet(S), \A x \in S : x.value \in Nat
  PROVE  /\ Total(S) \in Nat
         /\ \A x \in S : Total(S) = x.value + Total(S \ {x})
<1> DEFINE Fine(T) == /\ Total(T) \in Nat
                      /\ \A x \in T : /\ Total(T \ {x}) \in Nat
                                     /\ Total(T) = x.value + Total(T \ {x})
           N == {n \in 0 .. Cardinality(S) :
                   \A T \in SUBSET S : Cardinality(T) = n => Fine(T)}
<1>1. \A T \in SUBSET S : IsFiniteSet(T) /\ Cardinality(T) \in Nat
  BY FS_Subset, FS_CardinalityType
<1>2. 0 \in N
  <2>1. \A T \in SUBSET S : Cardinality(T) = 0 => T = {}
    BY <1>1, FS_EmptySet
  <2> QED
    BY <1>1, <2>1, TotalTaken
<1>3. ASSUME NEW n \in 1 .. Cardinality(S), n - 1 \in N
      PROVE  n \in N
  <2> SUFFICES ASSUME NEW T \in SUBSET S, Cardinality(T) = n PROVE Fine(T)
    BY <1>1
  <2> DEFINE c == Taken(T)
             rest == T \ {c}
  <2>1. T # {} /\ IsFiniteSet(T)
    BY <1>1, FS_EmptySet
  <2>2. c \in T /\ c.value \in Nat
    BY <2>1 DEF Taken
  <2>3. Total(T) = c.value + Total(rest)
    BY <2>1, TotalTaken
  <2> HIDE DEF c
  <2>4. rest \in SUBSET S /\ IsFiniteSet(rest) /\ Cardinality(rest) = n - 1
    BY <2>1, <2>2, TakenOut
  <2>5. Fine(rest)
    BY <1>3, <2>4
  <2>6. ASSUME NEW x \in T
        PROVE  Total(T \ {x}) \in Nat /\ Total(T) = x.value + Total(T \ {x})
    <3>1. CASE x = c
      BY <2>3, <2>5, <3>1
    <3>2. CASE x # c
      <4> DEFINE others == T \ {x}
                 both == T \ {x, c}
      <4>1. rest \ {x} = both /\ others \ {c} = both /\ x \in rest /\ c \in others
        BY <2>2, <3>2
      <4>2. others \in SUBSET S /\ Cardinality(others) = n - 1
        BY <2>1, TakenOut
      <4>3. Fine(others)
        BY <1>3, <4>2
      <4> HIDE DEF others, both, rest
      <4>4. Total(rest) = x.value + Total(both) /\ Total(both) \in Nat
        BY <2>5, <4>1
      <4>5. Total(others) = c.value + Total(both) /\ Total(others) \in Nat
        BY <4>1, <4>3
      <4>6. Total(T) = x.value + Total(others)
        BY <2>2, <2>3, <4>4, <4>5
      <4> QED
        BY <4>5, <4>6 DEF others
    <3> QED
      BY <3>1, <3>2
  <2>7. Total(T) \in Nat
    BY <2>2, <2>3, <2>5
  <2> QED
    BY <2>6, <2>7
<1>4. Cardinality(S) \in N
  <2> HIDE DEF N
  <2> QED
    BY <1>1, <1>2, <1>3, Climb
<1> QED
  BY <1>4

-----------------------------------------------------------------------------
(***************************************************************************)
(* Sequences of sequences.                                                 *)
(***************************************************************************)

\* The equation of FlattenSeq, for the first n sequences.
Joins(f, ss, n) == f = [i \in 1 .. n |-> IF i = 1 THEN ss[i] ELSE f[i - 1] \o ss[i]]

\* It has a solution.
LEMMA JoinExists ==
  ASSUME NEW ss, NEW n \in Nat
  PROVE  \E f : Joins(f, ss, n)
<1> DEFINE N == {m \in Nat : \E f : Joins(f, ss, m)}
<1>1. 0 \in N
  <2>1. Joins([i \in 1 .. 0 |-> 0], ss, 0)
    BY DEF Joins
  <2> QED
    BY <2>1
<1>2. ASSUME NEW m \in 1 .. n, m - 1 \in N
      PROVE  m \in N
  <2>1. PICK f : Joins(f, ss, m - 1)
    BY <1>2
  <2> DEFINE g == [i \in 1 .. m |-> IF i = 1 THEN ss[i] ELSE f[i - 1] \o ss[i]]
  <2>2. \A i \in 1 .. m - 1 : f[i] = IF i = 1 THEN ss[i] ELSE f[i - 1] \o ss[i]
    BY <2>1 DEF Joins
  <2>3. \A i \in 1 .. m - 1 : g[i] = f[i]
    BY <2>2
  <2>4. \A i \in 1 .. m : i # 1 => i - 1 \in 1 .. m - 1
    OBVIOUS
  <2>5. Joins(g, ss, m)
    BY <2>3, <2>4 DEF Joins
  <2> QED
    BY <2>5
<1>3. n \in N
  <2> HIDE DEF N
  <2> QED
    BY <1>1, <1>2, Climb
<1> QED
  BY <1>3

\* What a solution says of one of them.
LEMMA JoinAt ==
  ASSUME NEW ss, NEW n \in Nat, NEW f, Joins(f, ss, n), NEW i \in 1 .. n
  PROVE  f[i] = IF i = 1 THEN ss[i] ELSE f[i - 1] \o ss[i]
  BY DEF Joins

\* Solutions agree on the sequences that both join, when those are the same.
LEMMA JoinIsUnique ==
  ASSUME NEW ss, NEW tt, NEW n \in Nat, NEW m \in Nat, m <= n, NEW f, NEW g,
         Joins(f, ss, n), Joins(g, tt, m), \A i \in 1 .. m : ss[i] = tt[i], m > 0
  PROVE  f[m] = g[m]
<1> DEFINE N == {k \in 0 .. m : k # 0 => f[k] = g[k]}
<1>1. \A i \in 1 .. m :
        /\ f[i] = IF i = 1 THEN ss[i] ELSE f[i - 1] \o ss[i]
        /\ g[i] = IF i = 1 THEN tt[i] ELSE g[i - 1] \o tt[i]
  <2> TAKE i \in 1 .. m
  <2>1. i \in 1 .. n
    OBVIOUS
  <2> QED
    BY <2>1, JoinAt
<1>2. 0 \in N
  OBVIOUS
<1>3. ASSUME NEW k \in 1 .. m, k - 1 \in N
      PROVE  k \in N
  <2>1. k # 1 => f[k - 1] = g[k - 1]
    BY <1>3
  <2>2. f[k] = g[k]
    BY <1>1, <2>1
  <2> QED
    BY <2>2
<1>4. m \in N
  <2> HIDE DEF N
  <2> QED
    BY <1>2, <1>3, Climb
<1> QED
  BY <1>4

\* The joined sequence by its equation.
LEMMA FlattenIsJoin ==
  ASSUME NEW ss, Len(ss) \in Nat, Len(ss) > 0
  PROVE  \E f : Joins(f, ss, Len(ss)) /\ FlattenSeq(ss) = f[Len(ss)]
<1> DEFINE f == CHOOSE h : Joins(h, ss, Len(ss))
<1>1. Joins(f, ss, Len(ss))
  BY JoinExists
<1>2. FlattenSeq(ss) = f[Len(ss)]
  BY DEF FlattenSeq, Joins
<1> QED
  BY <1>1, <1>2

\* One sequence more is joined at the end.
LEMMA FlattenAppend ==
  ASSUME NEW S, NEW ss \in Seq(Seq(S)), NEW s \in Seq(S)
  PROVE  FlattenSeq(Append(ss, s)) = IF ss = <<>> THEN s ELSE FlattenSeq(ss) \o s
<1> DEFINE tt == Append(ss, s)
           n  == Len(ss)
           k  == Len(tt)
<1>1. /\ n \in Nat /\ k = n + 1 /\ tt[k] = s
      /\ \A i \in 1 .. n : tt[i] = ss[i]
  BY AppendProperties, LenProperties
<1> HIDE DEF tt
<1>2. k \in Nat /\ k > 0 /\ k \in 1 .. k
  BY <1>1
<1>3. PICK g : Joins(g, tt, k) /\ FlattenSeq(tt) = g[k]
  BY <1>2, FlattenIsJoin
<1> HIDE DEF n, k
<1>4. g[k] = IF k = 1 THEN tt[k] ELSE g[k - 1] \o tt[k]
  BY <1>2, <1>3, JoinAt
<1>5. CASE ss = <<>>
  <2>1. k = 1
    BY <1>1, <1>5 DEF n
  <2> QED
    BY <1>1, <1>3, <1>4, <1>5, <2>1 DEF tt
<1>6. CASE ss # <<>>
  <2>1. n > 0
    BY <1>1, <1>6, EmptySeq DEF n
  <2>2. PICK f : Joins(f, ss, n) /\ FlattenSeq(ss) = f[n]
    BY <1>1, <2>1, FlattenIsJoin DEF n
  <2>3. k - 1 = n /\ k # 1
    <3>1. n \in Nat /\ k = n + 1
      BY <1>1
    <3> QED
      BY <2>1, <3>1
  <2>4. g[n] = f[n]
    <3>1. n \in Nat /\ k \in Nat /\ n <= k /\ n > 0
      BY <1>1, <1>2, <2>1
    <3>2. Joins(g, tt, k) /\ Joins(f, ss, n)
      BY <1>3, <2>2
    <3>3. \A i \in 1 .. n : tt[i] = ss[i]
      BY <1>1
    <3> QED
      BY <3>1, <3>2, <3>3, JoinIsUnique
  <2> QED
    BY <1>1, <1>3, <1>4, <1>6, <2>2, <2>3, <2>4 DEF tt
<1> QED
  BY <1>5, <1>6

\* What a sequence holds is finite.
LEMMA ToSetIsFinite ==
  ASSUME NEW S, NEW s \in Seq(S)
  PROVE  IsFiniteSet(ToSet(s))
<1>1. Len(s) \in Nat /\ DOMAIN s = 1 .. Len(s)
  BY LenProperties
<1>2. IsFiniteSet(1 .. Len(s))
  BY <1>1, FS_Interval
<1>3. [i \in 1 .. Len(s) |-> s[i]] \in Surjection(1 .. Len(s), ToSet(s))
  BY <1>1 DEF Surjection, ToSet
<1> QED
  BY <1>2, <1>3, FS_Surjection
=============================================================================
