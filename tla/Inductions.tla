----------------------------- MODULE Inductions -----------------------------
(***************************************************************************)
(* Induction over data, with a set where the library's theorems take a     *)
(* predicate: a set of natural numbers with no least element is empty,     *)
(* which the library proves as a fact about relations                      *)
(* (WellFoundedInduction).  From it: what the recursive functions of the   *)
(* modules compute, Kept over the elements of a sequence and               *)
(* SumFunctionOnSet over those of a finite set.                            *)
(***************************************************************************)
EXTENDS Integers, Kept, Functions, FiniteSetTheorems, WellFoundedInduction, TLAPS

(* A set of natural numbers has a least one. *)
LEMMA LeastNatural ==
  ASSUME NEW S \in SUBSET Nat, S # {}
  PROVE  \E n \in S : \A m \in S : n <= m
<1>1. PICK n \in S : \A m \in S : ~(<<m, n>> \in OpToRel(<, Nat))
  BY NatLessThanWellFounded, WFMin
<1>2. \A m \in S : ~(m < n)
  BY <1>1 DEF OpToRel
<1> QED
  BY <1>2

(* A set with 0 and every successor has every natural number. *)
LEMMA NaturalsAreInductive ==
  ASSUME NEW S, 0 \in S, \A n \in Nat : n \in S => n + 1 \in S
  PROVE  Nat \subseteq S
<1> SUFFICES ASSUME Nat \ S # {} PROVE FALSE
  OBVIOUS
<1>1. PICK n \in Nat \ S : \A m \in Nat \ S : n <= m
  BY LeastNatural
<1>2. n # 0 /\ n - 1 \in Nat /\ n - 1 \notin Nat \ S
  BY <1>1
<1> QED
  BY <1>2

-----------------------------------------------------------------------------
(* Steps that take values of T to values of T can be repeated from any c.  *)
Steps(N, T) == [1..N -> [T -> T]]

Repeats(k, step, c, N, T) ==
  /\ k \in [0..N -> T]
  /\ k[0] = c
  /\ \A n \in 1..N : k[n] = step[n][k[n - 1]]

LEMMA Iterated ==
  ASSUME NEW T, NEW c \in T, NEW N \in Nat, NEW step \in Steps(N, T)
  PROVE  \E k : Repeats(k, step, c, N, T)
<1> DEFINE Is(k, m) == k[0] = c /\ \A n \in 1..m : k[n] = step[n][k[n - 1]]
           S == {m \in Nat : m <= N => \E k \in [0..m -> T] : Is(k, m)}
<1>1. 0 \in S
  <2>1. [n \in 0..0 |-> c] \in [0..0 -> T] /\ Is([n \in 0..0 |-> c], 0)
    OBVIOUS
  <2> QED
    BY <2>1
<1>2. ASSUME NEW m \in Nat, m \in S
      PROVE  m + 1 \in S
  <2> SUFFICES ASSUME m + 1 <= N
               PROVE  \E k \in [0..m + 1 -> T] : Is(k, m + 1)
    OBVIOUS
  <2>1. PICK k \in [0..m -> T] : Is(k, m)
    BY <1>2
  <2> DEFINE h == [n \in 0..m + 1 |-> IF n <= m THEN k[n] ELSE step[m + 1][k[m]]]
  <2>2. m + 1 \in 1..N /\ k[m] \in T
    OBVIOUS
  <2>3. step[m + 1][k[m]] \in T
    BY <2>2 DEF Steps
  <2>4. h \in [0..m + 1 -> T]
    BY <2>3
  <2>5. \A n \in 1..m : h[n] = k[n] /\ h[n - 1] = k[n - 1]
    OBVIOUS
  <2>6. h[0] = k[0] /\ h[m + 1] = step[m + 1][k[m]] /\ h[m] = k[m]
    OBVIOUS
  <2>7. Is(h, m + 1)
    BY <2>1, <2>5, <2>6
  <2> QED
    BY <2>4, <2>7
<1> HIDE DEF S
<1>3. N \in S
  BY <1>1, <1>2, NaturalsAreInductive
<1> QED
  BY <1>3 DEF S, Repeats

-----------------------------------------------------------------------------
(* Kept, by its recursion. *)
IsKept(k, s, S) ==
  /\ k[0] = <<>>
  /\ \A n \in 1..Len(s) :
       k[n] = IF s[n] \in S THEN Append(k[n - 1], s[n]) ELSE k[n - 1]

(* The recursion of Kept has a solution, and Kept is its last value. *)
LEMMA KeptUnfolds ==
  ASSUME NEW T, NEW s \in Seq(T), NEW S
  PROVE  \E k \in [0..Len(s) -> Seq(T)] : IsKept(k, s, S) /\ Kept(s, S) = k[Len(s)]
<1> DEFINE Eq(k) == k = [n \in 0..Len(s) |->
                           IF n = 0 THEN <<>>
                           ELSE IF s[n] \in S THEN Append(k[n - 1], s[n]) ELSE k[n - 1]]
           step == [n \in 1..Len(s) |->
                      [v \in Seq(T) |-> IF s[n] \in S THEN Append(v, s[n]) ELSE v]]
<1>1. Kept(s, S) = (CHOOSE k : Eq(k))[Len(s)]
  BY DEF Kept
<1>0. /\ Len(s) \in Nat /\ <<>> \in Seq(T)
      /\ \A n \in 1..Len(s) : s[n] \in T
      /\ \A n \in 1..Len(s) : \A v \in Seq(T) : Append(v, s[n]) \in Seq(T)
  OBVIOUS
<1>2. step \in [1..Len(s) -> [Seq(T) -> Seq(T)]]
  BY <1>0
<1>3. PICK k \in [0..Len(s) -> Seq(T)] :
        k[0] = <<>> /\ \A n \in 1..Len(s) : k[n] = step[n][k[n - 1]]
  <2>1. step \in Steps(Len(s), Seq(T))
    BY <1>2 DEF Steps
  <2> HIDE DEF step
  <2>2. \E k : Repeats(k, step, <<>>, Len(s), Seq(T))
    BY <1>0, <2>1, Iterated
  <2> QED
    BY <2>2 DEF Repeats
<1>4. Eq(k)
  <2>1. ASSUME NEW n \in 1..Len(s)
        PROVE  k[n] = IF s[n] \in S THEN Append(k[n - 1], s[n]) ELSE k[n - 1]
    <3>1. n - 1 \in 0..Len(s) /\ k[n - 1] \in Seq(T)
      BY <1>0
    <3>2. step[n][k[n - 1]] = IF s[n] \in S THEN Append(k[n - 1], s[n]) ELSE k[n - 1]
      BY <3>1
    <3> QED
      BY <1>3, <3>2
  <2> DEFINE r == [n \in 0..Len(s) |->
                     IF n = 0 THEN <<>>
                     ELSE IF s[n] \in S THEN Append(k[n - 1], s[n]) ELSE k[n - 1]]
  <2>2. ASSUME NEW n \in 0..Len(s)
        PROVE  k[n] = r[n]
    <3>1. CASE n = 0
      BY <1>3, <3>1
    <3>2. CASE n # 0
      <4>1. n \in 1..Len(s)
        BY <1>0, <3>2
      <4> QED
        BY <2>1, <3>2, <4>1
    <3> QED
      BY <3>1, <3>2
  <2>3. DOMAIN k = 0..Len(s)
    BY <1>3
  <2> QED
    BY <2>2, <2>3
<1>5. PICK h : h = CHOOSE g : Eq(g)
  OBVIOUS
<1>6. Eq(h)
  <2> HIDE DEF Eq
  <2> QED
    BY <1>4, <1>5
<1>7. h \in [0..Len(s) -> Seq(T)] /\ IsKept(h, s, S)
  <2>1. IsKept(h, s, S)
    <3>1. 0 \in 0..Len(s) /\ 1..Len(s) \subseteq 0..Len(s) \ {0}
      BY <1>0
    <3> QED
      BY <1>6, <3>1 DEF IsKept
  <2>2. \A n \in 0..Len(s) : h[n] \in Seq(T)
    <3> DEFINE P == {n \in Nat : n <= Len(s) => h[n] \in Seq(T)}
    <3>1. 0 \in P
      BY <1>0, <2>1 DEF IsKept
    <3>2. ASSUME NEW n \in Nat, n \in P PROVE n + 1 \in P
      <4> SUFFICES ASSUME n + 1 <= Len(s)
                   PROVE  h[n + 1] \in Seq(T)
        OBVIOUS
      <4>1. /\ n + 1 \in 1..Len(s) /\ h[n] \in Seq(T)
            /\ h[n + 1] = IF s[n + 1] \in S THEN Append(h[n], s[n + 1]) ELSE h[n]
        BY <1>0, <2>1, <3>2 DEF IsKept
      <4> QED
        BY <1>0, <4>1
    <3> HIDE DEF P
    <3>3. Nat \subseteq P
      BY <3>1, <3>2, NaturalsAreInductive
    <3> QED
      BY <3>3 DEF P
  <2> QED
    BY <1>6, <2>1, <2>2
<1> QED
  BY <1>1, <1>5, <1>7

(* r is what e picks from the first m elements of s: those in S, in order. *)
Picks(e, r, s, S, m) ==
  /\ e \in [1..Len(r) -> 1..m]
  /\ \A i \in 1..Len(r) : r[i] = s[e[i]] /\ s[e[i]] \in S
  /\ \A i, j \in 1..Len(r) : i < j => e[i] < e[j]
  /\ \A n \in 1..m : s[n] \in S => \E i \in 1..Len(r) : e[i] = n

(* One more element, not of S and of S. *)
LEMMA PicksNoMore ==
  ASSUME NEW e, NEW r, NEW s, NEW S, NEW m \in Nat, Picks(e, r, s, S, m), s[m + 1] \notin S
  PROVE  Picks(e, r, s, S, m + 1)
<1>1. e \in [1..Len(r) -> 1..m + 1]
  <2>1. 1..m \subseteq 1..m + 1
    OBVIOUS
  <2> QED
    BY <2>1 DEF Picks
<1>2. \A n \in 1..m + 1 : s[n] \in S => n \in 1..m
  OBVIOUS
<1> QED
  BY <1>1, <1>2 DEF Picks

LEMMA PicksOneMore ==
  ASSUME NEW T, NEW e, NEW r \in Seq(T), NEW s, NEW S, NEW m \in Nat,
         Picks(e, r, s, S, m), s[m + 1] \in S, s[m + 1] \in T
  PROVE  \E h : Picks(h, Append(r, s[m + 1]), s, S, m + 1)
<1> DEFINE a == Append(r, s[m + 1])
           h == [i \in 1..Len(r) + 1 |-> IF i <= Len(r) THEN e[i] ELSE m + 1]
<1>1. /\ Len(a) = Len(r) + 1 /\ Len(r) \in Nat
      /\ \A i \in 1..Len(r) : a[i] = r[i]
      /\ a[Len(r) + 1] = s[m + 1]
  OBVIOUS
<1> HIDE DEF a
<1>2. \A i \in 1..Len(r) : h[i] = e[i] /\ e[i] \in 1..m
  BY <1>1 DEF Picks
<1>3. h[Len(r) + 1] = m + 1
  BY <1>1
<1>5. \A i \in 1..Len(r) + 1 : i \in 1..Len(r) \/ i = Len(r) + 1
  BY <1>1
<1>4. h \in [1..Len(r) + 1 -> 1..m + 1]
  <2>1. \A i \in 1..Len(r) + 1 : h[i] \in 1..m + 1
    <3> HIDE DEF h
    <3> QED
      BY <1>2, <1>3, <1>5
  <2> QED
    BY <2>1
<1> HIDE DEF h
<1>6. \A i \in 1..Len(r) + 1 : a[i] = s[h[i]] /\ s[h[i]] \in S
  BY <1>1, <1>2, <1>3, <1>5 DEF Picks
<1>7. ASSUME NEW i \in 1..Len(r) + 1, NEW j \in 1..Len(r) + 1, i < j
      PROVE  h[i] < h[j]
  <2>1. i \in 1..Len(r)
    BY <1>1, <1>7
  <2>2. CASE j \in 1..Len(r)
    BY <1>2, <1>7, <2>1, <2>2 DEF Picks
  <2>3. CASE j = Len(r) + 1
    BY <1>2, <1>3, <2>1, <2>3
  <2> QED
    BY <1>5, <2>2, <2>3
<1>8. ASSUME NEW n \in 1..m + 1, s[n] \in S
      PROVE  \E i \in 1..Len(r) + 1 : h[i] = n
  <2>1. CASE n = m + 1
    BY <1>1, <1>3, <2>1
  <2>2. CASE n \in 1..m
    <3>1. PICK i \in 1..Len(r) : e[i] = n
      BY <1>8, <2>2 DEF Picks
    <3>2. i \in 1..Len(r) + 1 /\ h[i] = n
      BY <1>1, <1>2, <3>1
    <3> QED
      BY <3>2
  <2> QED
    BY <2>1, <2>2
<1>9. Picks(h, a, s, S, m + 1)
  BY <1>1, <1>4, <1>6, <1>7, <1>8 DEF Picks
<1> QED
  BY <1>9 DEF a

(* What Kept keeps: every element of S, in order, and nothing else. *)
LEMMA KeptIs ==
  ASSUME NEW T, NEW s \in Seq(T), NEW S
  PROVE  /\ Kept(s, S) \in Seq(T)
         /\ \E e : Picks(e, Kept(s, S), s, S, Len(s))
<1>0. /\ Len(s) \in Nat
      /\ \A n \in 1..Len(s) : s[n] \in T
  OBVIOUS
<1>1. PICK k \in [0..Len(s) -> Seq(T)] : IsKept(k, s, S) /\ Kept(s, S) = k[Len(s)]
  BY KeptUnfolds
<1> DEFINE P == {m \in Nat : m <= Len(s) => \E e : Picks(e, k[m], s, S, m)}
<1>2. 0 \in P
  <2>1. k[0] = <<>>
    BY <1>1 DEF IsKept
  <2>2. Picks(<<>>, <<>>, s, S, 0)
    BY DEF Picks
  <2> QED
    BY <2>1, <2>2
<1>3. ASSUME NEW m \in Nat, m \in P
      PROVE  m + 1 \in P
  <2> SUFFICES ASSUME m + 1 <= Len(s)
               PROVE  \E e : Picks(e, k[m + 1], s, S, m + 1)
    OBVIOUS
  <2>1. PICK e : Picks(e, k[m], s, S, m)
    BY <1>0, <1>3
  <2>2. /\ k[m] \in Seq(T) /\ s[m + 1] \in T
        /\ k[m + 1] = IF s[m + 1] \in S THEN Append(k[m], s[m + 1]) ELSE k[m]
    BY <1>0, <1>1 DEF IsKept
  <2> QED
    BY <2>1, <2>2, PicksNoMore, PicksOneMore
<1> HIDE DEF P
<1>4. Len(s) \in P
  BY <1>0, <1>2, <1>3, NaturalsAreInductive
<1>5. \E e : Picks(e, k[Len(s)], s, S, Len(s))
  BY <1>0, <1>4 DEF P
<1>6. k[Len(s)] \in Seq(T)
  BY <1>0
<1> QED
  BY <1>1, <1>5, <1>6
-----------------------------------------------------------------------------
(* What holds of a set once it holds of it without any of its elements.    *)
LEMMA SubsetsAreInductive ==
  ASSUME NEW S, IsFiniteSet(S), NEW P,
         \A s \in SUBSET S : (\A x \in s : s \ {x} \in P) => s \in P
  PROVE  SUBSET S \subseteq P
<1> DEFINE N == {n \in Nat : \A s \in SUBSET S : Cardinality(s) = n => s \in P}
<1>1. ASSUME NEW s \in SUBSET S
      PROVE  /\ Cardinality(s) \in Nat /\ (Cardinality(s) = 0 <=> s = {})
             /\ \A x \in s : Cardinality(s \ {x}) = Cardinality(s) - 1
  BY FS_Subset, FS_CardinalityType, FS_EmptySet, FS_RemoveElement
<1>2. 0 \in N
  BY <1>1
<1>3. ASSUME NEW n \in Nat, n \in N
      PROVE  n + 1 \in N
  <2> SUFFICES ASSUME NEW s \in SUBSET S, Cardinality(s) = n + 1
               PROVE  s \in P
    OBVIOUS
  <2>1. \A x \in s : s \ {x} \in SUBSET S /\ Cardinality(s \ {x}) = n
    BY <1>1
  <2> QED
    BY <1>3, <2>1
<1> HIDE DEF N
<1>4. Nat \subseteq N
  BY <1>2, <1>3, NaturalsAreInductive
<1> QED
  BY <1>1, <1>4 DEF N

(* Sums, by their recursion. *)
Some(s) == CHOOSE x \in s : TRUE

Sums(g, f, S) ==
  /\ g \in [SUBSET S -> Nat]
  /\ \A s \in SUBSET S : g[s] = IF s = {} THEN 0 ELSE f[Some(s)] + g[s \ {Some(s)}]

(* The recursion of sums has a solution, *)
LEMMA SumsExist ==
  ASSUME NEW S, IsFiniteSet(S), NEW f, \A x \in S : f[x] \in Nat
  PROVE  \E g : Sums(g, f, S)
<1> DEFINE Rec(g, s) == IF s = {} THEN 0 ELSE f[Some(s)] + g[s \ {Some(s)}]
           N == {n \in Nat : \E g \in [SUBSET S -> Nat] :
                   \A s \in SUBSET S : Cardinality(s) <= n => g[s] = Rec(g, s)}
<1>1. ASSUME NEW s \in SUBSET S
      PROVE  /\ Cardinality(s) \in Nat /\ (Cardinality(s) = 0 <=> s = {})
             /\ Cardinality(s) <= Cardinality(S)
             /\ s # {} => /\ Some(s) \in s /\ f[Some(s)] \in Nat
                          /\ s \ {Some(s)} \in SUBSET S
                          /\ Cardinality(s \ {Some(s)}) = Cardinality(s) - 1
  BY FS_Subset, FS_CardinalityType, FS_EmptySet, FS_RemoveElement DEF Some
<1>2. 0 \in N
  <2>1. [s \in SUBSET S |-> 0] \in [SUBSET S -> Nat]
    OBVIOUS
  <2>2. ASSUME NEW s \in SUBSET S, Cardinality(s) <= 0
        PROVE  s = {}
    <3>1. Cardinality(s) \in Nat /\ (Cardinality(s) = 0 <=> s = {})
      BY <1>1
    <3> QED
      BY <2>2, <3>1
  <2> QED
    BY <2>1, <2>2
<1>3. ASSUME NEW n \in Nat, n \in N
      PROVE  n + 1 \in N
  <2>1. PICK g \in [SUBSET S -> Nat] :
          \A s \in SUBSET S : Cardinality(s) <= n => g[s] = Rec(g, s)
    BY <1>3
  <2> DEFINE h == [s \in SUBSET S |-> IF Cardinality(s) <= n THEN g[s] ELSE Rec(g, s)]
  <2>2. ASSUME NEW s \in SUBSET S
        PROVE  Rec(g, s) \in Nat
    <3>1. CASE s = {}
      BY <3>1
    <3>2. CASE s # {}
      <4>1. f[Some(s)] \in Nat /\ g[s \ {Some(s)}] \in Nat
        BY <1>1, <3>2
      <4> QED
        BY <3>2, <4>1
    <3> QED
      BY <3>1, <3>2
  <2>3. h \in [SUBSET S -> Nat]
    BY <2>2
  <2>4. ASSUME NEW s \in SUBSET S, Cardinality(s) <= n + 1
        PROVE  h[s] = Rec(h, s)
    <3>1. h[s] = Rec(g, s)
      BY <2>1
    <3>2. CASE s = {}
      BY <3>1, <3>2
    <3>3. CASE s # {}
      <4>1. h[s \ {Some(s)}] = g[s \ {Some(s)}]
        BY <1>1, <2>4, <3>3
      <4> QED
        BY <3>1, <3>3, <4>1
    <3> QED
      BY <3>2, <3>3
  <2> HIDE DEF h
  <2> QED
    BY <2>3, <2>4
<1> HIDE DEF N
<1>4. Cardinality(S) \in N
  BY <1>1, <1>2, <1>3, NaturalsAreInductive
<1>5. PICK g \in [SUBSET S -> Nat] :
        \A s \in SUBSET S : Cardinality(s) <= Cardinality(S) => g[s] = Rec(g, s)
  BY <1>4 DEF N
<1>6. \A s \in SUBSET S : g[s] = Rec(g, s)
  BY <1>1, <1>5
<1> QED
  BY <1>6 DEF Sums

(* of which SumFunctionOnSet is the value, *)
LEMMA SumUnfolds ==
  ASSUME NEW S, IsFiniteSet(S), NEW f, \A x \in S : f[x] \in Nat
  PROVE  \E g : Sums(g, f, S) /\ SumFunctionOnSet(f, S) = g[S]
<1> DEFINE Eq(g) == g = [s \in SUBSET S |->
              IF s = {} THEN 0
              ELSE f[CHOOSE x \in s : TRUE] + g[s \ {CHOOSE x \in s : TRUE}]]
<1>1. PICK g : Sums(g, f, S)
  BY SumsExist
<1>2. Eq(g)
  BY <1>1 DEF Sums, Some
<1>3. PICK h : h = CHOOSE k : Eq(k)
  OBVIOUS
<1>4. Eq(h)
  <2> HIDE DEF Eq
  <2> QED
    BY <1>2, <1>3
<1>5. \A s \in SUBSET S : h[s] = IF s = {} THEN 0 ELSE f[Some(s)] + h[s \ {Some(s)}]
  BY <1>4 DEF Some
<1>6. \A s \in SUBSET S : h[s] \in Nat
  <2> DEFINE P == {s \in SUBSET S : h[s] \in Nat}
  <2>1. ASSUME NEW s \in SUBSET S, \A x \in s : s \ {x} \in P
        PROVE  s \in P
    <3>1. CASE s = {}
      <4>1. h[s] = 0
        BY <1>5, <3>1
      <4> QED
        BY <4>1
    <3>2. CASE s # {}
      <4>1. Some(s) \in s
        BY <3>2 DEF Some
      <4>2. h[s \ {Some(s)}] \in Nat /\ f[Some(s)] \in Nat
        BY <2>1, <4>1
      <4>3. h[s] = f[Some(s)] + h[s \ {Some(s)}]
        BY <1>5, <3>2
      <4>4. h[s] \in Nat
        BY <4>2, <4>3
      <4> QED
        BY <4>4
    <3> QED
      BY <3>1, <3>2
  <2> HIDE DEF P
  <2>2. SUBSET S \subseteq P
    BY <2>1, SubsetsAreInductive
  <2> QED
    BY <2>2 DEF P
<1>7. Sums(h, f, S)
  BY <1>4, <1>5, <1>6 DEF Sums
<1>8. SumFunctionOnSet(f, S) = (CHOOSE k : Eq(k))[S]
  BY DEF SumFunctionOnSet, FoldFunctionOnSet, MapThenFoldSet
<1> QED
  BY <1>3, <1>7, <1>8

(* and which depends on nothing but the elements' values. *)
LEMMA SumsAreUnique ==
  ASSUME NEW S, IsFiniteSet(S), NEW f, NEW e, \A x \in S : f[x] = e[x],
         NEW g, Sums(g, f, S), NEW T \in SUBSET S, NEW h, Sums(h, e, T)
  PROVE  \A s \in SUBSET T : g[s] = h[s]
<1> DEFINE P == {s \in SUBSET T : g[s] = h[s]}
<1>1. ASSUME NEW s \in SUBSET T, \A x \in s : s \ {x} \in P
      PROVE  s \in P
  <2>1. CASE s = {}
    BY <2>1 DEF Sums
  <2>2. CASE s # {}
    <3>1. Some(s) \in s
      BY <2>2 DEF Some
    <3>2. g[s \ {Some(s)}] = h[s \ {Some(s)}] /\ f[Some(s)] = e[Some(s)]
      BY <1>1, <3>1
    <3> QED
      BY <2>2, <3>2 DEF Sums
  <2> QED
    BY <2>1, <2>2
<1>2. IsFiniteSet(T)
  BY FS_Subset
<1> HIDE DEF P
<1>3. SUBSET T \subseteq P
  BY <1>1, <1>2, SubsetsAreInductive
<1> QED
  BY <1>3 DEF P

(* It does not matter which element a sum begins with. *)
LEMMA SumsBeginAnywhere ==
  ASSUME NEW S, IsFiniteSet(S), NEW f, \A x \in S : f[x] \in Nat, NEW g, Sums(g, f, S)
  PROVE  \A s \in SUBSET S : \A c \in s : g[s] = f[c] + g[s \ {c}]
<1> DEFINE P == {s \in SUBSET S : \A c \in s : g[s] = f[c] + g[s \ {c}]}
<1>1. ASSUME NEW s \in SUBSET S, \A x \in s : s \ {x} \in P
      PROVE  s \in P
  <2> SUFFICES ASSUME NEW c \in s
               PROVE  g[s] = f[c] + g[s \ {c}]
    OBVIOUS
  <2>1. PICK x \in s : x = Some(s)
    BY DEF Some
  <2>2. g[s] = f[x] + g[s \ {x}]
    BY <2>1 DEF Sums
  <2>3. CASE c = x
    BY <2>2, <2>3
  <2>4. CASE c # x
    <3>1. g[s \ {x}] = f[c] + g[(s \ {x}) \ {c}]
      BY <1>1, <2>4
    <3>2. g[s \ {c}] = f[x] + g[(s \ {c}) \ {x}]
      BY <1>1, <2>4
    <3>3. (s \ {x}) \ {c} = (s \ {c}) \ {x}
      OBVIOUS
    <3>4. PICK r \in Nat : r = g[(s \ {c}) \ {x}]
      BY DEF Sums
    <3>5. g[s] = f[x] + (f[c] + r) /\ g[s \ {c}] = f[x] + r
      BY <2>2, <3>1, <3>2, <3>3, <3>4
    <3>6. f[x] \in Nat /\ f[c] \in Nat
      OBVIOUS
    <3> QED
      BY <3>4, <3>5, <3>6
  <2> QED
    BY <2>3, <2>4
<1> HIDE DEF P
<1>2. SUBSET S \subseteq P
  BY <1>1, SubsetsAreInductive
<1> QED
  BY <1>2 DEF P

(* The sum of a function over a set, by any of its elements. *)
LEMMA SumIs ==
  ASSUME NEW S, IsFiniteSet(S), NEW f, \A x \in S : f[x] \in Nat
  PROVE  /\ SumFunctionOnSet(f, S) \in Nat
         /\ S = {} => SumFunctionOnSet(f, S) = 0
         /\ \A c \in S : SumFunctionOnSet(f, S) = f[c] + SumFunctionOnSet(f, S \ {c})
<1>1. PICK g : Sums(g, f, S) /\ SumFunctionOnSet(f, S) = g[S]
  BY SumUnfolds
<1>2. ASSUME NEW c \in S
      PROVE  SumFunctionOnSet(f, S \ {c}) = g[S \ {c}]
  <2>1. S \ {c} \in SUBSET S /\ IsFiniteSet(S \ {c})
    BY FS_Subset
  <2>2. PICK h : Sums(h, f, S \ {c}) /\ SumFunctionOnSet(f, S \ {c}) = h[S \ {c}]
    BY <2>1, SumUnfolds
  <2> QED
    BY <1>1, <2>1, <2>2, SumsAreUnique
<1>3. S \in SUBSET S
  OBVIOUS
<1>4. g[S] \in Nat /\ (S = {} => g[S] = 0)
  BY <1>1, <1>3 DEF Sums
<1>5. \A c \in S : g[S] = f[c] + g[S \ {c}]
  BY <1>1, <1>3, SumsBeginAnywhere
<1> QED
  BY <1>1, <1>2, <1>4, <1>5

(* Functions that agree on a set have the same sum over it. *)
LEMMA SumOfEqual ==
  ASSUME NEW S, IsFiniteSet(S), NEW f, NEW e, \A x \in S : f[x] \in Nat /\ f[x] = e[x]
  PROVE  SumFunctionOnSet(f, S) = SumFunctionOnSet(e, S)
<1>1. PICK g : Sums(g, f, S) /\ SumFunctionOnSet(f, S) = g[S]
  BY SumUnfolds
<1>2. PICK h : Sums(h, e, S) /\ SumFunctionOnSet(e, S) = h[S]
  BY SumUnfolds
<1>3. S \in SUBSET S
  OBVIOUS
<1> QED
  BY <1>1, <1>2, <1>3, SumsAreUnique

(* The sum of a sum. *)
LEMMA SumOfSum ==
  ASSUME NEW S, IsFiniteSet(S), NEW f, NEW a, NEW b,
         \A x \in S : f[x] \in Nat /\ a[x] \in Nat /\ b[x] \in Nat /\ f[x] = a[x] + b[x]
  PROVE  SumFunctionOnSet(f, S) = SumFunctionOnSet(a, S) + SumFunctionOnSet(b, S)
<1> DEFINE Sum(g, s) == SumFunctionOnSet(g, s)
           P == {s \in SUBSET S : Sum(f, s) = Sum(a, s) + Sum(b, s)}
<1>1. ASSUME NEW s \in SUBSET S, \A x \in s : s \ {x} \in P
      PROVE  s \in P
  <2>1. IsFiniteSet(s)
    BY FS_Subset
  <2>2. CASE s = {}
    BY <2>1, <2>2, SumIs
  <2>3. CASE s # {}
    <3>1. PICK x \in s : TRUE
      BY <2>3
    <3>2. /\ Sum(f, s) = f[x] + Sum(f, s \ {x})
          /\ Sum(a, s) = a[x] + Sum(a, s \ {x})
          /\ Sum(b, s) = b[x] + Sum(b, s \ {x})
      BY <2>1, SumIs
    <3>3. IsFiniteSet(s \ {x})
      BY <2>1, FS_Subset
    <3>4. Sum(a, s \ {x}) \in Nat /\ Sum(b, s \ {x}) \in Nat
      BY <3>3, SumIs
    <3>5. Sum(f, s \ {x}) = Sum(a, s \ {x}) + Sum(b, s \ {x})
      BY <1>1
    <3>6. f[x] = a[x] + b[x] /\ a[x] \in Nat /\ b[x] \in Nat
      OBVIOUS
    <3> HIDE DEF Sum
    <3> QED
      BY <3>2, <3>4, <3>5, <3>6
  <2> QED
    BY <2>2, <2>3
<1> HIDE DEF P
<1>2. SUBSET S \subseteq P
  BY <1>1, SubsetsAreInductive
<1> QED
  BY <1>2 DEF P
=============================================================================
