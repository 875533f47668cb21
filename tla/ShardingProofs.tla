--------------------------- MODULE ShardingProofs ---------------------------
(***************************************************************************)
(* The shards of a run tile its load, for any number of workers, any       *)
(* capacities and any width of the numbers, and no number of theirs leaves *)
(* that width; and the shares of the rates and stages of a profile add up  *)
(* to what is shared.                                                      *)
(***************************************************************************)
EXTENDS Sharding, TLAPS, FiniteSetTheorems

----------------------------------------------------------------------------
(***************************************************************************)
(* Sums.  SumFunctionOnSet folds a function over a set; the induction is   *)
(* over the size of the set.                                               *)
(***************************************************************************)
\* Natural numbers are well-ordered.
LEMMA Least ==
    ASSUME NEW T \in SUBSET Nat, T # {}
    PROVE  \E n \in T : \A m \in T : n <= m
<1>1. \E n \in T : \A m \in T : ~(<<m, n>> \in OpToRel(<, Nat))
  BY NatLessThanWellFounded, WFMin
<1>2. PICK n \in T : \A m \in T : ~(<<m, n>> \in OpToRel(<, Nat))
  BY <1>1
<1>3. \A m \in T : ~(m < n)
  BY <1>2 DEF OpToRel
<1> QED BY <1>3

\* Induction, in terms of a set.
LEMMA Inductive ==
    ASSUME NEW T \in SUBSET Nat, 0 \in T, \A n \in Nat : n \in T => n + 1 \in T
    PROVE  T = Nat
<1> SUFFICES ASSUME Nat \ T # {} PROVE FALSE
  OBVIOUS
<1>1. PICK n \in Nat \ T : \A m \in Nat \ T : n <= m
  BY Least
<1>2. n # 0 /\ n - 1 \in Nat /\ n - 1 \in T
  BY <1>1
<1>3. (n - 1) + 1 \in T
  BY <1>2
<1> QED BY <1>1, <1>3

Chosen(s) == CHOOSE x \in s : TRUE
Sums(f, g, s) == g[s] = IF s = {} THEN 0 ELSE f[Chosen(s)] + g[s \ {Chosen(s)}]

IsSum(g, f, S) ==
    g = [s \in SUBSET S |-> IF s = {} THEN 0 ELSE f[Chosen(s)] + g[s \ {Chosen(s)}]]

LEMMA Smaller ==
    ASSUME NEW S, IsFiniteSet(S), NEW s \in SUBSET S, s # {}
    PROVE  /\ Chosen(s) \in s /\ s \ {Chosen(s)} \in SUBSET S
           /\ IsFiniteSet(s) /\ Cardinality(s) \in Nat
           /\ Cardinality(s \ {Chosen(s)}) = Cardinality(s) - 1
           /\ Cardinality(s) # 0 /\ IsFiniteSet(s \ {Chosen(s)})
<1>1. Chosen(s) \in s /\ s \ {Chosen(s)} \in SUBSET S
  BY DEF Chosen
<1>2. IsFiniteSet(s)
  BY FS_Subset
<1>3. /\ Cardinality(s \ {Chosen(s)}) = Cardinality(s) - 1
      /\ IsFiniteSet(s \ {Chosen(s)})
  BY <1>1, <1>2, FS_RemoveElement
<1>4. Cardinality(s) \in Nat /\ Cardinality(s) # 0
  BY <1>2, FS_CardinalityType, FS_EmptySet
<1> QED BY <1>1, <1>2, <1>3, <1>4

LEMMA SumsExist ==
    ASSUME NEW f, NEW S, IsFiniteSet(S)
    PROVE  \E g : IsSum(g, f, S)
<1> DEFINE T == {n \in Nat : \E g : \A s \in SUBSET S : Cardinality(s) <= n => Sums(f, g, s)}
<1>1. 0 \in T
  <2>1. \A s \in SUBSET S : Cardinality(s) <= 0 => s = {}
    <3> SUFFICES ASSUME NEW s \in SUBSET S, Cardinality(s) <= 0, s # {} PROVE FALSE
      OBVIOUS
    <3>1. Cardinality(s) \in Nat /\ Cardinality(s) # 0
      BY Smaller, Zenon
    <3> QED BY <3>1
  <2>2. \A s \in SUBSET S : Cardinality(s) <= 0 => Sums(f, [s1 \in SUBSET S |-> 0], s)
    BY <2>1 DEF Sums
  <2> QED BY <2>2
<1>2. ASSUME NEW n \in Nat, n \in T PROVE n + 1 \in T
  <2>1. PICK g : \A s \in SUBSET S : Cardinality(s) <= n => Sums(f, g, s)
    BY <1>2
  <2> DEFINE h == [s \in SUBSET S |-> IF s = {} THEN 0 ELSE f[Chosen(s)] + g[s \ {Chosen(s)}]]
  <2>2. ASSUME NEW s \in SUBSET S, Cardinality(s) <= n PROVE h[s] = g[s]
    BY <2>1, <2>2 DEF Sums
  <2>3. ASSUME NEW s \in SUBSET S, Cardinality(s) <= n + 1 PROVE Sums(f, h, s)
    <3>1. CASE s = {}
      BY <3>1 DEF Sums
    <3>2. CASE s # {}
      <4>1. s \ {Chosen(s)} \in SUBSET S /\ Cardinality(s \ {Chosen(s)}) <= n
        <5>1. /\ s \ {Chosen(s)} \in SUBSET S
              /\ Cardinality(s \ {Chosen(s)}) = Cardinality(s) - 1
              /\ Cardinality(s) \in Nat
          BY <3>2, Smaller, Zenon
        <5> QED BY <2>3, <5>1
      <4>2. h[s \ {Chosen(s)}] = g[s \ {Chosen(s)}]
        BY <4>1, <2>2
      <4>3. h[s] = f[Chosen(s)] + g[s \ {Chosen(s)}]
        BY <3>2
      <4> HIDE DEF h
      <4> QED BY <3>2, <4>2, <4>3 DEF Sums
    <3> QED BY <3>1, <3>2
  <2> HIDE DEF h
  <2> QED BY <2>3
<1>3. T = Nat
  <2> HIDE DEF T
  <2>1. T \in SUBSET Nat
    BY DEF T
  <2> QED BY <1>1, <1>2, <2>1, Inductive
<1>4. Cardinality(S) \in T
  BY <1>3, FS_CardinalityType
<1>5. PICK g : \A s \in SUBSET S : Cardinality(s) <= Cardinality(S) => Sums(f, g, s)
  BY <1>4
<1>6. \A s \in SUBSET S : Sums(f, g, s)
  BY <1>5, FS_Subset
<1> DEFINE h == [s \in SUBSET S |-> g[s]]
<1>7. \A s \in SUBSET S : s # {} => s \ {Chosen(s)} \in SUBSET S
  OBVIOUS
<1>8. h = [s \in SUBSET S |-> IF s = {} THEN 0 ELSE f[Chosen(s)] + h[s \ {Chosen(s)}]]
  BY <1>6, <1>7 DEF Sums
<1> HIDE DEF h
<1> QED BY <1>8 DEF IsSum

LEMMA SumIs ==
    ASSUME NEW f, NEW S, IsFiniteSet(S)
    PROVE  \E g : /\ SumFunctionOnSet(f, S) = g[S]
                  /\ \A s \in SUBSET S : Sums(f, g, s)
<1> DEFINE g == CHOOSE h : IsSum(h, f, S)
<1>1. SumFunctionOnSet(f, S) = g[S]
  BY DEF SumFunctionOnSet, FoldFunctionOnSet, MapThenFoldSet, Chosen, IsSum
<1>2. IsSum(g, f, S)
  BY SumsExist, Zenon
<1> HIDE DEF g
<1>3. \A s \in SUBSET S : Sums(f, g, s)
  BY <1>2 DEF Sums, IsSum
<1> QED BY <1>1, <1>3

LEMMA SumsAgree ==
    ASSUME NEW S, IsFiniteSet(S), NEW f, NEW e, \A x \in S : f[x] = e[x],
           NEW g, NEW h, \A s \in SUBSET S : Sums(f, g, s), \A s \in SUBSET S : Sums(e, h, s)
    PROVE  g[S] = h[S]
<1> DEFINE T == {n \in Nat : \A s \in SUBSET S : Cardinality(s) = n => g[s] = h[s]}
<1>1. 0 \in T
  <2>1. ASSUME NEW s \in SUBSET S, Cardinality(s) = 0 PROVE s = {}
    BY <2>1, FS_Subset, FS_EmptySet, Zenon
  <2>2. g[{}] = 0 /\ h[{}] = 0
    BY DEF Sums
  <2> QED BY <2>1, <2>2
<1>2. ASSUME NEW n \in Nat, n \in T PROVE n + 1 \in T
  <2>1. ASSUME NEW s \in SUBSET S, Cardinality(s) = n + 1 PROVE g[s] = h[s]
    <3>1. s # {}
      BY <2>1, FS_EmptySet
    <3>2. /\ Chosen(s) \in s /\ s \ {Chosen(s)} \in SUBSET S
          /\ Cardinality(s \ {Chosen(s)}) = Cardinality(s) - 1
      BY <3>1, Smaller, Zenon
    <3>3. g[s \ {Chosen(s)}] = h[s \ {Chosen(s)}]
      BY <1>2, <2>1, <3>2
    <3>4. f[Chosen(s)] = e[Chosen(s)]
      BY <3>2
    <3>5. /\ g[s] = f[Chosen(s)] + g[s \ {Chosen(s)}]
          /\ h[s] = e[Chosen(s)] + h[s \ {Chosen(s)}]
      BY <3>1 DEF Sums
    <3> QED BY <3>3, <3>4, <3>5
  <2> QED BY <2>1
<1>3. T = Nat
  <2> HIDE DEF T
  <2>1. T \in SUBSET Nat
    BY DEF T
  <2> QED BY <1>1, <1>2, <2>1, Inductive
<1>4. Cardinality(S) \in T
  BY <1>3, FS_CardinalityType
<1> QED BY <1>4

\* A sum depends on the summands only.
LEMMA SumOfEqual ==
    ASSUME NEW S, IsFiniteSet(S), NEW f, NEW e, \A x \in S : f[x] = e[x]
    PROVE  SumFunctionOnSet(f, S) = SumFunctionOnSet(e, S)
<1>1. PICK g : /\ SumFunctionOnSet(f, S) = g[S]
               /\ \A s \in SUBSET S : Sums(f, g, s)
  BY SumIs
<1>2. PICK h : /\ SumFunctionOnSet(e, S) = h[S]
               /\ \A s \in SUBSET S : Sums(e, h, s)
  BY SumIs
<1> QED BY <1>1, <1>2, SumsAgree

LEMMA SumOfNone == ASSUME NEW f PROVE SumFunctionOnSet(f, {}) = 0
<1>1. PICK g : /\ SumFunctionOnSet(f, {}) = g[{}]
               /\ \A s \in SUBSET {} : Sums(f, g, s)
  BY SumIs, FS_EmptySet
<1> QED BY <1>1 DEF Sums

LEMMA SumStep ==
    ASSUME NEW f, NEW S, IsFiniteSet(S), S # {}
    PROVE  SumFunctionOnSet(f, S) = f[Chosen(S)] + SumFunctionOnSet(f, S \ {Chosen(S)})
<1>1. PICK g : /\ SumFunctionOnSet(f, S) = g[S]
               /\ \A s \in SUBSET S : Sums(f, g, s)
  BY SumIs
<1>2. /\ S \ {Chosen(S)} \in SUBSET S /\ IsFiniteSet(S \ {Chosen(S)})
  BY Smaller
<1>3. PICK h : /\ SumFunctionOnSet(f, S \ {Chosen(S)}) = h[S \ {Chosen(S)}]
               /\ \A s \in SUBSET (S \ {Chosen(S)}) : Sums(f, h, s)
  BY <1>2, SumIs
<1>4. \A s \in SUBSET (S \ {Chosen(S)}) : Sums(f, g, s)
  BY <1>1
<1>5. g[S \ {Chosen(S)}] = h[S \ {Chosen(S)}]
  BY <1>2, <1>3, <1>4, SumsAgree
<1> QED BY <1>1, <1>3, <1>5 DEF Sums

\* Any summand can be taken out, and the sum is a number of the summands' kind.
LEMMA SumWithout ==
    ASSUME NEW f, NEW S, IsFiniteSet(S), \A y \in S : f[y] \in Int
    PROVE  /\ SumFunctionOnSet(f, S) \in Int
           /\ \A x \in S : SumFunctionOnSet(f, S) = f[x] + SumFunctionOnSet(f, S \ {x})
<1> DEFINE Out(s) ==
             /\ SumFunctionOnSet(f, s) \in Int
             /\ \A x \in s : SumFunctionOnSet(f, s) = f[x] + SumFunctionOnSet(f, s \ {x})
           T == {n \in Nat : \A s \in SUBSET S : Cardinality(s) <= n => Out(s)}
<1>1. 0 \in T
  <2>1. ASSUME NEW s \in SUBSET S, Cardinality(s) <= 0 PROVE s = {}
    <3>1. IsFiniteSet(s)
      BY FS_Subset
    <3>2. Cardinality(s) \in Nat
      BY <3>1, FS_CardinalityType
    <3>3. Cardinality(s) = 0
      BY <2>1, <3>2
    <3> QED BY <3>1, <3>3, FS_EmptySet
  <2>2. Out({})
    BY SumOfNone
  <2> HIDE DEF Out
  <2> QED BY <2>1, <2>2
<1>2. ASSUME NEW n \in Nat, n \in T PROVE n + 1 \in T
  <2>1. ASSUME NEW s \in SUBSET S, Cardinality(s) <= n + 1 PROVE Out(s)
    <3>1. CASE s = {}
      BY <3>1, SumOfNone
    <3>2. CASE s # {}
      <4> DEFINE c == Chosen(s)
      <4>1. /\ c \in s /\ s \ {c} \in SUBSET S /\ IsFiniteSet(s)
            /\ Cardinality(s \ {c}) = Cardinality(s) - 1
            /\ Cardinality(s) \in Nat /\ IsFiniteSet(s \ {c})
        BY <3>2, Smaller, Zenon
      <4>2. SumFunctionOnSet(f, s) = f[c] + SumFunctionOnSet(f, s \ {c})
        BY <3>2, <4>1, SumStep
      <4>3. Cardinality(s \ {c}) <= n
        BY <2>1, <4>1
      <4> HIDE DEF c
      <4>4. Out(s \ {c})
        <5> HIDE DEF Out
        <5> QED BY <1>2, <4>1, <4>3
      <4>5. f[c] \in Int /\ SumFunctionOnSet(f, s \ {c}) \in Int
        BY <4>1, <4>4
      <4>6. ASSUME NEW x \in s, x # c
            PROVE  SumFunctionOnSet(f, s) = f[x] + SumFunctionOnSet(f, s \ {x})
        <5>1. SumFunctionOnSet(f, s \ {c}) = f[x] + SumFunctionOnSet(f, (s \ {c}) \ {x})
          BY <4>4, <4>6
        <5>2. /\ s \ {x} \in SUBSET S /\ Cardinality(s \ {x}) = Cardinality(s) - 1
              /\ (s \ {c}) \ {x} \in SUBSET S
              /\ Cardinality((s \ {c}) \ {x}) = Cardinality(s \ {c}) - 1
          BY <4>1, <4>6, FS_RemoveElement
        <5>3. Cardinality(s \ {x}) <= n /\ Cardinality((s \ {c}) \ {x}) <= n
          BY <2>1, <4>1, <5>2
        <5>4. Out(s \ {x}) /\ Out((s \ {c}) \ {x})
          <6> HIDE DEF Out
          <6> QED BY <1>2, <5>2, <5>3
        <5>5. SumFunctionOnSet(f, s \ {x}) = f[c] + SumFunctionOnSet(f, (s \ {x}) \ {c})
          BY <4>1, <4>6, <5>4
        <5>6. (s \ {x}) \ {c} = (s \ {c}) \ {x}
          OBVIOUS
        <5>7. f[x] \in Int /\ SumFunctionOnSet(f, (s \ {c}) \ {x}) \in Int
          BY <5>4
        <5>8. SumFunctionOnSet(f, s \ {x}) = f[c] + SumFunctionOnSet(f, (s \ {c}) \ {x})
          BY <5>5, <5>6
        <5> HIDE DEF Out
        <5> QED BY <4>2, <4>5, <5>1, <5>7, <5>8
      <4>7. SumFunctionOnSet(f, s) \in Int
        BY <4>2, <4>5
      <4>8. ASSUME NEW x \in s
            PROVE  SumFunctionOnSet(f, s) = f[x] + SumFunctionOnSet(f, s \ {x})
        BY <4>2, <4>6
      <4> QED BY <4>7, <4>8
    <3> QED BY <3>1, <3>2
  <2> HIDE DEF Out
  <2> QED BY <2>1
<1>3. T = Nat
  <2> HIDE DEF T
  <2>1. T \in SUBSET Nat
    BY DEF T
  <2> QED BY <1>1, <1>2, <2>1, Inductive
<1>4. Cardinality(S) \in T
  BY <1>3, FS_CardinalityType
<1> QED BY <1>4

LEMMA SumOfPrefix ==
    ASSUME NEW n \in Nat \ {0}, NEW f, \A i \in 1..n : f[i] \in Int
    PROVE  SumFunctionOnSet(f, 1..n) = SumFunctionOnSet(f, 1..(n - 1)) + f[n]
<1>1. IsFiniteSet(1..n) /\ n \in 1..n /\ (1..n) \ {n} = 1..(n - 1)
  BY FS_Interval
<1>2. IsFiniteSet(1..(n - 1)) /\ \A i \in 1..(n - 1) : f[i] \in Int
  BY FS_Interval
<1>3. SumFunctionOnSet(f, 1..n) = f[n] + SumFunctionOnSet(f, (1..n) \ {n})
  BY <1>1, SumWithout, SMTT(30)
<1>4. SumFunctionOnSet(f, 1..(n - 1)) \in Int
  BY <1>2, SumWithout
<1>5. f[n] \in Int
  BY <1>1
<1>6. SumFunctionOnSet(f, 1..n) = f[n] + SumFunctionOnSet(f, 1..(n - 1))
  BY <1>1, <1>3
<1> QED BY <1>4, <1>5, <1>6

\* What grows by each summand is the sum.
LEMMA SumIsTotal ==
    ASSUME NEW n \in Nat, NEW f, \A i \in 1..n : f[i] \in Int,
           NEW p, p[0] = 0, \A i \in 1..n : p[i] = p[i - 1] + f[i]
    PROVE  SumFunctionOnSet(f, 1..n) = p[n]
<1> DEFINE T == {m \in Nat : m <= n => SumFunctionOnSet(f, 1..m) = p[m]}
<1>1. 0 \in T
  <2>1. 1..0 = {}
    OBVIOUS
  <2> QED BY <2>1, SumOfNone
<1>2. ASSUME NEW m \in Nat, m \in T PROVE m + 1 \in T
  <2>1. CASE m + 1 <= n
    <3>1. \A i \in 1..(m + 1) : f[i] \in Int
      BY <2>1
    <3>2. SumFunctionOnSet(f, 1..(m + 1)) = SumFunctionOnSet(f, 1..((m + 1) - 1)) + f[m + 1]
      BY <3>1, SumOfPrefix
    <3>3. (m + 1) - 1 = m /\ m + 1 \in 1..n
      BY <2>1
    <3>4. SumFunctionOnSet(f, 1..m) = p[m]
      BY <1>2, <2>1
    <3>5. p[m + 1] = p[m] + f[m + 1]
      BY <3>3
    <3> QED BY <3>2, <3>3, <3>4, <3>5
  <2>2. CASE ~(m + 1 <= n)
    BY <2>2
  <2> QED BY <2>1, <2>2
<1>3. T = Nat
  <2> HIDE DEF T
  <2>1. T \in SUBSET Nat
    BY DEF T
  <2> QED BY <1>1, <1>2, <2>1, Inductive
<1> QED BY <1>3

\* The sums up to each index.
SumsTo(f, n) == [m \in 0..n |-> SumFunctionOnSet(f, 1..m)]

LEMMA SumsToGrow ==
    ASSUME NEW n \in Nat, NEW f, \A i \in 1..n : f[i] \in Int
    PROVE  /\ SumsTo(f, n) \in [0..n -> Int]
           /\ SumsTo(f, n)[0] = 0
           /\ \A i \in 1..n : SumsTo(f, n)[i] = SumsTo(f, n)[i - 1] + f[i]
<1>1. SumsTo(f, n)[0] = 0
  <2>1. 1..0 = {}
    OBVIOUS
  <2> QED BY <2>1, SumOfNone DEF SumsTo
<1>2. ASSUME NEW i \in 1..n PROVE SumsTo(f, n)[i] = SumsTo(f, n)[i - 1] + f[i]
  <2>1. SumFunctionOnSet(f, 1..i) = SumFunctionOnSet(f, 1..(i - 1)) + f[i]
    BY SumOfPrefix
  <2> QED BY <2>1 DEF SumsTo
<1>3. ASSUME NEW i \in 0..n PROVE SumFunctionOnSet(f, 1..i) \in Int
  <2>1. IsFiniteSet(1..i) /\ \A j \in 1..i : f[j] \in Int
    BY FS_Interval
  <2> QED BY <2>1, SumWithout
<1>4. SumsTo(f, n) \in [0..n -> Int]
  BY <1>3 DEF SumsTo
<1> QED BY <1>1, <1>2, <1>4

LEMMA SumOfSums ==
    ASSUME NEW n \in Nat, NEW f, NEW g, \A i \in 1..n : f[i] \in Int /\ g[i] \in Int,
           NEW e, \A i \in 1..n : e[i] = f[i] + g[i]
    PROVE  SumFunctionOnSet(e, 1..n) = SumsTo(f, n)[n] + SumsTo(g, n)[n]
<1> DEFINE p == [m \in 0..n |-> SumsTo(f, n)[m] + SumsTo(g, n)[m]]
<1>1. /\ SumsTo(f, n) \in [0..n -> Int] /\ SumsTo(f, n)[0] = 0
      /\ \A i \in 1..n : SumsTo(f, n)[i] = SumsTo(f, n)[i - 1] + f[i]
  BY SumsToGrow
<1>2. /\ SumsTo(g, n) \in [0..n -> Int] /\ SumsTo(g, n)[0] = 0
      /\ \A i \in 1..n : SumsTo(g, n)[i] = SumsTo(g, n)[i - 1] + g[i]
  BY SumsToGrow
<1>3. p[0] = 0 /\ n \in 0..n /\ p[n] = SumsTo(f, n)[n] + SumsTo(g, n)[n]
  BY <1>1, <1>2
<1>4. ASSUME NEW i \in 1..n PROVE p[i] = p[i - 1] + e[i] /\ e[i] \in Int
  <2>1. i \in 0..n /\ i - 1 \in 0..n
    OBVIOUS
  <2>2. /\ SumsTo(f, n)[i - 1] \in Int /\ SumsTo(g, n)[i - 1] \in Int
        /\ SumsTo(f, n)[i] = SumsTo(f, n)[i - 1] + f[i]
        /\ SumsTo(g, n)[i] = SumsTo(g, n)[i - 1] + g[i]
    BY <1>1, <1>2, <2>1
  <2>3. /\ p[i] = SumsTo(f, n)[i] + SumsTo(g, n)[i]
        /\ p[i - 1] = SumsTo(f, n)[i - 1] + SumsTo(g, n)[i - 1]
    BY <2>1
  <2>4. f[i] \in Int /\ g[i] \in Int /\ e[i] = f[i] + g[i]
    OBVIOUS
  <2> HIDE DEF p
  <2> QED BY <2>2, <2>3, <2>4
<1> HIDE DEF p
<1>5. SumFunctionOnSet(e, 1..n) = p[n]
  BY <1>3, <1>4, SumIsTotal
<1> QED BY <1>3, <1>5

LEMMA SumsOfNats ==
    ASSUME NEW n \in Nat, NEW f, \A i \in 1..n : f[i] \in Nat
    PROVE  SumsTo(f, n) \in [0..n -> Nat]
<1> DEFINE T == {m \in Nat : m <= n => SumsTo(f, n)[m] \in Nat}
<1>1. /\ SumsTo(f, n) \in [0..n -> Int] /\ SumsTo(f, n)[0] = 0
      /\ \A i \in 1..n : SumsTo(f, n)[i] = SumsTo(f, n)[i - 1] + f[i]
  BY SumsToGrow
<1>2. 0 \in T
  BY <1>1
<1>3. ASSUME NEW m \in Nat, m \in T PROVE m + 1 \in T
  <2>1. CASE m + 1 <= n
    <3>1. m + 1 \in 1..n /\ (m + 1) - 1 = m /\ m <= n
      BY <2>1
    <3>2. SumsTo(f, n)[m + 1] = SumsTo(f, n)[m] + f[m + 1] /\ f[m + 1] \in Nat
      BY <1>1, <3>1
    <3>3. SumsTo(f, n)[m] \in Nat
      BY <1>3, <3>1
    <3> QED BY <3>2, <3>3
  <2>2. CASE ~(m + 1 <= n)
    BY <2>2
  <2> QED BY <2>1, <2>2
<1>4. T = Nat
  <2> HIDE DEF T
  <2>1. T \in SUBSET Nat
    BY DEF T
  <2> QED BY <1>2, <1>3, <2>1, Inductive
<1>5. \A m \in 0..n : SumsTo(f, n)[m] \in Nat
  BY <1>4
<1> QED BY <1>1, <1>5

----------------------------------------------------------------------------
(***************************************************************************)
(* The even split.                                                         *)
(***************************************************************************)
LEMMA Division ==
    ASSUME NEW t \in Nat, NEW n \in Nat \ {0}
    PROVE  /\ t \div n \in Nat /\ t % n \in Nat /\ t % n < n
           /\ t = n * (t \div n) + (t % n)
OBVIOUS

LEMMA Times ==
    ASSUME NEW q \in Int, NEW i \in Int
    PROVE  /\ 0 * q = 0 /\ i * q \in Int
           /\ (i + 1) * q = i * q + q /\ i * q = q * i
OBVIOUS

\* shard_split: consecutive ranges from 0 to the total, none of them empty if
\* there is one for each.
LEMMA EvenSplit ==
    ASSUME NEW t \in Nat, NEW n \in Nat \ {0}
    PROVE  /\ ShardOffset(t, n, 0) = 0 /\ ShardOffset(t, n, n) = t
           /\ \A i \in 0..n : ShardOffset(t, n, i) \in Nat
           /\ \A i \in 0..(n - 1) :
                /\ ShardCount(t, n, i) \in Nat
                /\ ShardOffset(t, n, i + 1) = ShardOffset(t, n, i) + ShardCount(t, n, i)
                /\ t >= n => ShardCount(t, n, i) > 0
<1> DEFINE q == t \div n
           r == t % n
<1>1. /\ q \in Nat /\ r \in Nat /\ r < n
      /\ t = n * q + r
  BY Division
<1>2. t >= n => q > 0
  <2> HIDE DEF q, r
  <2>1. q = 0 => n * q = 0
    BY <1>1
  <2> QED BY <1>1, <2>1
<1>3. /\ 0 * q = 0
      /\ \A i \in Int : i * q \in Int /\ (i + 1) * q = i * q + q
  BY <1>1, Times
<1>4. \A i \in Nat : i * q \in Nat
  <2> HIDE DEF q
  <2> QED BY <1>1
<1>5. /\ \A i \in 0..n : ShardOffset(t, n, i) = i * q + Lesser(i, r)
      /\ \A i \in 0..(n - 1) : ShardCount(t, n, i) = q + (IF i < r THEN 1 ELSE 0)
  BY DEF ShardOffset, ShardCount
<1> HIDE DEF q, r
<1>6. ShardOffset(t, n, 0) = 0 /\ ShardOffset(t, n, n) = t
  BY <1>1, <1>3, <1>5 DEF Lesser
<1>7. \A i \in 0..n : ShardOffset(t, n, i) \in Nat
  BY <1>1, <1>4, <1>5 DEF Lesser
<1>8. ASSUME NEW i \in 0..(n - 1)
      PROVE  /\ ShardCount(t, n, i) \in Nat
             /\ ShardOffset(t, n, i + 1) = ShardOffset(t, n, i) + ShardCount(t, n, i)
             /\ t >= n => ShardCount(t, n, i) > 0
  <2>1. /\ ShardOffset(t, n, i + 1) = i * q + q + Lesser(i + 1, r)
        /\ ShardOffset(t, n, i) = i * q + Lesser(i, r)
        /\ i * q \in Int
    BY <1>1, <1>3, <1>5
  <2>2. Lesser(i + 1, r) = Lesser(i, r) + (IF i < r THEN 1 ELSE 0)
    BY <1>1 DEF Lesser
  <2>3. ShardCount(t, n, i) = q + (IF i < r THEN 1 ELSE 0)
    BY <1>5
  <2>4. Lesser(i, r) \in Int
    BY <1>1 DEF Lesser
  <2> QED BY <1>1, <1>2, <2>1, <2>2, <2>3, <2>4
<1> QED BY <1>6, <1>7, <1>8

LEMMA EvenCountsSum ==
    ASSUME NEW t \in Nat, NEW n \in Nat \ {0}
    PROVE  /\ EvenCounts(t, n) \in [1..n -> Nat]
           /\ SumFunctionOnSet(EvenCounts(t, n), 1..n) = t
<1> DEFINE f == EvenCounts(t, n)
           p == [m \in 0..n |-> ShardOffset(t, n, m)]
<1>1. /\ ShardOffset(t, n, 0) = 0 /\ ShardOffset(t, n, n) = t
      /\ \A i \in 0..(n - 1) :
           /\ ShardCount(t, n, i) \in Nat
           /\ ShardOffset(t, n, i + 1) = ShardOffset(t, n, i) + ShardCount(t, n, i)
  BY EvenSplit
<1>2. \A i \in 1..n : i - 1 \in 0..(n - 1) /\ (i - 1) + 1 = i
  OBVIOUS
<1>3. f = [i \in 1..n |-> ShardCount(t, n, i - 1)]
  BY DEF EvenCounts
<1>4. f \in [1..n -> Nat]
  BY <1>1, <1>2, <1>3
<1>5. p[0] = 0 /\ p[n] = t /\ n \in 0..n
  BY <1>1
<1>6. \A i \in 1..n : p[i] = p[i - 1] + f[i]
  BY <1>1, <1>2, <1>3
<1>7. \A i \in 1..n : f[i] \in Int
  BY <1>4
<1> HIDE DEF f, p
<1>8. SumFunctionOnSet(f, 1..n) = p[n]
  BY <1>5, <1>6, <1>7, SumIsTotal
<1> QED BY <1>4, <1>5, <1>8 DEF f

----------------------------------------------------------------------------
(***************************************************************************)
(* The split by capacities: what the even split gives a worker beyond its  *)
(* capacity goes to those with slack, in their order.                      *)
(***************************************************************************)

\* Taking from a slack after another is taking from their sum.
LEMMA Filling ==
    ASSUME NEW over \in Nat, NEW before \in Nat, NEW slack \in Nat
    PROVE  /\ Lesser(slack, Greater(over - before, 0)) \in 0..slack
           /\ Lesser(over, before + slack)
                = Lesser(over, before) + Lesser(slack, Greater(over - before, 0))
BY DEF Lesser, Greater

LEMMA Clamping ==
    ASSUME NEW e \in Nat, NEW c \in Nat, e > 0, c > 0
    PROVE  /\ Lesser(e, c) \in Nat /\ Lesser(e, c) > 0 /\ c - Lesser(e, c) \in Nat
           /\ Greater(0, e - c) \in Nat /\ e = Lesser(e, c) + Greater(0, e - c)
BY DEF Lesser, Greater

\* What the workers can take together.
Able(c) == Sum([i \in DOMAIN c |-> AtLeastOne(c[i])])

LEMMA CapacitySplit ==
    ASSUME NEW t \in Nat, NEW c \in Seq(Nat), Len(c) > 0, t >= Len(c), Able(c) >= t
    PROVE  /\ capacity_split(t, c) \in [1..Len(c) -> Nat]
           /\ \A i \in 1..Len(c) : /\ capacity_split(t, c)[i] > 0
                                   /\ capacity_split(t, c)[i] <= AtLeastOne(c[i])
           /\ Sum(capacity_split(t, c)) = t
<1> DEFINE n     == Len(c)
           cap   == [i \in 1..n |-> AtLeastOne(c[i])]
           even  == EvenCounts(t, n)
           given == Clamped(t, c)
           slack == [i \in 1..n |-> AtLeastOne(c[i]) - given[i]]
           more  == [i \in 1..n |-> Greater(0, even[i] - AtLeastOne(c[i]))]
           over  == Sum(more)
           split == capacity_split(t, c)
<1>1. n \in Nat \ {0} /\ DOMAIN c = 1..n /\ \A i \in 1..n : c[i] \in Nat
  OBVIOUS
<1>0. n \in Nat
  OBVIOUS
<1>2. \A i \in 1..n : cap[i] \in Nat /\ cap[i] > 0 /\ cap[i] = AtLeastOne(c[i])
  BY <1>1 DEF AtLeastOne, Greater
<1>3. even \in [1..n -> Nat] /\ \A i \in 1..n : even[i] > 0
  <2>1. \A i \in 1..n : i - 1 \in 0..(n - 1)
    BY <1>1
  <2>2. \A i \in 1..n : ShardCount(t, n, i - 1) > 0 /\ ShardCount(t, n, i - 1) \in Nat
    BY <1>1, <2>1, EvenSplit
  <2> QED BY <1>1, <2>2 DEF EvenCounts
<1>4. SumFunctionOnSet(even, 1..n) = t
  BY <1>1, EvenCountsSum
<1>5. given = [i \in 1..n |-> Lesser(even[i], cap[i])]
  BY <1>1 DEF Clamped
<1>6. \A i \in 1..n :
        /\ given[i] \in Nat /\ given[i] > 0 /\ slack[i] \in Nat /\ more[i] \in Nat
        /\ slack[i] = cap[i] - given[i] /\ even[i] = given[i] + more[i]
  <2>1. ASSUME NEW i \in 1..n
        PROVE  /\ even[i] \in Nat /\ even[i] > 0 /\ cap[i] \in Nat /\ cap[i] > 0
               /\ given[i] = Lesser(even[i], cap[i])
               /\ slack[i] = cap[i] - given[i]
               /\ more[i] = Greater(0, even[i] - cap[i])
    <3>1. /\ even[i] \in Nat /\ even[i] > 0
          /\ cap[i] \in Nat /\ cap[i] > 0 /\ cap[i] = AtLeastOne(c[i])
      BY <1>2, <1>3
    <3>2. given[i] = Lesser(even[i], cap[i])
      BY <1>5
    <3>3. /\ slack[i] = AtLeastOne(c[i]) - given[i]
          /\ more[i] = Greater(0, even[i] - AtLeastOne(c[i]))
      OBVIOUS
    <3> HIDE DEF cap, even, given, slack, more
    <3> QED BY <3>1, <3>2, <3>3
  <2>2. ASSUME NEW i \in 1..n
        PROVE  /\ given[i] \in Nat /\ given[i] > 0 /\ slack[i] \in Nat /\ more[i] \in Nat
               /\ even[i] = given[i] + more[i]
    <3> HIDE DEF cap, even, given, slack, more
    <3>1. /\ even[i] \in Nat /\ even[i] > 0 /\ cap[i] \in Nat /\ cap[i] > 0
          /\ given[i] = Lesser(even[i], cap[i])
          /\ slack[i] = cap[i] - given[i]
          /\ more[i] = Greater(0, even[i] - cap[i])
      BY <2>1
    <3>2. /\ Lesser(even[i], cap[i]) \in Nat /\ Lesser(even[i], cap[i]) > 0
          /\ cap[i] - Lesser(even[i], cap[i]) \in Nat
          /\ Greater(0, even[i] - cap[i]) \in Nat
          /\ even[i] = Lesser(even[i], cap[i]) + Greater(0, even[i] - cap[i])
      BY <3>1, Clamping
    <3> QED BY <3>1, <3>2, Zenon
  <2> HIDE DEF cap, even, given, slack, more
  <2> QED BY <2>1, <2>2
<1> DEFINE B == SumsTo(slack, n)
           G == SumsTo(given, n)
           M == SumsTo(more, n)
           C == SumsTo(cap, n)
<1>7. /\ B \in [0..n -> Int] /\ B[0] = 0 /\ \A i \in 1..n : B[i] = B[i - 1] + slack[i]
      /\ G \in [0..n -> Int] /\ G[0] = 0 /\ \A i \in 1..n : G[i] = G[i - 1] + given[i]
      /\ M \in [0..n -> Int] /\ M[0] = 0 /\ \A i \in 1..n : M[i] = M[i - 1] + more[i]
  <2> HIDE DEF slack, given, more, n
  <2>0. \A i \in 1..n : slack[i] \in Int /\ given[i] \in Int /\ more[i] \in Int
    BY <1>6
  <2>1. B \in [0..n -> Int] /\ B[0] = 0 /\ \A i \in 1..n : B[i] = B[i - 1] + slack[i]
    BY <1>0, <2>0, SumsToGrow
  <2>2. G \in [0..n -> Int] /\ G[0] = 0 /\ \A i \in 1..n : G[i] = G[i - 1] + given[i]
    BY <1>0, <2>0, SumsToGrow
  <2>3. M \in [0..n -> Int] /\ M[0] = 0 /\ \A i \in 1..n : M[i] = M[i - 1] + more[i]
    BY <1>0, <2>0, SumsToGrow
  <2> QED BY <2>1, <2>2, <2>3
<1>8. /\ DOMAIN split = 1..n
      /\ \A i \in 1..n :
           split[i] = given[i] + Lesser(slack[i], Greater(over - B[i - 1], 0))
  <2>1. ASSUME NEW i \in 1..n
        PROVE  Sum([j \in 1..(i - 1) |-> slack[j]]) = B[i - 1]
    <3> HIDE DEF slack
    <3> DEFINE e == [j \in 1..(i - 1) |-> slack[j]]
    <3>1. DOMAIN e = 1..(i - 1) /\ \A j \in 1..(i - 1) : e[j] = slack[j]
      OBVIOUS
    <3>2. IsFiniteSet(1..(i - 1)) /\ i - 1 \in 0..n
      <4>1. i - 1 \in 0..n
        BY <1>1
      <4> QED BY <4>1, FS_Interval
    <3> HIDE DEF e
    <3>3. SumFunctionOnSet(e, 1..(i - 1)) = SumFunctionOnSet(slack, 1..(i - 1))
      BY <3>1, <3>2, SumOfEqual
    <3> QED BY <3>1, <3>2, <3>3 DEF e, Sum, SumsTo
  <2>2. split = [i \in 1..n |->
                   given[i] + Lesser(slack[i],
                       Greater(over - Sum([j \in 1..(i - 1) |-> slack[j]]), 0))]
    BY <1>1 DEF capacity_split
  <2>3. /\ DOMAIN split = 1..n
        /\ \A i \in 1..n : split[i] = given[i] + Lesser(slack[i],
                             Greater(over - Sum([j \in 1..(i - 1) |-> slack[j]]), 0))
    <3> HIDE DEF split, given, slack, over
    <3> QED BY <2>2
  <2> HIDE DEF split, B, given, slack, over
  <2> QED BY <2>1, <2>3
<1>9. /\ C \in [0..n -> Int] /\ C[0] = 0 /\ \A i \in 1..n : C[i] = C[i - 1] + cap[i]
      /\ C[n] >= t
  <2>1. /\ C \in [0..n -> Int] /\ C[0] = 0 /\ \A i \in 1..n : C[i] = C[i - 1] + cap[i]
    <3> HIDE DEF cap
    <3> QED BY <1>1, <1>2, SumsToGrow, SMTT(30)
  <2>2. Able(c) = SumFunctionOnSet(cap, 1..n)
    BY <1>1 DEF Sum, Able
  <2>3. n \in 0..n
    BY <1>1
  <2>4. C[n] = SumFunctionOnSet(cap, 1..n)
    <3> HIDE DEF cap
    <3> QED BY <2>3 DEF SumsTo
  <2> HIDE DEF C, cap
  <2> QED BY <2>1, <2>2, <2>4
<1>10. over = M[n]
  <2>1. n \in 0..n /\ DOMAIN more = 1..n
    BY <1>1
  <2> HIDE DEF more
  <2> QED BY <2>1 DEF Sum, SumsTo
<1>11. B \in [0..n -> Nat] /\ M \in [0..n -> Nat]
  <2> HIDE DEF slack, more
  <2> QED BY <1>1, <1>6, SumsOfNats
<1> HIDE DEF cap, even, given, slack, more, over, split, B, G, M, C, n
<1>12. G[n] + M[n] = t
  <2>1. /\ \A i \in 1..n : given[i] \in Int /\ more[i] \in Int
        /\ \A i \in 1..n : even[i] = given[i] + more[i]
    BY <1>6
  <2>2. SumFunctionOnSet(even, 1..n) = SumsTo(given, n)[n] + SumsTo(more, n)[n]
    BY <1>0, <2>1, SumOfSums
  <2> QED BY <1>4, <2>2 DEF G, M
<1>13. G[n] + B[n] = C[n]
  <2>1. /\ \A i \in 1..n : given[i] \in Int /\ slack[i] \in Int
        /\ \A i \in 1..n : cap[i] = given[i] + slack[i]
    <3>1. ASSUME NEW i \in 1..n
          PROVE  given[i] \in Int /\ slack[i] \in Int /\ cap[i] = given[i] + slack[i]
      <4>1. given[i] \in Nat /\ cap[i] \in Nat /\ slack[i] = cap[i] - given[i]
        BY <1>2, <1>6
      <4> QED BY <4>1
    <3> QED BY <3>1
  <2>2. SumFunctionOnSet(cap, 1..n) = SumsTo(given, n)[n] + SumsTo(slack, n)[n]
    BY <1>0, <2>1, SumOfSums
  <2>3. SumFunctionOnSet(cap, 1..n) = SumsTo(cap, n)[n]
    BY <1>0 DEF SumsTo
  <2> QED BY <2>2, <2>3 DEF G, B, C
<1>14. \A i \in 1..n :
         /\ Lesser(slack[i], Greater(over - B[i - 1], 0)) \in 0..slack[i]
         /\ Lesser(over, B[i]) = Lesser(over, B[i - 1])
                                   + Lesser(slack[i], Greater(over - B[i - 1], 0))
  <2>1. ASSUME NEW i \in 1..n
        PROVE  over \in Nat /\ B[i - 1] \in Nat /\ slack[i] \in Nat
    <3>1. i - 1 \in 0..n /\ n \in 0..n
      BY <1>1
    <3> QED BY <1>6, <1>10, <1>11, <3>1
  <2>2. ASSUME NEW i \in 1..n
        PROVE  /\ Lesser(slack[i], Greater(over - B[i - 1], 0)) \in 0..slack[i]
               /\ Lesser(over, B[i - 1] + slack[i]) = Lesser(over, B[i - 1])
                                   + Lesser(slack[i], Greater(over - B[i - 1], 0))
    BY <2>1, Filling
  <2>3. \A i \in 1..n : B[i] = B[i - 1] + slack[i]
    BY <1>7
  <2> QED BY <2>2, <2>3
<1>15. \A i \in 1..n : /\ split[i] \in Nat /\ split[i] > 0
                       /\ split[i] <= AtLeastOne(c[i])
  <2>1. ASSUME NEW i \in 1..n
        PROVE  /\ split[i] \in Nat /\ split[i] > 0
               /\ split[i] <= AtLeastOne(c[i])
    <3> DEFINE taken == Lesser(slack[i], Greater(over - B[i - 1], 0))
    <3>1. taken \in 0..slack[i] /\ split[i] = given[i] + taken
      BY <1>8, <1>14
    <3>2. /\ given[i] \in Nat /\ given[i] > 0 /\ slack[i] \in Nat
          /\ slack[i] = cap[i] - given[i] /\ cap[i] \in Nat /\ cap[i] = AtLeastOne(c[i])
      BY <1>2, <1>6
    <3> HIDE DEF taken
    <3> QED BY <3>1, <3>2
  <2> QED BY <2>1
<1>16. SumFunctionOnSet(split, 1..n) = t
  <2> DEFINE p == [m \in 0..n |-> G[m] + Lesser(over, B[m])]
  <2>1. p[0] = 0 /\ n \in 0..n /\ p[n] = G[n] + Lesser(over, B[n])
    <3>1. n \in 0..n /\ 0 \in 0..n
      BY <1>1
    <3>2. over \in Nat
      BY <1>10, <1>11, <3>1
    <3> QED BY <1>7, <3>1, <3>2 DEF Lesser
  <2>2. \A i \in 1..n : p[i] = p[i - 1] + split[i]
    <3>1. ASSUME NEW i \in 1..n PROVE p[i] = p[i - 1] + split[i]
      <4>1. i \in 0..n /\ i - 1 \in 0..n /\ n \in 0..n
        BY <1>1
      <4>2. /\ G[i - 1] \in Int /\ G[i] = G[i - 1] + given[i] /\ given[i] \in Int
        <5>1. given[i] \in Nat
          BY <1>6
        <5>2. G[i - 1] \in Int /\ G[i] = G[i - 1] + given[i]
          BY <1>7, <4>1
        <5> QED BY <5>1, <5>2
      <4>3. p[i] = G[i] + Lesser(over, B[i]) /\ p[i - 1] = G[i - 1] + Lesser(over, B[i - 1])
        BY <4>1
      <4>4. Lesser(over, B[i - 1]) \in Int
        <5>1. over \in Nat /\ B[i - 1] \in Nat
          BY <1>10, <1>11, <4>1
        <5> QED BY <5>1 DEF Lesser
      <4>5. Lesser(slack[i], Greater(over - B[i - 1], 0)) \in Int
        <5>1. slack[i] \in Nat
          BY <1>6
        <5> QED BY <1>14, <5>1
      <4>6. /\ split[i] = given[i] + Lesser(slack[i], Greater(over - B[i - 1], 0))
            /\ Lesser(over, B[i]) = Lesser(over, B[i - 1])
                                   + Lesser(slack[i], Greater(over - B[i - 1], 0))
        BY <1>8, <1>14
      <4> HIDE DEF p
      <4> QED BY <4>2, <4>3, <4>4, <4>5, <4>6
    <3> QED BY <3>1
  <2>3. \A i \in 1..n : split[i] \in Int
    BY <1>15
  <2> HIDE DEF p
  <2>4. SumFunctionOnSet(split, 1..n) = p[n]
    BY <1>0, <2>1, <2>2, <2>3, SumIsTotal
  <2>5. G[n] \in Int /\ B[n] \in Int /\ M[n] \in Int /\ C[n] \in Int
    BY <1>7, <1>9, <2>1
  <2>6. Lesser(over, B[n]) = over
    BY <1>9, <1>10, <1>12, <1>13, <2>5 DEF Lesser
  <2> QED BY <1>10, <1>12, <2>1, <2>4, <2>6
<1>17. split \in [1..n -> Nat]
  <2>1. split = [i \in 1..n |-> split[i]]
    BY <1>8 DEF split, capacity_split
  <2> QED BY <1>15, <2>1
<1>18. Sum(split) = t
  BY <1>8, <1>16 DEF Sum
<1> QED BY <1>15, <1>17, <1>18 DEF split, n

----------------------------------------------------------------------------
(***************************************************************************)
(* The split by weights: the floors of the quotas, and one unit more for   *)
(* those with the largest remainders, until the total is reached.          *)
(***************************************************************************)

\* The sum of what is 1 for some and 0 for the others is their number.
LEMMA SumOfMembers ==
    ASSUME NEW n \in Nat, NEW A \in SUBSET (1..n),
           NEW f, \A i \in 1..n : f[i] = IF i \in A THEN 1 ELSE 0
    PROVE  SumFunctionOnSet(f, 1..n) = Cardinality(A)
<1> DEFINE p == [m \in 0..n |-> Cardinality(A \cap (1..m))]
<1>1. \A m \in 0..n : IsFiniteSet(A \cap (1..m)) /\ Cardinality(A \cap (1..m)) \in Nat
  <2> TAKE m \in 0..n
  <2>1. IsFiniteSet(1..m)
    BY FS_Interval
  <2> QED BY <2>1, FS_Intersection, FS_CardinalityType
<1>2. p[0] = 0
  <2>1. A \cap (1..0) = {}
    OBVIOUS
  <2> QED BY <2>1, FS_EmptySet
<1>3. ASSUME NEW i \in 1..n PROVE p[i] = p[i - 1] + f[i] /\ f[i] \in Int
  <2>0. i - 1 \in 0..n /\ i \in 0..n
    OBVIOUS
  <2>1. CASE i \in A
    <3>1. A \cap (1..i) = (A \cap (1..(i - 1))) \cup {i} /\ i \notin A \cap (1..(i - 1))
      BY <2>1
    <3>2. Cardinality(A \cap (1..i)) = Cardinality(A \cap (1..(i - 1))) + 1
      BY <1>1, <2>0, <3>1, FS_AddElement
    <3> QED BY <2>0, <2>1, <3>2
  <2>2. CASE i \notin A
    <3>1. A \cap (1..i) = A \cap (1..(i - 1))
      BY <2>2
    <3>2. p[i] = Cardinality(A \cap (1..i)) /\ p[i - 1] = Cardinality(A \cap (1..(i - 1)))
      BY <2>0
    <3>4. Cardinality(A \cap (1..(i - 1))) \in Nat
      BY <1>1, <2>0
    <3>3. f[i] = 0
      BY <2>2
    <3> HIDE DEF p
    <3> QED BY <3>1, <3>2, <3>3, <3>4
  <2> QED BY <2>1, <2>2
<1>5. p[n] = Cardinality(A)
  <2>1. n \in 0..n
    OBVIOUS
  <2>2. A \cap (1..n) = A
    OBVIOUS
  <2> QED BY <2>1, <2>2
<1> HIDE DEF p
<1>6. SumFunctionOnSet(f, 1..n) = p[n]
  BY <1>2, <1>3, SumIsTotal
<1> QED BY <1>5, <1>6

LEMMA Distributes ==
    ASSUME NEW k \in Int, NEW a \in Int, NEW b \in Int
    PROVE  k * (a + b) = k * a + k * b /\ k * 0 = 0 /\ k * a \in Int
OBVIOUS

\* The sum of what is k times as large is k times as large.
LEMMA SumTimes ==
    ASSUME NEW n \in Nat, NEW k \in Int, NEW f, \A i \in 1..n : f[i] \in Int,
           NEW e, \A i \in 1..n : e[i] = k * f[i]
    PROVE  SumFunctionOnSet(e, 1..n) = k * SumFunctionOnSet(f, 1..n)
<1> DEFINE F == SumsTo(f, n)
           p == [m \in 0..n |-> k * F[m]]
<1>1. F \in [0..n -> Int] /\ F[0] = 0 /\ \A i \in 1..n : F[i] = F[i - 1] + f[i]
  BY SumsToGrow
<1>2. n \in 0..n /\ F[n] = SumFunctionOnSet(f, 1..n)
  BY DEF SumsTo
<1> HIDE DEF F
<1>3. p[0] = 0 /\ p[n] = k * F[n]
  BY <1>1
<1>4. ASSUME NEW i \in 1..n PROVE p[i] = p[i - 1] + e[i] /\ e[i] \in Int
  <2>1. F[i - 1] \in Int /\ f[i] \in Int /\ F[i] = F[i - 1] + f[i] /\ e[i] = k * f[i]
    BY <1>1
  <2>2. k * (F[i - 1] + f[i]) = k * F[i - 1] + k * f[i] /\ k * f[i] \in Int
    BY <2>1, Distributes
  <2>3. p[i] = k * F[i] /\ p[i - 1] = k * F[i - 1]
    OBVIOUS
  <2> QED BY <2>1, <2>2, <2>3
<1> HIDE DEF p
<1>5. SumFunctionOnSet(e, 1..n) = p[n]
  BY <1>3, <1>4, SumIsTotal
<1> QED BY <1>2, <1>3, <1>5

\* The sum of numbers below k.
LEMMA SumIsBounded ==
    ASSUME NEW n \in Nat \ {0}, NEW k \in Nat, NEW f,
           \A i \in 1..n : f[i] \in Nat /\ f[i] < k
    PROVE  SumFunctionOnSet(f, 1..n) \in Nat /\ SumFunctionOnSet(f, 1..n) < k * n
<1> DEFINE F == SumsTo(f, n)
           T == {m \in Nat : m \in 1..n => F[m] < k * m}
<1>1. F \in [0..n -> Int] /\ F[0] = 0 /\ \A i \in 1..n : F[i] = F[i - 1] + f[i]
  BY SumsToGrow
<1>2. F \in [0..n -> Nat]
  BY SumsOfNats
<1>3. n \in 0..n /\ F[n] = SumFunctionOnSet(f, 1..n)
  BY DEF SumsTo
<1> HIDE DEF F
<1>4. 0 \in T
  OBVIOUS
<1>5. ASSUME NEW m \in Nat, m \in T PROVE m + 1 \in T
  <2> SUFFICES ASSUME m + 1 \in 1..n PROVE F[m + 1] < k * (m + 1)
    OBVIOUS
  <2>1. (m + 1) - 1 = m /\ m \in 0..n
    OBVIOUS
  <2>2. F[m + 1] = F[m] + f[m + 1] /\ f[m + 1] \in Nat /\ f[m + 1] < k /\ F[m] \in Nat
    BY <1>1, <1>2, <2>1
  <2>3. k * (m + 1) = k * m + k * 1 /\ k * 1 = k /\ k * m \in Int /\ k * 0 = 0
    BY Distributes
  <2>4. CASE m = 0
    <3>1. F[m] = 0 /\ k * m = 0
      BY <1>1, <2>3, <2>4
    <3> QED BY <2>2, <2>3, <3>1
  <2>5. CASE m # 0
    <3>1. F[m] < k * m
      BY <1>5, <2>1, <2>5
    <3> QED BY <2>2, <2>3, <3>1
  <2> QED BY <2>4, <2>5
<1>6. T = Nat
  <2> HIDE DEF T
  <2>1. T \in SUBSET Nat
    BY DEF T
  <2> QED BY <1>4, <1>5, <2>1, Inductive
<1>7. F[n] < k * n /\ F[n] \in Nat
  BY <1>2, <1>6
<1> QED BY <1>3, <1>7

\* In an order of 1..n, k of them have fewer than k ahead of them.
LEMMA FirstInOrder ==
    ASSUME NEW n \in Nat \ {0}, NEW ahead, NEW k \in 0..n,
           \A i \in 1..n : ahead[i] \subseteq (1..n) \ {i},
           \A i \in 1..n, j \in 1..n : i # j => i \in ahead[j] \/ j \in ahead[i],
           \A i \in 1..n, j \in 1..n : i \in ahead[j] => ahead[i] \subseteq ahead[j]
    PROVE  Cardinality({i \in 1..n : Cardinality(ahead[i]) < k}) = k
<1> DEFINE rank == [i \in 1..n |-> Cardinality(ahead[i])]
           A == {i \in 1..n : rank[i] < k}
           r == [i \in A |-> rank[i]]
<1>1. IsFiniteSet(1..n) /\ Cardinality(1..n) = n
  BY FS_Interval
<1>2. ASSUME NEW i \in 1..n PROVE IsFiniteSet(ahead[i]) /\ rank[i] \in 0..(n - 1)
  <2>1. IsFiniteSet((1..n) \ {i}) /\ Cardinality((1..n) \ {i}) = n - 1
    BY <1>1, FS_RemoveElement
  <2>2. ahead[i] \in SUBSET ((1..n) \ {i})
    OBVIOUS
  <2>3. IsFiniteSet(ahead[i]) /\ Cardinality(ahead[i]) <= n - 1
    BY <2>1, <2>2, FS_Subset
  <2>4. Cardinality(ahead[i]) \in Nat
    BY <2>3, FS_CardinalityType
  <2> QED BY <2>3, <2>4
<1>3. ASSUME NEW i \in 1..n, NEW j \in 1..n, i \in ahead[j] PROVE rank[i] < rank[j]
  <2>1. i \notin ahead[i] /\ ahead[i] \cup {i} \in SUBSET ahead[j]
    BY <1>3
  <2>2. IsFiniteSet(ahead[i]) /\ IsFiniteSet(ahead[j])
    BY <1>2
  <2>3. /\ Cardinality(ahead[i] \cup {i}) = Cardinality(ahead[i]) + 1
        /\ Cardinality(ahead[i] \cup {i}) <= Cardinality(ahead[j])
    BY <2>1, <2>2, FS_AddElement, FS_Subset
  <2>4. rank[i] \in Nat /\ rank[j] \in Nat
    BY <1>2
  <2> QED BY <2>3, <2>4
<1>4. rank \in [1..n -> 0..(n - 1)]
  BY <1>2
<1> HIDE DEF rank
<1>5. \A i \in 1..n, j \in 1..n : rank[i] = rank[j] => i = j
  <2> TAKE i \in 1..n, j \in 1..n
  <2>1. rank[i] \in Int /\ rank[j] \in Int
    BY <1>4
  <2> QED BY <1>3, <2>1
<1>6. rank \in Injection(1..n, 0..(n - 1))
  BY <1>4, <1>5 DEF Injection, IsInjective
<1>7. IsFiniteSet(0..(n - 1)) /\ Cardinality(0..(n - 1)) = n
  BY FS_Interval
<1>8. rank \in Surjection(1..n, 0..(n - 1))
  BY <1>1, <1>6, <1>7, FS_Injection
<1>9. \A m \in 0..(k - 1) : \E i \in A : r[i] = m
  <2> TAKE m \in 0..(k - 1)
  <2>1. m \in 0..(n - 1) /\ m < k
    OBVIOUS
  <2>2. PICK i \in 1..n : rank[i] = m
    BY <1>8, <2>1 DEF Surjection
  <2> QED BY <2>1, <2>2
<1>10. \A i \in A : r[i] \in 0..(k - 1)
  BY <1>4
<1>11. r \in Bijection(A, 0..(k - 1))
  <2>1. r \in [A -> 0..(k - 1)]
    BY <1>10
  <2>2. \A i, j \in A : r[i] = r[j] => i = j
    BY <1>5
  <2> HIDE DEF r, A
  <2> QED BY <1>9, <2>1, <2>2 DEF Bijection, Injection, Surjection, IsInjective
<1>12. IsFiniteSet(A)
  <2>1. A \in SUBSET (1..n)
    OBVIOUS
  <2> QED BY <1>1, <2>1, FS_Subset
<1>13. IsFiniteSet(0..(k - 1)) /\ Cardinality(0..(k - 1)) = k
  BY FS_Interval
<1> HIDE DEF A, r
<1>14. Cardinality(A) = k
  <2>1. ExistsBijection(A, 0..(k - 1))
    BY <1>11 DEF ExistsBijection
  <2> QED BY <1>12, <1>13, <2>1, FS_Bijection
<1>15. A = {i \in 1..n : Cardinality(ahead[i]) < k}
  BY DEF A, rank
<1> QED BY <1>14, <1>15

\* The quota of one weight, in whole units: below it unless it has all.
LEMMA Quota ==
    ASSUME NEW t \in Nat, NEW c \in Nat, NEW W \in Nat \ {0}
    PROVE  /\ (t * c) \div W \in Nat /\ (t * c) % W \in Nat /\ (t * c) % W < W
           /\ t * c = (W * ((t * c) \div W)) + ((t * c) % W)
<1>1. t * c \in Nat
  OBVIOUS
<1>2. (t * c) \div W \in Nat /\ (t * c) % W \in Nat /\ (t * c) % W < W
  BY <1>1, Division
<1>3. t * c = (W * ((t * c) \div W)) + ((t * c) % W)
  BY <1>1, Division
<1> QED BY <1>2, <1>3

LEMMA QuotaBound ==
    ASSUME NEW t \in Nat, NEW c \in Nat \ {0}, NEW W \in Nat \ {0}, t <= W,
           NEW q \in Nat, NEW r \in Nat, t * c = W * q + r
    PROVE  q <= c /\ (q = c => r = 0 /\ t = W)
<1>1. t * c <= W * c
  OBVIOUS
<1>2. CASE q >= c + 1
  <2>1. W * q >= W * (c + 1)
    BY <1>2
  <2>2. W * (c + 1) = W * c + W * 1 /\ W * 1 = W /\ W * c \in Int
    BY Distributes
  <2>3. W * q \in Int /\ t * c \in Int
    OBVIOUS
  <2> QED BY <1>1, <2>1, <2>2, <2>3
<1>3. CASE q = c
  <2>1. W * c \in Int /\ t * c \in Int /\ t * c = W * c + r
    BY <1>3
  <2>2. r = 0 /\ t * c = W * c
    BY <1>1, <2>1
  <2>3. t < W => t * c < W * c
    OBVIOUS
  <2>4. t = W
    BY <2>1, <2>2, <2>3
  <2> QED BY <1>3, <2>2, <2>4
<1>4. CASE q < c
  BY <1>4
<1> QED BY <1>2, <1>3, <1>4

\* Who shares the whole has no remainder.
LEMMA NoRest ==
    ASSUME NEW W \in Nat \ {0}, NEW c \in Nat, NEW q \in Nat, NEW r \in Nat, r < W,
           W * c = (W * q) + r
    PROVE  r = 0
<1> DEFINE d == c - q
<1>1. d \in Int /\ c = q + d
  OBVIOUS
<1> HIDE DEF d
<1>2. W * (q + d) = W * q + W * d /\ W * d \in Int /\ W * q \in Int
  BY <1>1, Distributes
<1>3. W * d = r
  BY <1>1, <1>2
<1>4. d >= 1 => W * d >= W
  BY <1>1
<1>5. d < 0 => W * d < 0
  BY <1>1
<1>6. d = 0 => W * d = 0
  BY <1>1
<1> QED BY <1>1, <1>3, <1>4, <1>5, <1>6

\* What is left after the quotas is less than the number of shares.
LEMMA LeftOver ==
    ASSUME NEW t \in Nat, NEW W \in Nat \ {0}, NEW Q \in Int, NEW R \in Nat,
           NEW n \in Nat \ {0}, t * W = W * Q + R, R < W * n
    PROVE  t - Q \in 0..(n - 1) /\ W * (t - Q) = R
<1> DEFINE d == t - Q
<1>1. d \in Int /\ t = Q + d
  OBVIOUS
<1> HIDE DEF d
<1>2. W * (Q + d) = W * Q + W * d /\ W * d \in Int /\ W * Q \in Int
  BY <1>1, Distributes
<1>3. t * W = W * t
  OBVIOUS
<1>4. W * d = R
  BY <1>1, <1>2, <1>3
<1>5. d >= 0
  <2>1. d < 0 => W * d < 0
    BY <1>1
  <2> QED BY <1>1, <1>4, <2>1
<1>6. d < n
  <2>1. d >= n => W * d >= W * n
    BY <1>1
  <2>2. W * n \in Int
    OBVIOUS
  <2> QED BY <1>1, <1>2, <1>4, <2>1, <2>2
<1> QED BY <1>1, <1>4, <1>5, <1>6 DEF d

\* Whoever is ahead in the order of the remainders, larger ones and earlier
\* indices first.
Ahead(n, rest, i) == {j \in 1..n : rest[j] > rest[i] \/ (rest[j] = rest[i] /\ j < i)}

LEMMA OrderOfRests ==
    ASSUME NEW n \in Nat \ {0}, NEW rest, \A i \in 1..n : rest[i] \in Nat, NEW k \in 0..n
    PROVE  Cardinality({i \in 1..n : Cardinality(Ahead(n, rest, i)) < k}) = k
<1> DEFINE ahead == [i \in 1..n |-> Ahead(n, rest, i)]
<1>1. \A i \in 1..n : ahead[i] \subseteq (1..n) \ {i}
  BY DEF Ahead
<1>2. \A i \in 1..n, j \in 1..n : i # j => i \in ahead[j] \/ j \in ahead[i]
  BY DEF Ahead
<1>3. \A i \in 1..n, j \in 1..n : i \in ahead[j] => ahead[i] \subseteq ahead[j]
  BY DEF Ahead
<1>4. \A i \in 1..n : ahead[i] = Ahead(n, rest, i)
  OBVIOUS
<1> HIDE DEF ahead
<1>5. Cardinality({i \in 1..n : Cardinality(ahead[i]) < k}) = k
  BY <1>1, <1>2, <1>3, FirstInOrder
<1>6. {i \in 1..n : Cardinality(ahead[i]) < k}
        = {i \in 1..n : Cardinality(Ahead(n, rest, i)) < k}
  BY <1>4
<1> QED BY <1>5, <1>6

\* proportional_split: the total, in shares no larger than their weights if
\* the weights make up the total.
LEMMA ProportionalSplit ==
    ASSUME NEW t \in Nat, NEW c \in Seq(Nat), Len(c) > 0, Sum(c) > 0
    PROVE  /\ proportional_split(t, c) \in [1..Len(c) -> Nat]
           /\ Sum(proportional_split(t, c)) = t
           /\ (t <= Sum(c) /\ \A i \in 1..Len(c) : c[i] > 0) =>
                \A i \in 1..Len(c) : proportional_split(t, c)[i] <= c[i]
<1> DEFINE n     == Len(c)
           W     == Sum(c)
           quota == [i \in 1..n |-> (t * c[i]) \div W]
           rest  == [i \in 1..n |-> (t * c[i]) % W]
           left  == t - Sum(quota)
           more  == [i \in 1..n |-> IF Cardinality(Ahead(n, rest, i)) < left THEN 1 ELSE 0]
           split == proportional_split(t, c)
<1>1. n \in Nat \ {0} /\ n \in Nat /\ DOMAIN c = 1..n /\ \A i \in 1..n : c[i] \in Nat
  OBVIOUS
<1>2. W = SumFunctionOnSet(c, 1..n) /\ W \in Nat \ {0}
  <2>1. W = SumFunctionOnSet(c, 1..n)
    BY <1>1 DEF Sum
  <2>2. SumsTo(c, n) \in [0..n -> Nat] /\ n \in 0..n
    BY <1>1, SumsOfNats
  <2>3. SumsTo(c, n)[n] = SumFunctionOnSet(c, 1..n)
    BY <2>2 DEF SumsTo
  <2>4. W \in Nat
    BY <2>1, <2>2, <2>3
  <2> QED BY <2>1, <2>4
<1>3. split = [i \in 1..n |-> quota[i] + more[i]]
  BY <1>2 DEF proportional_split, Ahead
<1>4. DOMAIN quota = 1..n
  OBVIOUS
<1>5. ASSUME NEW i \in 1..n
      PROVE  /\ quota[i] \in Nat /\ rest[i] \in Nat /\ rest[i] < W
             /\ t * c[i] = (W * quota[i]) + rest[i]
  <2>1. quota[i] = (t * c[i]) \div W /\ rest[i] = (t * c[i]) % W
    OBVIOUS
  <2> HIDE DEF quota, rest, W, n
  <2>2. c[i] \in Nat
    BY <1>1
  <2>3. /\ (t * c[i]) \div W \in Nat /\ (t * c[i]) % W \in Nat /\ (t * c[i]) % W < W
        /\ t * c[i] = (W * ((t * c[i]) \div W)) + ((t * c[i]) % W)
    BY <1>2, <2>2, Quota
  <2> QED BY <2>1, <2>3
<1>6. \A i \in 1..n : more[i] \in {0, 1}
                      /\ more[i] = IF Cardinality(Ahead(n, rest, i)) < left THEN 1 ELSE 0
  OBVIOUS
<1>7. Sum(quota) = SumFunctionOnSet(quota, 1..n)
  BY <1>4 DEF Sum
<1>8. left = t - SumFunctionOnSet(quota, 1..n)
  BY <1>7
<1> HIDE DEF n, W, quota, rest, left, more, split
<1> DEFINE Q == SumFunctionOnSet(quota, 1..n)
           R == SumFunctionOnSet(rest, 1..n)
<1>9. Q \in Int /\ R \in Nat /\ R < W * n
  <2>0. (\A i \in 1..n : quota[i] \in Int) /\ n \in 0..n
    BY <1>1, <1>5
  <2>1. SumsTo(quota, n) \in [0..n -> Int] /\ n \in 0..n
    BY <1>1, <2>0, SumsToGrow
  <2>2. SumsTo(quota, n)[n] = Q
    BY <2>1 DEF SumsTo
  <2>3. Q \in Int
    BY <2>1, <2>2
  <2>4. R \in Nat /\ R < W * n
    BY <1>1, <1>2, <1>5, SumIsBounded
  <2> QED BY <2>3, <2>4
<1>10. t * W = W * Q + R
  <2> DEFINE e == [i \in 1..n |-> t * c[i]]
             d == [i \in 1..n |-> W * quota[i]]
  <2>1. (\A i \in 1..n : e[i] = t * c[i]) /\ (\A i \in 1..n : d[i] = W * quota[i])
    OBVIOUS
  <2> HIDE DEF e, d
  <2>2. /\ \A i \in 1..n : c[i] \in Int
        /\ \A i \in 1..n : quota[i] \in Int
        /\ \A i \in 1..n : rest[i] \in Int
    BY <1>1, <1>5
  <2>0. t \in Int /\ W \in Int
    BY <1>2
  <2>3. SumFunctionOnSet(e, 1..n) = t * SumFunctionOnSet(c, 1..n)
    BY <1>1, <2>0, <2>1, <2>2, SumTimes
  <2>4. SumFunctionOnSet(d, 1..n) = W * Q
    <3>1. SumFunctionOnSet(d, 1..n) = W * SumFunctionOnSet(quota, 1..n)
      BY <1>1, <2>0, <2>1, <2>2, SumTimes
    <3> QED BY <3>1 DEF Q
  <2>5. ASSUME NEW i \in 1..n PROVE d[i] \in Int /\ e[i] = d[i] + rest[i]
    <3>1. W \in Int /\ quota[i] \in Int
      BY <1>2, <2>2
    <3>2. W * quota[i] \in Int
      BY <3>1
    <3> QED BY <1>5, <2>1, <3>2
  <2>6. SumFunctionOnSet(e, 1..n) = SumsTo(d, n)[n] + SumsTo(rest, n)[n]
    BY <1>1, <2>2, <2>5, SumOfSums
  <2>7. SumsTo(d, n)[n] = SumFunctionOnSet(d, 1..n) /\ SumsTo(rest, n)[n] = R
    <3>1. n \in 0..n
      BY <1>1
    <3> QED BY <3>1 DEF SumsTo
  <2> QED BY <1>2, <2>3, <2>4, <2>6, <2>7
<1> HIDE DEF Q, R
<1>11. left \in 0..(n - 1) /\ W * left = R
  <2>1. left = t - Q
    BY <1>8 DEF Q
  <2>2. t - Q \in 0..(n - 1) /\ W * (t - Q) = R
    <3>1. /\ W \in Nat \ {0} /\ Q \in Int /\ R \in Nat /\ n \in Nat \ {0}
          /\ t * W = W * Q + R /\ R < W * n
      BY <1>1, <1>2, <1>9, <1>10
    <3> QED BY <3>1, LeftOver
  <2> QED BY <2>1, <2>2
<1>12. SumFunctionOnSet(more, 1..n) = left
  <2> DEFINE A == {i \in 1..n : Cardinality(Ahead(n, rest, i)) < left}
  <2>1. Cardinality(A) = left
    <3>1. left \in 0..n
      BY <1>1, <1>11
    <3> QED BY <1>1, <1>5, <3>1, OrderOfRests
  <2>2. A \in SUBSET (1..n)
    OBVIOUS
  <2>3. \A i \in 1..n : more[i] = IF i \in A THEN 1 ELSE 0
    BY <1>6
  <2> HIDE DEF A
  <2> QED BY <1>1, <2>1, <2>2, <2>3, SumOfMembers
<1>13. \A i \in 1..n : split[i] = quota[i] + more[i] /\ more[i] \in Int /\ quota[i] \in Int
  BY <1>3, <1>5, <1>6
<1>14. SumFunctionOnSet(split, 1..n) = t
  <2>1. SumFunctionOnSet(split, 1..n) = SumsTo(quota, n)[n] + SumsTo(more, n)[n]
    BY <1>1, <1>13, SumOfSums
  <2>2. SumsTo(quota, n)[n] = Q /\ SumsTo(more, n)[n] = left
    <3>1. n \in 0..n
      BY <1>1
    <3> QED BY <1>12, <3>1 DEF SumsTo, Q
  <2>3. left = t - Q
    BY <1>8 DEF Q
  <2> QED BY <1>9, <2>1, <2>2, <2>3
<1>15. split \in [1..n -> Nat]
  <2>1. \A i \in 1..n : quota[i] + more[i] \in Nat
    BY <1>5, <1>6
  <2> QED BY <1>3, <2>1
<1>16. ASSUME t <= W, NEW i \in 1..n, c[i] > 0 PROVE split[i] <= c[i]
  <2>1. c[i] \in Nat \ {0} /\ quota[i] \in Nat /\ rest[i] \in Nat
        /\ t * c[i] = (W * quota[i]) + rest[i]
    BY <1>1, <1>5, <1>16
  <2>0. \A k \in Nat \ {0}, q \in Nat, s \in Nat :
          t * k = (W * q) + s => q <= k /\ (q = k => t = W)
    <3>1. W \in Nat \ {0} /\ t <= W
      BY <1>2, <1>16
    <3> QED BY <3>1, QuotaBound
  <2>2. quota[i] <= c[i] /\ (quota[i] = c[i] => t = W)
    BY <2>0, <2>1
  <2>3. CASE quota[i] < c[i]
    BY <1>6, <1>13, <2>1, <2>3, SMTT(30)
  <2>4. CASE quota[i] = c[i]
    <3>1. t = W
      BY <2>2, <2>4
    <3>2. \A j \in 1..n : rest[j] = 0
      <4> TAKE j \in 1..n
      <4>1. c[j] \in Nat /\ quota[j] \in Nat /\ rest[j] \in Nat /\ rest[j] < W
            /\ t * c[j] = (W * quota[j]) + rest[j]
        BY <1>1, <1>5
      <4> QED BY <1>2, <3>1, <4>1, NoRest
    <3>3. left = 0
      <4> DEFINE z == [j \in 0..n |-> 0]
      <4>1. \A j \in 1..n : rest[j] = 0 /\ z[j] = z[j - 1] + rest[j]
        <5>1. \A j \in 1..n : z[j] = 0 /\ z[j - 1] = 0
          BY <1>1
        <5> HIDE DEF z
        <5> QED BY <3>2, <5>1
      <4>2. z[0] = 0 /\ z[n] = 0
        BY <1>1
      <4> HIDE DEF z
      <4>3. SumFunctionOnSet(rest, 1..n) = z[n]
        <5>1. n \in Nat /\ \A j \in 1..n : rest[j] \in Int
          BY <1>1, <4>1
        <5>2. z[0] = 0 /\ \A j \in 1..n : z[j] = z[j - 1] + rest[j]
          BY <4>1, <4>2
        <5> QED BY ONLY <5>1, <5>2, SumIsTotal
      <4>4. R = 0
        BY <4>2, <4>3 DEF R
      <4>5. left # 0 => W * left >= W
        BY <1>2, <1>11
      <4> QED BY <1>2, <1>11, <4>4, <4>5
    <3>4. Cardinality(Ahead(n, rest, i)) \in Nat
      <4>1. Ahead(n, rest, i) \in SUBSET (1..n) /\ IsFiniteSet(1..n)
        BY <1>1, FS_Interval DEF Ahead
      <4> QED BY <4>1, FS_Subset, FS_CardinalityType
    <3>5. more[i] = 0
      BY <1>6, <3>3, <3>4
    <3> QED BY <1>13, <2>1, <2>4, <3>5
  <2> QED BY <2>1, <2>2, <2>3, <2>4
<1>17. Sum(split) = t
  BY <1>14, <1>15 DEF Sum
<1> QED BY <1>15, <1>16, <1>17 DEF n, W, split

\* The even shares of a larger total are no smaller.
LEMMA EvenGrows ==
    ASSUME NEW t \in Nat, NEW d \in Nat, t <= d, NEW n \in Nat \ {0}, NEW i \in 0..(n - 1)
    PROVE  ShardCount(t, n, i) <= ShardCount(d, n, i)
<1> DEFINE q == t \div n
           r == t % n
           p == d \div n
           s == d % n
<1>1. q \in Nat /\ r \in Nat /\ r < n /\ t = n * q + r
  BY Division
<1>2. p \in Nat /\ s \in Nat /\ s < n /\ d = n * p + s
  BY Division
<1>3. /\ ShardCount(t, n, i) = q + (IF i < r THEN 1 ELSE 0)
      /\ ShardCount(d, n, i) = p + (IF i < s THEN 1 ELSE 0)
  BY DEF ShardCount
<1> HIDE DEF q, r, p, s
<1>4. n * q \in Int /\ n * p \in Int
  BY <1>1, <1>2
<1>5. CASE q < p
  BY <1>1, <1>2, <1>3, <1>5
<1>6. CASE q = p
  <2>1. n * q = n * p
    BY <1>6
  <2>2. r <= s
    BY <1>1, <1>2, <1>4, <2>1
  <2> QED BY <1>1, <1>2, <1>3, <1>6, <2>2
<1>7. CASE q > p
  <2>1. q >= p + 1
    BY <1>1, <1>2, <1>7
  <2>2. n * q >= n * (p + 1)
    BY <1>1, <1>2, <2>1
  <2>3. n * (p + 1) = n * p + n * 1 /\ n * 1 = n
    BY <1>2, Distributes
  <2> QED BY <1>1, <1>2, <1>4, <2>2, <2>3
<1> QED BY <1>1, <1>2, <1>5, <1>6, <1>7

\* As many ones as there are.
LEMMA SumOfOnes ==
    ASSUME NEW n \in Nat, NEW f, \A i \in 1..n : f[i] = 1
    PROVE  SumFunctionOnSet(f, 1..n) = n
<1>1. \A i \in 1..n : f[i] = IF i \in 1..n THEN 1 ELSE 0
  OBVIOUS
<1>2. (1..n) \in SUBSET (1..n) /\ Cardinality(1..n) = n
  BY FS_Interval
<1>3. SumFunctionOnSet(f, 1..n) = Cardinality(1..n)
  BY <1>1, <1>2, SumOfMembers
<1> QED BY <1>2, <1>3

\* proportional_split_min1: the total, one for each if there is one for each.
LEMMA ProportionalSplitMin1 ==
    ASSUME NEW t \in Nat, NEW c \in Seq(Nat), Len(c) > 0, Sum(c) > 0, Sum(c) \in Nat
    PROVE  /\ proportional_split_min1(t, c) \in [1..Len(c) -> Nat]
           /\ Sum(proportional_split_min1(t, c)) = t
           /\ t >= Len(c) => \A i \in 1..Len(c) : proportional_split_min1(t, c)[i] > 0
<1> DEFINE n     == Len(c)
           extra == proportional_split(t - n, c)
           split == proportional_split_min1(t, c)
           one   == [i \in 1..n |-> 1]
<1>1. n \in Nat \ {0} /\ DOMAIN c = 1..n
  OBVIOUS
<1>2. CASE t < n
  <2>1. split = proportional_split(t, c)
    BY <1>2 DEF proportional_split_min1
  <2>2. split \in [1..n -> Nat] /\ Sum(split) = t
    BY <2>1, ProportionalSplit
  <2>3. ~(t >= n)
    BY <1>1, <1>2
  <2> QED BY <2>2, <2>3
<1>3. CASE t >= n
  <2>1. split = [i \in 1..n |-> extra[i] + 1]
    <3>1. ~(t < n) /\ ~(Sum(c) = 0)
      BY <1>1, <1>3
    <3> QED BY <1>1, <3>1 DEF proportional_split_min1
  <2>2. t - n \in Nat
    BY <1>1, <1>3
  <2>3. extra \in [1..n -> Nat] /\ Sum(extra) = t - n
    BY <2>2, ProportionalSplit
  <2>4. one \in [1..n -> Nat] /\ \A i \in 1..n : one[i] = 1
    OBVIOUS
  <2> HIDE DEF n, extra, one
  <2>5. SumFunctionOnSet(one, 1..n) = n
    BY <1>1, <2>4, SumOfOnes
  <2>6. SumFunctionOnSet(extra, 1..n) = t - n
    BY <2>3 DEF Sum
  <2>7. \A i \in 1..n : split[i] = extra[i] + one[i]
    BY <2>1, <2>4
  <2>8. \A i \in 1..n : extra[i] \in Int /\ one[i] \in Int
    BY <2>3, <2>4
  <2>9. SumFunctionOnSet(split, 1..n) = SumsTo(extra, n)[n] + SumsTo(one, n)[n]
    <3> HIDE DEF split
    <3> QED BY <1>1, <2>7, <2>8, SumOfSums
  <2>10. SumsTo(extra, n)[n] = t - n /\ SumsTo(one, n)[n] = n
    <3>1. n \in 0..n
      BY <1>1
    <3> QED BY <2>5, <2>6, <3>1 DEF SumsTo
  <2>11. SumFunctionOnSet(split, 1..n) = t
    BY <1>1, <2>2, <2>9, <2>10
  <2>12. split \in [1..n -> Nat] /\ \A i \in 1..n : split[i] > 0
    <3>1. \A i \in 1..n : extra[i] + 1 \in Nat /\ extra[i] + 1 > 0
      BY <2>3
    <3> QED BY <2>1, <3>1
  <2>13. Sum(split) = t
    BY <2>11, <2>12 DEF Sum
  <2> QED BY <2>12, <2>13 DEF n
<1> QED BY <1>1, <1>2, <1>3

\* The sum of positive numbers.
LEMMA SumOfPositives ==
    ASSUME NEW c \in Seq(Nat), Len(c) > 0, \A i \in 1..Len(c) : c[i] > 0
    PROVE  Sum(c) \in Nat /\ Sum(c) > 0
<1> DEFINE n == Len(c)
<1>1. n \in Nat \ {0} /\ n \in Nat /\ DOMAIN c = 1..n /\ \A i \in 1..n : c[i] \in Nat
  OBVIOUS
<1>2. Sum(c) = SumFunctionOnSet(c, 1..n)
  BY <1>1 DEF Sum
<1> HIDE DEF n
<1>3. n \in 0..n /\ n - 1 \in 0..n /\ n \in 1..n /\ c[n] > 0 /\ c[n] \in Nat
  BY <1>1 DEF n
<1>4. /\ SumsTo(c, n) \in [0..n -> Nat]
      /\ SumsTo(c, n)[n] = SumsTo(c, n)[n - 1] + c[n]
  <2>1. SumsTo(c, n) \in [0..n -> Nat]
    BY <1>1, SumsOfNats
  <2>2. \A i \in 1..n : c[i] \in Int
    BY <1>1
  <2>3. \A i \in 1..n : SumsTo(c, n)[i] = SumsTo(c, n)[i - 1] + c[i]
    BY <1>1, <2>2, SumsToGrow
  <2> QED BY <1>3, <2>1, <2>3
<1>5. SumsTo(c, n)[n] = Sum(c)
  BY <1>2, <1>3 DEF SumsTo
<1>6. SumsTo(c, n)[n - 1] \in Nat
  BY <1>3, <1>4
<1> QED BY <1>3, <1>4, <1>5, <1>6

LEMMA SumOfOne ==
    ASSUME NEW f, f[1] \in Int
    PROVE  SumFunctionOnSet(f, 1..1) = f[1]
<1>1. SumFunctionOnSet(f, 1..1) = SumFunctionOnSet(f, 1..(1 - 1)) + f[1]
  <2>1. 1 \in Nat \ {0} /\ \A i \in 1..1 : f[i] \in Int
    <3>1. \A i \in 1..1 : i = 1
      OBVIOUS
    <3> QED BY <3>1
  <2> QED BY <2>1, SumOfPrefix
<1>2. 1..(1 - 1) = {}
  OBVIOUS
<1>3. SumFunctionOnSet(f, 1..(1 - 1)) = 0
  BY <1>2, SumOfNone
<1> QED BY <1>1, <1>3

\* reduce_pool_profile: the shares add up to the number that is shared.
LEMMA SharesAddUp ==
    ASSUME NEW kind, NEW t \in Nat, NEW c \in Seq(Nat), Len(c) > 0,
           \A i \in 1..Len(c) : c[i] > 0, NEW weighted \in BOOLEAN
    PROVE  /\ Shares(kind, t, c, weighted) \in [1..Len(c) -> Nat]
           /\ Sum(Shares(kind, t, c, weighted)) = t
<1> DEFINE n == Len(c)
           S == Shares(kind, t, c, weighted)
<1>1. n \in Nat \ {0}
  OBVIOUS
<1>2. Sum(c) \in Nat /\ Sum(c) > 0
  BY SumOfPositives
<1>3. CASE n = 1
  <2>1. S = [i \in 1..n |-> t]
    BY <1>3 DEF Shares
  <2>2. S \in [1..1 -> Nat] /\ S[1] = t
    BY <1>3, <2>1
  <2> HIDE DEF S, n
  <2>3. SumFunctionOnSet(S, 1..1) = t
    <3>1. S[1] \in Int
      BY <2>2
    <3> QED BY <2>2, <3>1, SumOfOne
  <2>4. Sum(S) = t
    BY <2>2, <2>3 DEF Sum
  <2>5. S \in [1..n -> Nat]
    BY <1>3, <2>2
  <2> QED BY <2>4, <2>5 DEF S, n
<1>4. CASE n > 1 /\ ~weighted
  <2>1. S = EvenCounts(t, n)
    BY <1>4 DEF Shares
  <2>2. S \in [1..n -> Nat] /\ SumFunctionOnSet(S, 1..n) = t
    BY <1>1, <2>1, EvenCountsSum
  <2> QED BY <2>2 DEF Sum
<1>5. CASE n > 1 /\ weighted /\ kind = "fixed"
  <2>1. S = proportional_split_min1(t, c)
    BY <1>5 DEF Shares
  <2> QED BY <1>2, <2>1, ProportionalSplitMin1
<1>6. CASE n > 1 /\ weighted /\ kind # "fixed"
  <2>1. S = proportional_split(t, c)
    BY <1>6 DEF Shares
  <2> QED BY <1>2, <2>1, ProportionalSplit
<1>7. n = 1 \/ n > 1
  <2> HIDE DEF n
  <2> QED BY <1>1
<1> QED BY <1>3, <1>4, <1>5, <1>6, <1>7, Zenon

\* Of a fixed rate everyone has some, if there is one for each.
LEMMA EveryoneHasAShare ==
    ASSUME NEW t \in Nat, NEW c \in Seq(Nat), Len(c) > 0, t >= Len(c),
           \A i \in 1..Len(c) : c[i] > 0, NEW weighted \in BOOLEAN
    PROVE  \A i \in 1..Len(c) : Shares("fixed", t, c, weighted)[i] > 0
<1> DEFINE n == Len(c)
           S == Shares("fixed", t, c, weighted)
<1>1. n \in Nat \ {0}
  OBVIOUS
<1>2. Sum(c) \in Nat /\ Sum(c) > 0
  BY SumOfPositives
<1>3. CASE n = 1
  <2>1. S = [i \in 1..n |-> t]
    BY <1>3 DEF Shares
  <2>2. t > 0
    BY <1>3
  <2> QED BY <2>1, <2>2
<1>4. CASE n > 1 /\ ~weighted
  <2>1. S = EvenCounts(t, n)
    BY <1>4 DEF Shares
  <2>2. \A i \in 0..(n - 1) : ShardCount(t, n, i) > 0
    BY <1>1, EvenSplit
  <2>3. \A i \in 1..n : i - 1 \in 0..(n - 1)
    BY <1>1
  <2> QED BY <2>1, <2>2, <2>3 DEF EvenCounts
<1>5. CASE n > 1 /\ weighted
  <2>1. S = proportional_split_min1(t, c)
    BY <1>5 DEF Shares
  <2> QED BY <1>2, <2>1, ProportionalSplitMin1
<1>6. n = 1 \/ n > 1
  <2> HIDE DEF n
  <2> QED BY <1>1
<1> QED BY <1>3, <1>4, <1>5, <1>6, Zenon

\* No share of a stage is larger than its worker's slots: of a stage that asks
\* for no more than all of them, divided as they are divided.
LEMMA SharesWithinSlots ==
    ASSUME NEW t \in Nat, NEW c \in Seq(Nat), Len(c) > 0,
           \A i \in 1..Len(c) : c[i] > 0, t <= Sum(c), NEW weighted \in BOOLEAN,
           ~weighted => c = EvenCounts(Sum(c), Len(c))
    PROVE  \A i \in 1..Len(c) : Shares("curve", t, c, weighted)[i] <= c[i]
<1> DEFINE n == Len(c)
           S == Shares("curve", t, c, weighted)
<1>1. n \in Nat \ {0}
  OBVIOUS
<1>2. Sum(c) \in Nat /\ Sum(c) > 0
  BY SumOfPositives
<1>3. CASE n = 1
  <2>1. S = [i \in 1..n |-> t]
    BY <1>3 DEF Shares
  <2>2. Sum(c) = c[1]
    <3>1. Sum(c) = SumFunctionOnSet(c, 1..1) /\ c[1] \in Nat
      BY <1>3 DEF Sum
    <3>2. c[1] \in Int
      BY <3>1
    <3> QED BY <3>1, <3>2, SumOfOne
  <2> QED BY <1>3, <2>1, <2>2
<1>4. CASE n > 1 /\ ~weighted
  <2>1. S = EvenCounts(t, n) /\ c = EvenCounts(Sum(c), n)
    BY <1>4 DEF Shares
  <2>2. \A i \in 0..(n - 1) : ShardCount(t, n, i) <= ShardCount(Sum(c), n, i)
    BY <1>1, <1>2, EvenGrows
  <2>3. \A i \in 1..n : i - 1 \in 0..(n - 1)
    BY <1>1
  <2>4. /\ \A i \in 1..n : EvenCounts(t, n)[i] = ShardCount(t, n, i - 1)
        /\ \A i \in 1..n : EvenCounts(Sum(c), n)[i] = ShardCount(Sum(c), n, i - 1)
    BY DEF EvenCounts
  <2>5. \A i \in 1..n : EvenCounts(t, n)[i] <= EvenCounts(Sum(c), n)[i]
    BY <2>2, <2>3, <2>4
  <2> HIDE DEF S
  <2>6. \A i \in 1..n : S[i] <= c[i]
    BY <2>1, <2>5, Zenon
  <2> QED BY <2>6 DEF S
<1>5. CASE n > 1 /\ weighted
  <2>1. S = proportional_split(t, c)
    BY <1>5 DEF Shares
  <2> QED BY <1>2, <2>1, ProportionalSplit
<1>6. n = 1 \/ n > 1
  <2> HIDE DEF n
  <2> QED BY <1>1
<1> QED BY <1>3, <1>4, <1>5, <1>6, Zenon

----------------------------------------------------------------------------
(***************************************************************************)
(* The launches.                                                           *)
(***************************************************************************)

\* What Tile says, of the shards that are to be.
Tiles(offset, count, total, n) ==
    /\ \A i \in 1..n :
         /\ count[i] > 0
         /\ offset[i] = IF i = 1 THEN 0 ELSE offset[i - 1] + count[i - 1]
    /\ offset[n] + count[n] = total

LEMMA EvenTiles ==
    ASSUME NEW t \in Nat, NEW n \in Nat \ {0}, t >= n
    PROVE  Tiles([i \in 1..n |-> ShardOffset(t, n, i - 1)],
                 [i \in 1..n |-> ShardCount(t, n, i - 1)], t, n)
<1> DEFINE o == [i \in 1..n |-> ShardOffset(t, n, i - 1)]
           k == [i \in 1..n |-> ShardCount(t, n, i - 1)]
<1>1. /\ ShardOffset(t, n, 0) = 0 /\ ShardOffset(t, n, n) = t
      /\ \A i \in 0..(n - 1) :
           /\ ShardOffset(t, n, i + 1) = ShardOffset(t, n, i) + ShardCount(t, n, i)
           /\ ShardCount(t, n, i) > 0
  BY EvenSplit
<1>2. ASSUME NEW i \in 1..n
      PROVE  /\ k[i] > 0
             /\ i = 1 => o[i] = 0
             /\ ShardOffset(t, n, i) = o[i] + k[i]
             /\ i # 1 => o[i] = o[i - 1] + k[i - 1]
  <2>1. i - 1 \in 0..(n - 1) /\ (i - 1) + 1 = i
    OBVIOUS
  <2>2. k[i] > 0 /\ ShardOffset(t, n, i) = o[i] + k[i]
    BY <1>1, <2>1
  <2>3. ASSUME i # 1 PROVE o[i] = o[i - 1] + k[i - 1]
    <3>1. i - 1 \in 1..n /\ (i - 1) - 1 \in 0..(n - 1) /\ ((i - 1) - 1) + 1 = i - 1
      BY <2>3
    <3>2. o[i - 1] = ShardOffset(t, n, (i - 1) - 1) /\ k[i - 1] = ShardCount(t, n, (i - 1) - 1)
      BY <3>1
    <3>3. o[i] = ShardOffset(t, n, i - 1)
      OBVIOUS
    <3>4. ShardOffset(t, n, i - 1)
            = ShardOffset(t, n, (i - 1) - 1) + ShardCount(t, n, (i - 1) - 1)
      BY <1>1, <3>1
    <3> QED BY <3>2, <3>3, <3>4
  <2>4. i = 1 => o[i] = 0
    BY <1>1
  <2> QED BY <2>2, <2>3, <2>4
<1>3. n \in 1..n
  OBVIOUS
<1> HIDE DEF o, k
<1> SUFFICES Tiles(o, k, t, n)
  BY DEF o, k
<1>4. o[n] + k[n] = t
  BY <1>1, <1>2, <1>3
<1> QED BY <1>2, <1>4 DEF Tiles

\* In the order of the workers, each shard begins where the one before ends.
LEMMA SplitTiles ==
    ASSUME NEW n \in Nat \ {0}, NEW t \in Nat, NEW k \in [1..n -> Nat],
           \A i \in 1..n : k[i] > 0, Sum(k) = t
    PROVE  Tiles([i \in 1..n |-> Sum([j \in 1..(i - 1) |-> k[j]])], k, t, n)
<1> DEFINE o == [i \in 1..n |-> Sum([j \in 1..(i - 1) |-> k[j]])]
           K == SumsTo(k, n)
<1>0. n \in Nat /\ \A i \in 1..n : k[i] \in Int
  OBVIOUS
<1>1. K \in [0..n -> Int] /\ K[0] = 0 /\ \A i \in 1..n : K[i] = K[i - 1] + k[i]
  BY <1>0, SumsToGrow
<1>2. ASSUME NEW i \in 1..n PROVE o[i] = K[i - 1]
  <2> DEFINE e == [j \in 1..(i - 1) |-> k[j]]
  <2>1. DOMAIN e = 1..(i - 1) /\ \A j \in 1..(i - 1) : e[j] = k[j]
    OBVIOUS
  <2>2. IsFiniteSet(1..(i - 1)) /\ i - 1 \in 0..n
    <3>1. i - 1 \in 0..n
      OBVIOUS
    <3> QED BY <3>1, FS_Interval
  <2>3. o[i] = Sum(e)
    OBVIOUS
  <2> HIDE DEF e, o
  <2>4. SumFunctionOnSet(e, 1..(i - 1)) = SumFunctionOnSet(k, 1..(i - 1))
    BY <2>1, <2>2, SumOfEqual
  <2> QED BY <2>1, <2>2, <2>3, <2>4 DEF Sum, SumsTo
<1>3. K[n] = t
  BY DEF Sum, SumsTo
<1> HIDE DEF o, K
<1>4. ASSUME NEW i \in 1..n
      PROVE  o[i] = IF i = 1 THEN 0 ELSE o[i - 1] + k[i - 1]
  <2>1. CASE i = 1
    <3>1. i - 1 = 0
      BY <2>1
    <3> QED BY <1>1, <1>2, <2>1, <3>1
  <2>2. CASE i # 1
    <3>1. i - 1 \in 1..n
      BY <2>2
    <3>2. o[i] = K[i - 1] /\ o[i - 1] = K[(i - 1) - 1] /\ K[i - 1] = K[(i - 1) - 1] + k[i - 1]
      BY <1>1, <1>2, <3>1
    <3> QED BY <2>2, <3>2
  <2> QED BY <2>1, <2>2
<1>5. o[n] + k[n] = t
  <2>1. n \in 1..n
    OBVIOUS
  <2>2. o[n] = K[n - 1] /\ K[n] = K[n - 1] + k[n]
    BY <1>1, <1>2, <2>1
  <2> QED BY <1>3, <2>2
<1>6. Tiles(o, k, t, n)
  BY <1>4, <1>5 DEF Tiles
<1> QED BY <1>6 DEF o

\* worker_count: enough workers for the capacity of each, and none too many.
LEMMA EnoughWorkers ==
    ASSUME NEW t \in Nat \ {0}, NEW capacity \in Nat, NEW n, n = worker_count(t, capacity)
    PROVE  /\ n \in Nat \ {0} /\ n <= t
           /\ \A i \in 0..(n - 1) : ShardCount(t, n, i) <= AtLeastOne(capacity)
<1> DEFINE c == AtLeastOne(capacity)
           m == (t + c - 1) \div c
<1>1. c \in Nat \ {0}
  BY DEF AtLeastOne, Greater
<1>2. n = AtLeastOne(m)
  BY DEF worker_count
<1>3. /\ m \in Nat
      /\ (t + c - 1) = c * m + ((t + c - 1) % c)
      /\ (t + c - 1) % c \in Nat /\ (t + c - 1) % c < c
  <2> HIDE DEF c
  <2>1. t + c - 1 \in Nat
    BY <1>1
  <2> QED BY <1>1, <2>1, Division
<1> DEFINE s == (t + c - 1) % c
<1> HIDE DEF c, m, s
<1>4. m \in Nat /\ s \in Nat /\ s < c /\ t + c - 1 = c * m + s
  BY <1>3 DEF s, m
<1>5. c * m \in Nat /\ c * m >= t
  BY <1>1, <1>4
<1>6. m <= t
  <2> SUFFICES ASSUME m > t PROVE FALSE
    BY <1>4
  <2>1. c * m >= c * (t + 1)
    BY <1>1, <1>4
  <2>2. c * (t + 1) = c * t + c
    BY <1>1
  <2>3. c * t >= t /\ c * t \in Nat
    BY <1>1
  <2> QED BY <1>1, <1>4, <1>5, <2>1, <2>2, <2>3
<1>7. m # 0
  <2>1. m = 0 => c * m = 0
    BY <1>1
  <2> QED BY <1>5, <2>1
<1>8. n = m
  BY <1>2, <1>4, <1>7 DEF AtLeastOne, Greater
<1>9. ASSUME NEW i \in 0..(n - 1) PROVE ShardCount(t, n, i) <= c
  <2> DEFINE q == t \div n
             r == t % n
  <2>1. /\ q \in Nat /\ r \in Nat /\ r < n
        /\ t = n * q + r
    BY <1>4, <1>7, <1>8, Division
  <2>2. ShardCount(t, n, i) = q + (IF i < r THEN 1 ELSE 0)
    BY DEF ShardCount
  <2> HIDE DEF q, r
  <2>3. n \in Nat \ {0} /\ n * c \in Nat /\ n * c >= t
    BY <1>1, <1>4, <1>5, <1>7, <1>8
  <2>4. ASSUME q >= c PROVE r = 0 /\ q = c
    <3>1. n * q = n * c + n * (q - c)
      BY <1>1, <2>1, <2>3
    <3>2. n * (q - c) >= q - c
      BY <1>1, <2>1, <2>3, <2>4
    <3>3. n * q \in Nat /\ n * (q - c) \in Int
      BY <1>1, <2>1, <2>3
    <3> QED BY <1>1, <2>1, <2>3, <2>4, <3>1, <3>2, <3>3
  <2> QED BY <1>1, <2>1, <2>2, <2>4
<1> QED BY <1>4, <1>6, <1>7, <1>8, <1>9 DEF c

\* Shards that tile a total lie within it.
LEMMA TilesWithin ==
    ASSUME NEW offset, NEW count, NEW total \in Nat, NEW n \in Nat \ {0},
           \A i \in 1..n : count[i] \in Nat, Tiles(offset, count, total, n)
    PROVE  \A i \in 1..n : offset[i] \in Nat /\ offset[i] + count[i] <= total
<1> DEFINE Up   == {k \in Nat : k + 1 \in 1..n => offset[k + 1] \in Nat}
           Down == {k \in Nat : n - k \in 1..n => offset[n - k] + count[n - k] <= total}
<1>1. /\ \A i \in 1..n : count[i] > 0 /\ (i # 1 => offset[i] = offset[i - 1] + count[i - 1])
      /\ offset[1] = 0 /\ offset[n] + count[n] = total
  <2>1. 1 \in 1..n
    OBVIOUS
  <2> QED BY <2>1 DEF Tiles
<1>2. Up = Nat
  <2>1. 0 \in Up
    BY <1>1
  <2>2. ASSUME NEW k \in Nat, k \in Up PROVE k + 1 \in Up
    <3> SUFFICES ASSUME (k + 1) + 1 \in 1..n PROVE offset[(k + 1) + 1] \in Nat
      OBVIOUS
    <3>1. k + 1 \in 1..n /\ offset[k + 1] \in Nat
      BY <2>2
    <3>2. offset[(k + 1) + 1] = offset[k + 1] + count[k + 1]
      <4>1. (k + 1) + 1 # 1 /\ ((k + 1) + 1) - 1 = k + 1
        OBVIOUS
      <4> QED BY <1>1, <4>1
    <3> QED BY <3>1, <3>2
  <2> HIDE DEF Up
  <2>3. Up \in SUBSET Nat
    BY DEF Up
  <2> QED BY <2>1, <2>2, <2>3, Inductive
<1>3. \A i \in 1..n : offset[i] \in Nat
  <2> SUFFICES ASSUME NEW i \in 1..n PROVE offset[i] \in Nat
    OBVIOUS
  <2>1. \A k \in Nat : k + 1 \in 1..n => offset[k + 1] \in Nat
    BY <1>2
  <2>2. i - 1 \in Nat /\ (i - 1) + 1 = i
    OBVIOUS
  <2> QED BY <2>1, <2>2
<1>4. Down = Nat
  <2>1. 0 \in Down
    <3>1. n - 0 = n
      OBVIOUS
    <3> QED BY <1>1, <1>3, <3>1
  <2>2. ASSUME NEW k \in Nat, k \in Down PROVE k + 1 \in Down
    <3> SUFFICES ASSUME n - (k + 1) \in 1..n
                 PROVE  offset[n - (k + 1)] + count[n - (k + 1)] <= total
      OBVIOUS
    <3>1. n - k \in 1..n /\ n - k # 1 /\ (n - k) - 1 = n - (k + 1)
      OBVIOUS
    <3>2. offset[n - k] + count[n - k] <= total
      BY <2>2, <3>1
    <3>3. offset[n - k] = offset[n - (k + 1)] + count[n - (k + 1)] /\ count[n - k] > 0
      BY <1>1, <3>1
    <3>4. offset[n - k] \in Nat /\ count[n - k] \in Nat
      BY <1>3, <3>1
    <3> QED BY <3>2, <3>3, <3>4
  <2> HIDE DEF Down
  <2>3. Down \in SUBSET Nat
    BY DEF Down
  <2> QED BY <2>1, <2>2, <2>3, Inductive
<1>5. ASSUME NEW i \in 1..n PROVE offset[i] + count[i] <= total
  <2>1. \A k \in Nat : n - k \in 1..n => offset[n - k] + count[n - k] <= total
    BY <1>4
  <2>2. n - i \in Nat /\ n - (n - i) = i
    OBVIOUS
  <2> QED BY <2>1, <2>2
<1> QED BY <1>3, <1>5

\* A load l in n shards, one worker after the other, with a row for each.
Divided(l, n, counts, offsets) ==
    /\ n \in Nat \ {0} /\ Len(counts) = n
    /\ \A i \in 1..n : counts[i] \in Nat
    /\ Tiles(offsets, counts, l.slots, n)
    /\ l.rows \in Nat /\ (l.kind = "closed" => l.rows >= n)

\* What assignment_for gives then.
Complete(l, n, counts, offsets, given) ==
    /\ DOMAIN given = 1..n /\ Len(given) = n
    /\ \A i \in 1..n : given[i].count = counts[i] /\ given[i].offset = offsets[i]
    /\ l.kind = "closed" =>
         /\ \A i \in 1..n :
              /\ given[i].rows > 0
              /\ given[i].rowOffset = IF i = 1 THEN 0
                   ELSE given[i - 1].rowOffset + given[i - 1].rows
         /\ given[n].rowOffset + given[n].rows = l.rows

\* assignment_for: the ranges of the VUs as they were counted, those of the rows
\* evenly.
LEMMA ShardsTile ==
    ASSUME NEW l, NEW n, NEW counts, NEW offsets, Divided(l, n, counts, offsets)
    PROVE  Complete(l, n, counts, offsets, ShardsOf(l, counts, offsets))
<1> DEFINE given == ShardsOf(l, counts, offsets)
<1>0. /\ n \in Nat \ {0} /\ Len(counts) = n
      /\ Tiles(offsets, counts, l.slots, n)
      /\ l.rows \in Nat /\ (l.kind = "closed" => l.rows >= n)
  BY DEF Divided
<1>1. given = [i \in 1..n |-> [offset |-> offsets[i], count |-> counts[i],
                               rowOffset |-> ShardOffset(l.rows, n, i - 1),
                               rows |-> ShardCount(l.rows, n, i - 1)]]
  BY <1>0 DEF ShardsOf
<1> HIDE DEF given
<1>2. DOMAIN given = 1..n /\ Len(given) = n
  BY <1>0, <1>1
<1>3. /\ \A i \in 1..n : /\ given[i].offset = offsets[i] /\ given[i].count = counts[i]
                         /\ given[i].rowOffset = ShardOffset(l.rows, n, i - 1)
                         /\ given[i].rows = ShardCount(l.rows, n, i - 1)
  BY <1>1
<1>4. ASSUME l.kind = "closed"
      PROVE  /\ \A i \in 1..n :
                  /\ given[i].rows > 0
                  /\ given[i].rowOffset = IF i = 1 THEN 0
                       ELSE given[i - 1].rowOffset + given[i - 1].rows
             /\ given[n].rowOffset + given[n].rows = l.rows
  <2> DEFINE o == [i \in 1..n |-> ShardOffset(l.rows, n, i - 1)]
             k == [i \in 1..n |-> ShardCount(l.rows, n, i - 1)]
  <2>1. Tiles(o, k, l.rows, n)
    BY <1>0, <1>4, EvenTiles
  <2>2. \A i \in 1..n : given[i].rowOffset = o[i] /\ given[i].rows = k[i]
    BY <1>3
  <2>3. /\ \A i \in 1..n : i # 1 => i - 1 \in 1..n
        /\ n \in 1..n
    BY <1>0
  <2> HIDE DEF o, k
  <2> QED BY <2>1, <2>2, <2>3 DEF Tiles
<1> QED BY <1>2, <1>3, <1>4 DEF Complete, given

\* No number of a shard is below 0 or above the largest.
Given == Seq([offset : U32, count : U32, rowOffset : U32, rows : U32])

LEMMA ShardsInRange ==
    ASSUME NEW l \in Loads, NEW n, NEW counts, NEW offsets, Divided(l, n, counts, offsets)
    PROVE  ShardsOf(l, counts, offsets) \in Given
<1> DEFINE o == [i \in 1..n |-> ShardOffset(l.rows, n, i - 1)]
           k == [i \in 1..n |-> ShardCount(l.rows, n, i - 1)]
<1>1. /\ n \in Nat \ {0} /\ Len(counts) = n /\ \A i \in 1..n : counts[i] \in Nat
      /\ Tiles(offsets, counts, l.slots, n)
      /\ l.rows \in Nat /\ (l.kind = "closed" => l.rows >= n)
  BY DEF Divided
<1>2. /\ l.slots \in Nat /\ l.slots <= MaxU32 /\ l.rows <= MaxU32 /\ MaxU32 \in Nat
      /\ l.kind # "closed" => l.rows = 0
  BY ShardsAssumption DEF Loads, U32
<1>3. \A i \in 1..n : offsets[i] \in U32 /\ counts[i] \in U32
  <2>1. \A i \in 1..n : offsets[i] \in Nat /\ offsets[i] + counts[i] <= l.slots
    BY <1>1, <1>2, TilesWithin
  <2> QED BY <1>1, <1>2, <2>1 DEF U32
<1>4. \A i \in 1..n : o[i] \in Nat /\ k[i] \in Nat
  <2> SUFFICES ASSUME NEW i \in 1..n PROVE o[i] \in Nat /\ k[i] \in Nat
    OBVIOUS
  <2>1. i - 1 \in 0..n /\ i - 1 \in 0..(n - 1)
    BY <1>1
  <2> QED BY <1>1, <2>1, EvenSplit
<1>5. \A i \in 1..n : o[i] \in U32 /\ k[i] \in U32
  <2>1. CASE l.kind = "closed"
    <3>1. Tiles(o, k, l.rows, n)
      BY <1>1, <2>1, EvenTiles
    <3> HIDE DEF o, k
    <3>2. \A i \in 1..n : o[i] \in Nat /\ o[i] + k[i] <= l.rows
      BY <1>1, <1>4, <3>1, TilesWithin
    <3> QED BY <1>1, <1>2, <1>4, <3>2 DEF U32
  <2>2. CASE l.kind # "closed"
    <3>1. l.rows = 0 /\ 0 \div n = 0 /\ 0 % n = 0
      BY <1>1, <1>2, <2>2
    <3>2. \A i \in 1..n : ShardOffset(l.rows, n, i - 1) = 0 /\ ShardCount(l.rows, n, i - 1) = 0
      <4> SUFFICES ASSUME NEW i \in 1..n
                   PROVE  ShardOffset(l.rows, n, i - 1) = 0 /\ ShardCount(l.rows, n, i - 1) = 0
        OBVIOUS
      <4>1. (i - 1) * 0 = 0 /\ ~(i - 1 < 0)
        BY <1>1
      <4> QED BY <3>1, <4>1 DEF ShardOffset, ShardCount, Lesser
    <3> QED BY <1>2, <3>2 DEF U32
  <2> QED BY <2>1, <2>2
<1>6. ShardsOf(l, counts, offsets)
        = [i \in 1..n |-> [offset |-> offsets[i], count |-> counts[i],
                           rowOffset |-> o[i], rows |-> k[i]]]
  BY <1>1 DEF ShardsOf
<1> HIDE DEF o, k
<1> QED BY <1>1, <1>3, <1>5, <1>6 DEF Given

\* Before the launch there are only the workers that wait.
Inv ==
    /\ caps \in Seq(Nat)
    /\ shards \in Given
    /\ plan \in {"none", "refused", "capacity", "forced", "fanout"}
    /\ ShardsTileTheLoad

LEMMA LaunchTiles ==
    ASSUME caps \in Seq(Nat), NEW l \in Loads, NEW path \in {"capacity", "forced", "fanout"},
           NEW workers, NEW n, NEW counts, NEW offsets, Divided(l, n, counts, offsets),
           Launches(l, path, workers, ShardsOf(l, counts, offsets)),
           path = "capacity" \/ (path = "fanout" /\ l.kind \in {"closed", "vuCurve"}) =>
             \A i \in 1..n : counts[i] <= AtLeastOne(workers[i]),
           path = "capacity" =>
             Sum([i \in DOMAIN workers |-> AtLeastOne(workers[i])]) >= l.slots
    PROVE  Inv'
<1>0. n \in Nat \ {0} /\ Tiles(offsets, counts, l.slots, n)
  BY DEF Divided
<1>1. /\ caps' = caps /\ load' = l /\ plan' = path /\ limits' = workers
      /\ shards' = ShardsOf(l, counts, offsets)
  BY DEF Launches
<1>2. PICK given : given = shards'
  OBVIOUS
<1>3. Complete(l, n, counts, offsets, given)
  BY <1>1, <1>2, ShardsTile
<1>4. /\ DOMAIN given = 1..n /\ Len(given) = n
      /\ \A i \in 1..n : given[i].count = counts[i] /\ given[i].offset = offsets[i]
      /\ l.kind = "closed" =>
           /\ \A i \in 1..n :
                /\ given[i].rows > 0
                /\ given[i].rowOffset = IF i = 1 THEN 0
                     ELSE given[i - 1].rowOffset + given[i - 1].rows
           /\ given[n].rowOffset + given[n].rows = l.rows
  BY <1>3 DEF Complete
<1>5. /\ \A i \in 1..n : i # 1 => i - 1 \in 1..n
      /\ n \in 1..n
  BY <1>0
<1>6. Tile([i \in ShardHolders |-> shards[i].offset],
           [i \in ShardHolders |-> shards[i].count], load.slots)'
  <2> DEFINE o == [i \in 1..n |-> given[i].offset]
             k == [i \in 1..n |-> given[i].count]
  <2>1. \A i \in 1..n : o[i] = offsets[i] /\ k[i] = counts[i]
    BY <1>4
  <2> HIDE DEF o, k
  <2>2. /\ \A i \in 1..n : k[i] > 0 /\ o[i] = IF i = 1 THEN 0 ELSE o[i - 1] + k[i - 1]
        /\ o[n] + k[n] = l.slots
    BY <1>0, <1>5, <2>1 DEF Tiles
  <2>3. /\ [i \in ShardHolders |-> shards[i].offset]' = o
        /\ [i \in ShardHolders |-> shards[i].count]' = k
        /\ ShardHolders' = 1..n /\ Len(shards)' = n /\ load.slots' = l.slots
    BY <1>1, <1>2, <1>4 DEF ShardHolders, o, k
  <2> QED BY <2>2, <2>3 DEF Tile
<1>7. (load.kind = "closed" =>
         Tile([i \in ShardHolders |-> shards[i].rowOffset],
              [i \in ShardHolders |-> shards[i].rows], load.rows))'
  <2> SUFFICES ASSUME l.kind = "closed"
               PROVE  Tile([i \in ShardHolders |-> shards[i].rowOffset],
                           [i \in ShardHolders |-> shards[i].rows], load.rows)'
    BY <1>1
  <2> DEFINE o == [i \in 1..n |-> given[i].rowOffset]
             k == [i \in 1..n |-> given[i].rows]
  <2>1. \A i \in 1..n : o[i] = given[i].rowOffset /\ k[i] = given[i].rows
    OBVIOUS
  <2> HIDE DEF o, k
  <2>2. /\ \A i \in 1..n : k[i] > 0 /\ o[i] = IF i = 1 THEN 0 ELSE o[i - 1] + k[i - 1]
        /\ o[n] + k[n] = l.rows
    <3>1. /\ \A i \in 1..n :
               /\ given[i].rows > 0
               /\ given[i].rowOffset = IF i = 1 THEN 0
                    ELSE given[i - 1].rowOffset + given[i - 1].rows
          /\ given[n].rowOffset + given[n].rows = l.rows
      BY <1>4
    <3>2. ASSUME NEW i \in 1..n
          PROVE  k[i] > 0 /\ o[i] = IF i = 1 THEN 0 ELSE o[i - 1] + k[i - 1]
      <4>1. CASE i = 1
        BY <2>1, <3>1, <4>1
      <4>2. CASE i # 1
        <5>1. i - 1 \in 1..n
          BY <1>5, <4>2
        <5>2. o[i - 1] = given[i - 1].rowOffset /\ k[i - 1] = given[i - 1].rows
          BY <2>1, <5>1
        <5>3. o[i] = given[i].rowOffset /\ k[i] = given[i].rows
          BY <2>1
        <5> QED BY <3>1, <4>2, <5>2, <5>3
      <4> QED BY <4>1, <4>2
    <3>3. o[n] + k[n] = l.rows
      BY <1>5, <2>1, <3>1
    <3> QED BY <3>2, <3>3
  <2>3. /\ [i \in ShardHolders |-> shards[i].rowOffset]' = o
        /\ [i \in ShardHolders |-> shards[i].rows]' = k
        /\ ShardHolders' = 1..n /\ Len(shards)' = n /\ load.rows' = l.rows
    BY <1>1, <1>2, <1>4 DEF ShardHolders, o, k
  <2> QED BY <2>2, <2>3 DEF Tile
<1>8. WithinCapacity'
  BY <1>1, <1>2, <1>4 DEF WithinCapacity, ShardHolders
<1>9. ShardsTileTheLoad'
  BY <1>6, <1>7, <1>8 DEF ShardsTileTheLoad
<1>10. shards' \in Given
  BY <1>1, ShardsInRange
<1>11. Given' = Given
  BY DEF Given, U32
<1> QED BY <1>1, <1>9, <1>10, <1>11 DEF Inv

LEMMA LoadTypes ==
    ASSUME NEW l \in Loads
    PROVE  /\ l.slots \in Nat \ {0} /\ l.slots <= MaxU32 /\ l.rows \in Nat
           /\ pool_worker_cap(l) \in Nat \ {0} /\ pool_worker_cap(l) <= l.slots
BY ShardsAssumption DEF Loads, U32, pool_worker_cap, Lesser

LEMMA EvenLaunch ==
    ASSUME caps \in Seq(Nat), NEW l \in Loads, NEW path \in {"forced", "fanout"}, NEW workers,
           NEW n \in Nat \ {0}, n <= l.slots, UniqueFloor(l, n),
           Launches(l, path, workers, Even(l, n)),
           path = "fanout" /\ l.kind \in {"closed", "vuCurve"} =>
             \A i \in 1..n : ShardCount(l.slots, n, i - 1) <= AtLeastOne(workers[i])
    PROVE  Inv'
<1> DEFINE counts == EvenCounts(l.slots, n)
           offsets == [i \in 1..n |-> ShardOffset(l.slots, n, i - 1)]
<1>1. counts = [i \in 1..n |-> ShardCount(l.slots, n, i - 1)]
  BY DEF EvenCounts
<1>2. Len(counts) = n
  BY <1>1
<1>3. Tiles(offsets, counts, l.slots, n)
  BY <1>1, LoadTypes, EvenTiles
<1>4. l.rows \in Nat
  BY LoadTypes
<1>5. l.kind = "closed" => l.rows >= n
  BY DEF UniqueFloor
<1>6. \A i \in 1..n : counts[i] = ShardCount(l.slots, n, i - 1) /\ counts[i] \in Nat
  <2>1. \A i \in 1..n : i - 1 \in 0..(n - 1)
    OBVIOUS
  <2>2. l.slots \in Nat
    BY LoadTypes
  <2>3. \A i \in 0..(n - 1) : ShardCount(l.slots, n, i) \in Nat
    BY <2>2, EvenSplit
  <2> HIDE DEF counts
  <2> QED BY <1>1, <2>1, <2>3
<1>7. Launches(l, path, workers, ShardsOf(l, counts, offsets))
  BY DEF Even
<1> HIDE DEF counts, offsets
<1>8. Divided(l, n, counts, offsets)
  BY <1>2, <1>3, <1>4, <1>5, <1>6 DEF Divided
<1>9. path = "capacity" \/ (path = "fanout" /\ l.kind \in {"closed", "vuCurve"}) =>
        \A i \in 1..n : counts[i] <= AtLeastOne(workers[i])
  BY <1>6
<1> QED BY <1>7, <1>8, <1>9, LaunchTiles

LEMMA SplitLaunch ==
    ASSUME caps \in Seq(Nat), NEW l \in Loads, CapacityLaunch(l)
    PROVE  Inv'
<1> DEFINE n      == Lesser(Len(caps), pool_worker_cap(l))
           chosen == SubSeq(caps, 1, n)
           counts == capacity_split(l.slots, chosen)
           offsets == [i \in 1..n |-> Sum([j \in 1..(i - 1) |-> counts[j]])]
           able   == Able(chosen)
<1>1. /\ l.slots \in Nat \ {0} /\ l.slots <= MaxU32 /\ l.rows \in Nat
      /\ pool_worker_cap(l) \in Nat \ {0} /\ pool_worker_cap(l) <= l.slots
  BY LoadTypes
<1>2. /\ caps # <<>> /\ UniqueFloor(l, n)
      /\ IF achievable_capacity(chosen) < l.slots
           THEN Launches(l, "refused", chosen, <<>>)
           ELSE Launches(l, "capacity", chosen, ShardsOf(l, counts, offsets))
  BY DEF CapacityLaunch
<1>3. n \in Nat \ {0} /\ n <= Len(caps) /\ n <= l.slots
  <2>1. Len(caps) \in Nat \ {0}
    BY <1>2
  <2> QED BY <1>1, <2>1 DEF Lesser
<1> HIDE DEF n
<1>4. /\ chosen \in Seq(Nat) /\ Len(chosen) = n
      /\ DOMAIN chosen = 1..n /\ \A i \in 1..n : chosen[i] \in Nat
  BY <1>3
<1> HIDE DEF chosen
<1>5. able \in Int
  <2> DEFINE f == [i \in DOMAIN chosen |-> AtLeastOne(chosen[i])]
  <2>1. DOMAIN f = 1..n /\ IsFiniteSet(1..n) /\ \A i \in 1..n : f[i] \in Int
    BY <1>3, <1>4, FS_Interval DEF AtLeastOne, Greater
  <2> HIDE DEF f
  <2> QED BY <2>1, SumWithout DEF Able, Sum, f
<1>6. achievable_capacity(chosen) < l.slots <=> able < l.slots
  <2> HIDE DEF able
  <2>1. achievable_capacity(chosen) = Lesser(able, MaxU32)
    BY DEF achievable_capacity, Able, able
  <2> QED BY <1>1, <1>5, <2>1, ShardsAssumption DEF Lesser
<1>7. CASE able < l.slots
  <2>1. Launches(l, "refused", chosen, <<>>)
    BY <1>2, <1>6, <1>7
  <2>2. caps' = caps /\ load' = l /\ plan' = "refused" /\ limits' = chosen /\ shards' = <<>>
    BY <2>1 DEF Launches
  <2>3. WithinCapacity'
    BY <1>7, <2>2 DEF WithinCapacity, Able
  <2>4. ~Planned'
    BY <2>2 DEF Planned
  <2> QED BY <2>2, <2>3, <2>4 DEF Inv, ShardsTileTheLoad, Given
<1>8. CASE ~(able < l.slots)
  <2>1. Launches(l, "capacity", chosen, ShardsOf(l, counts, offsets))
    BY <1>2, <1>6, <1>8
  <2>2. able >= l.slots
    BY <1>1, <1>5, <1>8
  <2>3. /\ counts \in [1..n -> Nat] /\ Sum(counts) = l.slots
        /\ \A i \in 1..n : counts[i] > 0 /\ counts[i] <= AtLeastOne(chosen[i])
    <3>1. /\ l.slots \in Nat /\ chosen \in Seq(Nat) /\ Len(chosen) > 0
          /\ l.slots >= Len(chosen) /\ Able(chosen) >= l.slots
      BY <1>1, <1>3, <1>4, <2>2
    <3>2. /\ counts \in [1..Len(chosen) -> Nat]
          /\ \A i \in 1..Len(chosen) : /\ counts[i] > 0
                                       /\ counts[i] <= AtLeastOne(chosen[i])
          /\ Sum(counts) = l.slots
      BY <3>1, CapacitySplit, Zenon
    <3> QED BY <1>4, <3>2
  <2>4. Len(counts) = n
    BY <1>3, <1>4 DEF capacity_split
  <2> HIDE DEF counts
  <2>5. Tiles(offsets, counts, l.slots, n)
    BY <1>1, <1>3, <2>3, SplitTiles
  <2>6. l.kind = "closed" => l.rows >= n
    BY <1>2 DEF UniqueFloor
  <2> HIDE DEF offsets
  <2>7. Divided(l, n, counts, offsets)
    BY <1>1, <1>3, <2>3, <2>4, <2>5, <2>6 DEF Divided
  <2>8. Sum([i \in DOMAIN chosen |-> AtLeastOne(chosen[i])]) >= l.slots
    BY <2>2 DEF Able
  <2> QED BY <2>1, <2>3, <2>7, <2>8, LaunchTiles
<1> QED BY <1>7, <1>8

LEMMA ForcedTiles ==
    ASSUME caps \in Seq(Nat), NEW l \in Loads, ForcedLaunch(l)
    PROVE  Inv'
<1> DEFINE n == Lesser(Len(caps), pool_worker_cap(l))
<1>1. /\ caps # <<>> /\ UniqueFloor(l, n)
      /\ Launches(l, "forced", SubSeq(caps, 1, n), Even(l, n))
  BY DEF ForcedLaunch
<1>2. n \in Nat \ {0} /\ n <= l.slots
  <2>1. Len(caps) \in Nat \ {0}
    BY <1>1
  <2> QED BY <2>1, LoadTypes DEF Lesser
<1> HIDE DEF n
<1> QED BY <1>1, <1>2, EvenLaunch

LEMMA FanOutTiles ==
    ASSUME caps \in Seq(Nat), NEW l \in Loads, NEW capacity \in 0..MaxCap, FanOut(l, capacity)
    PROVE  Inv'
<1>1. PICK n \in 1..MaxU32 :
        /\ IF l.kind \in {"closed", "vuCurve"}
             THEN n = worker_count(l.slots, capacity)
             ELSE n <= l.slots /\ (l.kind = "fixed" => n <= l.peak)
        /\ UniqueFloor(l, n)
        /\ Launches(l, "fanout", [i \in 1..n |-> capacity], Even(l, n))
  BY DEF FanOut
<1>2. n \in Nat \ {0} /\ capacity \in Nat /\ l.slots \in Nat \ {0}
  BY <1>1, LoadTypes
<1>3. n <= l.slots
  BY <1>1, <1>2, EnoughWorkers
<1> DEFINE workers == [i \in 1..n |-> capacity]
<1>4. l.kind \in {"closed", "vuCurve"} =>
        \A i \in 1..n : ShardCount(l.slots, n, i - 1) <= AtLeastOne(workers[i])
  <2>1. \A i \in 1..n : i - 1 \in 0..(n - 1) /\ workers[i] = capacity
    BY <1>2
  <2> HIDE DEF workers
  <2> QED BY <1>1, <1>2, <2>1, EnoughWorkers
<1>5. Launches(l, "fanout", workers, Even(l, n))
  BY <1>1
<1> HIDE DEF workers
<1> QED BY <1>1, <1>2, <1>3, <1>4, <1>5, EvenLaunch

LEMMA InvStep == ASSUME Inv, [Next]_vars PROVE Inv'
<1>1. CASE \E cap \in 0..MaxCap : RegisterIdle(cap)
  <2>1. PICK cap \in 0..MaxCap : RegisterIdle(cap)
    BY <1>1
  <2>2. cap \in Nat /\ caps' = Append(caps, cap) /\ plan = "none"
        /\ UNCHANGED <<load, plan, limits, shards>>
    BY <2>1 DEF RegisterIdle
  <2>3. caps' \in Seq(Nat)
    BY <2>2 DEF Inv
  <2> QED BY <2>2, <2>3 DEF Inv, ShardsTileTheLoad, WithinCapacity, Planned
<1>2. CASE \E l \in Loads : CapacityLaunch(l)
  BY <1>2, SplitLaunch DEF Inv
<1>3. CASE \E l \in Loads : ForcedLaunch(l)
  BY <1>3, ForcedTiles DEF Inv
<1>4. CASE \E l \in Loads, capacity \in 0..MaxCap : FanOut(l, capacity)
  BY <1>4, FanOutTiles DEF Inv
<1>5. CASE UNCHANGED vars
  <2>1. caps' = caps /\ load' = load /\ plan' = plan /\ limits' = limits /\ shards' = shards
    BY <1>5 DEF vars
  <2>2. WithinCapacity'
    BY <2>1 DEF Inv, ShardsTileTheLoad, WithinCapacity, ShardHolders
  <2>3. /\ Tile([i \in ShardHolders |-> shards[i].offset],
                [i \in ShardHolders |-> shards[i].count], load.slots)'
           <=> Tile([i \in ShardHolders |-> shards[i].offset],
                    [i \in ShardHolders |-> shards[i].count], load.slots)
        /\ Tile([i \in ShardHolders |-> shards[i].rowOffset],
                [i \in ShardHolders |-> shards[i].rows], load.rows)'
           <=> Tile([i \in ShardHolders |-> shards[i].rowOffset],
                    [i \in ShardHolders |-> shards[i].rows], load.rows)
    BY <2>1 DEF Tile, ShardHolders
  <2> QED BY <2>1, <2>2, <2>3 DEF Inv, ShardsTileTheLoad, Planned
<1> QED BY <1>1, <1>2, <1>3, <1>4, <1>5 DEF Next

\* For any number of workers, any capacities and loads, and numbers of any
\* width: on all three launch paths every VU id and every row of a unique
\* dataset is exactly one worker's, every worker has some, none has more than it
\* advertised, and a launch is refused exactly when the capacities fall short
\* (grpc/shard.rs, reserve_idle_pool_capacity, fanout_worker_count).
THEOREM ShardsAreWhole == Spec => []ShardsTileTheLoad
<1>1. Init => Inv
  BY DEF Init, Inv, Given, ShardsTileTheLoad, WithinCapacity, Planned
<1>2. Inv /\ [Next]_vars => Inv'
  BY InvStep
<1>3. Inv => ShardsTileTheLoad
  BY DEF Inv
<1> QED BY <1>1, <1>2, <1>3, PTL DEF Spec

\* What a launch keeps of the workers it found, and of its load.
Found ==
    /\ caps \in Seq(0..MaxCap) /\ Len(caps) <= MaxWorkers
    /\ load \in Loads \cup {NoLoad}
    /\ limits \in Seq(0..MaxCap)

LEMMA FoundStep ==
    ASSUME Admissible, Found, [Next]_vars
    PROVE  Found'
<1>1. CASE \E cap \in 0..MaxCap : RegisterIdle(cap)
  BY <1>1 DEF RegisterIdle, Found, Admissible
<1>2. CASE \E l \in Loads : CapacityLaunch(l) \/ ForcedLaunch(l)
  <2>1. PICK l \in Loads : CapacityLaunch(l) \/ ForcedLaunch(l)
    BY <1>2
  <2> DEFINE n == Lesser(Len(caps), pool_worker_cap(l))
  <2>2. caps' = caps /\ load' = l /\ limits' = SubSeq(caps, 1, n)
    BY <2>1 DEF CapacityLaunch, ForcedLaunch, Launches
  <2>3. n \in Nat /\ n <= Len(caps)
    BY LoadTypes DEF Lesser, Found
  <2> HIDE DEF n
  <2>4. SubSeq(caps, 1, n) \in Seq(0..MaxCap)
    <3>0. \A S : \A s \in Seq(S) : Len(s) \in Nat /\ \A i \in 1..Len(s) : s[i] \in S
      OBVIOUS
    <3>1. Len(caps) \in Nat /\ \A i \in 1..Len(caps) : caps[i] \in 0..MaxCap
      BY <3>0 DEF Found
    <3>2. \A i \in 1..n : i \in 1..Len(caps)
      BY <2>3, <3>1
    <3>3. SubSeq(caps, 1, n) = [i \in 1..n |-> caps[i]]
      BY <2>3
    <3> QED BY <2>3, <3>1, <3>2, <3>3
  <2> QED BY <2>2, <2>4 DEF Found
<1>3. CASE \E l \in Loads, capacity \in 0..MaxCap : FanOut(l, capacity)
  <2>1. PICK l \in Loads, capacity \in 0..MaxCap : FanOut(l, capacity)
    BY <1>3
  <2>2. PICK n \in 1..MaxU32 : Launches(l, "fanout", [i \in 1..n |-> capacity], Even(l, n))
    BY <2>1 DEF FanOut
  <2>3. caps' = caps /\ load' = l /\ limits' = [i \in 1..n |-> capacity]
    BY <2>2 DEF Launches
  <2>4. limits' \in Seq(0..MaxCap)
    BY <2>3
  <2> QED BY <2>3, <2>4 DEF Found
<1>4. CASE UNCHANGED vars
  BY <1>4 DEF vars, Found
<1> QED BY <1>1, <1>2, <1>3, <1>4 DEF Next

\* No number of a shard leaves the u32 range, for whichever widths, capacities
\* and loads: the subtractions of capacity_split do not wrap (grpc/shard.rs).
THEOREM NumbersAreInRange ==
    ASSUME Admissible
    PROVE  Spec => []TypeOK
<1>1. Init => Inv /\ Found
  BY DEF Init, Inv, Found, Given, Admissible, ShardsTileTheLoad, WithinCapacity, Planned
<1>2. Inv /\ Found /\ [Next]_vars => Inv' /\ Found'
  BY InvStep, FoundStep
<1>3. Inv /\ Found => TypeOK
  BY DEF Inv, Found, Given, TypeOK
<1> QED BY <1>1, <1>2, <1>3, PTL DEF Spec
=============================================================================
