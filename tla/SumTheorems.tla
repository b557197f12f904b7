---------------------------- MODULE SumTheorems ----------------------------
(***************************************************************************)
(* What invariants about totals need to know of Sum.  Induction is by a    *)
(* smallest counterexample: a set of finite sets has a smallest one.       *)
(***************************************************************************)
EXTENDS Sums, FiniteSetTheorems, WellFoundedInduction, TLAPS

\* Of the subsets of a finite set that have a property, one is smallest.
LEMMA SmallestSet ==
  ASSUME NEW S, IsFiniteSet(S), NEW F \in SUBSET SUBSET S, F # {}
  PROVE  \E s \in F : \A t \in SUBSET s : t # s => t \notin F
<1>1. IsWellFoundedOn(StrictSubsetOrdering(S), FiniteSubsetsOf(S))
  BY FS_StrictSubsetOrderingWellFounded
<1>2. F \subseteq FiniteSubsetsOf(S)
  BY FS_Subset DEF FiniteSubsetsOf
<1>3. PICK s \in F : \A y \in F : ~(<<y, s>> \in StrictSubsetOrdering(S))
  BY <1>1, <1>2, WFMin
<1>. QED  BY <1>2, <1>3 DEF StrictSubsetOrdering

\* And of the numbers that have one.
LEMMA SmallestNumber ==
  ASSUME NEW N \in SUBSET Nat, N # {}
  PROVE  \E n \in N : \A m \in N : n <= m
<1>1. PICK k \in N : TRUE
  OBVIOUS
<1>. DEFINE Below == {s \in SUBSET (0..k) : \E m \in N : s = 0..m}
<1>2. IsFiniteSet(0..k)
  BY FS_Interval
<1>3. 0..k \in Below
  BY <1>1
<1>4. PICK s \in Below : \A t \in SUBSET s : t # s => t \notin Below
  <2>1. Below \in SUBSET SUBSET (0..k) /\ Below # {}
    BY <1>3
  <2>. HIDE DEF Below
  <2>. QED  BY <1>2, <2>1, SmallestSet
<1>5. PICK n \in N : s = 0..n
  BY <1>4
<1>6. ASSUME NEW m \in N, m < n PROVE FALSE
  <2>1. 0..n \subseteq 0..k
    BY <1>4, <1>5
  <2>2. m \in 0..n /\ n \in 0..n /\ n \notin 0..m
    BY <1>6
  <2>3. 0..m \subseteq 0..n
    BY <1>6
  <2>4. 0..m \in Below
    BY <2>1, <2>3
  <2>. QED  BY <1>4, <1>5, <2>2, <2>3, <2>4
<1>. QED  BY <1>6, <1>5

\* And a set of finitely many numbers has a largest.
LEMMA LargestNumber ==
  ASSUME NEW N \in SUBSET Nat, IsFiniteSet(N), N # {}
  PROVE  \E n \in N : \A m \in N : m <= n
<1>. DEFINE Above == {s \in SUBSET N : \E m \in N : s = {x \in N : m <= x}}
<1>1. PICK k \in N : TRUE
  OBVIOUS
<1>2. {x \in N : k <= x} \in Above
  BY <1>1
<1>3. PICK s \in Above : \A t \in SUBSET s : t # s => t \notin Above
  <2>1. Above \in SUBSET SUBSET N /\ Above # {}
    BY <1>2
  <2>. HIDE DEF Above
  <2>. QED  BY <2>1, SmallestSet
<1>4. PICK n \in N : s = {x \in N : n <= x}
  BY <1>3
<1>5. ASSUME NEW m \in N, n < m PROVE FALSE
  <2>1. PICK t : t = {x \in N : m <= x}
    OBVIOUS
  <2>2. t \in Above
    BY <2>1
  <2>3. n \in s
    BY <1>4
  <2>4. n \notin t
    BY <1>5, <2>1
  <2>5. \A x \in N : m <= x => n <= x
    BY <1>5
  <2>6. t \subseteq s
    BY <1>4, <2>1, <2>5
  <2>. QED  BY <1>3, <2>2, <2>3, <2>4, <2>6
<1>. QED  BY <1>5

\* What a function makes of finitely many elements is finite.
LEMMA ImageFinite ==
  ASSUME NEW S, IsFiniteSet(S), NEW f, f = [x \in S |-> f[x]]
  PROVE  IsFiniteSet({f[x] : x \in S})
<1>1. f \in Surjection(S, {f[x] : x \in S})
  BY DEF Surjection
<1>. QED  BY <1>1, FS_Surjection

-----------------------------------------------------------------------------

Chosen(s) == CHOOSE x \in s : TRUE

\* The equation that defines the sum, at s, and g satisfies it at every part of S.
Addend(g, f, s) == IF s = {} THEN 0 ELSE f[Chosen(s)] + g[s \ {Chosen(s)}]
AddsUp(g, f, S) == \A s \in SUBSET S : g[s] = Addend(g, f, s)

\* What is left of a finite set when its chosen element is taken out.
LEMMA PartOfSet ==
  ASSUME NEW S, IsFiniteSet(S), NEW s \in SUBSET S
  PROVE  /\ IsFiniteSet(s) /\ Cardinality(s) \in Nat /\ Cardinality(s) <= Cardinality(S)
         /\ s = {} <=> Cardinality(s) = 0
         /\ s # {} => /\ Chosen(s) \in s
                      /\ s \ {Chosen(s)} \in SUBSET S
                      /\ s \ {Chosen(s)} # s
                      /\ Cardinality(s \ {Chosen(s)}) = Cardinality(s) - 1
<1>1. IsFiniteSet(s) /\ Cardinality(s) <= Cardinality(S)
  BY FS_Subset
<1>2. Cardinality(s) \in Nat /\ (s = {} <=> Cardinality(s) = 0)
  BY <1>1, FS_CardinalityType, FS_EmptySet
<1>3. ASSUME s # {} PROVE Chosen(s) \in s
  BY <1>3 DEF Chosen
<1>4. ASSUME s # {} PROVE Cardinality(s \ {Chosen(s)}) = Cardinality(s) - 1
  BY <1>1, <1>3, <1>4, FS_RemoveElement
<1>. QED  BY <1>1, <1>2, <1>3, <1>4

\* A function that satisfies the equation exists: by induction on the size of the
\* parts at which it has to.
LEMMA AddsUpExists ==
  ASSUME NEW f, NEW S, IsFiniteSet(S)
  PROVE  \E g : AddsUp(g, f, S)
<1>. DEFINE Fits(g, n) == \A s \in SUBSET S : Cardinality(s) <= n => g[s] = Addend(g, f, s)
            Can(n) == \E g : Fits(g, n)
            Fails == {n \in Nat : ~Can(n)}
<1>1. \A n \in Nat : Can(n)
  <2>. HIDE DEF Can
  <2>1. SUFFICES ASSUME Fails # {} PROVE FALSE
    OBVIOUS
  <2>2. PICK n \in Nat : ~Can(n) /\ \A m \in Nat : ~Can(m) => n <= m
    <3>1. PICK n \in Fails : \A m \in Fails : n <= m
      BY <2>1, SmallestNumber
    <3>. QED  BY <3>1
  <2>3. n # 0
    <3>. DEFINE g == [s \in SUBSET S |-> 0]
    <3>1. ASSUME NEW s \in SUBSET S, Cardinality(s) <= 0 PROVE g[s] = Addend(g, f, s)
      <4>1. s = {}
        <5>1. Cardinality(s) \in Nat /\ (s = {} <=> Cardinality(s) = 0)
          BY PartOfSet
        <5>. QED  BY <5>1, <3>1
      <4>. QED  BY <4>1 DEF Addend
    <3>2. Fits(g, 0)
      BY <3>1
    <3>3. Can(0)
      <4>. HIDE DEF Fits
      <4>. QED  BY <3>2 DEF Can
    <3>. QED  BY <3>3, <2>2
  <2>4. PICK g : Fits(g, n - 1)
    <3>1. n - 1 \in Nat /\ Can(n - 1)
      BY <2>2, <2>3
    <3>. HIDE DEF Fits
    <3>. QED  BY <3>1 DEF Can
  <2>. DEFINE h == [s \in SUBSET S |->
                      IF Cardinality(s) <= n - 1 THEN g[s] ELSE Addend(g, f, s)]
  <2>5. ASSUME NEW s \in SUBSET S, Cardinality(s) <= n PROVE h[s] = Addend(h, f, s)
    <3>1. Addend(h, f, s) = Addend(g, f, s)
      <4>1. CASE s = {}
        BY <4>1 DEF Addend
      <4>2. CASE s # {}
        <5>1. /\ s \ {Chosen(s)} \in SUBSET S
              /\ Cardinality(s \ {Chosen(s)}) <= n - 1
          BY <2>5, <4>2, PartOfSet
        <5>. QED  BY <5>1, <4>2 DEF Addend
      <4>. QED  BY <4>1, <4>2
    <3>2. h[s] = Addend(g, f, s)
      BY <2>4
    <3>. QED  BY <3>1, <3>2
  <2>6. Fits(h, n)
    BY <2>5
  <2>7. Can(n)
    <3>. HIDE DEF Fits, h
    <3>. QED  BY <2>6 DEF Can
  <2>. QED  BY <2>7, <2>2
<1>2. PICK g : Fits(g, Cardinality(S))
  <2>1. Cardinality(S) \in Nat
    BY FS_CardinalityType
  <2>. HIDE DEF Fits
  <2>. QED  BY <1>1, <2>1
<1>3. AddsUp(g, f, S)
  BY <1>2, PartOfSet DEF AddsUp
<1>. QED  BY <1>3

\* And what it says of the whole is unique.
LEMMA AddsUpUnique ==
  ASSUME NEW f, NEW S, IsFiniteSet(S), NEW g, NEW h, AddsUp(g, f, S), AddsUp(h, f, S)
  PROVE  g[S] = h[S]
<1>. DEFINE F == {s \in SUBSET S : g[s] # h[s]}
<1>1. SUFFICES ASSUME F # {} PROVE FALSE
  OBVIOUS
<1>2. PICK s \in F : \A t \in SUBSET s : t # s => t \notin F
  <2>1. F \in SUBSET SUBSET S
    OBVIOUS
  <2>. HIDE DEF F
  <2>. QED  BY <1>1, <2>1, SmallestSet
<1>3. s # {}
  BY <1>2 DEF AddsUp, Addend
<1>4. /\ s \ {Chosen(s)} \in SUBSET s /\ s \ {Chosen(s)} # s
      /\ s \ {Chosen(s)} \in SUBSET S
  BY <1>2, <1>3, PartOfSet
<1>5. g[s \ {Chosen(s)}] = h[s \ {Chosen(s)}]
  BY <1>2, <1>4
<1>. QED  BY <1>2, <1>3, <1>5 DEF AddsUp, Addend

\* The sum is what such a function says of the whole.
LEMMA SumAddsUp ==
  ASSUME NEW f, NEW S, IsFiniteSet(S)
  PROVE  \E g : AddsUp(g, f, S) /\ Sum(f, S) = g[S]
<1>. DEFINE iter == CHOOSE k : k = [s \in SUBSET S |-> Addend(k, f, s)]
<1>1. PICK g : AddsUp(g, f, S)
  BY AddsUpExists
<1>. DEFINE h == [s \in SUBSET S |-> g[s]]
<1>2. h = [s \in SUBSET S |-> Addend(h, f, s)]
  <2>1. ASSUME NEW s \in SUBSET S PROVE Addend(h, f, s) = Addend(g, f, s)
    BY PartOfSet DEF Addend
  <2>. QED  BY <2>1, <1>1 DEF AddsUp
<1>3. iter = [s \in SUBSET S |-> Addend(iter, f, s)]
  <2>. HIDE DEF h
  <2>. QED  BY <1>2
<1>4. Sum(f, S) = iter[S]
  BY DEF Sum, MapThenSumSet, MapThenFoldSet, Addend, Chosen
<1>5. AddsUp(iter, f, S)
  <2>. HIDE DEF iter
  <2>. QED  BY <1>3 DEF AddsUp
<1>. QED  BY <1>4, <1>5

-----------------------------------------------------------------------------

\* Nothing adds up to nothing.
LEMMA SumEmpty == ASSUME NEW f PROVE Sum(f, {}) = 0
BY SumAddsUp, FS_EmptySet DEF AddsUp, Addend

\* The equation, for the sum itself.
LEMMA SumStep ==
  ASSUME NEW f, NEW S, IsFiniteSet(S), S # {}
  PROVE  Sum(f, S) = f[Chosen(S)] + Sum(f, S \ {Chosen(S)})
<1>. DEFINE T == S \ {Chosen(S)}
<1>1. PICK g : AddsUp(g, f, S) /\ Sum(f, S) = g[S]
  BY SumAddsUp
<1>2. IsFiniteSet(T)
  BY FS_RemoveElement
<1>3. PICK h : AddsUp(h, f, T) /\ Sum(f, T) = h[T]
  <2>. HIDE DEF T
  <2>. QED  BY <1>2, SumAddsUp
<1>4. AddsUp(g, f, T)
  BY <1>1 DEF AddsUp
<1>5. g[T] = h[T]
  <2>. HIDE DEF T
  <2>. QED  BY <1>2, <1>3, <1>4, AddsUpUnique
<1>6. g[S] = f[Chosen(S)] + g[T]
  BY <1>1 DEF AddsUp, Addend
<1>. QED  BY <1>1, <1>3, <1>5, <1>6

\* A sum of integers is one.
LEMMA SumType ==
  ASSUME NEW f, NEW S, IsFiniteSet(S), \A x \in S : f[x] \in Int
  PROVE  Sum(f, S) \in Int
<1>. DEFINE F == {s \in SUBSET S : Sum(f, s) \notin Int}
<1>1. SUFFICES ASSUME F # {} PROVE FALSE
  OBVIOUS
<1>2. PICK s \in F : \A t \in SUBSET s : t # s => t \notin F
  <2>1. F \in SUBSET SUBSET S
    OBVIOUS
  <2>. HIDE DEF F
  <2>. QED  BY <1>1, <2>1, SmallestSet
<1>3. s # {} /\ IsFiniteSet(s)
  <2>1. Sum(f, {}) \in Int
    BY SumEmpty
  <2>2. IsFiniteSet(s)
    BY <1>2, FS_Subset
  <2>3. Sum(f, s) \notin Int
    BY <1>2
  <2>. QED  BY <2>1, <2>2, <2>3
<1>4. /\ s \ {Chosen(s)} \in SUBSET s /\ s \ {Chosen(s)} # s
      /\ s \ {Chosen(s)} \in SUBSET S /\ Chosen(s) \in S
  <2>1. Chosen(s) \in s
    BY <1>3 DEF Chosen
  <2>. QED  BY <1>2, <2>1
<1>5. Sum(f, s \ {Chosen(s)}) \in Int
  BY <1>2, <1>4
<1>6. Sum(f, s) = f[Chosen(s)] + Sum(f, s \ {Chosen(s)})
  BY <1>3, SumStep
<1>. QED  BY <1>2, <1>4, <1>5, <1>6

\* The order in which elements are taken does not matter.
LEMMA SumRemove ==
  ASSUME NEW f, NEW S, IsFiniteSet(S), \A x \in S : f[x] \in Int, NEW e \in S
  PROVE  Sum(f, S) = f[e] + Sum(f, S \ {e})
<1>. DEFINE F == {s \in SUBSET S : \E x \in s : Sum(f, s) # f[x] + Sum(f, s \ {x})}
<1>1. SUFFICES ASSUME F # {} PROVE FALSE
  OBVIOUS
<1>2. PICK s \in F : \A t \in SUBSET s : t # s => t \notin F
  <2>1. F \in SUBSET SUBSET S
    OBVIOUS
  <2>. HIDE DEF F
  <2>. QED  BY <1>1, <2>1, SmallestSet
<1>3. PICK x \in s : Sum(f, s) # f[x] + Sum(f, s \ {x})
  BY <1>2
<1>. DEFINE c == Chosen(s)
<1>4. s \in SUBSET S /\ IsFiniteSet(s) /\ c \in s /\ x \in S /\ c \in S
  BY <1>2, <1>3, PartOfSet
<1>5. Sum(f, s) = f[c] + Sum(f, s \ {c})
  BY <1>3, <1>4, SumStep
<1>6. x # c
  BY <1>3, <1>5
<1>. HIDE DEF c
<1>7. Sum(f, s \ {c}) = f[x] + Sum(f, (s \ {c}) \ {x})
  <2>1. s \ {c} \in SUBSET s /\ s \ {c} # s /\ s \ {c} \in SUBSET S /\ x \in s \ {c}
    BY <1>4, <1>6
  <2>. QED  BY <1>2, <2>1
<1>8. Sum(f, s \ {x}) = f[c] + Sum(f, (s \ {x}) \ {c})
  <2>1. s \ {x} \in SUBSET s /\ s \ {x} # s /\ s \ {x} \in SUBSET S /\ c \in s \ {x}
    BY <1>4, <1>6
  <2>. QED  BY <1>2, <2>1
<1>9. (s \ {c}) \ {x} = (s \ {x}) \ {c}
  OBVIOUS
<1>10. Sum(f, (s \ {c}) \ {x}) \in Int
  <2>1. IsFiniteSet((s \ {c}) \ {x})
    BY <1>4, FS_RemoveElement
  <2>. QED  BY <1>4, <2>1, SumType
<1>. QED  BY <1>3, <1>4, <1>5, <1>7, <1>8, <1>9, <1>10

\* An element added to the set adds its term to the sum.
LEMMA SumAdd ==
  ASSUME NEW f, NEW S, IsFiniteSet(S), NEW e, e \notin S,
         \A x \in S \cup {e} : f[x] \in Int
  PROVE  Sum(f, S \cup {e}) = Sum(f, S) + f[e]
<1>1. IsFiniteSet(S \cup {e})
  BY FS_AddElement
<1>2. (S \cup {e}) \ {e} = S
  OBVIOUS
<1>3. Sum(f, S \cup {e}) = f[e] + Sum(f, (S \cup {e}) \ {e})
  BY <1>1, SumRemove
<1>4. Sum(f, S) \in Int /\ f[e] \in Int
  BY SumType
<1>5. Sum(f, S \cup {e}) = f[e] + Sum(f, S)
  BY <1>2, <1>3
<1>. QED  BY <1>4, <1>5

-----------------------------------------------------------------------------

\* Induction: what holds of nothing, and of a part with one more if it holds of the
\* part, holds of the whole.
LEMMA SetInduction ==
  ASSUME NEW S, IsFiniteSet(S), NEW P \in SUBSET SUBSET S, {} \in P,
         \A s \in P : \A x \in S \ s : s \cup {x} \in P
  PROVE  S \in P
<1>. DEFINE F == (SUBSET S) \ P
<1>1. SUFFICES ASSUME F # {} PROVE FALSE
  OBVIOUS
<1>2. PICK s \in F : \A t \in SUBSET s : t # s => t \notin F
  <2>1. F \in SUBSET SUBSET S
    OBVIOUS
  <2>. HIDE DEF F
  <2>. QED  BY <1>1, <2>1, SmallestSet
<1>3. PICK x : x \in s
  BY <1>2
<1>4. s \ {x} \in P
  BY <1>2, <1>3
<1>5. (s \ {x}) \cup {x} \in P
  BY <1>2, <1>3, <1>4
<1>6. (s \ {x}) \cup {x} = s
  BY <1>3
<1>. QED  BY <1>2, <1>5, <1>6

\* Functions that agree have the same sum.
LEMMA SumSame ==
  ASSUME NEW f, NEW g, NEW S, IsFiniteSet(S), \A x \in S : f[x] \in Int /\ f[x] = g[x]
  PROVE  Sum(f, S) = Sum(g, S)
<1>. DEFINE P == {s \in SUBSET S : Sum(f, s) = Sum(g, s)}
<1>1. {} \in P
  BY SumEmpty
<1>2. ASSUME NEW s \in P, NEW x \in S \ s PROVE s \cup {x} \in P
  <2>1. IsFiniteSet(s)
    BY FS_Subset
  <2>2. Sum(f, s \cup {x}) = Sum(f, s) + f[x] /\ Sum(g, s \cup {x}) = Sum(g, s) + g[x]
    BY <2>1, SumAdd
  <2>. QED  BY <2>2
<1>3. P \in SUBSET SUBSET S
  OBVIOUS
<1>4. S \in P
  <2>. HIDE DEF P
  <2>. QED  BY <1>1, <1>2, <1>3, SetInduction
<1>. QED  BY <1>4

\* One more to sum, whatever the rest are mapped by.
LEMMA SumExtend ==
  ASSUME NEW f, NEW g, NEW S, IsFiniteSet(S), NEW e, e \notin S, g[e] \in Int,
         \A x \in S : f[x] \in Int /\ f[x] = g[x]
  PROVE  Sum(g, S \cup {e}) = Sum(f, S) + g[e]
<1>1. Sum(f, S) = Sum(g, S)
  BY SumSame
<1>2. \A x \in S \cup {e} : g[x] \in Int
  OBVIOUS
<1>3. Sum(g, S \cup {e}) = Sum(g, S) + g[e]
  BY <1>2, SumAdd
<1>. QED  BY <1>1, <1>3

\* The sum of a function that changes at one point changes by as much.
LEMMA SumChange ==
  ASSUME NEW f, NEW g, NEW S, IsFiniteSet(S), NEW e \in S,
         \A x \in S : f[x] \in Int /\ g[x] \in Int /\ (x # e => f[x] = g[x])
  PROVE  Sum(g, S) = Sum(f, S) + (g[e] - f[e])
<1>1. IsFiniteSet(S \ {e})
  BY FS_RemoveElement
<1>2. Sum(f, S \ {e}) = Sum(g, S \ {e})
  BY <1>1, SumSame
<1>3. Sum(f, S) = f[e] + Sum(f, S \ {e}) /\ Sum(g, S) = g[e] + Sum(g, S \ {e})
  BY SumRemove
<1>4. Sum(f, S \ {e}) \in Int
  BY <1>1, SumType
<1>5. f[e] \in Int /\ g[e] \in Int
  OBVIOUS
<1>. QED  BY <1>2, <1>3, <1>4, <1>5

\* What is summed in two parts.
LEMMA SumUnion ==
  ASSUME NEW f, NEW S, NEW T, IsFiniteSet(S), IsFiniteSet(T), S \cap T = {},
         \A x \in S \cup T : f[x] \in Int
  PROVE  Sum(f, S \cup T) = Sum(f, S) + Sum(f, T)
<1>. DEFINE P == {t \in SUBSET T : Sum(f, S \cup t) = Sum(f, S) + Sum(f, t)}
<1>1. {} \in P
  <2>1. S \cup {} = S /\ Sum(f, {}) = 0 /\ Sum(f, S) \in Int
    BY SumEmpty, SumType
  <2>2. Sum(f, S \cup {}) = Sum(f, S) + Sum(f, {})
    BY <2>1
  <2>. QED  BY <2>2
<1>2. ASSUME NEW t \in P, NEW x \in T \ t PROVE t \cup {x} \in P
  <2>1. IsFiniteSet(t) /\ IsFiniteSet(S \cup t)
    BY FS_Subset, FS_Union
  <2>2. Sum(f, t \cup {x}) = Sum(f, t) + f[x]
    BY <2>1, SumAdd
  <2>3. Sum(f, (S \cup t) \cup {x}) = Sum(f, S \cup t) + f[x]
    BY <2>1, SumAdd
  <2>4. Sum(f, S) \in Int /\ Sum(f, t) \in Int /\ f[x] \in Int
    BY <2>1, SumType
  <2>5. (S \cup t) \cup {x} = S \cup (t \cup {x})
    OBVIOUS
  <2>6. Sum(f, S \cup t) = Sum(f, S) + Sum(f, t)
    OBVIOUS
  <2>7. Sum(f, S \cup (t \cup {x})) = Sum(f, S) + Sum(f, t \cup {x})
    <3>1. Sum(f, S \cup (t \cup {x})) = Sum(f, S \cup t) + f[x]
      BY <2>3, <2>5, Zenon
    <3>. QED  BY <3>1, <2>2, <2>4, <2>6
  <2>. QED  BY <2>7
<1>3. P \in SUBSET SUBSET T
  OBVIOUS
<1>4. T \in P
  <2>. HIDE DEF P
  <2>. QED  BY <1>1, <1>2, <1>3, SetInduction
<1>. QED  BY <1>4

\* The sum of two functions.
LEMMA SumPlus ==
  ASSUME NEW f, NEW g, NEW h, NEW S, IsFiniteSet(S),
         \A x \in S : f[x] \in Int /\ g[x] \in Int /\ h[x] = f[x] + g[x]
  PROVE  Sum(h, S) = Sum(f, S) + Sum(g, S)
<1>. DEFINE P == {s \in SUBSET S : Sum(h, s) = Sum(f, s) + Sum(g, s)}
<1>1. {} \in P
  <2>1. Sum(f, {}) = 0 /\ Sum(g, {}) = 0 /\ Sum(h, {}) = 0
    BY SumEmpty
  <2>. QED  BY <2>1
<1>2. ASSUME NEW s \in P, NEW x \in S \ s PROVE s \cup {x} \in P
  <2>1. IsFiniteSet(s)
    BY FS_Subset
  <2>2. /\ Sum(f, s \cup {x}) = Sum(f, s) + f[x]
        /\ Sum(g, s \cup {x}) = Sum(g, s) + g[x]
        /\ Sum(h, s \cup {x}) = Sum(h, s) + h[x]
    BY <2>1, SumAdd
  <2>3. Sum(f, s) \in Int /\ Sum(g, s) \in Int
    BY <2>1, SumType
  <2>4. Sum(h, s \cup {x}) = Sum(f, s \cup {x}) + Sum(g, s \cup {x})
    BY <2>2, <2>3
  <2>. QED  BY <2>4
<1>3. P \in SUBSET SUBSET S
  OBVIOUS
<1>4. S \in P
  <2>. HIDE DEF P
  <2>. QED  BY <1>1, <1>2, <1>3, SetInduction
<1>. QED  BY <1>4

\* A sum of what is not negative is not either.
LEMMA SumNat ==
  ASSUME NEW f, NEW S, IsFiniteSet(S), \A x \in S : f[x] \in Nat
  PROVE  Sum(f, S) \in Nat
<1>. DEFINE P == {s \in SUBSET S : Sum(f, s) \in Nat}
<1>1. {} \in P
  <2>1. Sum(f, {}) \in Nat
    BY SumEmpty
  <2>. QED  BY <2>1
<1>2. ASSUME NEW s \in P, NEW x \in S \ s PROVE s \cup {x} \in P
  <2>1. IsFiniteSet(s)
    BY FS_Subset
  <2>2. Sum(f, s \cup {x}) = Sum(f, s) + f[x]
    BY <2>1, SumAdd
  <2>3. Sum(f, s) \in Nat /\ f[x] \in Nat
    OBVIOUS
  <2>4. Sum(f, s \cup {x}) \in Nat
    BY <2>2, <2>3
  <2>. QED  BY <2>4
<1>3. P \in SUBSET SUBSET S
  OBVIOUS
<1>4. S \in P
  <2>. HIDE DEF P
  <2>. QED  BY <1>1, <1>2, <1>3, SetInduction
<1>. QED  BY <1>4

\* Nothing of each adds up to nothing.
LEMMA SumZero ==
  ASSUME NEW f, NEW S, IsFiniteSet(S), \A x \in S : f[x] = 0
  PROVE  Sum(f, S) = 0
<1>. DEFINE P == {s \in SUBSET S : Sum(f, s) = 0}
<1>1. {} \in P
  BY SumEmpty
<1>2. ASSUME NEW s \in P, NEW x \in S \ s PROVE s \cup {x} \in P
  <2>1. IsFiniteSet(s)
    BY FS_Subset
  <2>2. Sum(f, s \cup {x}) = Sum(f, s) + f[x]
    BY <2>1, SumAdd
  <2>3. Sum(f, s \cup {x}) = 0
    BY <2>2
  <2>. QED  BY <2>3
<1>3. P \in SUBSET SUBSET S
  OBVIOUS
<1>4. S \in P
  <2>. HIDE DEF P
  <2>. QED  BY <1>1, <1>2, <1>3, SetInduction
<1>. QED  BY <1>4

\* Summing over a part is summing over the whole what is nothing outside the part.
LEMMA SumWhere ==
  ASSUME NEW f, NEW g, NEW S, IsFiniteSet(S), NEW T \in SUBSET S, \A x \in T : f[x] \in Int,
         \A x \in S : g[x] = IF x \in T THEN f[x] ELSE 0
  PROVE  Sum(f, T) = Sum(g, S)
<1>1. IsFiniteSet(T) /\ IsFiniteSet(S \ T)
  BY FS_Subset
<1>2. Sum(f, T) = Sum(g, T)
  BY <1>1, SumSame
<1>3. Sum(g, S \ T) = 0
  <2>1. \A x \in S \ T : g[x] = 0
    OBVIOUS
  <2>. QED  BY <1>1, <2>1, SumZero
<1>4. Sum(g, T \cup (S \ T)) = Sum(g, T) + Sum(g, S \ T)
  <2>1. T \cap (S \ T) = {} /\ \A x \in T \cup (S \ T) : g[x] \in Int
    OBVIOUS
  <2>. QED  BY <1>1, <2>1, SumUnion
<1>5. T \cup (S \ T) = S
  OBVIOUS
<1>6. Sum(g, S) = Sum(g, T) + Sum(g, S \ T)
  BY <1>4, <1>5, Zenon
<1>7. Sum(g, T) \in Int
  <2>1. \A x \in T : g[x] \in Int
    OBVIOUS
  <2>. QED  BY <1>1, <2>1, SumType
<1>. QED  BY <1>2, <1>3, <1>6, <1>7

\* Two parts of one set, each summed in its own way, that differ at most at e.
LEMMA SumMoves ==
  ASSUME NEW S, IsFiniteSet(S), NEW T \in SUBSET S, NEW U \in SUBSET S, NEW f, NEW g,
         \A x \in T : f[x] \in Int, \A x \in U : g[x] \in Int, NEW e \in S,
         \A x \in S : x # e => (IF x \in T THEN f[x] ELSE 0) = (IF x \in U THEN g[x] ELSE 0)
  PROVE  /\ Sum(f, T) \in Int
         /\ Sum(g, U) = Sum(f, T) + ((IF e \in U THEN g[e] ELSE 0) - (IF e \in T THEN f[e] ELSE 0))
<1>. DEFINE F == [x \in S |-> IF x \in T THEN f[x] ELSE 0]
            G == [x \in S |-> IF x \in U THEN g[x] ELSE 0]
<1>1. /\ \A x \in S : F[x] = IF x \in T THEN f[x] ELSE 0
      /\ \A x \in S : G[x] = IF x \in U THEN g[x] ELSE 0
      /\ \A x \in S : F[x] \in Int /\ G[x] \in Int /\ (x # e => F[x] = G[x])
  OBVIOUS
<1>. HIDE DEF F, G
<1>2. Sum(f, T) = Sum(F, S) /\ Sum(g, U) = Sum(G, S)
  BY <1>1, SumWhere
<1>3. Sum(G, S) = Sum(F, S) + (G[e] - F[e])
  BY <1>1, SumChange
<1>4. Sum(F, S) \in Int
  BY <1>1, SumType
<1>. QED  BY <1>1, <1>2, <1>3, <1>4

\* And that differ nowhere.
LEMMA SumStays ==
  ASSUME NEW S, IsFiniteSet(S), NEW T \in SUBSET S, NEW U \in SUBSET S, NEW f, NEW g,
         \A x \in T : f[x] \in Int, \A x \in U : g[x] \in Int,
         \A x \in S : (IF x \in T THEN f[x] ELSE 0) = (IF x \in U THEN g[x] ELSE 0)
  PROVE  Sum(g, U) = Sum(f, T)
<1>1. CASE S = {}
  BY <1>1, SumEmpty
<1>2. CASE S # {}
  <2>1. PICK e \in S : TRUE
    BY <1>2
  <2>2. /\ Sum(f, T) \in Int
        /\ Sum(g, U) = Sum(f, T) + ((IF e \in U THEN g[e] ELSE 0) - (IF e \in T THEN f[e] ELSE 0))
    BY SumMoves
  <2>3. /\ (IF e \in U THEN g[e] ELSE 0) = (IF e \in T THEN f[e] ELSE 0)
        /\ (IF e \in T THEN f[e] ELSE 0) \in Int
    OBVIOUS
  <2>. QED  BY <2>2, <2>3
<1>. QED  BY <1>1, <1>2

\* The members of W up to d.
UpTo(W, d) == {x \in W : x <= d}

\* W has at least k members.
AtLeast(W, k) == IsFiniteSet(W) => k <= Cardinality(W)

\* What is known of the members up to a number.
LEMMA UpToIs ==
  ASSUME NEW W \in SUBSET Nat, NEW d \in Nat
  PROVE  /\ UpTo(W, d) \in SUBSET W /\ UpTo(W, d) \in SUBSET (0..d)
         /\ \A x \in W : x \in UpTo(W, d) <=> x <= d
         /\ IsFiniteSet(UpTo(W, d)) /\ Cardinality(UpTo(W, d)) \in Nat
<1>1. PICK upto : upto = UpTo(W, d)
  OBVIOUS
<1>2. \A x : x \in upto <=> x \in W /\ x <= d
  BY <1>1, Zenon DEF UpTo
<1>3. upto \in SUBSET (0..d)
  <2>1. ASSUME NEW x \in upto PROVE x \in 0..d
    <3>1. x \in Nat /\ x <= d
      BY <1>2
    <3>. QED  BY <3>1
  <2>. QED  BY <2>1
<1>4. IsFiniteSet(0..d)
  BY FS_Interval
<1>5. IsFiniteSet(upto) /\ Cardinality(upto) \in Nat
  BY <1>3, <1>4, FS_Subset, FS_CardinalityType
<1>. QED  BY <1>1, <1>2, <1>3, <1>5, Zenon

\* There are more of them up to a larger member.
LEMMA UpToGrows ==
  ASSUME NEW W \in SUBSET Nat, NEW d \in Nat, NEW e \in W, d < e
  PROVE  Cardinality(UpTo(W, e)) >= Cardinality(UpTo(W, d)) + 1
<1>1. PICK low, high : low = UpTo(W, d) /\ high = UpTo(W, e)
  OBVIOUS
<1>2. /\ low \in SUBSET (0..d) /\ IsFiniteSet(low) /\ Cardinality(low) \in Nat
      /\ low \in SUBSET W /\ \A x \in W : x \in low <=> x <= d
  BY <1>1, UpToIs
<1>3. /\ IsFiniteSet(high) /\ Cardinality(high) \in Nat
      /\ \A x \in W : x \in high <=> x <= e
  <2>1. e \in Nat
    OBVIOUS
  <2>. QED  BY <1>1, <2>1, UpToIs
<1>4. e \notin low /\ low \cup {e} \in SUBSET high
  <2>1. e \notin low /\ e \in high
    BY <1>2, <1>3
  <2>2. \A x \in low : x \in high
    BY <1>2, <1>3
  <2>. QED  BY <2>1, <2>2
<1>5. Cardinality(low \cup {e}) = Cardinality(low) + 1
  BY <1>2, <1>4, FS_AddElement
<1>6. Cardinality(low \cup {e}) <= Cardinality(high)
  BY <1>3, <1>4, FS_Subset
<1>. QED  BY <1>1, <1>2, <1>3, <1>5, <1>6

\* Of at least k numbers, k are up to one of them.
LEMMA SomeReach ==
  ASSUME NEW W \in SUBSET Nat, NEW k \in Nat, k >= 1, AtLeast(W, k)
  PROVE  \E d \in W : Cardinality(UpTo(W, d)) >= k
<1>1. CASE IsFiniteSet(W)
  <2>1. k <= Cardinality(W)
    BY <1>1 DEF AtLeast
  <2>2. W # {}
    BY <1>1, <2>1, FS_EmptySet
  <2>3. PICK d \in W : \A m \in W : m <= d
    BY <1>1, <2>2, LargestNumber
  <2>4. UpTo(W, d) = W
    BY <2>3, Zenon DEF UpTo
  <2>5. Cardinality(UpTo(W, d)) >= k
    BY <2>1, <2>4
  <2>. QED  BY <2>5
<1>2. CASE ~IsFiniteSet(W)
  <2>1. SUFFICES ASSUME \A d \in W : ~(Cardinality(UpTo(W, d)) >= k) PROVE FALSE
    OBVIOUS
  <2>2. PICK V : V = {Cardinality(UpTo(W, d)) : d \in W}
    OBVIOUS
  <2>3. ASSUME NEW v \in V PROVE v \in 0..k
    <3>1. PICK d \in W : v = Cardinality(UpTo(W, d))
      BY <2>2
    <3>2. d \in Nat
      OBVIOUS
    <3>3. v \in Nat
      BY <3>1, <3>2, UpToIs
    <3>4. ~(v >= k)
      BY <2>1, <3>1
    <3>. QED  BY <3>3, <3>4
  <2>4. V \in SUBSET (0..k) /\ V \in SUBSET Nat
    BY <2>3
  <2>5. IsFiniteSet(V)
    <3>1. IsFiniteSet(0..k)
      BY FS_Interval
    <3>. QED  BY <2>4, <3>1, FS_Subset
  <2>6. V # {}
    <3>1. W # {}
      BY <1>2, FS_EmptySet
    <3>. QED  BY <2>2, <3>1
  <2>7. PICK v \in V : \A m \in V : m <= v
    BY <2>4, <2>5, <2>6, LargestNumber
  <2>8. PICK d \in W : v = Cardinality(UpTo(W, d))
    BY <2>2
  <2>9. PICK e \in W : d < e
    <3>1. d \in Nat
      OBVIOUS
    <3>2. IsFiniteSet(0..d)
      BY <3>1, FS_Interval
    <3>3. W \notin SUBSET (0..d)
      BY <1>2, <3>2, FS_Subset
    <3>4. PICK e \in W : e \notin 0..d
      BY <3>3
    <3>5. d < e
      BY <3>1, <3>4
    <3>. QED  BY <3>4, <3>5
  <2>10. Cardinality(UpTo(W, e)) \in V /\ v \in Nat
    BY <2>2, <2>4
  <2>11. Cardinality(UpTo(W, e)) >= v + 1
    <3>1. d \in Nat
      OBVIOUS
    <3>2. Cardinality(UpTo(W, e)) >= Cardinality(UpTo(W, d)) + 1
      BY <2>9, <3>1, UpToGrows
    <3>. QED  BY <2>8, <3>2
  <2>12. PICK n : n = Cardinality(UpTo(W, e))
    OBVIOUS
  <2>13. n \in V /\ n \in Nat /\ n >= v + 1
    <3>1. n \in V
      BY <2>10, <2>12, Zenon
    <3>. QED  BY <2>4, <2>11, <2>12, <3>1
  <2>14. n <= v
    BY <2>7, <2>13, Zenon
  <2>. QED  BY <2>10, <2>13, <2>14
<1>. QED  BY <1>1, <1>2

\* Every number up to how many there are is the place of one of them, in their order.
LEMMA NthNumber ==
  ASSUME NEW W \in SUBSET Nat, NEW k \in Nat, k >= 1, AtLeast(W, k)
  PROVE  \E d \in W : Cardinality({x \in W : x <= d}) = k
<1>1. PICK d \in W : /\ Cardinality(UpTo(W, d)) >= k
                     /\ \A m \in W : Cardinality(UpTo(W, m)) >= k => d <= m
  <2>1. PICK D : D = {m \in W : Cardinality(UpTo(W, m)) >= k}
    OBVIOUS
  <2>2. D \in SUBSET Nat /\ D # {}
    BY SomeReach, <2>1
  <2>3. PICK d \in D : \A m \in D : d <= m
    BY <2>2, SmallestNumber
  <2>4. \A m \in W : Cardinality(UpTo(W, m)) >= k => d <= m
    BY <2>1, <2>3
  <2>. QED  BY <2>1, <2>3, <2>4
<1>2. PICK low : low = UpTo(W, d)
  OBVIOUS
<1>3. /\ IsFiniteSet(low) /\ Cardinality(low) \in Nat /\ low \in SUBSET W
      /\ \A x \in W : x \in low <=> x <= d
  <2>1. d \in Nat
    OBVIOUS
  <2>. QED  BY <1>2, <2>1, UpToIs
<1>4. ASSUME Cardinality(low) > k PROVE FALSE
  <2>1. PICK B : B = low \ {d}
    OBVIOUS
  <2>2. d \in low
    BY <1>3
  <2>3. IsFiniteSet(B) /\ Cardinality(B) = Cardinality(low) - 1
    BY <1>3, <2>1, <2>2, FS_RemoveElement
  <2>4. B # {}
    <3>1. Cardinality(B) # 0
      BY <1>3, <1>4, <2>3
    <3>. QED  BY <3>1, FS_EmptySet
  <2>5. B \in SUBSET Nat /\ \A x \in B : x \in W /\ x <= d /\ x # d
    BY <1>3, <2>1
  <2>6. PICK e \in B : \A m \in B : m <= e
    BY <2>3, <2>4, <2>5, LargestNumber
  <2>7. e \in W /\ e \in Nat /\ e < d
    BY <2>5, <2>6
  <2>8. UpTo(W, e) = B
    <3>1. \A x \in W : x \in UpTo(W, e) <=> x <= e
      BY <2>7, UpToIs
    <3>2. UpTo(W, e) \in SUBSET W
      BY <2>7, UpToIs
    <3>3. \A x \in B : x \in W
      BY <2>5
    <3>4. \A x \in W : x <= e <=> x \in B
      <4>1. ASSUME NEW x \in W, x <= e PROVE x \in B
        <5>1. x \in Nat /\ d \in Nat /\ x <= d /\ x # d
          BY <2>7, <4>1
        <5>. QED  BY <1>3, <2>1, <5>1
      <4>. QED  BY <2>6, <4>1
    <3>5. \A x : x \in UpTo(W, e) <=> x \in B
      BY <3>1, <3>2, <3>3, <3>4, Zenon
    <3>6. PICK high : high = UpTo(W, e)
      OBVIOUS
    <3>7. high = B
      <4>1. \A x : x \in high <=> x \in B
        BY <3>5, <3>6, Zenon
      <4>. QED  BY <4>1
    <3>. QED  BY <3>6, <3>7
  <2>9. Cardinality(UpTo(W, e)) >= k
    BY <1>3, <1>4, <2>3, <2>8
  <2>10. d <= e
    BY <1>1, <2>7, <2>9
  <2>. QED  BY <2>7, <2>10
<1>5. Cardinality(low) = k
  BY <1>1, <1>2, <1>3, <1>4
<1>. QED  BY <1>2, <1>5 DEF UpTo
=============================================================================
