----------------------------- MODULE FiniteSums -----------------------------
(***************************************************************************)
(* Sums over finite sets of indices, which the totals and the means of the *)
(* closed loop are.  SumFunctionOnSet is a fold, and a fold a recursive    *)
(* function: the induction its properties need is drawn from the fact that *)
(* strict inclusion is well-founded on finite sets, so that every family   *)
(* of them has a minimal member.                                           *)
(***************************************************************************)
EXTENDS Integers, FiniteSets, Functions, FiniteSetTheorems, TLAPS

(* Least numbers and minimal sets *)

\* A set of naturals that is not empty has a least member.
LEMMA LeastNatural ==
  ASSUME NEW T, T \subseteq Nat, T # {}
  PROVE  \E n \in T : \A m \in T : n <= m
<1> DEFINE Less == {p \in Nat \X Nat : p[1] < p[2]}
<1>1. IsWellFoundedOn(Less, Nat)
  BY NatLessThanWellFounded DEF OpToRel
<1>2. \A m, n \in Nat : <<m, n>> \in Less <=> m < n
  OBVIOUS
<1> HIDE DEF Less
<1>3. PICK n \in T : \A m \in T : ~(<<m, n>> \in Less)
  BY <1>1, WFMin, Zenon
<1>4. ASSUME NEW m \in T PROVE n <= m
  <2>1. m \in Nat /\ n \in Nat /\ ~(m < n)
    BY <1>2, <1>3
  <2>2. QED
    BY <2>1
<1>5. QED
  BY <1>4


\* A family of finite sets that is not empty has a member that includes no other.
LEMMA MinimalSubset ==
  ASSUME NEW S, IsFiniteSet(S), NEW F, F \subseteq SUBSET S, F # {}
  PROVE  \E T \in F : \A U \in F : U \subseteq T => U = T
<1>1. /\ IsWellFoundedOn(StrictSubsetOrdering(S), FiniteSubsetsOf(S))
      /\ F \subseteq FiniteSubsetsOf(S)
  BY FS_StrictSubsetOrderingWellFounded, FS_FiniteSubsetsOfFinite
<1>2. \E T \in F : \A U \in F : ~(<<U, T>> \in StrictSubsetOrdering(S))
  BY <1>1, WFMin, Zenon
<1>3. \A T, U \in SUBSET S :
        <<U, T>> \in StrictSubsetOrdering(S) <=> U \subseteq T /\ U # T
  BY DEF StrictSubsetOrdering
<1>4. QED
  BY <1>2, <1>3

-----------------------------------------------------------------------------
(* What the fold computes *)

Any(s) == CHOOSE x \in s : TRUE

\* g adds up f over every subset of S, taking the elements in the order in which
\* the fold chooses them.
Sums(g, f, S) ==
  g = [s \in SUBSET S |-> IF s = {} THEN 0 ELSE f[Any(s)] + g[s \ {Any(s)}]]

\* The sum over S is what one such function, if there is one, gives S.
LEMMA SumIsChosen ==
  ASSUME NEW f, NEW S
  PROVE  SumFunctionOnSet(f, S) = (CHOOSE g : Sums(g, f, S))[S]
  BY DEF SumFunctionOnSet, FoldFunctionOnSet, MapThenFoldSet, Sums, Any

\* Two of them agree wherever the functions they add up do.
LEMMA SumsAgree ==
  ASSUME NEW S, IsFiniteSet(S), NEW S2, IsFiniteSet(S2),
         NEW f, NEW f2, NEW g, NEW g2, Sums(g, f, S), Sums(g2, f2, S2),
         NEW T, T \subseteq S, T \subseteq S2, \A x \in T : f[x] = f2[x]
  PROVE  g[T] = g2[T]
<1> DEFINE F == {s \in SUBSET T : g[s] # g2[s]}
<1>1. SUFFICES ASSUME F # {} PROVE FALSE
  OBVIOUS
<1>2. IsFiniteSet(T)
  BY FS_Subset
<1>3. PICK s \in F : \A u \in F : u \subseteq s => u = s
  <2> HIDE DEF F
  <2>1. F \subseteq SUBSET T
    BY DEF F
  <2>2. QED
    BY <1>1, <1>2, <2>1, MinimalSubset
<1>4. /\ g[s] = IF s = {} THEN 0 ELSE f[Any(s)] + g[s \ {Any(s)}]
      /\ g2[s] = IF s = {} THEN 0 ELSE f2[Any(s)] + g2[s \ {Any(s)}]
  BY DEF Sums
<1>5. s # {} /\ g[s \ {Any(s)}] # g2[s \ {Any(s)}]
  <2>1. s # {}
    BY <1>4
  <2>2. Any(s) \in s
    BY <2>1 DEF Any
  <2>3. f[Any(s)] = f2[Any(s)]
    BY <2>2
  <2>4. QED
    BY <1>4, <2>1, <2>3
<1>6. Any(s) \in s
  BY <1>5 DEF Any
<1>7. QED
  BY <1>3, <1>5, <1>6

\* There is such a function for every finite set.
LEMMA SumsExists ==
  ASSUME NEW S, IsFiniteSet(S), NEW f
  PROVE  \E g : Sums(g, f, S)
<1> DEFINE F == {T \in SUBSET S : ~ \E g : Sums(g, f, T)}
<1>1. SUFFICES ASSUME F # {} PROVE FALSE
  OBVIOUS
<1>2. PICK T \in F : \A U \in F : U \subseteq T => U = T
  <2> HIDE DEF F
  <2>1. F \subseteq SUBSET S
    BY DEF F
  <2>2. QED
    BY <1>1, <2>1, MinimalSubset
<1> DEFINE G(U) == CHOOSE g : Sums(g, f, U)
           h == [s \in SUBSET T |->
                   IF s = {} THEN 0 ELSE f[Any(s)] + G(s \ {Any(s)})[s \ {Any(s)}]]
<1>3. ASSUME NEW U \in SUBSET T, U # T
      PROVE  IsFiniteSet(U) /\ Sums(G(U), f, U)
  <2>1. IsFiniteSet(U)
    BY FS_Subset
  <2>2. \E g : Sums(g, f, U)
    BY <1>2, <1>3
  <2>3. QED
    BY <2>1, <2>2, Zenon
<1>4. ASSUME NEW U \in SUBSET T, U # T
      PROVE  h[U] = G(U)[U]
  <2>1. G(U)[U] = IF U = {} THEN 0 ELSE f[Any(U)] + G(U)[U \ {Any(U)}]
    <3> HIDE DEF G
    <3> QED BY <1>3, <1>4 DEF Sums
  <2>2. CASE U = {}
    BY <2>1, <2>2
  <2>3. CASE U # {}
    <3> DEFINE V == U \ {Any(U)}
    <3>1. V \in SUBSET T /\ V # T /\ V \subseteq U
      BY <1>4
    <3>2. G(U)[V] = G(V)[V]
      <4> HIDE DEF G, V
      <4>1. IsFiniteSet(U) /\ Sums(G(U), f, U) /\ IsFiniteSet(V) /\ Sums(G(V), f, V)
        BY <1>3, <1>4, <3>1
      <4>2. QED
        BY <4>1, <3>1, SumsAgree
    <3>3. QED
      BY <2>1, <2>3, <3>2
  <2>4. QED
    BY <2>2, <2>3
<1>5. Sums(h, f, T)
  <2>1. ASSUME NEW s \in SUBSET T, s # {}
        PROVE  G(s \ {Any(s)})[s \ {Any(s)}] = h[s \ {Any(s)}]
    <3>1. Any(s) \in s
      BY <2>1 DEF Any
    <3>2. s \ {Any(s)} \in SUBSET T /\ s \ {Any(s)} # T
      BY <3>1
    <3>3. QED
      <4> HIDE DEF h, G
      <4> QED BY <1>4, <3>2
  <2>2. QED
    <3> HIDE DEF G
    <3> QED BY <2>1 DEF Sums
<1>6. QED
  BY <1>2, <1>5

LEMMA SumEmpty ==
  ASSUME NEW f
  PROVE  SumFunctionOnSet(f, {}) = 0
<1> DEFINE g == CHOOSE h : Sums(h, f, {})
<1>1. Sums(g, f, {})
  BY SumsExists, FS_EmptySet
<1>2. g[{}] = 0
  <2> HIDE DEF g
  <2> QED BY <1>1 DEF Sums
<1>3. QED
  BY <1>2, SumIsChosen

\* Sums over one set of functions that agree there are the same.
LEMMA SumAgree ==
  ASSUME NEW S, IsFiniteSet(S), NEW f, NEW f2, \A x \in S : f[x] = f2[x]
  PROVE  SumFunctionOnSet(f, S) = SumFunctionOnSet(f2, S)
<1> DEFINE g == CHOOSE h : Sums(h, f, S)
           g2 == CHOOSE h : Sums(h, f2, S)
<1>1. Sums(g, f, S) /\ Sums(g2, f2, S)
  BY SumsExists
<1>2. g[S] = g2[S]
  <2> HIDE DEF g, g2
  <2> QED BY <1>1, SumsAgree
<1>3. QED
  BY <1>2, SumIsChosen

\* The recursion of the fold: it takes out the element it chooses.
LEMMA SumChosen ==
  ASSUME NEW S, IsFiniteSet(S), S # {}, NEW f
  PROVE  SumFunctionOnSet(f, S) = f[Any(S)] + SumFunctionOnSet(f, S \ {Any(S)})
<1> DEFINE T == S \ {Any(S)}
           g == CHOOSE h : Sums(h, f, S)
           g2 == CHOOSE h : Sums(h, f, T)
<1>1. IsFiniteSet(T)
  BY FS_Subset
<1>2. Sums(g, f, S) /\ Sums(g2, f, T)
  <2> HIDE DEF T
  <2> QED BY <1>1, SumsExists
<1>3. g[T] = g2[T]
  <2>1. T \subseteq S
    OBVIOUS
  <2>2. QED
    <3> HIDE DEF g, g2, T
    <3> QED BY <1>1, <1>2, <2>1, SumsAgree
<1>4. g[S] = f[Any(S)] + g[T]
  <2> HIDE DEF g
  <2> QED BY <1>2 DEF Sums
<1>5. g[S] = SumFunctionOnSet(f, S) /\ g2[T] = SumFunctionOnSet(f, T)
  <2> HIDE DEF T
  <2> QED BY SumIsChosen
<1>6. QED
  <2> HIDE DEF g, g2
  <2> QED BY <1>3, <1>4, <1>5

-----------------------------------------------------------------------------
(* What the sums of integers need: any element may be taken out *)

LEMMA SumInt ==
  ASSUME NEW S, IsFiniteSet(S), NEW f, \A x \in S : f[x] \in Int
  PROVE  /\ SumFunctionOnSet(f, S) \in Int
         /\ \A x \in S : SumFunctionOnSet(f, S) = f[x] + SumFunctionOnSet(f, S \ {x})
<1> DEFINE Sum(T) == SumFunctionOnSet(f, T)
           Good(T) == Sum(T) \in Int /\ \A x \in T : Sum(T) = f[x] + Sum(T \ {x})
           F == {T \in SUBSET S : ~Good(T)}
<1>1. SUFFICES ASSUME F # {} PROVE FALSE
  <2> HIDE DEF Good
  <2>1. Good(S)
    BY <1>1
  <2> QED BY <2>1 DEF Good
<1>2. PICK T \in F : \A U \in F : U \subseteq T => U = T
  <2> HIDE DEF F
  <2>1. F \subseteq SUBSET S
    BY DEF F
  <2>2. QED
    BY <1>1, <2>1, MinimalSubset
<1>3. \A U \in SUBSET T : U # T => Good(U)
  <2> HIDE DEF Good
  <2> QED BY <1>2
<1>4. T # {}
  <2>1. Good({})
    BY SumEmpty
  <2>2. QED
    <3> HIDE DEF Good
    <3> QED BY <2>1
<1> DEFINE c == Any(T)
<1>5. c \in T /\ f[c] \in Int
  BY <1>4 DEF Any
<1>6. Sum(T) = f[c] + Sum(T \ {c})
  <2>1. IsFiniteSet(T)
    BY FS_Subset
  <2>2. QED
    BY <2>1, <1>4, SumChosen
<1> HIDE DEF Sum, c
<1>7. Sum(T \ {c}) \in Int
  BY <1>3, <1>5
<1>8. ASSUME NEW x \in T
      PROVE  Sum(T) = f[x] + Sum(T \ {x})
  <2>1. CASE x = c
    BY <1>6, <2>1
  <2>2. CASE x # c
    <3>1. Sum(T \ {c}) = f[x] + Sum((T \ {c}) \ {x})
      BY <1>3, <1>5, <1>8, <2>2
    <3>2. Sum(T \ {x}) = f[c] + Sum((T \ {c}) \ {x})
      <4>1. (T \ {c}) \ {x} = (T \ {x}) \ {c}
        OBVIOUS
      <4>2. Sum(T \ {x}) = f[c] + Sum((T \ {x}) \ {c})
        BY <1>3, <1>5, <1>8, <2>2
      <4>3. QED
        BY <4>1, <4>2
    <3>3. f[x] \in Int /\ Sum((T \ {c}) \ {x}) \in Int
      <4>1. \A U \in SUBSET T : U # T => Sum(U) \in Int
        BY <1>3
      <4>2. (T \ {c}) \ {x} # T
        BY <1>5
      <4>3. QED
        BY <4>1, <4>2
    <3>4. QED
      BY <1>5, <1>6, <3>1, <3>2, <3>3
  <2>3. QED
    BY <2>1, <2>2
<1>9. Sum(T) \in Int
  BY <1>5, <1>6, <1>7
<1>10. QED
  BY <1>8, <1>9

LEMMA SumRemove ==
  ASSUME NEW S, IsFiniteSet(S), NEW f, \A x \in S : f[x] \in Int, NEW x \in S
  PROVE  SumFunctionOnSet(f, S) = f[x] + SumFunctionOnSet(f, S \ {x})
  BY SumInt

LEMMA SumNat ==
  ASSUME NEW S, IsFiniteSet(S), NEW f, \A x \in S : f[x] \in Nat
  PROVE  SumFunctionOnSet(f, S) \in Nat
<1> DEFINE Sum(T) == SumFunctionOnSet(f, T)
           F == {T \in SUBSET S : Sum(T) \notin Nat}
<1>1. SUFFICES ASSUME F # {} PROVE FALSE
  OBVIOUS
<1>2. PICK T \in F : \A U \in F : U \subseteq T => U = T
  <2> HIDE DEF F
  <2>1. F \subseteq SUBSET S
    BY DEF F
  <2>2. QED
    BY <1>1, <2>1, MinimalSubset
<1>3. PICK x \in T : TRUE
  <2>1. Sum({}) \in Nat
    BY SumEmpty
  <2>2. QED
    <3> HIDE DEF Sum
    <3> QED BY <2>1
<1>4. Sum(T) = f[x] + Sum(T \ {x})
  <2>1. IsFiniteSet(T)
    BY FS_Subset
  <2>2. QED
    BY <2>1, SumRemove
<1>5. QED
  <2> HIDE DEF Sum
  <2> QED BY <1>2, <1>4

\* The sum over a set that comes in two parts.
LEMMA SumParts ==
  ASSUME NEW S, IsFiniteSet(S), NEW f, \A x \in S : f[x] \in Int, NEW R \in SUBSET S
  PROVE  SumFunctionOnSet(f, S) = SumFunctionOnSet(f, R) + SumFunctionOnSet(f, S \ R)
<1> DEFINE Sum(T) == SumFunctionOnSet(f, T)
           F == {T \in SUBSET R : Sum(S) # Sum(T) + Sum(S \ T)}
<1>1. SUFFICES ASSUME F # {} PROVE FALSE
  OBVIOUS
<1>2. PICK T \in F : \A U \in F : U \subseteq T => U = T
  <2> HIDE DEF F
  <2>1. F \subseteq SUBSET R /\ IsFiniteSet(R)
    BY FS_Subset DEF F
  <2>2. QED
    BY <1>1, <2>1, MinimalSubset
<1>3. \A U \in SUBSET S : Sum(U) \in Int /\ \A x \in U : Sum(U) = f[x] + Sum(U \ {x})
  <2>1. \A U \in SUBSET S : IsFiniteSet(U) /\ \A x \in U : f[x] \in Int
    BY FS_Subset
  <2>2. QED
    BY <2>1, SumInt
<1>4. Sum({}) = 0
  BY SumEmpty
<1> HIDE DEF Sum
<1>5. PICK x \in T : TRUE
  <2>1. Sum(S) = Sum({}) + Sum(S \ {})
    <3>1. S \ {} = S
      OBVIOUS
    <3>2. QED
      BY <1>3, <1>4, <3>1
  <2>2. QED
    BY <2>1
<1>6. Sum(S) = Sum(T \ {x}) + Sum(S \ (T \ {x}))
  BY <1>2
<1>7. Sum(T) = f[x] + Sum(T \ {x})
  BY <1>3
<1>8. Sum(S \ (T \ {x})) = f[x] + Sum(S \ T)
  <2>1. x \in S \ (T \ {x}) /\ S \ T = (S \ (T \ {x})) \ {x}
    OBVIOUS
  <2>2. QED
    BY <1>3, <2>1
<1>9. f[x] \in Int /\ Sum(T \ {x}) \in Int /\ Sum(S \ T) \in Int
  BY <1>3
<1>10. QED
  BY <1>2, <1>6, <1>7, <1>8, <1>9

\* The sum does not depend on how the indices are called: b renames those of S.
LEMMA SumRenamed ==
  ASSUME NEW S, IsFiniteSet(S), NEW f, NEW g, NEW b,
         \A x \in S : g[x] \in Int /\ g[x] = f[b[x]],
         \A x, y \in S : b[x] = b[y] => x = y
  PROVE  SumFunctionOnSet(g, S) = SumFunctionOnSet(f, {b[x] : x \in S})
<1> DEFINE Image(T) == {b[x] : x \in T}
           F == {T \in SUBSET S : SumFunctionOnSet(g, T) # SumFunctionOnSet(f, Image(T))}
<1>1. SUFFICES ASSUME F # {} PROVE FALSE
  OBVIOUS
<1>2. PICK T \in F : \A U \in F : U \subseteq T => U = T
  <2> HIDE DEF F
  <2>1. F \subseteq SUBSET S
    BY DEF F
  <2>2. QED
    BY <1>1, <2>1, MinimalSubset
<1>3. T # {}
  <2>1. Image({}) = {}
    OBVIOUS
  <2>2. QED
    BY <1>2, <2>1, SumEmpty
<1>4. PICK x \in T : TRUE
  BY <1>3
<1>5. IsFiniteSet(T) /\ IsFiniteSet(Image(T))
  <2>1. IsFiniteSet(T)
    BY FS_Subset
  <2>2. [y \in T |-> b[y]] \in Surjection(T, Image(T))
    BY DEF Surjection
  <2>3. QED
    <3> HIDE DEF Image
    <3> QED BY <2>1, <2>2, FS_Surjection
<1>6. SumFunctionOnSet(g, T) = g[x] + SumFunctionOnSet(g, T \ {x})
  BY <1>5, SumRemove
<1>7. SumFunctionOnSet(f, Image(T)) = f[b[x]] + SumFunctionOnSet(f, Image(T) \ {b[x]})
  <2>1. b[x] \in Image(T) /\ \A y \in Image(T) : f[y] \in Int
    OBVIOUS
  <2>2. QED
    <3> HIDE DEF Image
    <3> QED BY <1>5, <2>1, SumRemove
<1>8. Image(T) \ {b[x]} = Image(T \ {x})
  OBVIOUS
<1>9. QED
  BY <1>2, <1>6, <1>7, <1>8
=============================================================================
