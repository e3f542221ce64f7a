-------------------------------- MODULE Sums --------------------------------
(***************************************************************************)
(* What SumFunctionOnSet and SumFunction of the library Functions compute, *)
(* for any finite set of indices: the facts about totals that the proofs   *)
(* about shares, weights, reserves and counts rest on.  The library        *)
(* defines a sum by recursion over subsets, so there is first a function   *)
(* that recursion defines; facts about all finite sets are then shown by   *)
(* way of a least cardinality at which they fail.                          *)
(***************************************************************************)
EXTENDS Integers, FiniteSets, Functions, FiniteSetTheorems, WellFoundedInduction, TLAPS

LEMMA LeastNumber ==
  ASSUME NEW T, T \subseteq Nat, T # {}
  PROVE  \E n \in T : \A m \in T : n <= m
  <1>1. PICK n \in T : \A m \in T : ~ (<<m, n>> \in OpToRel(<, Nat))
    BY NatLessThanWellFounded, WFMin
  <1>2. \A m \in T : m \in Nat /\ n \in Nat
    OBVIOUS
  <1>3. \A m \in T : ~(m < n)
    BY <1>1, <1>2 DEF OpToRel
  <1> QED BY <1>2, <1>3

(* Among the sets that are wrong, one that becomes right with an element less. *)
LEMMA LeastWrong ==
  ASSUME NEW S, IsFiniteSet(S), NEW Wrong, Wrong \subseteq SUBSET S, Wrong # {}
  PROVE  \E s \in Wrong : IsFiniteSet(s) /\ \A x \in s : s \ {x} \notin Wrong
  <1> DEFINE Sizes == {Cardinality(s) : s \in Wrong}
  <1>1. \A s \in Wrong : IsFiniteSet(s) /\ Cardinality(s) \in Nat
    BY FS_Subset, FS_CardinalityType
  <1>2. Sizes \subseteq Nat /\ Sizes # {}
    BY <1>1
  <1>3. PICK n \in Sizes : \A m \in Sizes : n <= m
    <2> HIDE DEF Sizes
    <2> QED BY <1>2, LeastNumber
  <1>4. PICK s \in Wrong : n = Cardinality(s)
    BY <1>3
  <1>5. ASSUME NEW x \in s, s \ {x} \in Wrong PROVE FALSE
    <2>1. Cardinality(s \ {x}) = Cardinality(s) - 1 /\ Cardinality(s) \in Nat
      BY <1>1, <1>4, FS_RemoveElement
    <2>2. Cardinality(s \ {x}) \in Sizes
      BY <1>5
    <2> HIDE DEF Sizes
    <2> QED BY <1>3, <1>4, <2>1, <2>2
  <1> QED BY <1>1, <1>4, <1>5

-----------------------------------------------------------------------------
(* The element that the library takes next. *)
Any(s) == CHOOSE x \in s : TRUE

LEMMA AnyIn == ASSUME NEW s, s # {} PROVE Any(s) \in s
  BY DEF Any

(* g adds v up over the subsets of S. *)
Adder(g, v, S) == g = [s \in SUBSET S |-> IF s = {} THEN 0 ELSE v[Any(s)] + g[s \ {Any(s)}]]

LEMMA SumIsAdded ==
  ASSUME NEW S, NEW v
  PROVE  SumFunctionOnSet(v, S) = (CHOOSE g : Adder(g, v, S))[S]
  BY DEF SumFunctionOnSet, FoldFunctionOnSet, MapThenFoldSet, Adder, Any

LEMMA SumIsOnDomain ==
  ASSUME NEW v
  PROVE  SumFunction(v) = SumFunctionOnSet(v, DOMAIN v)
  BY DEF SumFunction, FoldFunction, SumFunctionOnSet, FoldFunctionOnSet

(* The subsets of S with at most n elements. *)
Small(S, n) == {s \in SUBSET S : Cardinality(s) <= n}

LEMMA SmallLess ==
  ASSUME NEW S, IsFiniteSet(S), NEW n \in Nat, NEW s \in Small(S, n + 1), s # {}
  PROVE  s \ {Any(s)} \in Small(S, n) /\ Cardinality(s) \in Nat
  <1>1. s \subseteq S /\ Cardinality(s) <= n + 1
    BY DEF Small
  <1>2. IsFiniteSet(s) /\ Any(s) \in s
    BY <1>1, FS_Subset, AnyIn
  <1>3. IsFiniteSet(s \ {Any(s)}) /\ Cardinality(s \ {Any(s)}) = Cardinality(s) - 1 /\ Cardinality(s) \in Nat
    BY <1>2, FS_RemoveElement, FS_CardinalityType
  <1> QED BY <1>1, <1>3 DEF Small

(* g adds v up over these. *)
AddsTo(g, v, S, n) ==
    /\ g \in [Small(S, n) -> Int]
    /\ \A s \in Small(S, n) : g[s] = IF s = {} THEN 0 ELSE v[Any(s)] + g[s \ {Any(s)}]

LEMMA AdderGrows ==
  ASSUME NEW S, IsFiniteSet(S), NEW v, \A x \in S : v[x] \in Int, NEW n \in Nat, NEW g, AddsTo(g, v, S, n)
  PROVE  \E h : AddsTo(h, v, S, n + 1)
  <1> DEFINE h == [s \in Small(S, n + 1) |-> IF s = {} THEN 0 ELSE v[Any(s)] + g[s \ {Any(s)}]]
  <1>1. h \in [Small(S, n + 1) -> Int]
    <2> SUFFICES ASSUME NEW s \in Small(S, n + 1), s # {} PROVE v[Any(s)] + g[s \ {Any(s)}] \in Int
      OBVIOUS
    <2>1. g[s \ {Any(s)}] \in Int
      BY SmallLess DEF AddsTo
    <2>2. Any(s) \in S
      BY AnyIn DEF Small
    <2> QED BY <2>1, <2>2
  <1>2. ASSUME NEW s \in Small(S, n) PROVE s \in Small(S, n + 1) /\ h[s] = g[s]
    <2>1. s \subseteq S /\ Cardinality(s) <= n
      BY DEF Small
    <2>2. Cardinality(s) \in Nat
      BY <2>1, FS_Subset, FS_CardinalityType
    <2>3. s \in Small(S, n + 1)
      BY <2>1, <2>2 DEF Small
    <2> QED BY <2>3 DEF AddsTo
  <1>3. \A s \in Small(S, n + 1) : h[s] = IF s = {} THEN 0 ELSE v[Any(s)] + h[s \ {Any(s)}]
    <2> SUFFICES ASSUME NEW s \in Small(S, n + 1), s # {} PROVE h[s] = v[Any(s)] + h[s \ {Any(s)}]
      OBVIOUS
    <2>1. h[s \ {Any(s)}] = g[s \ {Any(s)}]
      BY SmallLess, <1>2
    <2> HIDE DEF h
    <2>2. h[s] = v[Any(s)] + g[s \ {Any(s)}]
      BY DEF h
    <2> QED BY <2>1, <2>2
  <1> HIDE DEF h
  <1> QED BY <1>1, <1>3 DEF AddsTo

LEMMA AdderUpTo ==
  ASSUME NEW S, IsFiniteSet(S), NEW v, \A x \in S : v[x] \in Int
  PROVE  \A n \in Nat : \E g : AddsTo(g, v, S, n)
  <1> DEFINE Without == {n \in Nat : ~\E g : AddsTo(g, v, S, n)}
  <1> SUFFICES ASSUME Without # {} PROVE FALSE
    OBVIOUS
  <1>1. Without \subseteq Nat
    OBVIOUS
  <1>2. PICK n \in Without : \A m \in Without : n <= m
    <2> HIDE DEF Without
    <2> QED BY <1>1, LeastNumber
  <1>3. n # 0
    <2> SUFFICES ASSUME n = 0 PROVE FALSE
      OBVIOUS
    <2>1. Small(S, 0) = {{}}
      <3>1. \A s \in Small(S, 0) : s = {}
        <4> TAKE s \in Small(S, 0)
        <4>1. s \subseteq S /\ Cardinality(s) <= 0
          BY DEF Small
        <4>2. IsFiniteSet(s) /\ Cardinality(s) \in Nat
          BY <4>1, FS_Subset, FS_CardinalityType
        <4> QED BY <4>1, <4>2, FS_EmptySet
      <3>2. {} \in Small(S, 0)
        BY FS_EmptySet DEF Small
      <3> QED BY <3>1, <3>2
    <2>2. AddsTo([s \in {{}} |-> 0], v, S, 0)
      BY <2>1 DEF AddsTo
    <2> QED BY <2>2
  <1>4. n - 1 \in Nat /\ n - 1 \notin Without
    BY <1>1, <1>2, <1>3
  <1>5. PICK g : AddsTo(g, v, S, n - 1)
    BY <1>4
  <1>6. \E h : AddsTo(h, v, S, (n - 1) + 1)
    BY <1>4, <1>5, AdderGrows
  <1> QED BY <1>1, <1>6

LEMMA AdderExists ==
  ASSUME NEW S, IsFiniteSet(S), NEW v, \A x \in S : v[x] \in Int
  PROVE  \E g \in [SUBSET S -> Int] : Adder(g, v, S)
  <1>1. Cardinality(S) \in Nat
    BY FS_CardinalityType
  <1>2. PICK g : AddsTo(g, v, S, Cardinality(S))
    BY <1>1, AdderUpTo
  <1>3. Small(S, Cardinality(S)) = SUBSET S
    <2> SUFFICES ASSUME NEW s \in SUBSET S PROVE Cardinality(s) <= Cardinality(S)
      BY DEF Small
    <2> QED BY FS_Subset
  <1>4. g \in [SUBSET S -> Int] /\ \A s \in SUBSET S : g[s] = IF s = {} THEN 0 ELSE v[Any(s)] + g[s \ {Any(s)}]
    BY <1>2, <1>3 DEF AddsTo
  <1> QED BY <1>4 DEF Adder

(* There is but one: two agree on all subsets they share. *)
LEMMA AddersAgree ==
  ASSUME NEW S, IsFiniteSet(S), NEW T \in SUBSET S, NEW v, NEW w, NEW g, NEW h,
         Adder(g, v, S), Adder(h, w, T), \A x \in T : v[x] = w[x]
  PROVE  \A s \in SUBSET T : g[s] = h[s]
  <1>0. IsFiniteSet(T)
    BY FS_Subset
  <1>1. /\ \A s \in SUBSET S : g[s] = IF s = {} THEN 0 ELSE v[Any(s)] + g[s \ {Any(s)}]
        /\ \A s \in SUBSET T : h[s] = IF s = {} THEN 0 ELSE w[Any(s)] + h[s \ {Any(s)}]
    BY DEF Adder
  <1> DEFINE Wrong == {r \in SUBSET T : g[r] # h[r]}
  <1> SUFFICES ASSUME Wrong # {} PROVE FALSE
    OBVIOUS
  <1>2. PICK s \in Wrong : \A x \in s : s \ {x} \notin Wrong
    <2>1. Wrong \subseteq SUBSET T
      OBVIOUS
    <2> HIDE DEF Wrong
    <2> QED BY <1>0, <2>1, LeastWrong
  <1>3. s # {} /\ Any(s) \in s
    BY <1>1, <1>2, AnyIn
  <1>4. g[s \ {Any(s)}] # h[s \ {Any(s)}]
    BY <1>1, <1>3
  <1> QED BY <1>2, <1>3, <1>4

-----------------------------------------------------------------------------
(* The sum over a finite set: its type, and one step of it. *)
LEMMA SumTyped ==
  ASSUME NEW S, IsFiniteSet(S), NEW v, \A x \in S : v[x] \in Int
  PROVE  SumFunctionOnSet(v, S) \in Int
  <1> DEFINE g == CHOOSE g : Adder(g, v, S)
  <1>1. PICK h \in [SUBSET S -> Int] : Adder(h, v, S)
    BY AdderExists
  <1>2. Adder(g, v, S)
    BY <1>1
  <1> HIDE DEF g
  <1>3. g[S] = h[S]
    BY <1>1, <1>2, AddersAgree
  <1>4. SumFunctionOnSet(v, S) = g[S]
    BY SumIsAdded DEF g
  <1> QED BY <1>1, <1>3, <1>4

LEMMA SumOfAdder ==
  ASSUME NEW S, IsFiniteSet(S), NEW v, \A x \in S : v[x] \in Int, NEW g, Adder(g, v, S), NEW T \in SUBSET S
  PROVE  SumFunctionOnSet(v, T) = g[T]
  <1> DEFINE h == CHOOSE h : Adder(h, v, T)
  <1>0. IsFiniteSet(T)
    BY FS_Subset
  <1>1. \E k : Adder(k, v, T)
    BY <1>0, AdderExists
  <1>2. Adder(h, v, T)
    BY <1>1
  <1> HIDE DEF h
  <1>3. g[T] = h[T]
    BY <1>2, AddersAgree
  <1>4. SumFunctionOnSet(v, T) = h[T]
    BY SumIsAdded DEF h
  <1> QED BY <1>3, <1>4

LEMMA SumStep ==
  ASSUME NEW S, IsFiniteSet(S), NEW v, \A x \in S : v[x] \in Int
  PROVE  SumFunctionOnSet(v, S) =
            IF S = {} THEN 0 ELSE v[Any(S)] + SumFunctionOnSet(v, S \ {Any(S)})
  <1>1. PICK g : Adder(g, v, S)
    BY AdderExists
  <1>2. SumFunctionOnSet(v, S) = g[S] /\ SumFunctionOnSet(v, S \ {Any(S)}) = g[S \ {Any(S)}]
    BY <1>1, SumOfAdder
  <1>3. g[S] = IF S = {} THEN 0 ELSE v[Any(S)] + g[S \ {Any(S)}]
    BY <1>1 DEF Adder
  <1> QED BY <1>2, <1>3

LEMMA SumEqual ==
  ASSUME NEW S, IsFiniteSet(S), NEW v, NEW w, \A x \in S : v[x] \in Int /\ v[x] = w[x]
  PROVE  SumFunctionOnSet(v, S) = SumFunctionOnSet(w, S)
  <1>1. PICK g : Adder(g, v, S)
    BY AdderExists
  <1>2. PICK h : Adder(h, w, S)
    BY AdderExists
  <1>3. g[S] = h[S]
    BY <1>1, <1>2, AddersAgree
  <1>4. SumFunctionOnSet(v, S) = g[S] /\ SumFunctionOnSet(w, S) = h[S]
    BY <1>1, <1>2, SumOfAdder
  <1> QED BY <1>3, <1>4

(* In whatever order: any element may be taken first. *)
LEMMA SumRemove ==
  ASSUME NEW S, IsFiniteSet(S), NEW v, \A x \in S : v[x] \in Int, NEW x \in S
  PROVE  SumFunctionOnSet(v, S) = v[x] + SumFunctionOnSet(v, S \ {x})
  <1> DEFINE Wrong == {s \in SUBSET S : \E y \in s : SumFunctionOnSet(v, s) # v[y] + SumFunctionOnSet(v, s \ {y})}
  <1> SUFFICES ASSUME Wrong # {} PROVE FALSE
    OBVIOUS
  <1>1. \A s \in SUBSET S : IsFiniteSet(s) /\ SumFunctionOnSet(v, s) \in Int
    <2> TAKE s \in SUBSET S
    <2>1. IsFiniteSet(s)
      BY FS_Subset
    <2>2. \A y \in s : v[y] \in Int
      OBVIOUS
    <2> QED BY <2>1, <2>2, SumTyped
  <1>4. PICK s \in Wrong : \A z \in s : s \ {z} \notin Wrong
    <2>1. Wrong \subseteq SUBSET S
      OBVIOUS
    <2> HIDE DEF Wrong
    <2> QED BY <2>1, LeastWrong
  <1>5. PICK y \in s : SumFunctionOnSet(v, s) # v[y] + SumFunctionOnSet(v, s \ {y})
    BY <1>4
  <1> PICK a : a = Any(s)
    OBVIOUS
  <1>6. s \subseteq S /\ a \in s /\ s # {} /\ IsFiniteSet(s) /\ IsFiniteSet(s \ {y})
    BY <1>1, <1>4, <1>5, AnyIn, FS_Subset
  <1>7. SumFunctionOnSet(v, s) = v[a] + SumFunctionOnSet(v, s \ {a})
    BY <1>6, SumStep
  <1>8. a # y
    BY <1>5, <1>7
  <1>9. s \ {a} \notin Wrong /\ s \ {y} \notin Wrong
    BY <1>4, <1>5, <1>6
  <1>10. SumFunctionOnSet(v, s \ {a}) = v[y] + SumFunctionOnSet(v, (s \ {a}) \ {y})
    BY <1>6, <1>8, <1>9
  <1>11. SumFunctionOnSet(v, s \ {y}) = v[a] + SumFunctionOnSet(v, (s \ {y}) \ {a})
    BY <1>6, <1>8, <1>9
  <1>12. (s \ {a}) \ {y} = (s \ {y}) \ {a}
    OBVIOUS
  <1>13. v[a] \in Int /\ v[y] \in Int /\ SumFunctionOnSet(v, (s \ {a}) \ {y}) \in Int
    BY <1>1, <1>6
  <1> HIDE DEF Wrong
  <1> PICK t \in Int : t = SumFunctionOnSet(v, (s \ {a}) \ {y})
    BY <1>13
  <1>14. SumFunctionOnSet(v, s \ {a}) = v[y] + t /\ SumFunctionOnSet(v, s \ {y}) = v[a] + t
    BY <1>10, <1>11, <1>12
  <1> QED BY <1>5, <1>7, <1>13, <1>14

LEMMA SumEmpty == ASSUME NEW v PROVE SumFunctionOnSet(v, {}) = 0
  <1>1. IsFiniteSet({}) /\ \A x \in {} : v[x] \in Int
    BY FS_EmptySet
  <1> QED BY <1>1, SumStep

(* One term changes. *)
LEMMA SumChanged ==
  ASSUME NEW S, IsFiniteSet(S), NEW v, NEW w, \A y \in S : v[y] \in Int /\ w[y] \in Int,
         NEW x \in S, \A y \in S \ {x} : w[y] = v[y]
  PROVE  SumFunctionOnSet(w, S) = SumFunctionOnSet(v, S) - v[x] + w[x]
  <1>1. IsFiniteSet(S \ {x})
    BY FS_RemoveElement
  <1>2. SumFunctionOnSet(v, S) = v[x] + SumFunctionOnSet(v, S \ {x})
    BY SumRemove
  <1>3. SumFunctionOnSet(w, S) = w[x] + SumFunctionOnSet(w, S \ {x})
    BY SumRemove
  <1>4. SumFunctionOnSet(w, S \ {x}) = SumFunctionOnSet(v, S \ {x})
    BY <1>1, SumEqual
  <1>5. SumFunctionOnSet(v, S \ {x}) \in Int
    BY <1>1, SumTyped
  <1> QED BY <1>2, <1>3, <1>4, <1>5

-----------------------------------------------------------------------------
(* Two sums are compared, combined term by term, and counted. *)
LEMMA SumOrdered ==
  ASSUME NEW S, IsFiniteSet(S), NEW v, NEW w, \A x \in S : v[x] \in Int /\ w[x] \in Int /\ v[x] <= w[x]
  PROVE  SumFunctionOnSet(v, S) <= SumFunctionOnSet(w, S)
  <1> DEFINE Wrong == {s \in SUBSET S : ~(SumFunctionOnSet(v, s) <= SumFunctionOnSet(w, s))}
  <1> SUFFICES ASSUME Wrong # {} PROVE FALSE
    OBVIOUS
  <1>1. PICK s \in Wrong : IsFiniteSet(s) /\ \A x \in s : s \ {x} \notin Wrong
    <2>1. Wrong \subseteq SUBSET S
      OBVIOUS
    <2> HIDE DEF Wrong
    <2> QED BY <2>1, LeastWrong
  <1>2. s # {}
    <2>1. SumFunctionOnSet(v, {}) = 0 /\ SumFunctionOnSet(w, {}) = 0
      BY SumEmpty
    <2>2. {} \notin Wrong
      BY <2>1
    <2> HIDE DEF Wrong
    <2> QED BY <2>2
  <1>3. PICK x \in s : TRUE
    BY <1>2
  <1>4. IsFiniteSet(s \ {x}) /\ x \in S /\ s \subseteq S
    BY <1>1, FS_RemoveElement
  <1>5. /\ SumFunctionOnSet(v, s) = v[x] + SumFunctionOnSet(v, s \ {x})
        /\ SumFunctionOnSet(w, s) = w[x] + SumFunctionOnSet(w, s \ {x})
    BY <1>1, <1>4, SumRemove
  <1>6. SumFunctionOnSet(v, s \ {x}) \in Int /\ SumFunctionOnSet(w, s \ {x}) \in Int
    BY <1>4, SumTyped
  <1>7. SumFunctionOnSet(v, s \ {x}) <= SumFunctionOnSet(w, s \ {x}) /\ ~(SumFunctionOnSet(v, s) <= SumFunctionOnSet(w, s))
    BY <1>1, <1>4
  <1> HIDE DEF Wrong
  <1> QED BY <1>4, <1>5, <1>6, <1>7

(* Term by term a linear combination. *)
LEMMA SumLinear ==
  ASSUME NEW S, IsFiniteSet(S), NEW u, NEW v, NEW w, NEW k \in Int,
         \A x \in S : v[x] \in Int /\ w[x] \in Int /\ u[x] = k * v[x] + w[x]
  PROVE  SumFunctionOnSet(u, S) = k * SumFunctionOnSet(v, S) + SumFunctionOnSet(w, S)
  <1> DEFINE Wrong == {s \in SUBSET S : SumFunctionOnSet(u, s) # k * SumFunctionOnSet(v, s) + SumFunctionOnSet(w, s)}
  <1> SUFFICES ASSUME Wrong # {} PROVE FALSE
    OBVIOUS
  <1>1. PICK s \in Wrong : IsFiniteSet(s) /\ \A x \in s : s \ {x} \notin Wrong
    <2>1. Wrong \subseteq SUBSET S
      OBVIOUS
    <2> HIDE DEF Wrong
    <2> QED BY <2>1, LeastWrong
  <1>2. s # {}
    <2>1. SumFunctionOnSet(u, {}) = 0 /\ SumFunctionOnSet(v, {}) = 0 /\ SumFunctionOnSet(w, {}) = 0
      BY SumEmpty
    <2>2. 0 = k * 0 + 0
      OBVIOUS
    <2>3. {} \notin Wrong
      BY <2>1, <2>2
    <2> HIDE DEF Wrong
    <2> QED BY <2>3
  <1>3. PICK x \in s : TRUE
    BY <1>2
  <1>4. IsFiniteSet(s \ {x}) /\ x \in S /\ s \subseteq S
    BY <1>1, FS_RemoveElement
  <1>0. \A y \in S : u[y] \in Int
    OBVIOUS
  <1>5. /\ SumFunctionOnSet(u, s) = u[x] + SumFunctionOnSet(u, s \ {x})
        /\ SumFunctionOnSet(v, s) = v[x] + SumFunctionOnSet(v, s \ {x})
        /\ SumFunctionOnSet(w, s) = w[x] + SumFunctionOnSet(w, s \ {x})
    BY <1>0, <1>1, <1>4, SumRemove
  <1> PICK a \in Int : a = SumFunctionOnSet(v, s \ {x})
    BY <1>4, SumTyped
  <1> PICK b \in Int : b = SumFunctionOnSet(w, s \ {x})
    BY <1>4, SumTyped
  <1>6. SumFunctionOnSet(u, s \ {x}) = k * a + b /\ SumFunctionOnSet(u, s) # k * SumFunctionOnSet(v, s) + SumFunctionOnSet(w, s)
    BY <1>1, <1>4
  <1>7. PICK c \in Int, d \in Int : c = v[x] /\ d = w[x] /\ u[x] = k * c + d
    BY <1>4
  <1>8. (k * c + d) + (k * a + b) = k * (c + a) + (d + b)
    OBVIOUS
  <1> HIDE DEF Wrong
  <1> QED BY <1>5, <1>6, <1>7, <1>8

(* What is one on a part and zero besides counts the part. *)
LEMMA SumCounts ==
  ASSUME NEW S, IsFiniteSet(S), NEW T \in SUBSET S, NEW v, \A x \in S : v[x] = IF x \in T THEN 1 ELSE 0
  PROVE  SumFunctionOnSet(v, S) = Cardinality(T)
  <1> DEFINE Wrong == {s \in SUBSET S : SumFunctionOnSet(v, s) # Cardinality(s \cap T)}
  <1> SUFFICES ASSUME Wrong # {} PROVE FALSE
    <2>1. S \cap T = T
      OBVIOUS
    <2> QED BY <2>1
  <1>1. PICK s \in Wrong : IsFiniteSet(s) /\ \A x \in s : s \ {x} \notin Wrong
    <2>1. Wrong \subseteq SUBSET S
      OBVIOUS
    <2> HIDE DEF Wrong
    <2> QED BY <2>1, LeastWrong
  <1>2. s # {}
    <2>1. {} \cap T = {}
      OBVIOUS
    <2> QED BY <2>1, SumEmpty, FS_EmptySet
  <1>3. PICK x \in s : TRUE
    BY <1>2
  <1>4. IsFiniteSet(s \ {x}) /\ x \in S /\ s \subseteq S
    BY <1>1, FS_RemoveElement
  <1>5. SumFunctionOnSet(v, s) = v[x] + SumFunctionOnSet(v, s \ {x})
    BY <1>1, <1>4, SumRemove
  <1>6. SumFunctionOnSet(v, s \ {x}) = Cardinality((s \ {x}) \cap T)
        /\ SumFunctionOnSet(v, s) # Cardinality(s \cap T)
    BY <1>1, <1>4
  <1>7. Cardinality(s \cap T) = v[x] + Cardinality((s \ {x}) \cap T)
    <2>1. CASE x \in T
      <3>1. (s \ {x}) \cap T = (s \cap T) \ {x} /\ x \in s \cap T /\ IsFiniteSet(s \cap T)
        BY <1>1, <2>1, FS_Subset
      <3>2. Cardinality((s \cap T) \ {x}) = Cardinality(s \cap T) - 1 /\ Cardinality(s \cap T) \in Nat
        BY <3>1, FS_RemoveElement, FS_CardinalityType
      <3>3. v[x] = 1
        BY <1>4, <2>1
      <3> QED BY <3>1, <3>2, <3>3
    <2>2. CASE x \notin T
      <3>1. (s \ {x}) \cap T = s \cap T /\ IsFiniteSet(s \cap T) /\ v[x] = 0
        BY <1>1, <1>4, <2>2, FS_Subset
      <3>2. Cardinality(s \cap T) \in Nat
        BY <3>1, FS_CardinalityType
      <3> QED BY <3>1, <3>2
    <2> QED BY <2>1, <2>2
  <1> HIDE DEF Wrong
  <1> QED BY <1>5, <1>6, <1>7

-----------------------------------------------------------------------------
(* Shares of a whole *)

(* R orders S strictly and totally. *)
Orders(R, S) ==
    /\ \A x \in S : <<x, x>> \notin R
    /\ \A x, y \in S : x # y => <<x, y>> \in R \/ <<y, x>> \in R
    /\ \A x, y, z \in S : <<x, y>> \in R /\ <<y, z>> \in R => <<x, z>> \in R

(* How many elements of S come before x. *)
Rank(R, S, x) == Cardinality({y \in S : <<y, x>> \in R})

LEMMA RankTyped ==
  ASSUME NEW S, IsFiniteSet(S), NEW R, NEW x
  PROVE  Rank(R, S, x) \in Nat /\ IsFiniteSet({y \in S : <<y, x>> \in R})
  <1>1. IsFiniteSet({y \in S : <<y, x>> \in R})
    BY FS_Subset
  <1> QED BY <1>1, FS_CardinalityType DEF Rank

(* Who comes earlier has the smaller rank. *)
LEMMA RankGrows ==
  ASSUME NEW S, IsFiniteSet(S), NEW R, Orders(R, S), NEW x \in S, NEW y \in S, <<x, y>> \in R
  PROVE  Rank(R, S, x) < Rank(R, S, y)
  <1> DEFINE before == {z \in S : <<z, x>> \in R}
             later  == {z \in S : <<z, y>> \in R}
  <1>1. before \subseteq later /\ x \in later /\ x \notin before
    BY DEF Orders
  <1>2. IsFiniteSet(later) /\ IsFiniteSet(before) /\ Cardinality(later) \in Nat /\ Cardinality(before) \in Nat
    BY RankTyped, FS_CardinalityType
  <1>3. Rank(R, S, x) = Cardinality(before) /\ Rank(R, S, y) = Cardinality(later)
    BY DEF Rank
  <1> HIDE DEF before, later
  <1>4. Cardinality(before) <= Cardinality(later) /\ (Cardinality(before) = Cardinality(later) => before = later)
    BY <1>1, <1>2, FS_Subset
  <1> QED BY <1>1, <1>2, <1>3, <1>4

LEMMA RankBelow ==
  ASSUME NEW S, IsFiniteSet(S), NEW R, Orders(R, S), NEW x \in S
  PROVE  Rank(R, S, x) \in 0..Cardinality(S) - 1
  <1> DEFINE before == {z \in S : <<z, x>> \in R}
  <1>1. before \subseteq S /\ x \in S /\ x \notin before
    BY DEF Orders
  <1>2. IsFiniteSet(before) /\ Cardinality(before) \in Nat /\ Cardinality(S) \in Nat
    BY RankTyped, FS_CardinalityType
  <1>3. Rank(R, S, x) = Cardinality(before)
    BY DEF Rank
  <1> HIDE DEF before
  <1>4. Cardinality(before) <= Cardinality(S) /\ (Cardinality(before) = Cardinality(S) => before = S)
    BY <1>1, <1>2, FS_Subset
  <1> QED BY <1>1, <1>2, <1>3, <1>4

(* The first m of S are m. *)
LEMMA RanksCount ==
  ASSUME NEW S, IsFiniteSet(S), NEW R, Orders(R, S), NEW m \in 0..Cardinality(S)
  PROVE  Cardinality({x \in S : Rank(R, S, x) < m}) = m
  <1> DEFINE n == Cardinality(S)
             f == [x \in S |-> Rank(R, S, x)]
             first == {x \in S : Rank(R, S, x) < m}
             g == [x \in first |-> Rank(R, S, x)]
  <1>1. n \in Nat /\ m \in Nat /\ m <= n
    BY FS_CardinalityType
  <1>2. IsFiniteSet(0..n - 1) /\ Cardinality(0..n - 1) = n
    <2>1. 0 \in Int /\ n - 1 \in Int
      BY <1>1
    <2>2. IsFiniteSet(0..n - 1) /\ Cardinality(0..n - 1) = IF 0 > n - 1 THEN 0 ELSE n - 1 - 0 + 1
      BY ONLY <2>1, FS_Interval
    <2> QED BY <1>1, <2>2
  <1>3. IsFiniteSet(0..m - 1) /\ Cardinality(0..m - 1) = m
    <2>1. 0 \in Int /\ m - 1 \in Int
      BY <1>1
    <2>2. IsFiniteSet(0..m - 1) /\ Cardinality(0..m - 1) = IF 0 > m - 1 THEN 0 ELSE m - 1 - 0 + 1
      BY ONLY <2>1, FS_Interval
    <2> QED BY <1>1, <2>2
  <1>4. \A x, y \in S : x # y => Rank(R, S, x) # Rank(R, S, y)
    <2> SUFFICES ASSUME NEW x \in S, NEW y \in S, x # y PROVE Rank(R, S, x) # Rank(R, S, y)
      OBVIOUS
    <2>1. Rank(R, S, x) < Rank(R, S, y) \/ Rank(R, S, y) < Rank(R, S, x)
      BY RankGrows DEF Orders
    <2>2. Rank(R, S, x) \in Nat /\ Rank(R, S, y) \in Nat
      BY RankTyped
    <2> QED BY <2>1, <2>2
  <1>5. f \in Injection(S, 0..n - 1)
    BY <1>4, RankBelow DEF Injection, IsInjective
  <1> HIDE DEF f
  <1>6. f \in Surjection(S, 0..n - 1)
    <2>1. IsFiniteSet(S) /\ Cardinality(S) = Cardinality(0..n - 1)
      BY <1>2
    <2> QED BY <1>2, <1>5, <2>1, FS_Injection
  <1>7. g \in Injection(first, 0..m - 1)
    <2>1. \A x \in first : Rank(R, S, x) \in 0..m - 1
      <3> TAKE x \in first
      <3>1. Rank(R, S, x) \in Nat /\ Rank(R, S, x) < m
        BY RankTyped
      <3> QED BY <1>1, <3>1
    <2> QED BY <1>4, <2>1 DEF Injection, IsInjective
  <1>8. g \in Surjection(first, 0..m - 1)
    <2> SUFFICES ASSUME NEW i \in 0..m - 1 PROVE \E x \in first : g[x] = i
      BY <1>7 DEF Surjection, Injection
    <2>1. i \in 0..n - 1
      BY <1>1
    <2>2. PICK x \in S : f[x] = i
      BY <1>6, <2>1 DEF Surjection
    <2>3. Rank(R, S, x) = i /\ i < m
      BY <1>1, <2>2 DEF f
    <2> QED BY <2>2, <2>3
  <1> HIDE DEF g, first
  <1>9. IsFiniteSet(first)
    BY <1>3, <1>7, FS_Injection
  <1>10. Cardinality(first) = Cardinality(0..m - 1)
    BY <1>3, <1>7, <1>8, FS_Injection
  <1> QED BY <1>3, <1>10 DEF first

(* Integer division of each product by the whole: what it gives and what it leaves. *)
Quotas(S, w, T, W, base, rest) ==
    \A x \in S : w[x] \in Nat /\ base[x] = (T * w[x]) \div W /\ rest[x] = (T * w[x]) % W

LEMMA QuotaTyped ==
  ASSUME NEW S, NEW T \in Nat, NEW W \in Nat, W > 0, NEW w, NEW base, NEW rest, Quotas(S, w, T, W, base, rest),
         NEW x \in S
  PROVE  base[x] \in Nat /\ rest[x] \in 0..W - 1 /\ T * w[x] = W * base[x] + rest[x] /\ w[x] \in Nat
  <1>1. w[x] \in Nat /\ base[x] = (T * w[x]) \div W /\ rest[x] = (T * w[x]) % W
    BY DEF Quotas
  <1>2. PICK p \in Nat : p = T * w[x]
    BY <1>1
  <1>3. p = W * (p \div W) + (p % W) /\ p % W \in 0..W - 1 /\ p \div W \in Nat
    OBVIOUS
  <1> QED BY <1>1, <1>2, <1>3

LEMMA SumZero ==
  ASSUME NEW S, IsFiniteSet(S)
  PROVE  SumFunctionOnSet([x \in S |-> 0], S) = 0
  <1> DEFINE z == [x \in S |-> 0]
  <1>1. {} \in SUBSET S /\ \A x \in S : z[x] = IF x \in {} THEN 1 ELSE 0
    OBVIOUS
  <1>2. Cardinality({}) = 0
    BY FS_EmptySet
  <1> HIDE DEF z
  <1>3. SumFunctionOnSet(z, S) = Cardinality({})
    BY <1>1, SumCounts
  <1> QED BY <1>2, <1>3 DEF z

(* k times a sum. *)
LEMMA SumTimes ==
  ASSUME NEW S, IsFiniteSet(S), NEW v, \A x \in S : v[x] \in Int, NEW k \in Int
  PROVE  SumFunctionOnSet([x \in S |-> k * v[x]], S) = k * SumFunctionOnSet(v, S)
  <1> DEFINE z == [x \in S |-> 0]
             u == [x \in S |-> k * v[x]]
  <1>1. \A x \in S : v[x] \in Int /\ z[x] \in Int /\ u[x] = k * v[x] + z[x]
    OBVIOUS
  <1>2. SumFunctionOnSet(z, S) = 0
    BY SumZero
  <1> HIDE DEF z, u
  <1>3. SumFunctionOnSet(u, S) = k * SumFunctionOnSet(v, S) + SumFunctionOnSet(z, S)
    BY <1>1, SumLinear
  <1>4. SumFunctionOnSet(v, S) \in Int
    BY SumTyped
  <1> QED BY <1>2, <1>3, <1>4 DEF u

(* What the divisions leave adds up to a multiple of the whole. *)
LEMMA RestsAddUp ==
  ASSUME NEW S, IsFiniteSet(S), NEW T \in Nat, NEW W \in Nat, W > 0, NEW w, NEW base, NEW rest,
         Quotas(S, w, T, W, base, rest), W = SumFunctionOnSet(w, S)
  PROVE  /\ SumFunctionOnSet(base, S) \in Int
         /\ SumFunctionOnSet(rest, S) = W * (T - SumFunctionOnSet(base, S))
  <1> DEFINE p == [x \in S |-> T * w[x]]
  <1>1. \A x \in S : base[x] \in Int /\ rest[x] \in Int /\ p[x] = W * base[x] + rest[x]
    BY QuotaTyped
  <1>2. SumFunctionOnSet(p, S) = T * W
    <2>1. \A x \in S : w[x] \in Int
      BY DEF Quotas
    <2> QED BY <2>1, SumTimes
  <1> HIDE DEF p
  <1>3. SumFunctionOnSet(p, S) = W * SumFunctionOnSet(base, S) + SumFunctionOnSet(rest, S)
    <2>1. W \in Int
      OBVIOUS
    <2> QED BY ONLY IsFiniteSet(S), <1>1, <2>1, SumLinear
  <1>4. SumFunctionOnSet(base, S) \in Int /\ SumFunctionOnSet(rest, S) \in Int
    BY <1>1, SumTyped
  <1> QED BY <1>2, <1>3, <1>4

(* No more is missing than there are divisions that leave something. *)
LEMMA MissingBounded ==
  ASSUME NEW S, IsFiniteSet(S), NEW T \in Nat, NEW W \in Nat, W > 0, NEW w, NEW base, NEW rest,
         Quotas(S, w, T, W, base, rest), W = SumFunctionOnSet(w, S)
  PROVE  T - SumFunctionOnSet(base, S) \in 0..Cardinality({x \in S : rest[x] > 0})
  <1> DEFINE positive == {x \in S : rest[x] > 0}
             one == [x \in S |-> IF x \in positive THEN 1 ELSE 0]
             most == [x \in S |-> (W - 1) * one[x]]
             z == [x \in S |-> 0]
  <1>1. \A x \in S : rest[x] \in 0..W - 1
    BY QuotaTyped
  <1>2. IsFiniteSet(positive) /\ Cardinality(positive) \in Nat /\ positive \in SUBSET S
    BY FS_Subset, FS_CardinalityType
  <1>3. \A x \in S : /\ z[x] \in Int /\ rest[x] \in Int /\ most[x] \in Int /\ one[x] \in Int
                     /\ z[x] <= rest[x] /\ rest[x] <= most[x]
    BY <1>1
  <1>4. \A x \in S : one[x] = IF x \in positive THEN 1 ELSE 0
    OBVIOUS
  <1>5. SumFunctionOnSet(z, S) = 0
    BY SumZero
  <1> HIDE DEF positive
  <1>6. SumFunctionOnSet(most, S) = (W - 1) * SumFunctionOnSet(one, S)
    <2>1. W - 1 \in Int
      OBVIOUS
    <2> HIDE DEF one
    <2> QED BY <1>3, <2>1, SumTimes
  <1> HIDE DEF one, most, z
  <1>7. SumFunctionOnSet(one, S) = Cardinality(positive)
    BY <1>2, <1>4, SumCounts
  <1>8. SumFunctionOnSet(z, S) <= SumFunctionOnSet(rest, S) /\ SumFunctionOnSet(rest, S) <= SumFunctionOnSet(most, S)
    BY <1>3, SumOrdered
  <1>9. PICK missing \in Int, c \in Nat : missing = T - SumFunctionOnSet(base, S) /\ c = Cardinality(positive)
    BY <1>2, RestsAddUp
  <1>10. 0 <= W * missing /\ W * missing <= (W - 1) * c
    BY <1>5, <1>6, <1>7, <1>8, <1>9, RestsAddUp
  <1>11. missing >= 0 /\ missing <= c
    <2>1. ASSUME missing < 0 PROVE FALSE
      <3>1. W * missing <= W * (-1)
        BY <2>1
      <3> QED BY <1>10, <3>1
    <2>2. ASSUME missing > c PROVE FALSE
      <3>1. W * missing >= W * (c + 1) /\ W * (c + 1) = W * c + W /\ (W - 1) * c = W * c - c
        BY <2>2
      <3> QED BY <1>10, <3>1
    <2> QED BY <2>1, <2>2
  <1> QED BY <1>9, <1>11 DEF positive

(* One more for those of the largest rests: nothing of the whole is left, and who *)
(* gets one more had a rest.                                                      *)
LEMMA SharesAddUp ==
  ASSUME NEW S, IsFiniteSet(S), NEW T \in Nat, NEW W \in Nat, W > 0, NEW w, NEW base, NEW rest,
         Quotas(S, w, T, W, base, rest), W = SumFunctionOnSet(w, S),
         NEW R, Orders(R, S), \A x, y \in S : rest[x] > rest[y] => <<x, y>> \in R,
         NEW missing, missing = T - SumFunctionOnSet(base, S), NEW share,
         \A x \in S : share[x] = base[x] + IF Rank(R, S, x) < missing THEN 1 ELSE 0
  PROVE  /\ missing \in 0..Cardinality(S) /\ SumFunctionOnSet(share, S) = T
         /\ \A x \in S : Rank(R, S, x) < missing => rest[x] > 0
  <1> DEFINE positive == {x \in S : rest[x] > 0}
             first == {x \in S : Rank(R, S, x) < missing}
             one == [x \in S |-> IF x \in first THEN 1 ELSE 0]
  <1>1. missing \in 0..Cardinality(positive)
    BY MissingBounded
  <1>2. /\ Cardinality(positive) \in Nat /\ Cardinality(S) \in Nat /\ Cardinality(positive) <= Cardinality(S)
        /\ IsFiniteSet(positive)
    <2>1. positive \subseteq S
      OBVIOUS
    <2> HIDE DEF positive
    <2> QED BY <2>1, FS_Subset, FS_CardinalityType
  <1>3. missing \in 0..Cardinality(S)
    BY <1>1, <1>2
  <1>4. ASSUME NEW x \in S, Rank(R, S, x) < missing PROVE rest[x] > 0
    <2> SUFFICES ASSUME ~(rest[x] > 0) PROVE FALSE
      OBVIOUS
    <2> DEFINE before == {y \in S : <<y, x>> \in R}
    <2>1. rest[x] \in 0..W - 1
      BY QuotaTyped
    <2>2. \A y \in positive : rest[y] > rest[x]
      <3> TAKE y \in positive
      <3>1. rest[y] > 0 /\ rest[y] \in 0..W - 1
        BY QuotaTyped
      <3> QED BY <2>1, <3>1
    <2>3. positive \subseteq before
      BY <2>2
    <2>4. IsFiniteSet(before) /\ Cardinality(before) = Rank(R, S, x) /\ Rank(R, S, x) \in Nat
      BY RankTyped DEF Rank
    <2> HIDE DEF positive, before
    <2>5. Cardinality(positive) <= Cardinality(before)
      BY <2>3, <2>4, FS_Subset
    <2> QED BY <1>1, <1>2, <1>4, <2>4, <2>5
  <1>5. Cardinality(first) = missing
    BY <1>3, RanksCount
  <1>6. \A x \in S : /\ base[x] \in Int /\ one[x] \in Int /\ one[x] = (IF x \in first THEN 1 ELSE 0)
                     /\ share[x] = 1 * base[x] + one[x]
    <2> TAKE x \in S
    <2>1. base[x] \in Nat /\ share[x] = base[x] + IF Rank(R, S, x) < missing THEN 1 ELSE 0
      BY QuotaTyped
    <2>2. one[x] = IF Rank(R, S, x) < missing THEN 1 ELSE 0
      OBVIOUS
    <2> QED BY <2>1, <2>2
  <1>7. first \in SUBSET S
    OBVIOUS
  <1> HIDE DEF first, one
  <1>8. SumFunctionOnSet(one, S) = missing
    BY <1>5, <1>6, <1>7, SumCounts
  <1>9. SumFunctionOnSet(share, S) = 1 * SumFunctionOnSet(base, S) + SumFunctionOnSet(one, S)
    <2>1. 1 \in Int
      OBVIOUS
    <2> QED BY ONLY IsFiniteSet(S), <1>6, <2>1, SumLinear
  <1>10. SumFunctionOnSet(base, S) \in Int
    BY <1>6, SumTyped
  <1>11. SumFunctionOnSet(share, S) = T
    BY <1>8, <1>9, <1>10
  <1> QED BY <1>3, <1>4, <1>11

(* A weight that is no smaller, and comes first when the divisions give the same,  *)
(* gets no smaller share.                                                         *)
LEMMA SharesOrdered ==
  ASSUME NEW S, IsFiniteSet(S), NEW T \in Nat, NEW W \in Nat, W > 0, NEW w, NEW base, NEW rest,
         Quotas(S, w, T, W, base, rest), NEW R, Orders(R, S), NEW missing \in Int, NEW share,
         \A x \in S : share[x] = base[x] + IF Rank(R, S, x) < missing THEN 1 ELSE 0,
         NEW x \in S, NEW y \in S, w[x] >= w[y], rest[x] >= rest[y] => <<x, y>> \in R
  PROVE  share[x] >= share[y]
  <1>a. base[x] \in Nat /\ rest[x] \in 0..W - 1 /\ T * w[x] = W * base[x] + rest[x] /\ w[x] \in Nat
    BY QuotaTyped
  <1>b. base[y] \in Nat /\ rest[y] \in 0..W - 1 /\ T * w[y] = W * base[y] + rest[y] /\ w[y] \in Nat
    BY QuotaTyped
  <1>1. /\ base[x] \in Nat /\ rest[x] \in 0..W - 1 /\ T * w[x] = W * base[x] + rest[x] /\ w[x] \in Nat
        /\ base[y] \in Nat /\ rest[y] \in 0..W - 1 /\ T * w[y] = W * base[y] + rest[y] /\ w[y] \in Nat
    BY <1>a, <1>b
  <1>2. T * w[x] >= T * w[y]
    BY <1>1
  <1>3. /\ share[x] = base[x] + (IF Rank(R, S, x) < missing THEN 1 ELSE 0)
        /\ share[y] = base[y] + (IF Rank(R, S, y) < missing THEN 1 ELSE 0)
        /\ Rank(R, S, x) \in Nat /\ Rank(R, S, y) \in Nat
    BY RankTyped
  <1> PICK p \in Nat, q \in Nat : p = base[x] /\ q = base[y]
    BY <1>1
  <1>4. CASE p >= q + 1
    BY <1>1, <1>3, <1>4
  <1>5. CASE p = q
    <2>1. rest[x] >= rest[y]
      BY <1>1, <1>2, <1>5
    <2>2. Rank(R, S, x) < Rank(R, S, y)
      BY <2>1, RankGrows
    <2> QED BY <1>3, <1>5, <2>2
  <1>6. CASE p < q
    <2>1. W * q >= W * (p + 1) /\ W * (p + 1) = W * p + W
      BY <1>6
    <2>2. W * p + rest[x] >= W * q + rest[y]
      BY <1>1, <1>2
    <2> QED BY <1>1, <2>1, <2>2
  <1> QED BY <1>4, <1>5, <1>6

(* A share is its quota rounded down or, when something was left, up. *)
LEMMA ShareOfQuota ==
  ASSUME NEW T \in Nat, NEW W \in Nat, W > 0, NEW w \in Nat, NEW base \in Nat, NEW rest \in 0..W - 1,
         T * w = W * base + rest, NEW extra \in {0, 1}, extra = 1 => rest > 0
  PROVE  (base + extra) * W > T * w - W /\ (base + extra) * W < T * w + W
  <1>1. PICK t \in Nat : t = T * w
    OBVIOUS
  <1>2. CASE extra = 1
    <2>1. (base + 1) * W = W * base + W
      OBVIOUS
    <2> QED BY <1>1, <1>2, <2>1
  <1>3. CASE extra = 0
    <2>1. (base + 0) * W = W * base
      OBVIOUS
    <2> QED BY <1>1, <1>3, <2>1
  <1> QED BY <1>2, <1>3

(* The shares that the largest rests give: each gets its quota rounded down, the *)
(* first by R one more until nothing of T is missing.                            *)
Apportions(share, S, w, T, W, base, rest, R) ==
    /\ IsFiniteSet(S) /\ T \in Nat /\ W \in Nat /\ W > 0 /\ W = SumFunctionOnSet(w, S)
    /\ Quotas(S, w, T, W, base, rest)
    /\ Orders(R, S) /\ \A x, y \in S : rest[x] > rest[y] => <<x, y>> \in R
    /\ \A x \in S : share[x] = base[x] + IF Rank(R, S, x) < T - SumFunctionOnSet(base, S) THEN 1 ELSE 0

LEMMA SharesRight ==
  ASSUME NEW share, NEW S, NEW w, NEW T, NEW W, NEW base, NEW rest, NEW R, Apportions(share, S, w, T, W, base, rest, R)
  PROVE  /\ SumFunctionOnSet(share, S) = T
         /\ \A x \in S : share[x] * W > T * w[x] - W /\ share[x] * W < T * w[x] + W
         /\ \A x, y \in S : w[x] >= w[y] /\ (rest[x] >= rest[y] => <<x, y>> \in R) => share[x] >= share[y]
         /\ \A x \in S : share[x] \in Nat /\ rest[x] \in Nat /\ base[x] \in Nat
  <1> DEFINE missing == T - SumFunctionOnSet(base, S)
  <1>0. /\ IsFiniteSet(S) /\ T \in Nat /\ W \in Nat /\ W > 0 /\ W = SumFunctionOnSet(w, S)
        /\ Quotas(S, w, T, W, base, rest)
        /\ Orders(R, S) /\ \A x, y \in S : rest[x] > rest[y] => <<x, y>> \in R
        /\ missing = T - SumFunctionOnSet(base, S)
        /\ \A x \in S : share[x] = base[x] + IF Rank(R, S, x) < missing THEN 1 ELSE 0
    BY DEF Apportions
  <1> HIDE DEF missing
  <1>1. /\ missing \in 0..Cardinality(S) /\ SumFunctionOnSet(share, S) = T
        /\ \A x \in S : Rank(R, S, x) < missing => rest[x] > 0
    BY <1>0, SharesAddUp
  <1>2. missing \in Int
    BY <1>1
  <1>3. ASSUME NEW x \in S
        PROVE  /\ share[x] * W > T * w[x] - W /\ share[x] * W < T * w[x] + W
               /\ share[x] \in Nat /\ rest[x] \in Nat /\ base[x] \in Nat
    <2>1. base[x] \in Nat /\ rest[x] \in 0..W - 1 /\ T * w[x] = W * base[x] + rest[x] /\ w[x] \in Nat
      BY <1>0, QuotaTyped
    <2> DEFINE extra == IF Rank(R, S, x) < missing THEN 1 ELSE 0
    <2>2. share[x] = base[x] + extra /\ extra \in {0, 1} /\ (extra = 1 => rest[x] > 0)
      BY <1>0, <1>1
    <2> HIDE DEF extra
    <2>3. (base[x] + extra) * W > T * w[x] - W /\ (base[x] + extra) * W < T * w[x] + W
      BY ONLY <1>0, <2>1, <2>2, ShareOfQuota
    <2>4. share[x] \in Nat /\ rest[x] \in Nat
      BY ONLY <1>0, <2>1, <2>2
    <2> QED BY <2>1, <2>2, <2>3, <2>4
  <1>4. ASSUME NEW x \in S, NEW y \in S, w[x] >= w[y], rest[x] >= rest[y] => <<x, y>> \in R
        PROVE  share[x] >= share[y]
    BY <1>0, <1>2, <1>4, SharesOrdered
  <1> QED BY <1>1, <1>3, <1>4

-----------------------------------------------------------------------------
(* More members, more in total. *)
LEMMA SumGrows ==
  ASSUME NEW S, IsFiniteSet(S), NEW v, \A x \in S : v[x] \in Nat, NEW part \in SUBSET S
  PROVE  SumFunctionOnSet(v, part) <= SumFunctionOnSet(v, S)
  <1> DEFINE Wrong == {s \in SUBSET S : part \subseteq s /\ SumFunctionOnSet(v, s) < SumFunctionOnSet(v, part)}
  <1>1. \A s \in SUBSET S : IsFiniteSet(s) /\ SumFunctionOnSet(v, s) \in Int
    <2> TAKE s \in SUBSET S
    <2>1. IsFiniteSet(s) /\ \A x \in s : v[x] \in Int
      BY FS_Subset
    <2> QED BY <2>1, SumTyped
  <1>2. ASSUME Wrong # {} PROVE FALSE
    <2>1. Wrong \subseteq SUBSET S
      OBVIOUS
    <2> HIDE DEF Wrong
    <2>2. PICK s \in Wrong : IsFiniteSet(s) /\ \A x \in s : s \ {x} \notin Wrong
      BY <1>2, <2>1, LeastWrong
    <2> USE DEF Wrong
    <2>3. s # part
      BY <1>1, <2>2
    <2>4. PICK x \in s : x \notin part
      BY <2>2, <2>3
    <2>5. SumFunctionOnSet(v, s) = v[x] + SumFunctionOnSet(v, s \ {x})
      <3>1. \A y \in s : v[y] \in Int
        BY <2>2
      <3> QED BY <2>2, <3>1, SumRemove
    <2>6. s \ {x} \in SUBSET S /\ part \subseteq s \ {x} /\ s \ {x} \notin Wrong
      BY <2>2, <2>4
    <2>7. ~(SumFunctionOnSet(v, s \ {x}) < SumFunctionOnSet(v, part))
      BY <2>6
    <2>8. /\ SumFunctionOnSet(v, s) < SumFunctionOnSet(v, part) /\ v[x] \in Nat
          /\ SumFunctionOnSet(v, s) \in Int /\ SumFunctionOnSet(v, part) \in Int /\ SumFunctionOnSet(v, s \ {x}) \in Int
      BY <1>1, <2>2, <2>6
    <2> QED BY ONLY <2>5, <2>7, <2>8
  <1> QED BY <1>1, <1>2

LEMMA SumNat ==
  ASSUME NEW S, IsFiniteSet(S), NEW v, \A x \in S : v[x] \in Nat
  PROVE  /\ SumFunctionOnSet(v, S) \in Nat
         /\ \A x \in S : v[x] <= SumFunctionOnSet(v, S)
  <1>1. (\A x \in S : v[x] \in Int) /\ {} \in SUBSET S
    OBVIOUS
  <1>2. SumFunctionOnSet(v, S) \in Int /\ SumFunctionOnSet(v, {}) = 0
    BY <1>1, SumTyped, SumEmpty
  <1>3. SumFunctionOnSet(v, S) \in Nat
    BY <1>1, <1>2, SumGrows
  <1>4. ASSUME NEW x \in S PROVE v[x] <= SumFunctionOnSet(v, S)
    <2>1. SumFunctionOnSet(v, S) = v[x] + SumFunctionOnSet(v, S \ {x})
      BY <1>1, SumRemove
    <2>2. SumFunctionOnSet(v, S \ {x}) \in Int /\ 0 <= SumFunctionOnSet(v, S \ {x})
      <3>1. IsFiniteSet(S \ {x}) /\ {} \in SUBSET (S \ {x}) /\ \A y \in S \ {x} : v[y] \in Nat /\ v[y] \in Int
        BY FS_Subset
      <3>2. SumFunctionOnSet(v, {}) <= SumFunctionOnSet(v, S \ {x})
        BY ONLY <3>1, SumGrows
      <3>3. SumFunctionOnSet(v, S \ {x}) \in Int
        BY ONLY <3>1, SumTyped
      <3> QED BY <1>2, <3>2, <3>3
    <2> QED BY <1>2, <2>1, <2>2
  <1> QED BY <1>3, <1>4

(* What a part leaves out is nothing when its total is that of the whole. *)
LEMMA SumOfPart ==
  ASSUME NEW S, IsFiniteSet(S), NEW v, \A x \in S : v[x] \in Nat, NEW part \in SUBSET S,
         SumFunctionOnSet(v, part) = SumFunctionOnSet(v, S), NEW x \in S, x \notin part
  PROVE  v[x] = 0
  <1>1. \A y \in S : v[y] \in Int
    OBVIOUS
  <1>2. SumFunctionOnSet(v, S) = v[x] + SumFunctionOnSet(v, S \ {x})
    BY <1>1, SumRemove
  <1>3. IsFiniteSet(S \ {x}) /\ part \in SUBSET (S \ {x}) /\ \A y \in S \ {x} : v[y] \in Nat /\ v[y] \in Int
    BY FS_Subset
  <1>4. SumFunctionOnSet(v, part) <= SumFunctionOnSet(v, S \ {x}) /\ SumFunctionOnSet(v, S \ {x}) \in Int
    BY ONLY <1>3, SumGrows, SumTyped
  <1>5. SumFunctionOnSet(v, S) \in Int /\ v[x] \in Nat
    BY <1>1, SumTyped
  <1> QED BY <1>2, <1>4, <1>5

(* The same terms by other names. *)
LEMMA SumRenamed ==
  ASSUME NEW S, IsFiniteSet(S), NEW v, \A x \in S : v[x] \in Int, NEW row,
         \A x, y \in S : row[x] = row[y] => x = y, NEW u, \A x \in S : u[row[x]] = v[x]
  PROVE  SumFunctionOnSet(u, {row[x] : x \in S}) = SumFunctionOnSet(v, S)
  <1> DEFINE Named(s) == {row[x] : x \in s}
             Wrong == {s \in SUBSET S : SumFunctionOnSet(u, Named(s)) # SumFunctionOnSet(v, s)}
  <1>1. ASSUME NEW s \in SUBSET S
        PROVE  IsFiniteSet(s) /\ IsFiniteSet(Named(s)) /\ \A y \in Named(s) : u[y] \in Int
    <2> DEFINE f == [x \in s |-> row[x]]
    <2>1. IsFiniteSet(s)
      BY FS_Subset
    <2>2. f \in Surjection(s, Named(s))
      BY DEF Surjection
    <2> HIDE DEF f
    <2>3. IsFiniteSet(Named(s))
      <3> HIDE DEF Named
      <3> QED BY <2>1, <2>2, FS_Surjection
    <2> QED BY <2>1, <2>3
  <1>2. ASSUME Wrong # {} PROVE FALSE
    <2>1. Wrong \subseteq SUBSET S
      OBVIOUS
    <2>2. PICK s \in Wrong : IsFiniteSet(s) /\ \A x \in s : s \ {x} \notin Wrong
      <3> HIDE DEF Wrong
      <3> QED BY <1>2, <2>1, LeastWrong
    <2>3. s # {}
      <3>1. Named({}) = {}
        OBVIOUS
      <3>2. SumFunctionOnSet(u, {}) = 0 /\ SumFunctionOnSet(v, {}) = 0
        BY SumEmpty
      <3> HIDE DEF Named
      <3> QED BY <2>2, <3>1, <3>2
    <2>4. PICK x \in s : TRUE
      BY <2>3
    <2>5. Named(s) \ {row[x]} = Named(s \ {x}) /\ row[x] \in Named(s) /\ u[row[x]] = v[x]
      BY <2>2, <2>4
    <2>6. s \in SUBSET S /\ s \ {x} \in SUBSET S
      BY <2>2
    <2>7. SumFunctionOnSet(u, Named(s \ {x})) = SumFunctionOnSet(v, s \ {x})
      BY <2>2, <2>4, <2>6
    <2>8. SumFunctionOnSet(v, s) = v[x] + SumFunctionOnSet(v, s \ {x})
      <3>1. IsFiniteSet(s) /\ \A y \in s : v[y] \in Int
        BY <2>2, <2>6
      <3> QED BY <2>4, <3>1, SumRemove
    <2>9. SumFunctionOnSet(u, Named(s)) = u[row[x]] + SumFunctionOnSet(u, Named(s) \ {row[x]})
      <3>1. IsFiniteSet(Named(s)) /\ \A y \in Named(s) : u[y] \in Int
        BY <1>1, <2>6
      <3> HIDE DEF Named
      <3> QED BY <2>5, <3>1, SumRemove
    <2>10. SumFunctionOnSet(u, Named(s)) # SumFunctionOnSet(v, s)
      BY <2>2
    <2> HIDE DEF Named, Wrong
    <2> QED BY <2>5, <2>7, <2>8, <2>9, <2>10
  <1>3. S \in SUBSET S
    OBVIOUS
  <1> QED BY <1>2, <1>3

(* The heavier gets no less, when the order follows what the divisions leave. *)
LEMMA HeavierGetsMore ==
  ASSUME NEW share, NEW S, NEW w, NEW T, NEW W, NEW base, NEW rest, NEW R, Apportions(share, S, w, T, W, base, rest, R),
         NEW x \in S, NEW y \in S, w[x] > w[y]
  PROVE  share[x] >= share[y]
  <1> DEFINE missing == T - SumFunctionOnSet(base, S)
  <1>0. /\ IsFiniteSet(S) /\ T \in Nat /\ W \in Nat /\ W > 0 /\ W = SumFunctionOnSet(w, S)
        /\ Quotas(S, w, T, W, base, rest)
        /\ Orders(R, S) /\ \A a, b \in S : rest[a] > rest[b] => <<a, b>> \in R
        /\ \A a \in S : share[a] = base[a] + IF Rank(R, S, a) < missing THEN 1 ELSE 0
    BY DEF Apportions
  <1>q. \A a \in S : base[a] \in Nat /\ rest[a] \in 0..W - 1 /\ T * w[a] = W * base[a] + rest[a] /\ w[a] \in Nat
    <2>1. T \in Nat /\ W \in Nat /\ W > 0 /\ Quotas(S, w, T, W, base, rest)
      BY <1>0
    <2> QED BY ONLY <2>1, QuotaTyped
  <1>a. base[x] \in Nat /\ rest[x] \in 0..W - 1 /\ T * w[x] = W * base[x] + rest[x] /\ w[x] \in Nat
    BY <1>q
  <1>b. base[y] \in Nat /\ rest[y] \in 0..W - 1 /\ T * w[y] = W * base[y] + rest[y] /\ w[y] \in Nat
    BY <1>q
  <1>1. share[x] \in {base[x], base[x] + 1} /\ share[y] \in {base[y], base[y] + 1}
    BY <1>0, <1>a, <1>b
  <1>2. PICK p \in Nat, q \in Nat : p = base[x] /\ q = base[y]
    BY <1>a, <1>b
  <1>3. w[x] >= w[y]
    BY <1>a, <1>b
  <1>4. CASE T = 0
    <2>1. missing \in Int
      <3>1. \A a \in S : base[a] \in Int
        BY <1>q
      <3> QED BY <1>0, <3>1, SumTyped
    <2>2. SumFunctionOnSet(base, S) = 0 /\ base[x] = 0 /\ base[y] = 0
      <3>1. \A a \in S : base[a] = 0
        <4> TAKE a \in S
        <4>1. base[a] \in Nat /\ rest[a] \in 0..W - 1 /\ T * w[a] = W * base[a] + rest[a] /\ w[a] \in Nat
          BY <1>q
        <4>2. W * base[a] + rest[a] = 0
          BY <1>4, <4>1
        <4>3. W * base[a] >= base[a]
          BY <1>0, <4>1
        <4> QED BY <1>0, <4>1, <4>2, <4>3
      <3> DEFINE z == [a \in S |-> 0]
      <3>2. \A a \in S : base[a] = z[a] /\ base[a] \in Int /\ z[a] \in Int
        BY <3>1
      <3>3. SumFunctionOnSet(z, S) = 0
        BY <1>0, SumZero
      <3> HIDE DEF z
      <3>4. SumFunctionOnSet(base, S) = SumFunctionOnSet(z, S)
        BY <1>0, <3>2, SumEqual
      <3> QED BY <3>1, <3>3, <3>4
    <2>3. Rank(R, S, x) \in Nat /\ Rank(R, S, y) \in Nat
      BY <1>0, RankTyped
    <2>4. ~(Rank(R, S, x) < missing) /\ ~(Rank(R, S, y) < missing)
      BY <1>4, <2>2, <2>3
    <2> QED BY <1>0, <2>2, <2>4
  <1>5. CASE T > 0 /\ rest[x] <= rest[y]
    <2>1. T * w[x] > T * w[y]
      BY <1>0, <1>a, <1>b, <1>5
    <2>2. W * p + rest[x] > W * q + rest[y]
      BY <1>a, <1>b, <1>2, <2>1
    <2>3. ASSUME p <= q PROVE FALSE
      <3>1. W * p <= W * q
        BY <1>0, <2>3
      <3> QED BY <1>0, <1>5, <1>a, <1>b, <2>2, <3>1
    <2> QED BY <1>1, <1>2, <2>3
  <1>6. CASE rest[x] > rest[y]
    <2>1. <<x, y>> \in R
      BY <1>0, <1>6
    <2> QED BY <1>0, <1>3, <2>1, SharesRight
  <1> QED BY <1>0, <1>a, <1>b, <1>4, <1>5, <1>6

(* Terms between lo and hi have a total between lo and hi for each. *)
LEMMA SumBetween ==
  ASSUME NEW S, IsFiniteSet(S), NEW v, NEW lo \in Int, NEW hi \in Int,
         \A x \in S : v[x] \in Int /\ lo <= v[x] /\ v[x] <= hi
  PROVE  lo * Cardinality(S) <= SumFunctionOnSet(v, S) /\ SumFunctionOnSet(v, S) <= hi * Cardinality(S)
  <1> DEFINE one == [x \in S |-> 1]
             least == [x \in S |-> lo * one[x]]
             most == [x \in S |-> hi * one[x]]
  <1>1. SumFunctionOnSet(one, S) = Cardinality(S)
    <2>1. S \in SUBSET S /\ \A x \in S : one[x] = IF x \in S THEN 1 ELSE 0
      OBVIOUS
    <2> HIDE DEF one
    <2> QED BY <2>1, SumCounts
  <1>2. \A x \in S : /\ one[x] \in Int /\ least[x] \in Int /\ most[x] \in Int
                     /\ least[x] <= v[x] /\ v[x] <= most[x] /\ v[x] \in Int
    OBVIOUS
  <1>3. SumFunctionOnSet(least, S) = lo * SumFunctionOnSet(one, S) /\ SumFunctionOnSet(most, S) = hi * SumFunctionOnSet(one, S)
    <2> HIDE DEF one
    <2> QED BY <1>2, SumTimes
  <1> HIDE DEF one, least, most
  <1>4. SumFunctionOnSet(least, S) <= SumFunctionOnSet(v, S) /\ SumFunctionOnSet(v, S) <= SumFunctionOnSet(most, S)
    BY <1>2, SumOrdered
  <1> QED BY <1>1, <1>3, <1>4

(* Terms that are added up by groups are added up. *)
LEMMA SumGrouped ==
  ASSUME NEW R, IsFiniteSet(R), NEW v, \A x \in R : v[x] \in Int,
         NEW C, IsFiniteSet(C), NEW f, \A x \in R : f[x] \in C,
         NEW total, \A c \in C : total[c] = SumFunctionOnSet(v, {x \in R : f[x] = c})
  PROVE  SumFunctionOnSet(total, C) = SumFunctionOnSet(v, R)
  <1> DEFINE Group(s, c) == {x \in s : f[x] = c}
             Totals(s) == [c \in C |-> SumFunctionOnSet(v, Group(s, c))]
             Wrong == {s \in SUBSET R : SumFunctionOnSet(Totals(s), C) # SumFunctionOnSet(v, s)}
  <1>1. ASSUME NEW s \in SUBSET R
        PROVE  /\ IsFiniteSet(s) /\ \A x \in s : v[x] \in Int /\ f[x] \in C
               /\ \A c \in C : IsFiniteSet(Group(s, c)) /\ Totals(s)[c] = SumFunctionOnSet(v, Group(s, c)) /\ Totals(s)[c] \in Int
    <2>1. IsFiniteSet(s) /\ \A x \in s : v[x] \in Int /\ f[x] \in C
      BY <1>1, FS_Subset
    <2>2. ASSUME NEW c \in C
          PROVE IsFiniteSet(Group(s, c)) /\ Totals(s)[c] = SumFunctionOnSet(v, Group(s, c)) /\ Totals(s)[c] \in Int
      <3>1. Group(s, c) \in SUBSET s /\ \A x \in Group(s, c) : v[x] \in Int
        BY <2>1
      <3>2. Totals(s)[c] = SumFunctionOnSet(v, Group(s, c))
        OBVIOUS
      <3> HIDE DEF Group
      <3>3. IsFiniteSet(Group(s, c))
        BY <2>1, <3>1, FS_Subset
      <3> HIDE DEF Totals
      <3> QED BY <3>1, <3>2, <3>3, SumTyped
    <2> HIDE DEF Group, Totals
    <2> QED BY <2>1, <2>2
  <1>2. Wrong = {}
    <2> SUFFICES ASSUME Wrong # {} PROVE FALSE
      OBVIOUS
    <2>1. Wrong \subseteq SUBSET R
      OBVIOUS
    <2>2. PICK s \in Wrong : IsFiniteSet(s) /\ \A x \in s : s \ {x} \notin Wrong
      <3> HIDE DEF Wrong
      <3> QED BY <2>1, LeastWrong
    <2>3. s \in SUBSET R /\ SumFunctionOnSet(Totals(s), C) # SumFunctionOnSet(v, s)
      OBVIOUS
    <2>4. CASE s = {}
      <3>1. \A c \in C : Group(s, c) = {}
        BY <2>4
      <3> HIDE DEF Group
      <3>2. \A c \in C : Totals(s)[c] = 0
        BY <1>1, <2>3, <3>1, SumEmpty
      <3> HIDE DEF Totals
      <3>3. SumFunctionOnSet(Totals(s), C) = SumFunctionOnSet([c \in C |-> 0], C)
        BY <3>2, SumEqual
      <3> QED BY <2>3, <2>4, <3>3, SumZero, SumEmpty
    <2>5. CASE s # {}
      <3>1. PICK x \in s : TRUE
        BY <2>5
      <3>2. s \ {x} \in SUBSET R /\ SumFunctionOnSet(Totals(s \ {x}), C) = SumFunctionOnSet(v, s \ {x})
        BY <2>2, <2>3, <3>1
      <3>3. SumFunctionOnSet(v, s) = v[x] + SumFunctionOnSet(v, s \ {x}) /\ f[x] \in C /\ v[x] \in Int
        <4>1. IsFiniteSet(s) /\ x \in s /\ (\A y \in s : v[y] \in Int) /\ f[x] \in C
          BY <1>1, <2>3, <3>1
        <4>2. SumFunctionOnSet(v, s) = v[x] + SumFunctionOnSet(v, s \ {x})
          BY ONLY <4>1, SumRemove
        <4> QED BY <4>1, <4>2
      <3>4. \A c \in C \ {f[x]} : Group(s \ {x}, c) = Group(s, c)
        OBVIOUS
      <3>5. Group(s \ {x}, f[x]) = Group(s, f[x]) \ {x} /\ x \in Group(s, f[x]) /\ \A y \in Group(s, f[x]) : v[y] \in Int
        BY <1>1, <2>3
      <3> HIDE DEF Group
      <3>6. /\ \A c \in C : IsFiniteSet(Group(s, c)) /\ Totals(s)[c] = SumFunctionOnSet(v, Group(s, c)) /\ Totals(s)[c] \in Int
            /\ \A c \in C : Totals(s \ {x})[c] = SumFunctionOnSet(v, Group(s \ {x}, c)) /\ Totals(s \ {x})[c] \in Int
        BY <1>1, <2>3, <3>2
      <3> HIDE DEF Totals
      <3>7. Totals(s)[f[x]] = v[x] + Totals(s \ {x})[f[x]]
        <4>1. SumFunctionOnSet(v, Group(s, f[x])) = v[x] + SumFunctionOnSet(v, Group(s, f[x]) \ {x})
          BY <3>3, <3>5, <3>6, SumRemove
        <4> QED BY <3>3, <3>5, <3>6, <4>1
      <3>8. \A c \in C \ {f[x]} : Totals(s)[c] = Totals(s \ {x})[c]
        BY <3>4, <3>6
      <3>9. SumFunctionOnSet(Totals(s), C) = SumFunctionOnSet(Totals(s \ {x}), C) - Totals(s \ {x})[f[x]] + Totals(s)[f[x]]
        <4>1. /\ \A c \in C : Totals(s \ {x})[c] \in Int /\ Totals(s)[c] \in Int
              /\ f[x] \in C /\ \A c \in C \ {f[x]} : Totals(s)[c] = Totals(s \ {x})[c]
          BY <3>3, <3>6, <3>8
        <4>2. PICK a, b : a = Totals(s \ {x}) /\ b = Totals(s)
          OBVIOUS
        <4>3. IsFiniteSet(C) /\ f[x] \in C /\ (\A y \in C : a[y] \in Int /\ b[y] \in Int) /\ \A y \in C \ {f[x]} : b[y] = a[y]
          BY <4>1, <4>2
        <4>4. SumFunctionOnSet(b, C) = SumFunctionOnSet(a, C) - a[f[x]] + b[f[x]]
          BY ONLY <4>3, SumChanged
        <4> QED BY <4>2, <4>4
      <3>10. SumFunctionOnSet(Totals(s \ {x}), C) \in Int /\ Totals(s \ {x})[f[x]] \in Int
        BY <3>3, <3>6, SumTyped
      <3> QED BY <2>3, <3>2, <3>3, <3>7, <3>9, <3>10
    <2> QED BY <2>4, <2>5
  <1>3. SumFunctionOnSet(Totals(R), C) = SumFunctionOnSet(v, R)
    <2>1. R \in SUBSET R
      OBVIOUS
    <2> HIDE DEF Totals
    <2> QED BY <1>2, <2>1
  <1>4. \A c \in C : Totals(R)[c] \in Int /\ Totals(R)[c] = total[c]
    <2>1. R \in SUBSET R
      OBVIOUS
    <2>2. \A c \in C : Totals(R)[c] \in Int
      BY <1>1, <2>1
    <2> QED BY <2>2
  <1> HIDE DEF Totals
  <1>5. SumFunctionOnSet(Totals(R), C) = SumFunctionOnSet(total, C)
    BY <1>4, SumEqual
  <1> QED BY <1>3, <1>5

(* What a finite set is mapped to is finite. *)
LEMMA MappedFinite ==
  ASSUME NEW S, IsFiniteSet(S), NEW f
  PROVE  IsFiniteSet({f[x] : x \in S})
  <1> DEFINE g == [x \in S |-> f[x]]
             T == {f[x] : x \in S}
  <1>1. g \in Surjection(S, T)
    BY DEF Surjection
  <1> HIDE DEF g, T
  <1>2. IsFiniteSet(T)
    BY <1>1, FS_Surjection
  <1> QED BY <1>2 DEF T
=============================================================================
