----------------------------- MODULE SetLemmas -----------------------------
(***************************************************************************)
(* Facts about finite sets that the proofs of the components share: their  *)
(* cardinality, the least and the greatest of some numbers, and sums.      *)
(*                                                                         *)
(* MapThenSumSet adds the elements of a set in an order of its own; for a  *)
(* finite set the order makes no difference.  SumOf is that sum, of a      *)
(* function instead of an operator, so that one lemma serves every         *)
(* function.  For the same reason SetInduction takes a set of sets: those  *)
(* that have the property to be proved of S.                               *)
(***************************************************************************)
EXTENDS Integers, FiniteSetsExt, FiniteSetTheorems, TLAPS

LEMMA OneMore ==
    ASSUME NEW S, NEW T, IsFiniteSet(T), NEW x, S \subseteq T \cup {x}
    PROVE  /\ IsFiniteSet(S) /\ Cardinality(S) \in Nat /\ Cardinality(T) \in Nat
           /\ Cardinality(S) <= Cardinality(T) + 1
  <1>1. IsFiniteSet(T \cup {x}) /\ Cardinality(T) \in Nat
    BY FS_AddElement, FS_CardinalityType
  <1>2. Cardinality(T \cup {x}) = IF x \in T THEN Cardinality(T) ELSE Cardinality(T) + 1
    BY FS_AddElement
  <1>3. IsFiniteSet(S) /\ Cardinality(S) <= Cardinality(T \cup {x})
    BY <1>1, FS_Subset
  <1>4. Cardinality(S) \in Nat
    BY <1>3, FS_CardinalityType
  <1> QED  BY <1>1, <1>2, <1>3, <1>4

LEMMA OneFewer ==
    ASSUME NEW S, NEW T, IsFiniteSet(T), NEW x \in T, S \subseteq T \ {x}
    PROVE  /\ IsFiniteSet(S) /\ Cardinality(S) \in Nat /\ Cardinality(T) \in Nat
           /\ Cardinality(S) + 1 <= Cardinality(T)
  <1>1. IsFiniteSet(T \ {x}) /\ Cardinality(T \ {x}) = Cardinality(T) - 1
    BY FS_RemoveElement
  <1>2. IsFiniteSet(S) /\ Cardinality(S) <= Cardinality(T \ {x})
    BY <1>1, FS_Subset
  <1> QED  BY <1>1, <1>2, FS_CardinalityType

LEMMA NoMore ==
    ASSUME NEW S, NEW T, IsFiniteSet(T), S \subseteq T
    PROVE  /\ IsFiniteSet(S) /\ Cardinality(S) \in Nat /\ Cardinality(T) \in Nat
           /\ Cardinality(S) <= Cardinality(T)
  BY FS_Subset, FS_CardinalityType

LEMMA ImageIsFinite ==
    ASSUME NEW S, IsFiniteSet(S), NEW f
    PROVE  IsFiniteSet({f[x] : x \in S}) /\ Cardinality({f[x] : x \in S}) <= Cardinality(S)
  <1>1. PICK T : T = {f[x] : x \in S}
    OBVIOUS
  <1>2. [x \in S |-> f[x]] \in Surjection(S, T)
    BY <1>1 DEF Surjection
  <1>3. IsFiniteSet(T) /\ Cardinality(T) <= Cardinality(S)
    BY <1>2, FS_Surjection
  <1> QED  BY <1>1, <1>3

-----------------------------------------------------------------------------
(***************************************************************************)
(* A set of numbers has a least one, so whatever fails for some finite set *)
(* fails for one of least cardinality: that stands for the induction.      *)
(***************************************************************************)
Below == {pair \in Nat \X Nat : pair[1] < pair[2]}

LEMMA LeastNumber ==
    ASSUME NEW S, S \subseteq Nat, S # {}
    PROVE  \E x \in S : \A y \in S : x <= y
  <1>1. IsWellFoundedOn(Below, Nat)
    BY NatLessThanWellFounded DEF OpToRel, Below
  <1>2. PICK x \in S : \A y \in S : <<y, x>> \notin Below
    BY <1>1, WFMin
  <1>3. \A y \in S : x \in Nat /\ y \in Nat /\ ~(y < x)
    BY <1>2 DEF Below
  <1> QED  BY <1>3

LEMMA LeastSet ==
    ASSUME NEW S, IsFiniteSet(S), NEW Bad, Bad \subseteq SUBSET S, Bad # {}
    PROVE  \E s \in Bad : \A t \in Bad : Cardinality(s) <= Cardinality(t)
  <1> DEFINE Sizes == {Cardinality(s) : s \in Bad}
  <1>1. \A s \in Bad : Cardinality(s) \in Nat
    BY FS_Subset, FS_CardinalityType
  <1>2. Sizes \subseteq Nat /\ Sizes # {}
    BY <1>1
  <1>3. PICK n \in Sizes : \A m \in Sizes : n <= m
    BY <1>2, LeastNumber
  <1> QED  BY <1>3

\* Good holds the empty set, and with a set that with one element more.
LEMMA SetInduction ==
    ASSUME NEW S, IsFiniteSet(S), NEW Good, {} \in Good,
           \A s \in SUBSET S : \A x \in S \ s : s \in Good => s \cup {x} \in Good
    PROVE  S \in Good
  <1> DEFINE Bad == {s \in SUBSET S : s \notin Good}
  <1> SUFFICES ASSUME Bad # {} PROVE FALSE
    OBVIOUS
  <1>1. PICK s \in Bad : \A t \in Bad : Cardinality(s) <= Cardinality(t)
    BY LeastSet
  <1>2. s \in SUBSET S /\ s \notin Good /\ IsFiniteSet(s)
    BY FS_Subset
  <1>3. PICK x \in s : TRUE
    BY <1>2
  <1>4. s \ {x} \in SUBSET S /\ x \in S \ (s \ {x}) /\ (s \ {x}) \cup {x} = s
    BY <1>2, <1>3
  <1>5. s \ {x} \in Bad
    BY <1>2, <1>4
  <1>6. Cardinality(s \ {x}) = Cardinality(s) - 1 /\ Cardinality(s) \in Nat
    BY <1>2, <1>3, FS_RemoveElement, FS_CardinalityType
  <1>7. Cardinality(s) <= Cardinality(s \ {x})
    BY <1>1, <1>5
  <1> QED  BY <1>6, <1>7

\* The greatest of finitely many numbers.
LEMMA MaxIsMember ==
    ASSUME NEW S, S \subseteq Int, IsFiniteSet(S), S # {}
    PROVE  Max(S) \in S /\ \A y \in S : Max(S) >= y
  <1> DEFINE Greatest(T) == \E x \in T : \A y \in T : x >= y
             Good == {T \in SUBSET S : T = {} \/ Greatest(T)}
  <1>1. {} \in Good
    OBVIOUS
  <1>2. ASSUME NEW T \in SUBSET S, NEW x \in S \ T, T \in Good
        PROVE  T \cup {x} \in Good
    <2>1. CASE T = {}
      <3>1. \A y \in T \cup {x} : y = x
        BY <2>1
      <3> QED  BY <3>1
    <2>2. CASE T # {}
      <3>1. PICK m \in T : \A y \in T : m >= y
        BY <1>2, <2>2
      <3>2. CASE m >= x
        BY <3>1, <3>2
      <3>3. CASE ~(m >= x)
        <4>1. \A y \in T \cup {x} : x >= y
          BY <3>1, <3>3
        <4> QED  BY <4>1
      <3> QED  BY <3>2, <3>3
    <2> QED  BY <2>1, <2>2
  <1> HIDE DEF Good
  <1>3. S \in Good
    BY <1>1, <1>2, SetInduction
  <1>4. Greatest(S)
    BY <1>3 DEF Good
  <1> QED  BY <1>4 DEF Max

LEMMA MaxOfTwo ==
    ASSUME NEW a \in Int, NEW b \in Int
    PROVE  Max({a, b}) = IF a >= b THEN a ELSE b
  <1>1. IsFiniteSet({a, b})
    <2>1. IsFiniteSet({a}) /\ IsFiniteSet({b})
      BY FS_Singleton
    <2>2. IsFiniteSet({a} \cup {b})
      BY <2>1, FS_Union
    <2>3. {a, b} = {a} \cup {b}
      OBVIOUS
    <2> QED  BY <2>2, <2>3
  <1>2. Max({a, b}) \in {a, b} /\ \A y \in {a, b} : Max({a, b}) >= y
    BY <1>1, MaxIsMember
  <1> QED  BY <1>2

-----------------------------------------------------------------------------
(***************************************************************************)
(* Sums.                                                                   *)
(***************************************************************************)
AnyOf(s) == CHOOSE x \in s : TRUE
SumOf(F, S) == MapThenSumSet(LAMBDA x : F[x], S)

\* SumsUp(F, D, g): g sums up every set of D, an element at a time.
SumsUp(F, D, g) ==
    g = [s \in D |-> IF s = {} THEN 0 ELSE F[AnyOf(s)] + g[s \ {AnyOf(s)}]]

LEMMA SumIsFold == ASSUME NEW F, NEW S PROVE SumOf(F, S) = (CHOOSE g : SumsUp(F, SUBSET S, g))[S]
  BY DEF SumOf, MapThenSumSet, MapThenFoldSet, SumsUp, AnyOf

LEMMA AnyOfIsMember ==
    ASSUME NEW s, s # {}
    PROVE  AnyOf(s) \in s
  BY DEF AnyOf

\* The subsets of S of up to n elements.
UpTo(S, n) == {s \in SUBSET S : Cardinality(s) <= n}

\* There is such a g for the subsets of a finite set: from one for those of up to
\* n elements comes one for those of up to n + 1.
LEMMA FoldExists ==
    ASSUME NEW F, NEW S, IsFiniteSet(S)
    PROVE  \E g : SumsUp(F, SUBSET S, g)
  <1>1. \A s \in SUBSET S : /\ IsFiniteSet(s) /\ Cardinality(s) \in Nat
                            /\ Cardinality(s) <= Cardinality(S)
                            /\ Cardinality(s) = 0 <=> s = {}
    BY FS_Subset, FS_CardinalityType, FS_EmptySet
  <1> DEFINE Bad == {n \in Nat : ~ \E g : SumsUp(F, UpTo(S, n), g)}
  <1>2. 0 \notin Bad
    <2> DEFINE g == [s \in UpTo(S, 0) |-> 0]
    <2>1. \A s \in UpTo(S, 0) : s = {}
      BY <1>1 DEF UpTo
    <2>2. SumsUp(F, UpTo(S, 0), g)
      BY <2>1 DEF SumsUp
    <2> QED  BY <2>2
  <1>3. ASSUME NEW n \in Nat, n \notin Bad PROVE n + 1 \notin Bad
    <2>1. PICK h : SumsUp(F, UpTo(S, n), h)
      BY <1>3
    <2> DEFINE g == [s \in UpTo(S, n + 1) |-> IF s = {} THEN 0 ELSE F[AnyOf(s)] + h[s \ {AnyOf(s)}]]
    <2>2. UpTo(S, n) \subseteq UpTo(S, n + 1)
      BY <1>1 DEF UpTo
    <2>3. ASSUME NEW s \in UpTo(S, n) PROVE g[s] = h[s]
      BY <2>1, <2>2 DEF SumsUp
    <2>4. ASSUME NEW s \in UpTo(S, n + 1), s # {} PROVE s \ {AnyOf(s)} \in UpTo(S, n)
      <3>1. s \in SUBSET S /\ Cardinality(s) <= n + 1
        BY DEF UpTo
      <3>2. Cardinality(s \ {AnyOf(s)}) = Cardinality(s) - 1
        BY <1>1, <2>4, <3>1, AnyOfIsMember, FS_RemoveElement
      <3>3. Cardinality(s) - 1 <= n
        BY <1>1, <3>1
      <3> QED  BY <3>1, <3>2, <3>3 DEF UpTo
    <2>5. \A s \in UpTo(S, n + 1) : s # {} => g[s \ {AnyOf(s)}] = h[s \ {AnyOf(s)}]
      BY <2>3, <2>4
    <2>6. SumsUp(F, UpTo(S, n + 1), g)
      BY <2>5 DEF SumsUp
    <2> QED  BY <2>6
  <1> HIDE DEF Bad
  <1>4. Bad = {}
    <2> SUFFICES ASSUME Bad # {} PROVE FALSE
      OBVIOUS
    <2>1. Bad \subseteq Nat
      BY DEF Bad
    <2>2. PICK n \in Bad : \A m \in Bad : n <= m
      BY <2>1, LeastNumber
    <2>3. n \in Nat /\ n # 0
      BY <1>2, <2>1
    <2>4. n - 1 \in Nat /\ n - 1 \notin Bad
      BY <2>2, <2>3
    <2>5. (n - 1) + 1 \notin Bad
      BY <1>3, <2>4
    <2> QED  BY <2>3, <2>5
  <1>5. Cardinality(S) \in Nat /\ UpTo(S, Cardinality(S)) = SUBSET S
    BY <1>1, FS_CardinalityType DEF UpTo
  <1>6. Cardinality(S) \notin Bad
    BY <1>4
  <1>7. \E g : SumsUp(F, UpTo(S, Cardinality(S)), g)
    BY <1>5, <1>6 DEF Bad
  <1> QED  BY <1>5, <1>7

Agree(F, G, T) == \A x \in T : F[x] = G[x]
IsPart(T, S) == T \in SUBSET S

\* Two such functions, of functions that agree on T, agree on T.
LEMMA FoldsAgree ==
    ASSUME NEW S, NEW T, IsPart(T, S), IsFiniteSet(T), NEW F, NEW G, NEW g, NEW h,
           SumsUp(F, SUBSET S, g), SumsUp(G, SUBSET T, h), Agree(F, G, T)
    PROVE  g[T] = h[T]
  <1> DEFINE Bad == {s \in SUBSET T : g[s] # h[s]}
  <1> SUFFICES ASSUME Bad # {} PROVE FALSE
    OBVIOUS
  <1>1. PICK s \in Bad : \A t \in Bad : Cardinality(s) <= Cardinality(t)
    BY LeastSet
  <1>2. s \in SUBSET T /\ s \in SUBSET S /\ g[s] # h[s] /\ IsFiniteSet(s) /\ Cardinality(s) \in Nat
    BY FS_Subset, FS_CardinalityType DEF IsPart
  <1>3. s # {}
    BY <1>2 DEF SumsUp
  <1>4. PICK x \in s : x = AnyOf(s)
    BY <1>3, AnyOfIsMember
  <1>5. g[s] = F[x] + g[s \ {x}] /\ h[s] = G[x] + h[s \ {x}]
    BY <1>2, <1>3, <1>4 DEF SumsUp
  <1>6. s \ {x} \in Bad
    <2>1. F[x] = G[x]
      BY <1>2, <1>4 DEF Agree
    <2> QED  BY <1>2, <1>5, <2>1
  <1>7. Cardinality(s \ {x}) = Cardinality(s) - 1
    BY <1>2, <1>4, FS_RemoveElement
  <1>8. Cardinality(s) <= Cardinality(s \ {x})
    BY <1>1, <1>6
  <1> QED  BY <1>2, <1>7, <1>8

LEMMA FoldSums ==
    ASSUME NEW F, NEW S, IsFiniteSet(S), NEW g, SumsUp(F, SUBSET S, g), NEW T \in SUBSET S
    PROVE  SumOf(F, T) = g[T]
  <1>1. IsFiniteSet(T)
    BY FS_Subset
  <1>2. PICK h : SumsUp(F, SUBSET T, h) /\ SumOf(F, T) = h[T]
    <2>1. \E h : SumsUp(F, SUBSET T, h)
      BY <1>1, FoldExists
    <2>2. SumsUp(F, SUBSET T, CHOOSE h : SumsUp(F, SUBSET T, h))
      BY <2>1
    <2> QED  BY <2>2, SumIsFold
  <1>3. IsPart(T, S) /\ Agree(F, F, T)
    BY DEF IsPart, Agree
  <1>4. g[T] = h[T]
    BY <1>1, <1>2, <1>3, FoldsAgree
  <1> QED  BY <1>2, <1>4

\* Only what the function says of the elements counts.
LEMMA SumSame ==
    ASSUME NEW S, IsFiniteSet(S), NEW F, NEW G, \A x \in S : F[x] = G[x]
    PROVE  SumOf(F, S) = SumOf(G, S)
  <1>1. PICK g : SumsUp(F, SUBSET S, g)
    BY FoldExists
  <1>2. PICK h : SumsUp(G, SUBSET S, h)
    BY FoldExists
  <1>3. IsPart(S, S) /\ Agree(F, G, S)
    BY DEF IsPart, Agree
  <1>4. g[S] = h[S]
    BY <1>1, <1>2, <1>3, FoldsAgree
  <1> QED  BY <1>1, <1>2, <1>4, FoldSums

\* The sum of a set is what its picked element adds to the sum of the rest.
LEMMA SumByOne ==
    ASSUME NEW F, NEW S, IsFiniteSet(S)
    PROVE  SumOf(F, S) = IF S = {} THEN 0 ELSE F[AnyOf(S)] + SumOf(F, S \ {AnyOf(S)})
  <1>1. PICK g : SumsUp(F, SUBSET S, g)
    BY FoldExists
  <1>2. SumOf(F, S) = g[S] /\ SumOf(F, S \ {AnyOf(S)}) = g[S \ {AnyOf(S)}]
    BY <1>1, FoldSums
  <1> QED  BY <1>1, <1>2 DEF SumsUp

\* The order does not matter: any element may be added first.
LEMMA SumOfAny ==
    ASSUME NEW F, NEW S, IsFiniteSet(S), \A x \in S : F[x] \in Int
    PROVE  SumOf(F, S) \in Int /\ \A x \in S : SumOf(F, S) = F[x] + SumOf(F, S \ {x})
  <1>1. \A s \in SUBSET S : /\ IsFiniteSet(s) /\ Cardinality(s) \in Nat
                            /\ \A x \in s : Cardinality(s \ {x}) = Cardinality(s) - 1
    BY FS_Subset, FS_CardinalityType, FS_RemoveElement
  <1> DEFINE Fine(s) == SumOf(F, s) \in Int /\ \A x \in s : SumOf(F, s) = F[x] + SumOf(F, s \ {x})
             Bad == {s \in SUBSET S : ~Fine(s)}
  <1> SUFFICES ASSUME Bad # {} PROVE FALSE
    OBVIOUS
  <1>2. PICK s \in Bad : \A t \in Bad : Cardinality(s) <= Cardinality(t)
    BY LeastSet
  <1> HIDE DEF Fine
  <1>3. s \in SUBSET S /\ ~Fine(s)
    OBVIOUS
  <1>4. \A t \in SUBSET S : Cardinality(t) < Cardinality(s) => Fine(t)
    <2> SUFFICES ASSUME NEW t \in SUBSET S, ~Fine(t) PROVE ~(Cardinality(t) < Cardinality(s))
      OBVIOUS
    <2>1. Cardinality(s) <= Cardinality(t)
      BY <1>2
    <2>2. Cardinality(s) \in Nat /\ Cardinality(t) \in Nat
      BY <1>1, <1>3
    <2> QED  BY <2>1, <2>2
  <1>5. s # {}
    <2> SUFFICES ASSUME s = {} PROVE FALSE
      OBVIOUS
    <2>1. SumOf(F, s) = 0
      BY <1>1, <1>3, SumByOne
    <2>2. Fine(s)
      BY <2>1 DEF Fine
    <2> QED  BY <1>3, <2>2
  <1> DEFINE y == AnyOf(s)
  <1>6. y \in s /\ SumOf(F, s) = F[y] + SumOf(F, s \ {y}) /\ F[y] \in Int
    BY <1>1, <1>3, <1>5, AnyOfIsMember, SumByOne
  <1> HIDE DEF y
  <1>7. ASSUME NEW x \in s PROVE Fine(s \ {x})
    <2>1. s \ {x} \in SUBSET S /\ Cardinality(s \ {x}) < Cardinality(s)
      BY <1>1, <1>3
    <2> QED  BY <1>4, <2>1
  <1>8. SumOf(F, s \ {y}) \in Int
    BY <1>6, <1>7 DEF Fine
  <1>9. ASSUME NEW x \in s, x # y PROVE SumOf(F, s) = F[x] + SumOf(F, s \ {x})
    <2> DEFINE rest == s \ {x, y}
    <2>1. (s \ {y}) \ {x} = rest /\ (s \ {x}) \ {y} = rest
      OBVIOUS
    <2> HIDE DEF rest
    <2>2. SumOf(F, s \ {y}) = F[x] + SumOf(F, rest)
      <3>1. Fine(s \ {y}) /\ x \in s \ {y}
        BY <1>6, <1>7, <1>9
      <3>2. SumOf(F, s \ {y}) = F[x] + SumOf(F, (s \ {y}) \ {x})
        BY <3>1 DEF Fine
      <3> QED  BY <2>1, <3>2
    <2>3. SumOf(F, s \ {x}) = F[y] + SumOf(F, rest)
      <3>1. Fine(s \ {x}) /\ y \in s \ {x}
        BY <1>6, <1>7, <1>9
      <3>2. SumOf(F, s \ {x}) = F[y] + SumOf(F, (s \ {x}) \ {y})
        BY <3>1 DEF Fine
      <3> QED  BY <2>1, <3>2
    <2>4. SumOf(F, rest) \in Int
      <3>1. (s \ {x}) \ {y} \in SUBSET S /\ Cardinality((s \ {x}) \ {y}) < Cardinality(s)
        <4>1. s \ {x} \in SUBSET S /\ y \in s \ {x} /\ Cardinality(s \ {x}) = Cardinality(s) - 1
          BY <1>1, <1>3, <1>6, <1>9
        <4>2. Cardinality((s \ {x}) \ {y}) = Cardinality(s \ {x}) - 1
          BY <1>1, <4>1
        <4> QED  BY <1>1, <1>3, <4>1, <4>2
      <3> QED  BY <1>4, <2>1, <3>1 DEF Fine
    <2>5. PICK a \in Int, b \in Int, c \in Int : a = F[x] /\ b = F[y] /\ c = SumOf(F, rest)
      BY <1>3, <1>6, <2>4
    <2>6. SumOf(F, s \ {y}) = a + c /\ SumOf(F, s \ {x}) = b + c /\ SumOf(F, s) = b + (a + c)
      BY <1>6, <2>2, <2>3, <2>5
    <2>7. b + (a + c) = a + (b + c)
      OBVIOUS
    <2> QED  BY <2>5, <2>6, <2>7
  <1>10. SumOf(F, s) \in Int
    BY <1>6, <1>8
  <1> QED  BY <1>3, <1>6, <1>9, <1>10 DEF Fine

LEMMA SumOfNone == ASSUME NEW F PROVE SumOf(F, {}) = 0
  BY SumByOne, FS_EmptySet

\* What a new element adds.
LEMMA SumOfNew ==
    ASSUME NEW F, NEW S, IsFiniteSet(S), \A x \in S : F[x] \in Int,
           NEW x, F[x] \in Int, x \notin S
    PROVE  SumOf(F, S \cup {x}) = SumOf(F, S) + F[x] /\ SumOf(F, S) \in Int
  <1>1. IsFiniteSet(S \cup {x})
    BY FS_AddElement
  <1>2. SumOf(F, S \cup {x}) = F[x] + SumOf(F, (S \cup {x}) \ {x})
    BY <1>1, SumOfAny
  <1>3. (S \cup {x}) \ {x} = S
    OBVIOUS
  <1>4. PICK a \in Int, b \in Int : a = F[x] /\ b = SumOf(F, S)
    BY SumOfAny
  <1>5. SumOf(F, S \cup {x}) = a + b
    BY <1>2, <1>3, <1>4
  <1>6. a + b = b + a
    OBVIOUS
  <1> QED  BY <1>4, <1>5, <1>6

\* Sums add up, element by element.
LEMMA SumPlus ==
    ASSUME NEW S, IsFiniteSet(S), NEW F, NEW G, NEW H,
           \A x \in S : F[x] \in Int /\ G[x] \in Int /\ H[x] = F[x] + G[x]
    PROVE  SumOf(H, S) = SumOf(F, S) + SumOf(G, S)
  <1> DEFINE Good == {s \in SUBSET S : SumOf(H, s) = SumOf(F, s) + SumOf(G, s)}
  <1>1. {} \in Good
    BY SumOfNone
  <1>2. ASSUME NEW s \in SUBSET S, NEW x \in S \ s, s \in Good
        PROVE  s \cup {x} \in Good
    <2>1. IsFiniteSet(s) /\ \A y \in s : F[y] \in Int /\ G[y] \in Int /\ H[y] \in Int
      BY FS_Subset
    <2>2. F[x] \in Int /\ G[x] \in Int /\ H[x] = F[x] + G[x] /\ H[x] \in Int /\ x \notin s
      OBVIOUS
    <2>3. /\ SumOf(F, s \cup {x}) = SumOf(F, s) + F[x] /\ SumOf(F, s) \in Int
          /\ SumOf(G, s \cup {x}) = SumOf(G, s) + G[x] /\ SumOf(G, s) \in Int
          /\ SumOf(H, s \cup {x}) = SumOf(H, s) + H[x]
      BY <2>1, <2>2, SumOfNew
    <2>4. SumOf(H, s) = SumOf(F, s) + SumOf(G, s)
      BY <1>2
    <2>5. PICK a \in Int, b \in Int, c \in Int, d \in Int :
              a = SumOf(F, s) /\ b = SumOf(G, s) /\ c = F[x] /\ d = G[x]
      BY <2>2, <2>3
    <2>6. (a + b) + (c + d) = (a + c) + (b + d)
      OBVIOUS
    <2>7. SumOf(H, s \cup {x}) = SumOf(F, s \cup {x}) + SumOf(G, s \cup {x})
      BY <2>2, <2>3, <2>4, <2>5, <2>6
    <2> QED  BY <2>7
  <1> HIDE DEF Good
  <1>3. S \in Good
    BY <1>1, <1>2, SetInduction
  <1> QED  BY <1>3 DEF Good

\* A factor of every element is one of the sum.
LEMMA SumTimes ==
    ASSUME NEW S, IsFiniteSet(S), NEW F, NEW H, NEW c \in Int,
           \A x \in S : F[x] \in Int /\ H[x] = c * F[x]
    PROVE  SumOf(H, S) = c * SumOf(F, S)
  <1> DEFINE Good == {s \in SUBSET S : SumOf(H, s) = c * SumOf(F, s)}
  <1>1. {} \in Good
    <2>1. SumOf(H, {}) = 0 /\ SumOf(F, {}) = 0 /\ c * 0 = 0
      BY SumOfNone
    <2> QED  BY <2>1
  <1>2. ASSUME NEW s \in SUBSET S, NEW x \in S \ s, s \in Good
        PROVE  s \cup {x} \in Good
    <2>1. IsFiniteSet(s) /\ \A y \in s : F[y] \in Int /\ H[y] \in Int
      BY FS_Subset
    <2>2. F[x] \in Int /\ H[x] = c * F[x] /\ H[x] \in Int /\ x \notin s
      OBVIOUS
    <2>3. /\ SumOf(F, s \cup {x}) = SumOf(F, s) + F[x] /\ SumOf(F, s) \in Int
          /\ SumOf(H, s \cup {x}) = SumOf(H, s) + H[x]
      BY <2>1, <2>2, SumOfNew
    <2>4. SumOf(H, s) = c * SumOf(F, s)
      BY <1>2
    <2>5. PICK a \in Int, b \in Int : a = SumOf(F, s) /\ b = F[x]
      BY <2>2, <2>3
    <2>6. c * (a + b) = c * a + c * b
      OBVIOUS
    <2>7. SumOf(H, s \cup {x}) = c * SumOf(F, s \cup {x})
      BY <2>2, <2>3, <2>4, <2>5, <2>6
    <2> QED  BY <2>7
  <1> HIDE DEF Good
  <1>3. S \in Good
    BY <1>1, <1>2, SetInduction
  <1> QED  BY <1>3 DEF Good

\* The sum of two sets that have nothing in common.
LEMMA SumOfBoth ==
    ASSUME NEW S, IsFiniteSet(S), NEW T, IsFiniteSet(T), S \cap T = {},
           NEW F, \A x \in S \cup T : F[x] \in Int
    PROVE  SumOf(F, S \cup T) = SumOf(F, S) + SumOf(F, T)
  <1> DEFINE Good == {s \in SUBSET S : SumOf(F, s \cup T) = SumOf(F, s) + SumOf(F, T)}
  <1>1. {} \in Good
    <2>1. {} \cup T = T
      OBVIOUS
    <2>2. SumOf(F, T) \in Int /\ SumOf(F, {}) = 0
      BY SumOfAny, SumOfNone
    <2>3. SumOf(F, {} \cup T) = SumOf(F, {}) + SumOf(F, T)
      BY <2>1, <2>2
    <2> QED  BY <2>3
  <1>2. ASSUME NEW s \in SUBSET S, NEW x \in S \ s, s \in Good
        PROVE  s \cup {x} \in Good
    <2>1. /\ IsFiniteSet(s) /\ \A y \in s : F[y] \in Int
          /\ IsFiniteSet(s \cup T) /\ \A y \in s \cup T : F[y] \in Int
      BY FS_Subset, FS_Union
    <2>2. F[x] \in Int /\ x \notin s /\ x \notin s \cup T /\ (s \cup {x}) \cup T = (s \cup T) \cup {x}
      OBVIOUS
    <2>3. SumOf(F, s \cup {x}) = SumOf(F, s) + F[x] /\ SumOf(F, s) \in Int
      BY <2>1, <2>2, SumOfNew
    <2>4. PICK U : U = s \cup T
      OBVIOUS
    <2>5. SumOf(F, U \cup {x}) = SumOf(F, U) + F[x]
      BY <2>1, <2>2, <2>4, SumOfNew
    <2>6. SumOf(F, U) = SumOf(F, s) + SumOf(F, T)
      BY <1>2, <2>4
    <2>7. SumOf(F, T) \in Int
      BY SumOfAny
    <2>8. PICK a \in Int, b \in Int, c \in Int : a = SumOf(F, s) /\ b = SumOf(F, T) /\ c = F[x]
      BY <2>2, <2>3, <2>7
    <2>9. (a + b) + c = (a + c) + b
      OBVIOUS
    <2>10. SumOf(F, (s \cup {x}) \cup T) = SumOf(F, s \cup {x}) + SumOf(F, T)
      BY <2>2, <2>3, <2>4, <2>5, <2>6, <2>8, <2>9
    <2> QED  BY <2>10
  <1> HIDE DEF Good
  <1>3. S \in Good
    BY <1>1, <1>2, SetInduction
  <1> QED  BY <1>3 DEF Good

\* The elements are grouped by a key K: the sums of the groups add up.
SumsOfGroups(F, S, K, U) == [u \in U |-> SumOf(F, {x \in S : K[x] = u})]

LEMMA SumOfGroups ==
    ASSUME NEW S, IsFiniteSet(S), NEW U, IsFiniteSet(U), NEW K, \A x \in S : K[x] \in U,
           NEW F, \A x \in S : F[x] \in Int,
           NEW G, G = SumsOfGroups(F, S, K, U)
    PROVE  SumOf(G, U) = SumOf(F, S)
  <1>0. \A u \in U : G[u] = SumOf(F, {x \in S : K[x] = u})
    BY DEF SumsOfGroups
  <1>1. \A V : {x \in S : K[x] \in V} \subseteq S /\ IsFiniteSet({x \in S : K[x] \in V})
    BY FS_Subset
  <1>2. \A u \in U : IsFiniteSet({x \in S : K[x] = u}) /\ G[u] \in Int
    <2> SUFFICES ASSUME NEW u \in U PROVE IsFiniteSet({x \in S : K[x] = u}) /\ G[u] \in Int
      OBVIOUS
    <2>1. PICK P : P = {x \in S : K[x] = u}
      OBVIOUS
    <2>2. IsFiniteSet(P) /\ \A x \in P : F[x] \in Int
      BY <2>1, FS_Subset
    <2>3. SumOf(F, P) \in Int
      BY <2>2, SumOfAny
    <2> QED  BY <1>0, <2>1, <2>2, <2>3
  <1> DEFINE Good == {V \in SUBSET U : SumOf(G, V) = SumOf(F, {x \in S : K[x] \in V})}
  <1>3. {} \in Good
    <2>1. {x \in S : K[x] \in {}} = {}
      OBVIOUS
    <2>2. SumOf(G, {}) = SumOf(F, {x \in S : K[x] \in {}})
      BY <2>1, SumOfNone
    <2> QED  BY <2>2
  <1>4. ASSUME NEW V \in SUBSET U, NEW u \in U \ V, V \in Good
        PROVE  V \cup {u} \in Good
    <2>1. PICK P, Q : P = {x \in S : K[x] \in V} /\ Q = {x \in S : K[x] = u}
      OBVIOUS
    <2>2. {x \in S : K[x] \in V \cup {u}} = P \cup Q /\ P \cap Q = {}
      BY <2>1
    <2>3. IsFiniteSet(P) /\ IsFiniteSet(Q) /\ \A x \in P \cup Q : F[x] \in Int
      BY <1>1, <1>2, <2>1
    <2>4. SumOf(F, P \cup Q) = SumOf(F, P) + SumOf(F, Q)
      BY <2>2, <2>3, SumOfBoth
    <2>5. IsFiniteSet(V) /\ (\A v \in V : G[v] \in Int) /\ G[u] \in Int /\ u \notin V
      BY <1>2, FS_Subset
    <2>6. SumOf(G, V \cup {u}) = SumOf(G, V) + G[u]
      BY <2>5, SumOfNew
    <2>7. SumOf(G, V) = SumOf(F, P) /\ G[u] = SumOf(F, Q)
      BY <1>0, <1>4, <2>1
    <2>8. SumOf(G, V \cup {u}) = SumOf(F, {x \in S : K[x] \in V \cup {u}})
      BY <2>2, <2>4, <2>6, <2>7
    <2> QED  BY <2>8
  <1> HIDE DEF Good
  <1>5. U \in Good
    BY <1>3, <1>4, SetInduction
  <1>6. {x \in S : K[x] \in U} = S
    OBVIOUS
  <1> QED  BY <1>5, <1>6 DEF Good

\* A sum of more, and of more in number.
LEMMA SumAtMost ==
    ASSUME NEW S, IsFiniteSet(S), NEW F, NEW G, \A x \in S : F[x] \in Int /\ G[x] \in Int /\ F[x] <= G[x]
    PROVE  SumOf(F, S) <= SumOf(G, S)
  <1> DEFINE Good == {s \in SUBSET S : SumOf(F, s) <= SumOf(G, s)}
  <1>1. {} \in Good
    <2>1. SumOf(F, {}) = 0 /\ SumOf(G, {}) = 0
      BY SumOfNone
    <2> QED  BY <2>1
  <1>2. ASSUME NEW s \in SUBSET S, NEW x \in S \ s, s \in Good
        PROVE  s \cup {x} \in Good
    <2>1. IsFiniteSet(s) /\ \A y \in s : F[y] \in Int /\ G[y] \in Int
      BY FS_Subset
    <2>2. F[x] \in Int /\ G[x] \in Int /\ F[x] <= G[x] /\ x \notin s
      OBVIOUS
    <2>3. /\ SumOf(F, s \cup {x}) = SumOf(F, s) + F[x] /\ SumOf(F, s) \in Int
          /\ SumOf(G, s \cup {x}) = SumOf(G, s) + G[x] /\ SumOf(G, s) \in Int
      BY <2>1, <2>2, SumOfNew
    <2>4. SumOf(F, s) <= SumOf(G, s)
      BY <1>2
    <2>5. SumOf(F, s \cup {x}) <= SumOf(G, s \cup {x})
      BY <2>2, <2>3, <2>4
    <2> QED  BY <2>5
  <1> HIDE DEF Good
  <1>3. S \in Good
    BY <1>1, <1>2, SetInduction
  <1> QED  BY <1>3 DEF Good

\* What counts alike for each of some elements adds up to a multiple of it.
LEMMA SumOfSome ==
    ASSUME NEW S, IsFiniteSet(S), NEW T, NEW d \in Int, NEW F, \A x \in S : F[x] = IF x \in T THEN d ELSE 0
    PROVE  SumOf(F, S) = d * Cardinality(S \cap T)
  <1> DEFINE Good == {s \in SUBSET S : SumOf(F, s) = d * Cardinality(s \cap T)}
  <1>1. {} \in Good
    <2>1. SumOf(F, {}) = 0 /\ {} \cap T = {} /\ Cardinality({}) = 0 /\ d * 0 = 0
      BY SumOfNone, FS_EmptySet
    <2> QED  BY <2>1
  <1>2. ASSUME NEW s \in SUBSET S, NEW x \in S \ s, s \in Good
        PROVE  s \cup {x} \in Good
    <2>1. /\ IsFiniteSet(s) /\ (\A y \in s : F[y] \in Int) /\ F[x] \in Int /\ x \notin s
          /\ IsFiniteSet(s \cap T)
      BY FS_Subset
    <2>2. SumOf(F, s \cup {x}) = SumOf(F, s) + F[x]
      BY <2>1, SumOfNew
    <2>3. SumOf(F, s) = d * Cardinality(s \cap T)
      BY <1>2
    <2>4. PICK n \in Nat : n = Cardinality(s \cap T)
      BY <2>1, FS_CardinalityType
    <2>5. CASE x \in T
      <3>1. (s \cup {x}) \cap T = (s \cap T) \cup {x} /\ x \notin s \cap T
        BY <2>1, <2>5
      <3>2. Cardinality((s \cup {x}) \cap T) = n + 1
        BY <2>1, <2>4, <3>1, FS_AddElement
      <3>3. d * (n + 1) = d * n + d
        OBVIOUS
      <3> QED  BY <2>2, <2>3, <2>4, <2>5, <3>2, <3>3
    <2>6. CASE x \notin T
      <3>1. (s \cup {x}) \cap T = s \cap T
        BY <2>6
      <3>2. PICK m \in Int : m = d * n
        OBVIOUS
      <3>3. SumOf(F, s \cup {x}) = m + 0
        BY <2>2, <2>3, <2>4, <2>6, <3>2
      <3>4. SumOf(F, s \cup {x}) = m
        BY <3>3
      <3>5. Cardinality((s \cup {x}) \cap T) = n
        BY <2>4, <3>1
      <3>6. SumOf(F, s \cup {x}) = d * Cardinality((s \cup {x}) \cap T)
        BY <3>2, <3>4, <3>5
      <3> QED  BY <3>6
    <2> QED  BY <2>5, <2>6
  <1> HIDE DEF Good
  <1>3. S \in Good
    BY <1>1, <1>2, SetInduction
  <1> QED  BY <1>3 DEF Good

Raised(F, G, S, T, d) ==
    \A x \in S : F[x] \in Int /\ G[x] = F[x] + IF x \in T THEN d ELSE 0

LEMMA SumOfRaised ==
    ASSUME NEW S, IsFiniteSet(S), NEW T, NEW d \in Int, NEW F, NEW G, Raised(F, G, S, T, d)
    PROVE  SumOf(G, S) = SumOf(F, S) + d * Cardinality(S \cap T)
  <1>1. PICK H : H = [x \in S |-> IF x \in T THEN d ELSE 0]
    OBVIOUS
  <1>2. \A x \in S : F[x] \in Int /\ H[x] \in Int /\ G[x] = F[x] + H[x] /\ H[x] = IF x \in T THEN d ELSE 0
    BY <1>1 DEF Raised
  <1>3. SumOf(G, S) = SumOf(F, S) + SumOf(H, S)
    BY <1>2, SumPlus
  <1>4. SumOf(H, S) = d * Cardinality(S \cap T)
    BY <1>2, SumOfSome
  <1> QED  BY <1>3, <1>4

=============================================================================
