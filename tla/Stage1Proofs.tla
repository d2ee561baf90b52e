----------------------------- MODULE Stage1Proofs -----------------------------
(***************************************************************************)
(* For any orders, routes, lots, stock and files, and any number of        *)
(* requests: the tables keep their types and keys, no row refers to one    *)
(* that is gone, and stock is promised once; and when no group of an       *)
(* updated plan is split, the older plans stay what they were, work that   *)
(* was started is in the new plan once, as it was, and no process of an    *)
(* order is lost.                                                          *)
(*                                                                         *)
(* Good says what holds of the tables after each part of a request, Fair   *)
(* what a part may do to stock and to the orders that are on it, Routed    *)
(* that a row belongs to a process of the route of its order.  Each        *)
(* operator of Stock, Grouping and Stage1 has a lemma that says that it    *)
(* keeps and does so; they are taken in the order in which an ingest and   *)
(* an update apply them.  What is folded over a set (sums,   *)
(* the orders of a drum, the pools of a matching, the groups that are      *)
(* split) goes back to SetInduction and FoldExists.                        *)
(***************************************************************************)
EXTENDS Stage1, FiniteSetTheorems, WellFoundedInduction, TLAPS

-----------------------------------------------------------------------------
(* Finite sets *)

(* What holds of a set whenever it holds of all that lack one element less *)
(* holds of every finite set.                                              *)
LEMMA SetInduction ==
    ASSUME NEW S, IsFiniteSet(S), NEW P,
           \A T \in SUBSET S : (\A x \in T : T \ {x} \in P) => T \in P
    PROVE  S \in P
  <1> DEFINE Bad == {T \in SUBSET S : T \notin P}
             C   == {Cardinality(T) : T \in Bad}
  <1>1. SUFFICES ASSUME S \notin P PROVE FALSE
    OBVIOUS
  <1>2. \A T \in SUBSET S : IsFiniteSet(T) /\ Cardinality(T) \in Nat
    BY FS_Subset, FS_CardinalityType
  <1>3. PICK c \in C : \A d \in C : <<d, c>> \notin OpToRel(<, Nat)
    <2>1. C \subseteq Nat /\ C # {}
      BY <1>1, <1>2
    <2> HIDE DEF C
    <2>2. QED
      BY <2>1, WFMin, NatLessThanWellFounded
  <1>4. PICK T \in Bad : c = Cardinality(T)
    BY <1>3
  <1>5. PICK x \in T : T \ {x} \notin P
    BY <1>4
  <1>6. T \ {x} \in Bad /\ Cardinality(T \ {x}) = Cardinality(T) - 1
    BY <1>2, <1>4, <1>5, FS_RemoveElement
  <1>7. Cardinality(T \ {x}) \in C /\ Cardinality(T \ {x}) \in Nat /\ c \in Nat
    BY <1>2, <1>4, <1>6
  <1>8. Cardinality(T \ {x}) < c
    BY <1>2, <1>4, <1>6
  <1>9. QED
    <2> HIDE DEF C, Bad
    <2>1. QED
      BY <1>3, <1>7, <1>8 DEF OpToRel

(* Of finitely many things that can all be compared, one is the best.      *)
LEMMA Best ==
    ASSUME NEW S, IsFiniteSet(S), S # {}, NEW R,
           \A x, y \in S : <<x, y>> \in R \/ <<y, x>> \in R,
           \A x, y, z \in S : <<x, y>> \in R /\ <<y, z>> \in R => <<x, z>> \in R
    PROVE  \E x \in S : \A y \in S : <<x, y>> \in R
  <1> DEFINE P == {T \in SUBSET S : T # {} => \E x \in T : \A y \in T : <<x, y>> \in R}
  <1>1. ASSUME NEW T \in SUBSET S, \A x \in T : T \ {x} \in P PROVE T \in P
    <2>1. SUFFICES ASSUME T # {} PROVE \E x \in T : \A y \in T : <<x, y>> \in R
      OBVIOUS
    <2>2. PICK z \in T : TRUE
      BY <2>1
    <2>3. CASE T \ {z} = {}
      <3>1. T = {z}
        BY <2>2, <2>3
      <3>2. QED
        BY <2>2, <3>1
    <2>4. CASE T \ {z} # {}
      <3>1. PICK x \in T \ {z} : \A y \in T \ {z} : <<x, y>> \in R
        BY <1>1, <2>2, <2>4
      <3>2. CASE <<x, z>> \in R
        BY <3>1, <3>2
      <3>3. CASE <<z, x>> \in R
        <4>1. ASSUME NEW y \in T PROVE <<z, y>> \in R
          BY <2>2, <3>1, <3>3
        <4>2. QED
          BY <2>2, <4>1
      <3>4. QED
        BY <2>2, <3>1, <3>2, <3>3
    <2>5. QED
      BY <2>3, <2>4
  <1>2. S \in P
    <2> HIDE DEF P
    <2>1. QED
      BY <1>1, SetInduction
  <1>3. QED
    BY <1>2

(* The same of two numbers, the second of which counts if the first is     *)
(* the same.                                                               *)
LEMMA BestOfPairs ==
    ASSUME NEW S, IsFiniteSet(S), S # {}, NEW f \in [S -> Int], NEW g \in [S -> Int]
    PROVE  \E x \in S : \A y \in S : f[x] < f[y] \/ (f[x] = f[y] /\ g[x] <= g[y])
  <1> DEFINE R == {p \in S \X S : f[p[1]] < f[p[2]] \/ (f[p[1]] = f[p[2]] /\ g[p[1]] <= g[p[2]])}
  <1>1. \A x, y \in S : <<x, y>> \in R <=> f[x] < f[y] \/ (f[x] = f[y] /\ g[x] <= g[y])
    OBVIOUS
  <1>2. \A x \in S : f[x] \in Int /\ g[x] \in Int
    OBVIOUS
  <1> HIDE DEF R
  <1>3. \A x, y \in S : <<x, y>> \in R \/ <<y, x>> \in R
    <2> TAKE x, y \in S
    <2>1. f[x] \in Int /\ f[y] \in Int /\ g[x] \in Int /\ g[y] \in Int
      BY <1>2
    <2>2. QED
      BY <1>1, <2>1
  <1>4. \A x, y, z \in S : <<x, y>> \in R /\ <<y, z>> \in R => <<x, z>> \in R
    <2> TAKE x, y, z \in S
    <2>1. /\ f[x] \in Int /\ f[y] \in Int /\ f[z] \in Int
          /\ g[x] \in Int /\ g[y] \in Int /\ g[z] \in Int
      BY <1>2
    <2>2. QED
      BY <1>1, <2>1
  <1>5. \E x \in S : \A y \in S : <<x, y>> \in R
    BY <1>3, <1>4, Best
  <1>6. QED
    BY <1>1, <1>5, Zenon

(* Finitely many numbers have a smallest, that of some element.            *)
LEMMA BestNumber ==
    ASSUME NEW S, IsFiniteSet(S), S # {}, NEW f \in [S -> Int]
    PROVE  \E x \in S : \A y \in S : f[x] <= f[y]
  <1>1. \E x \in S : \A y \in S : f[x] < f[y] \/ (f[x] = f[y] /\ f[x] <= f[y])
    BY BestOfPairs
  <1>2. QED
    BY <1>1

(* The least of finitely many numbers is one of them.                      *)
LEMMA MinIsIn ==
    ASSUME NEW S, IsFiniteSet(S), S # {}, S \subseteq Int
    PROVE  Min(S) \in S
  <1> DEFINE f == [x \in S |-> x]
  <1>1. \E x \in S : \A y \in S : f[x] <= f[y]
    <2>1. f \in [S -> Int]
      OBVIOUS
    <2> HIDE DEF f
    <2>2. QED
      BY <2>1, BestNumber
  <1>2. QED
    BY <1>1 DEF Min

(* The greatest of finitely many numbers is one of them, and none is       *)
(* greater.                                                                *)
LEMMA MaxIsIn ==
    ASSUME NEW S, IsFiniteSet(S), S # {}, S \subseteq Int
    PROVE  Max(S) \in S /\ \A y \in S : y <= Max(S)
  <1> DEFINE f == [x \in S |-> -x]
  <1>1. PICK x \in S : \A y \in S : f[x] <= f[y]
    <2>1. f \in [S -> Int]
      OBVIOUS
    <2> HIDE DEF f
    <2>2. QED
      BY <2>1, BestNumber
  <1>2. x \in S /\ \A y \in S : x >= y
    BY <1>1
  <1>3. QED
    BY <1>2 DEF Max

-----------------------------------------------------------------------------
(* Folds *)

(* g is the fold over the parts of S: base for none, and else step applied *)
(* to what is picked and to the fold over the rest.                        *)
IsFold(g, S, X, base, pick, step) ==
    /\ g = [T \in SUBSET S |-> g[T]]
    /\ \A T \in SUBSET S : g[T] \in X[T]
    /\ g[{}] = base
    /\ \A T \in SUBSET S : T # {} => g[T] = step[pick[T]][g[T \ {pick[T]}]]

(* A fold of a finite set, one element after the other, is a function of   *)
(* the set; X says what comes of each part of it.                          *)
LEMMA FoldExists ==
    ASSUME NEW S, IsFiniteSet(S), NEW X, NEW base, base \in X[{}], NEW pick,
           \A T \in SUBSET S : T # {} => pick[T] \in T,
           NEW step,
           \A T \in SUBSET S : T # {} => \A a \in X[T \ {pick[T]}] : step[pick[T]][a] \in X[T]
    PROVE  \E g : IsFold(g, S, X, base, pick, step)
  <1> DEFINE After(g) == [T \in SUBSET S |-> IF T = {} THEN base ELSE step[pick[T]][g[T \ {pick[T]}]]]
             Upto(g, n) == \A T \in SUBSET S : Cardinality(T) <= n => g[T] = After(g)[T] /\ g[T] \in X[T]
             Bad == {n \in Nat : ~ \E g : Upto(g, n)}
  <1>1. \A T \in SUBSET S : IsFiniteSet(T) /\ Cardinality(T) \in Nat
    BY FS_Subset, FS_CardinalityType
  <1>2. \E g : Upto(g, 0)
    <2> DEFINE g == [T \in SUBSET S |-> base]
    <2>1. \A T \in SUBSET S : Cardinality(T) <= 0 => T = {}
      BY <1>1, FS_EmptySet
    <2>2. Upto(g, 0)
      BY <2>1
    <2>3. QED
      BY <2>2
  <1>3. ASSUME NEW n \in Nat, NEW g, Upto(g, n)
        PROVE  Upto(After(g), n + 1)
    <2> SUFFICES ASSUME NEW T \in SUBSET S, Cardinality(T) <= n + 1
                 PROVE  After(g)[T] = After(After(g))[T] /\ After(g)[T] \in X[T]
      OBVIOUS
    <2>1. CASE T = {}
      BY <2>1
    <2>2. CASE T # {}
      <3> DEFINE U == T \ {pick[T]}
      <3>1. pick[T] \in T /\ U \in SUBSET S
        BY <2>2
      <3>2. Cardinality(U) = Cardinality(T) - 1
        <4>1. IsFiniteSet(T)
          BY <1>1
        <4>2. \A x \in T : Cardinality(T \ {x}) = Cardinality(T) - 1
          BY <4>1, FS_RemoveElement
        <4>3. QED
          BY <3>1, <4>2
      <3>3. Cardinality(U) <= n
        BY <1>1, <3>1, <3>2
      <3>4. g[U] = After(g)[U] /\ g[U] \in X[U]
        BY <1>3, <3>1, <3>3
      <3>5. step[pick[T]][g[U]] \in X[T]
        BY <2>2, <3>4
      <3>6. After(g)[T] = step[pick[T]][g[U]] /\ After(After(g))[T] = step[pick[T]][After(g)[U]]
        BY <2>2, <3>1
      <3> HIDE DEF After, U
      <3>7. QED
        BY <3>4, <3>5, <3>6
    <2>3. QED
      BY <2>1, <2>2
  <1>4. Bad = {}
    <2> SUFFICES ASSUME Bad # {} PROVE FALSE
      OBVIOUS
    <2>1. PICK n \in Bad : \A m \in Bad : <<m, n>> \notin OpToRel(<, Nat)
      <3>1. Bad \subseteq Nat
        OBVIOUS
      <3> HIDE DEF Bad
      <3>2. QED
        BY <3>1, WFMin, NatLessThanWellFounded
    <2>2. n \in Nat /\ n # 0
      <3>1. 0 \notin Bad
        BY <1>2
      <3>2. QED
        BY <3>1
    <2>3. n - 1 \in Nat /\ <<n - 1, n>> \in OpToRel(<, Nat)
      <3>1. n - 1 \in Nat /\ n \in Nat /\ n - 1 < n
        BY <2>2
      <3>2. QED
        BY <3>1 DEF OpToRel
    <2>4. n - 1 \notin Bad
      <3> HIDE DEF Bad
      <3>1. QED
        BY <2>1, <2>3
    <2>5. PICK g : Upto(g, n - 1)
      BY <2>3, <2>4
    <2>6. Upto(After(g), (n - 1) + 1)
      <3> HIDE DEF Upto, After
      <3>1. QED
        BY <1>3, <2>3, <2>5
    <2>7. (n - 1) + 1 = n
      BY <2>2
    <2>8. \E h : Upto(h, n)
      <3> HIDE DEF Upto, After
      <3>1. QED
        BY <2>6, <2>7
    <2>9. QED
      BY <2>8
  <1>5. PICK h : Upto(h, Cardinality(S))
    <2>1. Cardinality(S) \in Nat
      BY <1>1
    <2>2. QED
      BY <1>4, <2>1
  <1> DEFINE g == [T \in SUBSET S |-> h[T]]
  <1>6. ASSUME NEW T \in SUBSET S PROVE h[T] = After(h)[T] /\ h[T] \in X[T]
    <2>1. Cardinality(T) <= Cardinality(S)
      BY FS_Subset
    <2>2. QED
      BY <1>5, <2>1
  <1>7. IsFold(g, S, X, base, pick, step)
    <2>1. g[{}] = base
      BY <1>6
    <2>2. ASSUME NEW T \in SUBSET S, T # {} PROVE g[T] = step[pick[T]][g[T \ {pick[T]}]]
      <3>1. T \ {pick[T]} \in SUBSET S
        OBVIOUS
      <3>2. h[T] = step[pick[T]][h[T \ {pick[T]}]]
        BY <1>6, <2>2
      <3>3. QED
        BY <3>1, <3>2
    <2>3. QED
      BY <1>6, <2>1, <2>2 DEF IsFold
  <1>8. QED
    BY <1>7

-----------------------------------------------------------------------------
(* Sums *)

(* A sum stays in a set of numbers that is closed under addition.          *)
LEMMA TotalIn ==
    ASSUME NEW S, IsFiniteSet(S), NEW X, X \subseteq Int, 0 \in X, \A x, y \in X : x + y \in X,
           NEW f \in [S -> X]
    PROVE  Total(f) \in X
  <1> DEFINE some(T) == CHOOSE x \in T : TRUE
             Body(g) == [T \in SUBSET S |-> IF T = {} THEN 0 ELSE f[some(T)] + g[T \ {some(T)}]]
             iter == CHOOSE g : g = Body(g)
             pick == [T \in SUBSET S |-> some(T)]
             step == [x \in S |-> [a \in X |-> f[x] + a]]
             any == [T \in SUBSET S |-> X]
             P == {T \in SUBSET S : iter[T] \in X}
  <1>1. Total(f) = iter[S]
    BY DEF Total, FoldFunction, FoldFunctionOnSet, MapThenFoldSet
  <1>2. \A T \in SUBSET S : T # {} => some(T) \in T /\ some(T) \in S /\ T \ {some(T)} \in SUBSET S
    OBVIOUS
  <1>3. \A T \in SUBSET S : T # {} => \A a \in any[T \ {pick[T]}] : step[pick[T]][a] \in any[T]
    OBVIOUS
  <1>4. \E g : g = Body(g)
    <2>1. \A T \in SUBSET S : T # {} => pick[T] \in T
      BY <1>2
    <2>2. PICK g : IsFold(g, S, any, 0, pick, step)
      <3>1. 0 \in any[{}]
        OBVIOUS
      <3> HIDE DEF step, pick, any
      <3>2. QED
        BY <1>3, <2>1, <3>1, FoldExists, Zenon
    <2>3. ASSUME NEW T \in SUBSET S PROVE g[T] = IF T = {} THEN 0 ELSE f[some(T)] + g[T \ {some(T)}]
      <3>1. CASE T = {}
        BY <2>2, <3>1 DEF IsFold
      <3>2. CASE T # {}
        <4>1. g[T] = step[some(T)][g[T \ {some(T)}]]
          BY <2>2, <3>2 DEF IsFold
        <4>2. some(T) \in S /\ g[T \ {some(T)}] \in X
          BY <1>2, <2>2, <3>2 DEF IsFold
        <4> HIDE DEF some
        <4>3. step[some(T)][g[T \ {some(T)}]] = f[some(T)] + g[T \ {some(T)}]
          BY <4>2
        <4>4. QED
          BY <3>2, <4>1, <4>3
      <3>3. QED
        BY <3>1, <3>2
    <2> HIDE DEF some
    <2>4. g = Body(g)
      BY <2>2, <2>3 DEF IsFold
    <2>5. QED
      BY <2>4
  <1>5. iter = Body(iter)
    <2> HIDE DEF Body
    <2>1. QED
      BY <1>4
  <1>6. ASSUME NEW T \in SUBSET S, \A x \in T : T \ {x} \in P PROVE T \in P
    <2>1. iter[T] = IF T = {} THEN 0 ELSE f[some(T)] + iter[T \ {some(T)}]
      <3> HIDE DEF iter, some
      <3>1. QED
        BY <1>5
    <2>2. T # {} => iter[T \ {some(T)}] \in X /\ f[some(T)] \in X
      BY <1>2, <1>6
    <2> HIDE DEF iter, some
    <2>3. QED
      BY <2>1, <2>2
  <1>7. S \in P
    <2> HIDE DEF P
    <2>1. QED
      BY <1>6, SetInduction
  <1>8. QED
    BY <1>1, <1>7

(* A sum of natural numbers is one.                                        *)
LEMMA TotalIsNat ==
    ASSUME NEW S, IsFiniteSet(S), NEW f \in [S -> Nat]
    PROVE  Total(f) \in Nat
  <1>1. Nat \subseteq Int /\ 0 \in Nat /\ \A x, y \in Nat : x + y \in Nat
    OBVIOUS
  <1>2. QED
    BY <1>1, TotalIn, Zenon

(* A sum of whole numbers is one.                                          *)
LEMMA TotalIsInt ==
    ASSUME NEW S, IsFiniteSet(S), NEW f \in [S -> Int]
    PROVE  Total(f) \in Int
  <1>1. Int \subseteq Int /\ 0 \in Int /\ \A x, y \in Int : x + y \in Int
    OBVIOUS
  <1>2. QED
    BY <1>1, TotalIn, Zenon

(* The sum of nothing is 0.                                                *)
LEMMA TotalOfNone ==
    ASSUME NEW f, DOMAIN f = {}
    PROVE  Total(f) = 0
  <1> DEFINE some(T) == CHOOSE x \in T : TRUE
             Body(h, e) == [T \in SUBSET {} |-> IF T = {} THEN 0 ELSE e[some(T)] + h[T \ {some(T)}]]
  <1>1. Total(f) = (CHOOSE h : h = Body(h, f))[{}]
    BY DEF Total, FoldFunction, FoldFunctionOnSet, MapThenFoldSet
  <1>2. ASSUME NEW h PROVE Body(h, f) = [T \in SUBSET {} |-> 0]
    OBVIOUS
  <1> DEFINE zero == [T \in SUBSET {} |-> 0]
  <1>3. (CHOOSE h : h = Body(h, f)) = zero
    <2>1. \A h : h = Body(h, f) <=> h = zero
      BY <1>2
    <2> HIDE DEF Body, zero
    <2>2. zero = Body(zero, f)
      BY <2>1
    <2>3. (CHOOSE h : h = Body(h, f)) = Body(CHOOSE h : h = Body(h, f), f)
      BY <2>2
    <2>4. QED
      BY <2>1, <2>3
  <1>4. QED
    BY <1>1, <1>3

-----------------------------------------------------------------------------
(* Counting *)

(* What a function makes of a finite set is finite.                        *)
LEMMA ImageIsFinite ==
    ASSUME NEW S, IsFiniteSet(S), NEW f, NEW T, T = {f[x] : x \in S}
    PROVE  IsFiniteSet(T)
  <1> DEFINE g == [x \in S |-> f[x]]
  <1>1. g \in Surjection(S, T)
    BY DEF Surjection
  <1>2. QED
    <2> HIDE DEF g
    <2>1. QED
      BY <1>1, FS_Surjection

(* And it is as large as the set if the function is one to one.            *)
LEMMA ImageIsAsLarge ==
    ASSUME NEW S, IsFiniteSet(S), NEW f, NEW T, T = {f[x] : x \in S}, \A x, y \in S : f[x] = f[y] => x = y
    PROVE  IsFiniteSet(T) /\ Cardinality(T) = Cardinality(S)
  <1> DEFINE g == [x \in S |-> f[x]]
  <1>1. g \in Surjection(S, T)
    BY DEF Surjection
  <1>2. g \in Injection(S, T)
    BY DEF Injection, IsInjective
  <1>3. QED
    <2> HIDE DEF g
    <2>1. QED
      BY <1>1, <1>2, FS_Surjection

(* A proper part of a finite set has fewer elements.                       *)
LEMMA PartIsSmaller ==
    ASSUME NEW S, IsFiniteSet(S), NEW T, T \subseteq S, NEW x \in S, x \notin T
    PROVE  Cardinality(T) < Cardinality(S) /\ Cardinality(T) \in Nat /\ Cardinality(S) \in Nat
  <1>1. IsFiniteSet(T) /\ Cardinality(T) <= Cardinality(S) /\ (Cardinality(S) = Cardinality(T) => S = T)
    BY FS_Subset
  <1>2. Cardinality(T) \in Nat /\ Cardinality(S) \in Nat
    BY <1>1, FS_CardinalityType
  <1>3. QED
    BY <1>1, <1>2

(* What comes before x in an order.                                        *)
Lower(S, R, x) == {y \in S : <<y, x>> \in R}

(* Each element has a place of its own, counted from 0.                    *)
Placed(S, place) ==
    /\ \A x \in S : place[x] \in Nat /\ place[x] < Cardinality(S)
    /\ \A x, y \in S : place[x] = place[y] => x = y

(* The place of each in an order is another one.                           *)
LEMMA Places ==
    ASSUME NEW S, IsFiniteSet(S), NEW R,
           \A x \in S : <<x, x>> \notin R,
           \A x, y, z \in S : <<x, y>> \in R /\ <<y, z>> \in R => <<x, z>> \in R,
           \A x, y \in S : x = y \/ <<x, y>> \in R \/ <<y, x>> \in R,
           NEW place, \A x \in S : place[x] = Cardinality(Lower(S, R, x))
    PROVE  Placed(S, place)
  <1>1. ASSUME NEW x \in S PROVE place[x] \in Nat /\ place[x] < Cardinality(S)
    <2>1. Lower(S, R, x) \subseteq S /\ x \notin Lower(S, R, x)
      BY DEF Lower
    <2>2. QED
      BY <2>1, PartIsSmaller
  <1>2. ASSUME NEW x \in S, NEW y \in S, <<x, y>> \in R PROVE place[x] < place[y]
    <2>1. IsFiniteSet(Lower(S, R, y))
      BY FS_Subset DEF Lower
    <2>2. Lower(S, R, x) \subseteq Lower(S, R, y) /\ x \in Lower(S, R, y) /\ x \notin Lower(S, R, x)
      BY <1>2 DEF Lower
    <2>3. Cardinality(Lower(S, R, x)) < Cardinality(Lower(S, R, y))
      BY <2>1, <2>2, PartIsSmaller
    <2>4. QED
      BY <2>3
  <1>3. ASSUME NEW x \in S, NEW y \in S, place[x] = place[y] PROVE x = y
    <2>1. place[x] \in Nat /\ place[y] \in Nat
      BY <1>1
    <2>2. <<x, y>> \notin R /\ <<y, x>> \notin R
      BY <1>2, <1>3, <2>1
    <2>3. QED
      BY <2>2
  <1>4. QED
    BY <1>1, <1>3 DEF Placed

-----------------------------------------------------------------------------
(* The tables *)

(* The tables with their types.                                            *)
DB == [sales : SUBSET SaleRows, rows : SUBSET BatchRows, tasks : SUBSET [run : Nat, batch : Nat],
       stock : SUBSET StockRows, nextRow : Nat, nextStock : Nat]

(* They are finite, as the tables of a database are.                       *)
TablesAreFinite(d) == IsFiniteSet(d.sales) /\ IsFiniteSet(d.rows) /\ IsFiniteSet(d.stock)

(* Order and line, and the numbers of rows and stock, are keys; a number   *)
(* that was not given out yet is above them all.                           *)
SalesAreKeyed(d) == \A s, t \in d.sales : Key(s) = Key(t) => s = t
RowsAreKeyed(d)  == /\ \A b, c \in d.rows : b.id = c.id => b = c
                    /\ \A b \in d.rows : b.id < d.nextRow
StockIsKeyed(d)  == /\ \A v, w \in d.stock : v.id = w.id => v = w
                    /\ \A w \in d.stock : w.id < d.nextStock

(* A row without an order is a header, and one without a group.            *)
HasOrder(b)      == b.seq # -1 \/ b.group # Nothing => b.order \in Order
RowsHaveOrders(d) == \A b \in d.rows : HasOrder(b)

(* A run has a row of an order for each process once.                      *)
SameRow(b, c)  == b.run = c.run /\ b.order = c.order /\ b.line = c.line /\ b.seq = c.seq /\ b.proc = c.proc
Once(B)        == \A b, c \in B : b.seq # -1 /\ SameRow(b, c) => b = c

(* The foreign keys: what tasks, stock, rows and orders refer to is there. *)
TasksHold(d)   == \A t \in d.tasks : \E b \in d.rows : b.run = t.run /\ b.id = t.batch
SourcesHold(d) == \A w \in d.stock : w.source = Nothing \/ \E b \in d.rows : b.id = w.source
Holds(x, d)    == x.wip = Nothing \/ \E w \in d.stock : w.id = x.wip
WipsHold(d)    == \A x \in d.rows \cup d.sales : Holds(x, d)

(* All that holds of the tables whatever was done to them.                 *)
Good(d) ==
    /\ d \in DB
    /\ TablesAreFinite(d)
    /\ SalesAreKeyed(d) /\ RowsAreKeyed(d) /\ StockIsKeyed(d)
    /\ RowsHaveOrders(d) /\ Once(d.rows)
    /\ TasksHold(d) /\ SourcesHold(d) /\ WipsHold(d)

(* An order has a row for the processes of its route alone, and a header   *)
(* that names an order stands with a row of that order.                    *)
Makes(o, proc) == \E i \in DOMAIN Route[o] : Route[o][i] = proc
OnRoute(b)     == b.seq >= 1 => Makes(b.order, b.proc)
Named(h, B)    == h.seq = -1 /\ h.order # 0 =>
                     \E c \in B : c.seq # -1 /\ c.run = h.run /\ c.order = h.order /\ c.line = h.line
Routed(d)      == \A b \in d.rows : OnRoute(b) /\ Named(b, d.rows)

(* A row comes of one that is the same, or a header of a row of the order  *)
(* that it names; and of the runs that are there no order has lost a row.  *)
Stems(b, c) ==
    \/ SameRow(b, c)
    \/ b.seq = -1 /\ c.seq # -1 /\ b.run = c.run /\ b.order = c.order /\ b.line = c.line

Follows(d, e) ==
    /\ \A b \in e.rows : \E c \in d.rows : Stems(b, c)
    /\ \A c \in d.rows : c.seq # -1 /\ (\E b \in e.rows : b.run = c.run) => \E b \in e.rows : SameRow(b, c)

LEMMA FollowsIsTransitive ==
    ASSUME NEW d, NEW e, NEW f, Follows(d, e), Follows(e, f)
    PROVE  Follows(d, f)
  <1>1. ASSUME NEW b \in f.rows PROVE \E c \in d.rows : Stems(b, c)
    <2>1. PICK x \in e.rows : Stems(b, x)
      BY DEF Follows
    <2>2. PICK c \in d.rows : Stems(x, c)
      BY DEF Follows
    <2>3. Stems(b, c)
      BY <2>1, <2>2 DEF Stems, SameRow
    <2>4. QED
      BY <2>3
  <1>2. ASSUME NEW c \in d.rows, c.seq # -1, NEW z \in f.rows, z.run = c.run PROVE \E b \in f.rows : SameRow(b, c)
    <2>1. PICK y \in e.rows : y.run = c.run
      <3>1. PICK y \in e.rows : Stems(z, y)
        BY DEF Follows
      <3>2. QED
        BY <1>2, <3>1 DEF Stems, SameRow
    <2>2. PICK x \in e.rows : SameRow(x, c)
      BY <1>2, <2>1 DEF Follows
    <2>3. x.seq # -1 /\ x.run = z.run
      BY <1>2, <2>2 DEF SameRow
    <2>4. PICK b \in f.rows : SameRow(b, x)
      BY <2>3 DEF Follows
    <2>5. QED
      BY <2>2, <2>4 DEF SameRow
  <1>3. QED
    BY <1>1, <1>2 DEF Follows

LEMMA RoutedFollows ==
    ASSUME NEW d, NEW e, Routed(d), Follows(d, e), e.rows \subseteq BatchRows
    PROVE  Routed(e)
  <1> SUFFICES ASSUME NEW b \in e.rows PROVE OnRoute(b) /\ Named(b, e.rows)
    BY DEF Routed
  <1>1. PICK c \in d.rows : Stems(b, c)
    BY DEF Follows
  <1>2. OnRoute(c) /\ Named(c, d.rows)
    BY DEF Routed
  <1>3. OnRoute(b)
    <2>1. b.seq >= 1 => b.seq # -1
      OBVIOUS
    <2>2. QED
      BY <1>1, <1>2, <2>1 DEF OnRoute, Stems, SameRow
  <1>4. ASSUME b.seq = -1, b.order # 0
        PROVE  \E x \in e.rows : x.seq # -1 /\ x.run = b.run /\ x.order = b.order /\ x.line = b.line
    <2>1. PICK y \in d.rows : y.seq # -1 /\ y.run = b.run /\ y.order = b.order /\ y.line = b.line
      BY <1>1, <1>2, <1>4 DEF Stems, SameRow, Named
    <2>2. PICK x \in e.rows : SameRow(x, y)
      BY <2>1 DEF Follows
    <2>3. QED
      BY <2>1, <2>2 DEF SameRow
  <1>5. QED
    BY <1>3, <1>4 DEF Named

(* All orders are still there, with the same run.                          *)
OrdersStay(d, e) == \A s \in d.sales : \E t \in e.sales : Key(t) = Key(s) /\ t.run = s.run

(* Stock that an order is on, or that was measured since.                  *)
Gone == {"used", "actual"}

(* From d to e no stock that is gone comes back, and orders get stock that *)
(* was not gone, and that is gone then.                                    *)
Fair(d, e) ==
    /\ d.nextStock <= e.nextStock
    /\ \A w \in e.stock : w.id >= d.nextStock \/ \E v \in d.stock : v.id = w.id /\ (v.status \in Gone => w.status \in Gone)
    /\ \A p \in OnStock(e) \ OnStock(d) :
          /\ p[2] >= d.nextStock \/ \E v \in d.stock : v.id = p[2] /\ v.status \notin Gone
          /\ \A w \in e.stock : w.id = p[2] => w.status \in Gone

(* New rows.                                                               *)
LEMMA MoreRows ==
    ASSUME NEW d, Good(d), NEW e \in DB, NEW B, IsFiniteSet(B), B \subseteq BatchRows,
           e.sales = d.sales, e.stock = d.stock, e.nextStock = d.nextStock,
           e.rows = d.rows \cup B, TasksHold(e),
           d.nextRow <= e.nextRow,
           \A b \in B : HasOrder(b) /\ Holds(b, d) /\ d.nextRow <= b.id /\ b.id < e.nextRow,
           \A b, c \in B : b.id = c.id => b = c,
           Once(e.rows)
    PROVE  Good(e)
  <1>1. d.nextRow \in Nat /\ e.nextRow \in Nat
    BY DEF Good, DB
  <1>2. \A b \in e.rows : b.id \in Nat
    BY DEF DB, BatchRows
  <1>3. TablesAreFinite(e)
    <2>1. IsFiniteSet(d.rows)
      BY DEF TablesAreFinite, Good
    <2>2. IsFiniteSet(d.rows \cup B)
      BY <2>1, FS_Union
    <2>3. QED
      BY <2>2 DEF TablesAreFinite, Good
  <1>4. SalesAreKeyed(e) /\ StockIsKeyed(e)
    BY DEF SalesAreKeyed, StockIsKeyed, Good
  <1>5. RowsAreKeyed(e)
    <2>1. ASSUME NEW b \in e.rows PROVE b.id < e.nextRow
      <3>1. CASE b \in B
        BY <3>1
      <3>2. CASE b \in d.rows
        BY <1>1, <1>2, <3>2 DEF Good, RowsAreKeyed
      <3>3. QED
        BY <3>1, <3>2
    <2>2. ASSUME NEW b \in e.rows, NEW c \in e.rows, b.id = c.id PROVE b = c
      <3>1. CASE b \in B /\ c \in B
        BY <2>2, <3>1
      <3>2. CASE b \in d.rows /\ c \in d.rows
        BY <2>2, <3>2 DEF Good, RowsAreKeyed
      <3>3. ASSUME NEW x \in B, NEW y \in d.rows PROVE x.id # y.id
        <4>1. d.nextRow <= x.id /\ y.id < d.nextRow /\ x.id \in Nat /\ y.id \in Nat
          BY <1>2 DEF Good, RowsAreKeyed
        <4>2. QED
          BY <1>1, <4>1
      <3>4. QED
        BY <2>2, <3>1, <3>2, <3>3
    <2>3. QED
      BY <2>1, <2>2 DEF RowsAreKeyed
  <1>6. RowsHaveOrders(e)
    BY DEF RowsHaveOrders, Good
  <1>7. TasksHold(e)
    OBVIOUS
  <1>8. SourcesHold(e)
    BY DEF SourcesHold, Good
  <1>9. WipsHold(e)
    BY DEF WipsHold, Holds, Good
  <1>10. QED
    BY <1>3, <1>4, <1>5, <1>6, <1>7, <1>8, <1>9 DEF Good

(* Where the stock stays and no order gets any, all is fair.               *)
LEMMA FairIfSame ==
    ASSUME NEW d, NEW e, d \in DB, d.nextStock = e.nextStock, d.stock = e.stock,
           \A s \in e.sales : s.wip # Nothing => \E t \in d.sales : Key(t) = Key(s) /\ t.wip = s.wip
    PROVE  Fair(d, e)
  <1>1. OnStock(e) \subseteq OnStock(d)
    BY DEF OnStock
  <1>2. d.nextStock \in Nat
    BY DEF DB
  <1>3. QED
    BY <1>1, <1>2 DEF Fair

(* Fairness adds up over the parts of a request.                           *)
LEMMA FairIsTransitive ==
    ASSUME NEW d, NEW e, NEW f, Good(d), Good(e), Good(f), Fair(d, e), Fair(e, f)
    PROVE  Fair(d, f)
  <1>1. d.nextStock \in Nat /\ e.nextStock \in Nat /\ f.nextStock \in Nat
    BY DEF Good, DB
  <1>2. \A w \in d.stock \cup e.stock \cup f.stock : w.id \in Nat
    BY DEF Good, DB, StockRows
  <1>3. d.nextStock <= f.nextStock
    BY <1>1 DEF Fair
  <1>4. ASSUME NEW w \in f.stock
        PROVE  w.id >= d.nextStock \/ \E v \in d.stock : v.id = w.id /\ (v.status \in Gone => w.status \in Gone)
    <2>1. CASE w.id >= e.nextStock
      BY <1>1, <1>2, <2>1 DEF Fair
    <2>2. CASE \E v \in e.stock : v.id = w.id /\ (v.status \in Gone => w.status \in Gone)
      BY <2>2 DEF Fair
    <2>3. QED
      BY <2>1, <2>2 DEF Fair
  <1>5. ASSUME NEW p \in OnStock(f) \ OnStock(d)
        PROVE  /\ p[2] >= d.nextStock \/ \E v \in d.stock : v.id = p[2] /\ v.status \notin Gone
               /\ \A w \in f.stock : w.id = p[2] => w.status \in Gone
    <2>1. PICK s \in f.sales : s.wip # Nothing /\ p = <<Key(s), s.wip>>
      BY DEF OnStock
    <2>2. \E w \in f.stock : w.id = p[2]
      BY <2>1 DEF Good, WipsHold, Holds
    <2>3. p[2] \in Nat
      BY <1>2, <2>2
    <2>4. CASE p \in OnStock(e)
      <3>1. p[2] >= d.nextStock \/ \E v \in d.stock : v.id = p[2] /\ v.status \notin Gone
        BY <2>4 DEF Fair
      <3>2. \E v \in e.stock : v.id = p[2]
        <4>1. PICK t \in e.sales : t.wip # Nothing /\ p = <<Key(t), t.wip>>
          BY <2>4 DEF OnStock
        <4>2. QED
          BY <4>1 DEF Good, WipsHold, Holds
      <3>3. ASSUME NEW w \in f.stock, w.id = p[2] PROVE w.status \in Gone
        <4>1. w.id < e.nextStock
          BY <3>2, <3>3 DEF Good, StockIsKeyed
        <4>2. PICK v \in e.stock : v.id = w.id /\ (v.status \in Gone => w.status \in Gone)
          BY <1>1, <1>2, <4>1 DEF Fair
        <4>3. v.status \in Gone
          BY <2>4, <3>3, <4>2 DEF Fair
        <4>4. QED
          BY <4>2, <4>3
      <3>4. QED
        BY <3>1, <3>3
    <2>5. CASE p \notin OnStock(e)
      <3>1. \A w \in f.stock : w.id = p[2] => w.status \in Gone
        BY <2>5 DEF Fair
      <3>2. CASE p[2] >= e.nextStock
        BY <1>1, <2>3, <3>1, <3>2 DEF Fair
      <3>3. CASE \E v \in e.stock : v.id = p[2] /\ v.status \notin Gone
        <4>1. PICK v \in e.stock : v.id = p[2] /\ v.status \notin Gone
          BY <3>3
        <4>2. v.id >= d.nextStock \/ \E u \in d.stock : u.id = v.id /\ (u.status \in Gone => v.status \in Gone)
          BY DEF Fair
        <4>3. QED
          BY <3>1, <4>1, <4>2
      <3>4. QED
        BY <2>5, <3>2, <3>3 DEF Fair
    <2>6. QED
      BY <2>4, <2>5
  <1>6. QED
    BY <1>3, <1>4, <1>5 DEF Fair

(* Rows and tasks stay.                                                    *)
Keeps(d, e) == e.rows = d.rows /\ e.tasks = d.tasks /\ e.nextRow = d.nextRow

(* New stock.                                                              *)
LEMMA MoreStock ==
    ASSUME NEW d, Good(d), NEW e \in DB, Keeps(d, e), e.sales = d.sales,
           NEW N, IsFiniteSet(N), e.stock = d.stock \cup N, d.nextStock <= e.nextStock,
           \A w \in N : w \in StockRows /\ d.nextStock <= w.id /\ w.id < e.nextStock,
           \A v, w \in N : v.id = w.id => v = w,
           \A w \in N : w.source = Nothing \/ \E b \in d.rows : b.id = w.source
    PROVE  Good(e) /\ Fair(d, e)
  <1>1. d.nextStock \in Nat /\ e.nextStock \in Nat /\ d.stock \subseteq StockRows
    BY DEF Good, DB
  <1>2. \A v \in d.stock : v.id \in Nat /\ v.id < d.nextStock
    BY <1>1 DEF Good, StockIsKeyed, StockRows
  <1>3. \A w \in N : w.id \in Nat
    BY DEF StockRows
  <1>4. TablesAreFinite(e)
    <2>1. IsFiniteSet(d.stock \cup N)
      BY FS_Union DEF Good, TablesAreFinite
    <2>2. QED
      BY <2>1 DEF Good, TablesAreFinite, Keeps
  <1>5. StockIsKeyed(e)
    <2>1. \A v, w \in d.stock : v.id = w.id => v = w
      BY DEF Good, StockIsKeyed
    <2>2. \A v \in d.stock, w \in N : v.id # w.id
      <3> TAKE v \in d.stock, w \in N
      <3>1. v.id \in Nat /\ v.id < d.nextStock /\ d.nextStock <= w.id /\ w.id \in Nat
        BY <1>2, <1>3
      <3>2. QED
        BY <1>1, <3>1
    <2>3. \A w \in e.stock : w.id < e.nextStock
      BY <1>1, <1>2
    <2>4. \A v, w \in e.stock : v.id = w.id => v = w
      BY <2>1, <2>2
    <2>5. QED
      BY <2>3, <2>4 DEF StockIsKeyed
  <1>6. SalesAreKeyed(e) /\ RowsAreKeyed(e) /\ RowsHaveOrders(e) /\ Once(e.rows) /\ TasksHold(e)
    BY DEF Good, SalesAreKeyed, RowsAreKeyed, RowsHaveOrders, TasksHold, Keeps
  <1>7. SourcesHold(e)
    BY DEF Good, SourcesHold, Keeps
  <1>8. WipsHold(e)
    BY DEF Good, WipsHold, Holds, Keeps
  <1>9. Fair(d, e)
    <2>1. OnStock(e) = OnStock(d)
      BY DEF OnStock
    <2>2. \A w \in N : w.id >= d.nextStock
      BY <1>1, <1>3
    <2>3. QED
      BY <2>1, <2>2 DEF Fair
  <1>10. QED
    BY <1>4, <1>5, <1>6, <1>7, <1>8, <1>9 DEF Good

(* Stock and orders that change and keep their keys.                       *)
LEMMA Remapped ==
    ASSUME NEW d, Good(d), NEW e \in DB, Keeps(d, e), e.nextStock = d.nextStock,
           NEW f, e.stock = {f[w] : w \in d.stock},
           \A w \in d.stock : f[w].id = w.id /\ f[w].source = w.source,
           NEW g, e.sales = {g[s] : s \in d.sales},
           \A s \in d.sales : Key(g[s]) = Key(s) /\ Holds(g[s], d)
    PROVE  Good(e)
  <1>1. TablesAreFinite(e)
    <2>1. IsFiniteSet(e.stock)
      BY ImageIsFinite DEF Good, TablesAreFinite
    <2>2. IsFiniteSet(e.sales)
      BY ImageIsFinite DEF Good, TablesAreFinite
    <2>3. QED
      BY <2>1, <2>2 DEF Good, TablesAreFinite, Keeps
  <1>2. StockIsKeyed(e)
    BY DEF Good, StockIsKeyed
  <1>3. SalesAreKeyed(e)
    BY DEF Good, SalesAreKeyed
  <1>4. RowsAreKeyed(e) /\ RowsHaveOrders(e) /\ Once(e.rows) /\ TasksHold(e)
    BY DEF Good, RowsAreKeyed, RowsHaveOrders, TasksHold, Keeps
  <1>5. SourcesHold(e)
    BY DEF Good, SourcesHold, Keeps
  <1>6. WipsHold(e)
    <2>1. \A x : Holds(x, d) => Holds(x, e)
      BY DEF Holds
    <2>2. QED
      BY <2>1 DEF Good, WipsHold, Keeps
  <1>7. QED
    BY <1>1, <1>2, <1>3, <1>4, <1>5, <1>6 DEF Good

(* The rows with a lower number than that of h.                            *)
Lesser(H, h) == {g \in H : g.id < h.id}

(* Rows in the order of their numbers.                                     *)
LEMMA IdsArePlaces ==
    ASSUME NEW d, Good(d), NEW H, IsFiniteSet(H), H \subseteq d.rows,
           NEW place, \A h \in H : place[h] = Cardinality(Lesser(H, h))
    PROVE  Placed(H, place)
  <1> DEFINE R == {p \in H \X H : p[1].id < p[2].id}
  <1>1. \A h \in H : place[h] = Cardinality(Lower(H, R, h))
    <2>1. \A h \in H : Lower(H, R, h) = Lesser(H, h)
      BY DEF Lower, Lesser
    <2>2. QED
      BY <2>1
  <1>2. \A h \in H : h.id \in Nat
    BY DEF Good, DB, BatchRows
  <1>3. \A g, h \in H : <<g, h>> \in R <=> g.id < h.id
    OBVIOUS
  <1>4. \A g, h \in H : g.id = h.id => g = h
    BY DEF Good, RowsAreKeyed
  <1> HIDE DEF R
  <1>5. \A h \in H : <<h, h>> \notin R
    BY <1>2, <1>3
  <1>6. \A x, y, z \in H : <<x, y>> \in R /\ <<y, z>> \in R => <<x, z>> \in R
    BY <1>2, <1>3
  <1>7. \A x, y \in H : x = y \/ <<x, y>> \in R \/ <<y, x>> \in R
    <2> TAKE x, y \in H
    <2>1. x.id \in Nat /\ y.id \in Nat /\ (x.id = y.id => x = y)
      BY <1>2, <1>4
    <2>2. QED
      BY <1>3, <2>1
  <1>8. QED
    BY <1>1, <1>5, <1>6, <1>7, Places

(* What headers are expected to leave over is new stock.                   *)
LEMMA ExpectedIsGood ==
    ASSUME NEW d, Good(d), NEW B, B \subseteq d.rows
    PROVE  /\ Good(Expected(d, B)) /\ Fair(d, Expected(d, B))
           /\ Expected(d, B).rows = d.rows /\ Expected(d, B).sales = d.sales
           /\ Expected(d, B).tasks = d.tasks /\ d.stock \subseteq Expected(d, B).stock
           /\ Expected(d, B).nextRow = d.nextRow
  <1> DEFINE H     == {b \in B : b.seq = -1 /\ b.surplus > 0}
             place == [h \in H |-> Cardinality({g \in H : g.id < h.id})]
             new   == [h \in H |-> [id |-> d.nextStock + place[h], kind |-> <<"stranded", h.sq>>, run |-> h.run,
                                    len |-> h.surplus, status |-> "expected", source |-> h.id, expected |-> h.surplus,
                                    variance |-> 0, matched |-> Nothing]]
             N     == {new[h] : h \in H}
             e     == Expected(d, B)
  <1>1. d \in DB /\ d.nextStock \in Nat /\ d.stock \subseteq StockRows /\ d.rows \subseteq BatchRows
    BY DEF Good, DB
  <1>2. IsFiniteSet(H) /\ H \subseteq BatchRows /\ H \subseteq d.rows
    BY <1>1, FS_Subset DEF Good, TablesAreFinite
  <1>3. e = [d EXCEPT !.stock = @ \cup N, !.nextStock = @ + Cardinality(H)]
    BY DEF Expected
  <1>4. Placed(H, place)
    <2>1. \A h \in H : place[h] = Cardinality(Lesser(H, h))
      BY DEF Lesser
    <2> HIDE DEF H, place
    <2>2. QED
      BY <1>2, <2>1, IdsArePlaces
  <1> HIDE DEF H, place
  <1>5. IsFiniteSet(N) /\ Cardinality(H) \in Nat
    <2> HIDE DEF new
    <2>1. IsFiniteSet(N)
      BY <1>2, ImageIsFinite
    <2>2. QED
      BY <1>2, <2>1, FS_CardinalityType
  <1>6. \A w \in N : w \in StockRows /\ d.nextStock <= w.id /\ w.id < d.nextStock + Cardinality(H) /\ w.status = "expected"
    <2> TAKE w \in N
    <2>1. PICK h \in H : w = new[h]
      OBVIOUS
    <2>2. h \in BatchRows /\ h.surplus > 0 /\ place[h] \in Nat /\ place[h] < Cardinality(H)
      BY <1>2, <1>4, <2>1 DEF H, Placed
    <2>3. <<"stranded", h.sq>> \in Kinds
      <3>1. h.sq \in Range(SqOf)
        BY <2>2 DEF BatchRows
      <3>2. h.sq \in {SqOf[o] : o \in Order}
        BY <3>1, StockAssumption DEF Range
      <3>3. QED
        BY <3>2 DEF Kinds, Stages
    <2>4. new[h] \in StockRows
      <3>1. d.nextStock + place[h] \in Nat /\ h.run \in Nat /\ h.surplus \in Nat /\ h.id \in Nat
        <4>1. h.run \in Nat /\ h.surplus \in Nat /\ h.id \in Nat
          BY <2>2 DEF BatchRows
        <4>2. QED
          BY <1>1, <2>2, <4>1
      <3>2. QED
        BY <2>1, <2>3, <3>1 DEF StockRows, Statuses
    <2>5. QED
      BY <1>1, <1>5, <2>1, <2>2, <2>4
  <1>7. \A v, w \in N : v.id = w.id => v = w
    <2> TAKE v, w \in N
    <2>1. PICK g \in H, h \in H : v = new[g] /\ w = new[h]
      OBVIOUS
    <2>2. place[g] \in Nat /\ place[h] \in Nat /\ (place[g] = place[h] => g = h)
      BY <1>4, <2>1 DEF Placed
    <2>3. v.id = d.nextStock + place[g] /\ w.id = d.nextStock + place[h]
      BY <2>1
    <2>4. QED
      BY <1>1, <2>1, <2>2, <2>3
  <1>8. \A w \in N : \E b \in d.rows : b.id = w.source
    BY <1>2
  <1> HIDE DEF N, new
  <1>9. /\ e.rows = d.rows /\ e.sales = d.sales /\ e.tasks = d.tasks /\ e.nextRow = d.nextRow
        /\ e.stock = d.stock \cup N /\ e.nextStock = d.nextStock + Cardinality(H)
        /\ e \in DB
    <2>1. /\ e.rows = d.rows /\ e.sales = d.sales /\ e.tasks = d.tasks /\ e.nextRow = d.nextRow
          /\ e.stock = d.stock \cup N /\ e.nextStock = d.nextStock + Cardinality(H)
      BY <1>1, <1>3 DEF DB
    <2>2. d.stock \cup N \subseteq StockRows /\ d.nextStock + Cardinality(H) \in Nat
      BY <1>1, <1>5, <1>6
    <2>3. e \in DB
      BY <1>1, <1>3, <2>2 DEF DB
    <2>4. QED
      BY <2>1, <2>3
  <1> HIDE DEF e
  <1>10. Good(e) /\ Fair(d, e)
    <2>1. Keeps(d, e) /\ d.nextStock <= e.nextStock
      BY <1>1, <1>5, <1>9 DEF Keeps
    <2>2. \A w \in N : w \in StockRows /\ d.nextStock <= w.id /\ w.id < e.nextStock
      BY <1>6, <1>9
    <2>3. \A w \in N : w.source = Nothing \/ \E b \in d.rows : b.id = w.source
      BY <1>8
    <2>4. QED
      BY <1>5, <1>7, <1>9, <2>1, <2>2, <2>3, MoreStock
  <1>11. QED
    BY <1>9, <1>10 DEF e

(* The order in which new rows are numbered is a strict one, and total up  *)
(* to equal ranks.                                                         *)
LEMMA AheadIsAnOrder ==
    ASSUME NEW b \in BatchRows, NEW c \in BatchRows
    PROVE  /\ ~Ahead(b, b)
           /\ Rank(b) = Rank(c) \/ Ahead(b, c) \/ Ahead(c, b)
           /\ \A x \in BatchRows : Ahead(b, c) /\ Ahead(c, x) => Ahead(b, x)
  <1> DEFINE Less(x, y) == \/ x.proc < y.proc
                           \/ x.proc = y.proc /\ x.seq < y.seq
                           \/ x.proc = y.proc /\ x.seq = y.seq /\ x.order < y.order
                           \/ x.proc = y.proc /\ x.seq = y.seq /\ x.order = y.order /\ x.line < y.line
                           \/ x.proc = y.proc /\ x.seq = y.seq /\ x.order = y.order /\ x.line = y.line /\ x.id < y.id
  <1>1. ASSUME NEW x \in BatchRows
        PROVE  x.proc \in Int /\ x.seq \in Int /\ x.order \in Int /\ x.line \in Int /\ x.id \in Int
    <2>1. x.proc \in Nat /\ x.seq \in {-1} \cup Nat /\ x.order \in Order \cup {0} /\ x.line \in Nat /\ x.id \in Nat
      BY DEF BatchRows
    <2>2. x.order \in Nat
      <3>1. \A o \in Order : o \in Nat
        BY StockAssumption
      <3>2. x.order \in Order \/ x.order = 0
        BY <2>1
      <3>3. QED
        BY <3>1, <3>2
    <2>3. QED
      BY <2>1, <2>2
  <1>2. ASSUME NEW x \in BatchRows, NEW y \in BatchRows PROVE Ahead(x, y) <=> Less(x, y)
    <2>1. /\ Rank(x)[1] = x.proc /\ Rank(x)[2] = x.seq /\ Rank(x)[3] = x.order /\ Rank(x)[4] = x.line /\ Rank(x)[5] = x.id
          /\ Rank(y)[1] = y.proc /\ Rank(y)[2] = y.seq /\ Rank(y)[3] = y.order /\ Rank(y)[4] = y.line /\ Rank(y)[5] = y.id
      BY DEF Rank
    <2> DEFINE At(i) == Rank(x)[i] < Rank(y)[i] /\ \A j \in 1 .. i - 1 : Rank(x)[j] = Rank(y)[j]
    <2>2. 1 .. 5 = {1, 2, 3, 4, 5} /\ 1 .. 1 - 1 = {} /\ 1 .. 2 - 1 = {1} /\ 1 .. 3 - 1 = {1, 2} /\ 1 .. 4 - 1 = {1, 2, 3}
          /\ 1 .. 5 - 1 = {1, 2, 3, 4}
      OBVIOUS
    <2>3. Ahead(x, y) <=> At(1) \/ At(2) \/ At(3) \/ At(4) \/ At(5)
      BY <2>2 DEF Ahead
    <2>4. At(1) \/ At(2) \/ At(3) \/ At(4) \/ At(5) <=> Less(x, y)
      BY <2>1, <2>2
    <2>5. QED
      BY <2>3, <2>4
  <1>3. Rank(b) = Rank(c) <=> b.proc = c.proc /\ b.seq = c.seq /\ b.order = c.order /\ b.line = c.line /\ b.id = c.id
    BY DEF Rank
  <1>4. ~Less(b, b) /\ (Rank(b) = Rank(c) \/ Less(b, c) \/ Less(c, b))
    BY <1>1, <1>3
  <1>5. ASSUME NEW x \in BatchRows, Less(b, c), Less(c, x) PROVE Less(b, x)
    <2>1. /\ b.proc \in Int /\ b.seq \in Int /\ b.order \in Int /\ b.line \in Int /\ b.id \in Int
          /\ c.proc \in Int /\ c.seq \in Int /\ c.order \in Int /\ c.line \in Int /\ c.id \in Int
          /\ x.proc \in Int /\ x.seq \in Int /\ x.order \in Int /\ x.line \in Int /\ x.id \in Int
      BY <1>1
    <2>2. QED
      BY <1>5, <2>1
  <1> HIDE DEF Less
  <1>6. QED
    BY <1>2, <1>4, <1>5

(* The rows that are numbered before b.                                    *)
Preceding(D, b) == {c \in D : Ahead(c, b)}

(* The new numbers of rows are all different.                              *)
LEMMA RanksArePlaces ==
    ASSUME NEW D, IsFiniteSet(D), D \subseteq BatchRows, \A b, c \in D : Rank(b) = Rank(c) => b = c,
           NEW place, \A b \in D : place[b] = Cardinality(Preceding(D, b))
    PROVE  Placed(D, place)
  <1> DEFINE R == {p \in D \X D : Ahead(p[1], p[2])}
  <1>1. \A b \in D : place[b] = Cardinality(Lower(D, R, b))
    <2>1. \A b \in D : Lower(D, R, b) = Preceding(D, b)
      BY DEF Lower, Preceding
    <2>2. QED
      BY <2>1
  <1>2. \A b, c \in D : <<b, c>> \in R <=> Ahead(b, c)
    OBVIOUS
  <1> HIDE DEF R
  <1>3. \A b \in D : <<b, b>> \notin R
    BY <1>2, AheadIsAnOrder
  <1>4. \A x, y, z \in D : <<x, y>> \in R /\ <<y, z>> \in R => <<x, z>> \in R
    BY <1>2, AheadIsAnOrder
  <1>5. \A x, y \in D : x = y \/ <<x, y>> \in R \/ <<y, x>> \in R
    <2> TAKE x, y \in D
    <2>1. Rank(x) = Rank(y) \/ Ahead(x, y) \/ Ahead(y, x)
      BY AheadIsAnOrder
    <2>2. QED
      BY <1>2, <2>1
  <1>6. QED
    BY <1>1, <1>3, <1>4, <1>5, Places

(* What an insertion adds to the tables.                                   *)
Adds(d, e, D) ==
    /\ e.sales = d.sales /\ e.tasks = d.tasks
    /\ d.rows \subseteq e.rows /\ d.stock \subseteq e.stock
    /\ \A b \in e.rows \ d.rows : b.id >= d.nextRow /\ \E c \in D : b = [c EXCEPT !.id = b.id]
    /\ \A c \in D : \E b \in e.rows : b = [c EXCEPT !.id = b.id]

(* What is added keeps to the routes.                                      *)
LEMMA MoreRouted ==
    ASSUME NEW d, Routed(d), NEW e, NEW D, D \subseteq BatchRows, Adds(d, e, D),
           \A b \in D : OnRoute(b) /\ Named(b, D)
    PROVE  Routed(e)
  <1> SUFFICES ASSUME NEW b \in e.rows PROVE OnRoute(b) /\ Named(b, e.rows)
    BY DEF Routed
  <1>1. CASE b \in d.rows
    <2>1. OnRoute(b) /\ Named(b, d.rows) /\ d.rows \subseteq e.rows
      BY <1>1 DEF Routed, Adds
    <2>2. QED
      BY <2>1 DEF Named
  <1>2. CASE b \notin d.rows
    <2>1. PICK c \in D : b = [c EXCEPT !.id = b.id]
      BY <1>2 DEF Adds
    <2> DEFINE i == b.id
    <2>2. b = [c EXCEPT !.id = i] /\ c \in BatchRows
      BY <2>1
    <2> HIDE DEF i
    <2>3. b.seq = c.seq /\ b.order = c.order /\ b.line = c.line /\ b.proc = c.proc /\ b.run = c.run
      BY <2>2 DEF BatchRows
    <2>4. OnRoute(b)
      BY <2>3 DEF OnRoute
    <2>5. ASSUME b.seq = -1, b.order # 0
          PROVE  \E x \in e.rows : x.seq # -1 /\ x.run = b.run /\ x.order = b.order /\ x.line = b.line
      <3>1. PICK y \in D : y.seq # -1 /\ y.run = b.run /\ y.order = b.order /\ y.line = b.line
        BY <2>3, <2>5 DEF Named
      <3>2. PICK x \in e.rows : x = [y EXCEPT !.id = x.id]
        BY DEF Adds
      <3> DEFINE j == x.id
      <3>3. x = [y EXCEPT !.id = j] /\ y \in BatchRows
        BY <3>2
      <3> HIDE DEF j
      <3>4. x.seq = y.seq /\ x.order = y.order /\ x.line = y.line /\ x.run = y.run
        BY <3>3 DEF BatchRows
      <3>5. QED
        BY <3>1, <3>4
    <2>6. QED
      BY <2>4, <2>5 DEF Named
  <1>3. QED
    BY <1>1, <1>2

(* Rows that are inserted get numbers of their own, and their headers new  *)
(* stock.                                                                  *)
LEMMA InsertIsGood ==
    ASSUME NEW d, Good(d), NEW D, IsFiniteSet(D), D \subseteq BatchRows,
           \A b \in D : HasOrder(b) /\ Holds(b, d),
           \A b, c \in D : Rank(b) = Rank(c) => b = c,
           Once(d.rows \cup D),
           \A b \in D : b.seq # -1 => b \notin d.rows /\ \A c \in d.rows : ~SameRow(b, c)
    PROVE  Good(Insert(d, D)) /\ Fair(d, Insert(d, D)) /\ Adds(d, Insert(d, D), D)
  <1> DEFINE place == [b \in D |-> Cardinality({c \in D : Ahead(c, b)})]
             new   == [b \in D |-> [b EXCEPT !.id = d.nextRow + place[b]]]
             B     == {new[b] : b \in D}
             m     == [d EXCEPT !.rows = @ \cup B, !.nextRow = @ + Cardinality(B)]
  <1>1. d \in DB /\ d.nextRow \in Nat /\ d.rows \subseteq BatchRows
    BY DEF Good, DB
  <1>2. Insert(d, D) = Expected(m, B)
    BY DEF Insert
  <1>3. Placed(D, place)
    <2>1. \A b \in D : place[b] = Cardinality(Preceding(D, b))
      BY DEF Preceding
    <2> HIDE DEF place
    <2>2. QED
      BY <2>1, RanksArePlaces
  <1> HIDE DEF place
  <1>4. Cardinality(D) \in Nat
    BY FS_CardinalityType
  <1>5. \A b \in D : /\ new[b] \in BatchRows /\ new[b].id = d.nextRow + place[b]
                     /\ new[b] = [b EXCEPT !.id = new[b].id]
                     /\ new[b].run = b.run /\ new[b].order = b.order /\ new[b].line = b.line /\ new[b].seq = b.seq
                     /\ new[b].proc = b.proc /\ new[b].group = b.group /\ new[b].wip = b.wip
    <2> TAKE b \in D
    <2>1. b \in BatchRows /\ d.nextRow + place[b] \in Nat
      BY <1>1, <1>3 DEF Placed
    <2>2. QED
      BY <2>1 DEF BatchRows
  <1>6. \A b, c \in D : new[b].id = new[c].id => b = c
    BY <1>1, <1>3, <1>5 DEF Placed
  <1>7. IsFiniteSet(B) /\ Cardinality(B) = Cardinality(D)
    <2>1. \A b, c \in D : new[b] = new[c] => b = c
      BY <1>6
    <2> HIDE DEF new
    <2>2. QED
      BY <2>1, ImageIsAsLarge
  <1> HIDE DEF new
  <1>8. /\ m.sales = d.sales /\ m.stock = d.stock /\ m.nextStock = d.nextStock /\ m.tasks = d.tasks
        /\ m.rows = d.rows \cup B /\ m.nextRow = d.nextRow + Cardinality(D) /\ m \in DB
    <2>1. d.rows \cup B \subseteq BatchRows /\ d.nextRow + Cardinality(B) \in Nat
      <3>1. B \subseteq BatchRows
        BY <1>5
      <3>2. d.nextRow + Cardinality(B) \in Nat
        <4> HIDE DEF B
        <4>1. QED
          BY <1>1, <1>4, <1>7
      <3>3. QED
        BY <1>1, <3>1, <3>2
    <2>2. /\ m.sales = d.sales /\ m.stock = d.stock /\ m.nextStock = d.nextStock /\ m.tasks = d.tasks
          /\ m.rows = d.rows \cup B /\ m.nextRow = d.nextRow + Cardinality(B)
      BY <1>1 DEF DB
    <2>3. m \in DB
      BY <1>1, <2>1 DEF DB
    <2>4. QED
      BY <1>7, <2>2, <2>3
  <1> HIDE DEF m
  <1>9. Good(m)
    <2>1. d.nextRow <= m.nextRow
      BY <1>1, <1>4, <1>8
    <2>2. \A b \in B : HasOrder(b) /\ Holds(b, d) /\ d.nextRow <= b.id /\ b.id < m.nextRow
      <3> TAKE x \in B
      <3>1. PICK b \in D : x = new[b]
        OBVIOUS
      <3>2. HasOrder(b) /\ Holds(b, d)
        OBVIOUS
      <3>3. HasOrder(x) /\ Holds(x, d)
        BY <1>5, <3>1, <3>2 DEF HasOrder, Holds
      <3>4. place[b] \in Nat /\ place[b] < Cardinality(D) /\ x.id = d.nextRow + place[b]
        BY <1>3, <1>5, <3>1 DEF Placed
      <3>5. QED
        BY <1>1, <1>4, <1>8, <3>3, <3>4
    <2>3. \A b, c \in B : b.id = c.id => b = c
      BY <1>6
    <2>4. Once(m.rows)
      <3> SUFFICES ASSUME NEW x \in m.rows, NEW y \in m.rows, x.seq # -1, SameRow(x, y)
                   PROVE  x = y
        BY DEF Once
      <3>1. CASE x \in d.rows /\ y \in d.rows
        BY <3>1 DEF Good, Once
      <3>2. CASE x \in B /\ y \in B
        <4>1. PICK b \in D, c \in D : x = new[b] /\ y = new[c]
          BY <3>2
        <4>2. b.seq # -1 /\ SameRow(b, c)
          BY <1>5, <4>1 DEF SameRow
        <4>3. b = c
          BY <4>2 DEF Once
        <4>4. QED
          BY <4>1, <4>3
      <3>3. ASSUME NEW u \in B, NEW v \in d.rows, u.seq # -1 PROVE ~SameRow(u, v) /\ ~SameRow(v, u)
        <4>1. PICK b \in D : u = new[b]
          OBVIOUS
        <4>2. b.seq # -1 /\ ~SameRow(b, v)
          BY <1>5, <3>3, <4>1
        <4>3. QED
          BY <1>5, <4>1, <4>2 DEF SameRow
      <3>4. CASE x \in B /\ y \in d.rows
        BY <3>3, <3>4
      <3>5. CASE x \in d.rows /\ y \in B
        <4>1. y.seq # -1
          BY DEF SameRow
        <4>2. QED
          BY <3>3, <3>5, <4>1
      <3>6. QED
        BY <1>8, <3>1, <3>2, <3>4, <3>5
    <2>5. TasksHold(m)
      BY <1>8 DEF Good, TasksHold
    <2>6. B \subseteq BatchRows
      BY <1>5
    <2>7. IsFiniteSet(B) /\ m.sales = d.sales /\ m.stock = d.stock /\ m.nextStock = d.nextStock
          /\ m.rows = d.rows \cup B /\ m \in DB
      BY <1>7, <1>8
    <2> HIDE DEF B
    <2>8. QED
      BY <2>1, <2>2, <2>3, <2>4, <2>5, <2>6, <2>7, MoreRows
  <1>10. B \subseteq m.rows
    BY <1>8
  <1> DEFINE e == Expected(m, B)
  <1>11. /\ Good(e) /\ Fair(m, e)
         /\ e.rows = m.rows /\ e.sales = m.sales /\ e.tasks = m.tasks /\ m.stock \subseteq e.stock
    <2> HIDE DEF B
    <2>1. QED
      BY <1>9, <1>10, ExpectedIsGood
  <1> HIDE DEF e
  <1>12. Fair(d, e)
    <2>1. Fair(d, m)
      BY <1>1, <1>8, FairIfSame
    <2>2. QED
      BY <1>9, <1>11, <2>1, FairIsTransitive
  <1>13. Adds(d, e, D)
    <2>1. ASSUME NEW x \in e.rows \ d.rows PROVE x.id >= d.nextRow /\ \E c \in D : x = [c EXCEPT !.id = x.id]
      <3>1. PICK b \in D : x = new[b]
        BY <1>8, <1>11, <2>1
      <3>2. x.id = d.nextRow + place[b] /\ x = [b EXCEPT !.id = x.id]
        BY <1>5, <3>1
      <3>3. QED
        BY <1>1, <1>3, <3>2 DEF Placed
    <2>2. ASSUME NEW c \in D PROVE \E b \in e.rows : b = [c EXCEPT !.id = b.id]
      <3>1. new[c] \in e.rows
        BY <1>8, <1>11
      <3>2. QED
        BY <1>5, <3>1
    <2>3. QED
      BY <1>8, <1>11, <2>1, <2>2 DEF Adds
  <1>14. QED
    BY <1>2, <1>11, <1>12, <1>13 DEF e

(* Of the candidates for a drum one is picked.                             *)
LEMMA PickIsCandidate ==
    ASSUME NEW d, Good(d), NEW drum \in [kind : Kinds, len : Nat], Candidates(d, drum) # {}
    PROVE  Pick(d, drum) \in Candidates(d, drum)
  <1> DEFINE C == Candidates(d, drum)
             f == [w \in C |-> Gap(w, drum)]
             g == [w \in C |-> w.id]
  <1>1. IsFiniteSet(C) /\ C \subseteq StockRows
    BY FS_Subset DEF Good, TablesAreFinite, DB, Candidates
  <1>2. \A w \in C : w.id \in Int /\ Gap(w, drum) \in Int
    BY <1>1 DEF StockRows, Gap
  <1>3. f \in [C -> Int] /\ g \in [C -> Int]
    BY <1>2
  <1>4. \E w \in C : \A v \in C : f[w] < f[v] \/ (f[w] = f[v] /\ g[w] <= g[v])
    <2> HIDE DEF f, g, C
    <2>1. QED
      BY <1>1, <1>3, BestOfPairs DEF C
  <1>5. \E w \in C : \A v \in C : Gap(w, drum) < Gap(v, drum) \/ (Gap(w, drum) = Gap(v, drum) /\ w.id <= v.id)
    BY <1>4
  <1>6. QED
    BY <1>5 DEF Pick

(* The numbers below i.                                                    *)
Below(N, i) == {j \in N : j < i}

(* Numbers are placed by how many are below them.                          *)
LEMMA NumbersArePlaces ==
    ASSUME NEW N, IsFiniteSet(N), \A i \in N : i \in Nat,
           NEW place, \A i \in N : place[i] = Cardinality(Below(N, i))
    PROVE  Placed(N, place)
  <1> DEFINE R == {p \in N \X N : p[1] < p[2]}
  <1>1. \A i \in N : place[i] = Cardinality(Lower(N, R, i))
    <2>1. \A i \in N : Lower(N, R, i) = Below(N, i)
      BY DEF Lower, Below
    <2>2. QED
      BY <2>1
  <1>2. \A i, j \in N : <<i, j>> \in R <=> i < j
    OBVIOUS
  <1> HIDE DEF R
  <1>3. \A x \in N : <<x, x>> \notin R
    BY <1>2
  <1>4. \A x, y, z \in N : <<x, y>> \in R /\ <<y, z>> \in R => <<x, z>> \in R
    BY <1>2
  <1>5. \A x, y \in N : x = y \/ <<x, y>> \in R \/ <<y, x>> \in R
    <2> TAKE x, y \in N
    <2>1. x \in Nat /\ y \in Nat
      OBVIOUS
    <2>2. QED
      BY <1>2, <2>1
  <1>6. QED
    BY <1>1, <1>3, <1>4, <1>5, Places

(* A survey changes what it finds, which was not gone, and adds the rest.  *)
LEMMA SurveyIsGood ==
    ASSUME NEW d, Good(d), NEW run \in Nat, NEW drums \in Seq([kind : Kinds, len : Nat])
    PROVE  /\ Good(Survey(d, run, drums)) /\ Fair(d, Survey(d, run, drums)) /\ Keeps(d, Survey(d, run, drums))
           /\ Survey(d, run, drums).sales = d.sales
  <1> DEFINE found == [i \in DOMAIN drums |-> IF Candidates(d, drums[i]) = {} THEN Nothing ELSE Pick(d, drums[i]).id]
             newest(w) == Max({i \in DOMAIN drums : found[i] = w.id})
             hit   == {w \in d.stock : \E i \in DOMAIN drums : found[i] = w.id}
             news  == {i \in DOMAIN drums : found[i] = Nothing}
             place == [i \in news |-> Cardinality({j \in news : j < i})]
             new   == [i \in news |-> Orphan(d.nextStock + place[i], run, drums[i])]
             N     == {new[i] : i \in news}
             f     == [w \in d.stock |-> IF w \in hit THEN Counted(w, drums[newest(w)]) ELSE w]
             m     == [d EXCEPT !.stock = {f[w] : w \in d.stock}]
             e     == [m EXCEPT !.stock = @ \cup N, !.nextStock = @ + Cardinality(news)]
  <1>1. d \in DB /\ d.nextStock \in Nat /\ d.stock \subseteq StockRows
    BY DEF Good, DB
  <1>2. Survey(d, run, drums) = e
    <2>1. (d.stock \ hit) \cup {Counted(w, drums[newest(w)]) : w \in hit} = {f[w] : w \in d.stock}
      <3> HIDE DEF newest, found
      <3>1. QED
        OBVIOUS
    <2>2. Survey(d, run, drums) = [d EXCEPT !.stock = (@ \ hit) \cup {Counted(w, drums[newest(w)]) : w \in hit} \cup N,
                                            !.nextStock = @ + Cardinality(news)]
      BY DEF Survey
    <2> HIDE DEF hit, newest, found, N, news, f
    <2>3. QED
      BY <1>1, <2>1, <2>2 DEF DB
  <1>3. IsFiniteSet(DOMAIN drums) /\ DOMAIN drums \subseteq Nat
    <2>1. DOMAIN drums = 1 .. Len(drums) /\ Len(drums) \in Nat
      OBVIOUS
    <2>2. QED
      BY <2>1, FS_Interval
  <1>4. \A i \in DOMAIN drums : drums[i] \in [kind : Kinds, len : Nat]
    <2> DEFINE D == [kind : Kinds, len : Nat]
    <2> HIDE DEF D, found, news, place, new
    <2>1. drums \in Seq(D)
      BY DEF D
    <2>2. \A i \in DOMAIN drums : drums[i] \in D
      BY <2>1
    <2>3. QED
      BY <2>2 DEF D
  <1>5. \A w \in hit : newest(w) \in DOMAIN drums
    <2> TAKE w \in hit
    <2> DEFINE I == {i \in DOMAIN drums : found[i] = w.id}
    <2> HIDE DEF found
    <2>1. IsFiniteSet(I) /\ I # {} /\ I \subseteq Int
      BY <1>3, FS_Subset
    <2>2. QED
      <3> HIDE DEF I
      <3>1. Max(I) \in I
        BY <2>1, MaxIsIn
      <3>2. QED
        BY <3>1 DEF I
  <1>6. \A w \in hit : w.status \notin Gone
    <2> TAKE w \in hit
    <2>1. PICK i \in DOMAIN drums : found[i] = w.id
      OBVIOUS
    <2>2. w.id # Nothing
      BY <1>1, StockAssumption DEF StockRows
    <2>3. Candidates(d, drums[i]) # {} /\ Pick(d, drums[i]).id = w.id
      BY <2>1, <2>2
    <2>4. Pick(d, drums[i]) \in Candidates(d, drums[i])
      BY <1>4, <2>3, PickIsCandidate
    <2>5. w \in Candidates(d, drums[i])
      BY <2>3, <2>4 DEF Candidates, Good, StockIsKeyed
    <2>6. QED
      BY <2>5 DEF Candidates, Gone
  <1> HIDE DEF found, newest
  <1>7. \A w \in d.stock : /\ f[w] \in StockRows /\ f[w].id = w.id /\ f[w].source = w.source
                           /\ w.status \in Gone => f[w].status \in Gone
    <2> TAKE w \in d.stock
    <2>1. CASE w \in hit
      <3>1. drums[newest(w)] \in [kind : Kinds, len : Nat]
        BY <1>4, <1>5, <2>1
      <3>2. drums[newest(w)].len \in Nat /\ w \in StockRows /\ w.expected \in Nat
        BY <1>1, <3>1 DEF StockRows
      <3>3. drums[newest(w)].len - w.expected \in Int
        BY <3>2
      <3>4. Counted(w, drums[newest(w)]) \in StockRows
        BY <3>2, <3>3 DEF StockRows, Counted, Statuses, Listed
      <3>5. Counted(w, drums[newest(w)]).id = w.id /\ Counted(w, drums[newest(w)]).source = w.source
        BY <3>2 DEF StockRows, Counted
      <3>6. QED
        BY <1>6, <2>1, <3>4, <3>5
    <2>2. CASE w \notin hit
      BY <1>1, <2>2
    <2>3. QED
      BY <2>1, <2>2
  <1> HIDE DEF f
  <1>8. /\ m \in DB /\ m.rows = d.rows /\ m.tasks = d.tasks /\ m.nextRow = d.nextRow /\ m.sales = d.sales
        /\ m.stock = {f[w] : w \in d.stock} /\ m.nextStock = d.nextStock
    BY <1>1, <1>7 DEF DB
  <1> HIDE DEF m
  <1>9. Good(m)
    <2> DEFINE g == [s \in d.sales |-> s]
    <2>1. m.sales = {g[s] : s \in d.sales}
      BY <1>8
    <2>2. \A s \in d.sales : Key(g[s]) = Key(s) /\ Holds(g[s], d)
      BY DEF Good, WipsHold
    <2> HIDE DEF g
    <2>3. Keeps(d, m)
      BY <1>8 DEF Keeps
    <2>4. \A w \in d.stock : f[w].id = w.id /\ f[w].source = w.source
      BY <1>7
    <2>5. QED
      BY <1>8, <2>1, <2>2, <2>3, <2>4, Remapped
  <1>10. Fair(d, m)
    <2>1. OnStock(m) = OnStock(d)
      BY <1>8 DEF OnStock
    <2>2. \A w \in m.stock : \E v \in d.stock : v.id = w.id /\ (v.status \in Gone => w.status \in Gone)
      BY <1>7, <1>8
    <2>3. QED
      BY <1>1, <1>8, <2>1, <2>2 DEF Fair
  <1>11. IsFiniteSet(news) /\ news \subseteq DOMAIN drums
    BY <1>3, FS_Subset
  <1>12. Placed(news, place)
    <2>1. \A i \in news : place[i] = Cardinality(Below(news, i))
      BY DEF Below
    <2>2. \A i \in news : i \in Nat
      BY <1>3
    <2> HIDE DEF place, news
    <2>3. QED
      BY <1>11, <2>1, <2>2, NumbersArePlaces
  <1> HIDE DEF place, news
  <1>13. Cardinality(news) \in Nat
    BY <1>11, FS_CardinalityType
  <1>14. \A i \in news : /\ new[i] \in StockRows /\ new[i].id = d.nextStock + place[i]
                         /\ new[i].source = Nothing
    <2> TAKE i \in news
    <2>1. drums[i].kind \in Kinds /\ drums[i].len \in Nat
      BY <1>4, <1>11
    <2>2. d.nextStock + place[i] \in Nat
      BY <1>1, <1>12 DEF Placed
    <2>3. QED
      BY <2>1, <2>2 DEF Orphan, StockRows, Statuses, Listed
  <1> HIDE DEF new
  <1>15. IsFiniteSet(N)
    BY <1>11, ImageIsFinite
  <1>16. \A w \in N : /\ w \in StockRows /\ d.nextStock <= w.id /\ w.id < d.nextStock + Cardinality(news)
                      /\ w.source = Nothing
    <2> TAKE w \in N
    <2>1. PICK i \in news : w = new[i]
      OBVIOUS
    <2>2. place[i] \in Nat /\ place[i] < Cardinality(news)
      BY <1>12 DEF Placed
    <2>3. w \in StockRows /\ w.id = d.nextStock + place[i] /\ w.source = Nothing
      BY <1>14, <2>1
    <2>4. QED
      BY <1>1, <1>13, <2>2, <2>3
  <1>17. \A v, w \in N : v.id = w.id => v = w
    <2> TAKE v, w \in N
    <2>1. PICK i \in news, j \in news : v = new[i] /\ w = new[j]
      OBVIOUS
    <2>2. place[i] \in Nat /\ place[j] \in Nat /\ (place[i] = place[j] => i = j)
      BY <1>12 DEF Placed
    <2>3. v.id = d.nextStock + place[i] /\ w.id = d.nextStock + place[j]
      BY <1>14, <2>1
    <2>4. QED
      BY <1>1, <2>1, <2>2, <2>3
  <1> HIDE DEF N
  <1>18. /\ e \in DB /\ e.rows = m.rows /\ e.tasks = m.tasks /\ e.nextRow = m.nextRow /\ e.sales = m.sales
         /\ e.stock = m.stock \cup N /\ e.nextStock = m.nextStock + Cardinality(news)
    <2>1. m.stock \cup N \subseteq StockRows
      BY <1>8, <1>16 DEF DB
    <2>2. m.nextStock + Cardinality(news) \in Nat
      BY <1>1, <1>8, <1>13
    <2>3. QED
      BY <1>8, <2>1, <2>2 DEF DB
  <1> HIDE DEF e
  <1>19. Good(e) /\ Fair(m, e)
    <2>1. Keeps(m, e)
      BY <1>18 DEF Keeps
    <2>2. m.nextStock <= e.nextStock
      BY <1>1, <1>8, <1>13, <1>18
    <2>3. \A w \in N : w \in StockRows /\ m.nextStock <= w.id /\ w.id < e.nextStock
      BY <1>8, <1>16, <1>18
    <2>4. \A w \in N : w.source = Nothing \/ \E b \in m.rows : b.id = w.source
      BY <1>16
    <2>5. QED
      BY <1>9, <1>15, <1>17, <1>18, <2>1, <2>2, <2>3, <2>4, MoreStock
  <1>20. Fair(d, e)
    BY <1>9, <1>10, <1>19, FairIsTransitive
  <1>21. QED
    BY <1>2, <1>8, <1>18, <1>19, <1>20 DEF Keeps

-----------------------------------------------------------------------------
(* Matching *)

(* The length of an order is a natural number.                             *)
LEMMA LenIsNat ==
    ASSUME NEW s \in SaleRows
    PROVE  LenOf(s.order) \in Nat /\ DueOf[s.order] \in Nat /\ s.order \in Nat /\ s.line \in Nat
  <1>1. s.order \in Order /\ s.line \in Nat
    BY DEF SaleRows
  <1>2. QtyOf[s.order] \in Nat /\ CoresOf[s.order] \in Nat /\ DueOf[s.order] \in Nat /\ s.order \in Nat
    BY <1>1, StockAssumption
  <1> DEFINE q == QtyOf[s.order]
             c == CoresOf[s.order]
  <1>3. \A x, y \in Nat : x * y \in Nat
    OBVIOUS
  <1>4. q * c \in Nat
    <2>1. q \in Nat /\ c \in Nat
      BY <1>2
    <2> HIDE DEF q, c
    <2>2. QED
      BY <1>3, <2>1
  <1>5. QED
    BY <1>1, <1>2, <1>4 DEF LenOf

(* Length is of one order and the other longer, or due later.              *)
LEMMA LongerIsAnOrder ==
    ASSUME NEW s \in SaleRows, NEW t \in SaleRows
    PROVE  /\ ~Longer(s, t) \/ ~Longer(t, s)
           /\ \A x \in SaleRows : ~Longer(s, t) /\ ~Longer(t, x) => ~Longer(s, x)
  <1> DEFINE a(x) == LenOf(x.order)
             b(x) == DueOf[x.order]
             More(x, y) == \/ a(x) > a(y)
                           \/ a(x) = a(y) /\ b(x) < b(y)
                           \/ a(x) = a(y) /\ b(x) = b(y) /\ x.order < y.order
                           \/ a(x) = a(y) /\ b(x) = b(y) /\ x.order = y.order /\ x.line < y.line
  <1>1. \A x \in SaleRows : a(x) \in Nat /\ b(x) \in Nat /\ x.order \in Nat /\ x.line \in Nat
    BY LenIsNat
  <1>2. \A x, y \in SaleRows : Longer(x, y) <=> More(x, y)
    BY DEF Longer, Sooner
  <1>3. ~More(s, t) \/ ~More(t, s)
    <2>1. a(s) \in Nat /\ b(s) \in Nat /\ s.order \in Nat /\ s.line \in Nat
      BY <1>1
    <2>2. a(t) \in Nat /\ b(t) \in Nat /\ t.order \in Nat /\ t.line \in Nat
      BY <1>1
    <2> HIDE DEF a, b
    <2>3. QED
      BY <2>1, <2>2
  <1>4. ASSUME NEW x \in SaleRows, ~More(s, t), ~More(t, x) PROVE ~More(s, x)
    <2>1. a(s) \in Nat /\ b(s) \in Nat /\ s.order \in Nat /\ s.line \in Nat
      BY <1>1
    <2>2. a(t) \in Nat /\ b(t) \in Nat /\ t.order \in Nat /\ t.line \in Nat
      BY <1>1
    <2>3. a(x) \in Nat /\ b(x) \in Nat /\ x.order \in Nat /\ x.line \in Nat
      BY <1>1
    <2> HIDE DEF a, b
    <2>4. QED
      BY <1>4, <2>1, <2>2, <2>3
  <1> HIDE DEF More
  <1>5. QED
    BY <1>2, <1>3, <1>4

(* Of some orders one comes before all others.                             *)
LEMMA OneIsLongest ==
    ASSUME NEW T, IsFiniteSet(T), T # {}, T \subseteq SaleRows
    PROVE  \E s \in T : \A t \in T : ~Longer(s, t)
  <1> DEFINE R == {p \in T \X T : ~Longer(p[1], p[2])}
  <1>1. \A s, t \in T : <<s, t>> \in R <=> ~Longer(s, t)
    OBVIOUS
  <1> HIDE DEF R
  <1>2. \A x, y \in T : <<x, y>> \in R \/ <<y, x>> \in R
    BY <1>1, LongerIsAnOrder
  <1>3. \A x, y, z \in T : <<x, y>> \in R /\ <<y, z>> \in R => <<x, z>> \in R
    BY <1>1, LongerIsAnOrder
  <1>4. \E s \in T : \A t \in T : <<s, t>> \in R
    BY <1>2, <1>3, Best
  <1>5. QED
    BY <1>1, <1>4

(* The orders that a pool serves are some of those that it may.            *)
LEMMA ComboIsPart ==
    ASSUME NEW C, IsFiniteSet(C), C \subseteq SaleRows, NEW total \in Nat
    PROVE  BestCombo(C, total) \subseteq C
  <1> DEFINE fitting == {S \in SUBSET C : Length(S) <= total}
             lengths == {Length(S) : S \in fitting}
             best    == {S \in fitting : Length(S) = Max(lengths)}
             mask    == [S \in best |-> Mask(S, C)]
  <1>1. ASSUME NEW S \in SUBSET C PROVE Length(S) \in Nat /\ Mask(S, C) \in Int
    <2> DEFINE f == [s \in S |-> LenOf(s.order)]
               g == [s \in S |-> 2 ^ Cardinality({t \in C : Sooner(t, s)})]
    <2>1. IsFiniteSet(S)
      BY FS_Subset
    <2>2. f \in [S -> Nat]
      BY LenIsNat
    <2>3. g \in [S -> Int]
      <3>1. \A n \in Nat : 2 ^ n \in Int
        OBVIOUS
      <3>2. \A s \in S : IsFiniteSet({t \in C : Sooner(t, s)})
        BY FS_Subset
      <3>3. \A s \in S : Cardinality({t \in C : Sooner(t, s)}) \in Nat
        BY <3>2, FS_CardinalityType
      <3>4. QED
        BY <3>1, <3>3
    <2>4. Total(f) \in Nat
      <3> HIDE DEF f
      <3>1. QED
        BY <2>1, <2>2, TotalIsNat
    <2>5. Total(g) \in Int
      <3> HIDE DEF g
      <3>1. QED
        BY <2>1, <2>3, TotalIsInt
    <2>6. QED
      BY <2>4, <2>5 DEF Length, Mask
  <1>2. IsFiniteSet(fitting) /\ fitting # {}
    <2>1. IsFiniteSet(SUBSET C)
      BY FS_SUBSET
    <2>2. IsFiniteSet(fitting)
      BY <2>1, FS_Subset
    <2>3. Length({}) = 0
      BY TotalOfNone DEF Length
    <2>4. QED
      BY <2>2, <2>3
  <1>3. best # {} /\ IsFiniteSet(best)
    <2> DEFINE len == [S \in fitting |-> Length(S)]
    <2>1. lengths = {len[S] : S \in fitting}
      OBVIOUS
    <2>2. IsFiniteSet(lengths)
      <3> HIDE DEF lengths, len, fitting
      <3>1. QED
        BY <1>2, <2>1, ImageIsFinite
    <2>3. lengths # {} /\ lengths \subseteq Int
      BY <1>1, <1>2
    <2>4. Max(lengths) \in lengths
      <3> HIDE DEF lengths
      <3>1. QED
        BY <2>2, <2>3, MaxIsIn
    <2>5. IsFiniteSet(best)
      BY <1>2, FS_Subset
    <2>6. QED
      BY <2>4, <2>5
  <1>4. best \subseteq SUBSET C
    OBVIOUS
  <1> HIDE DEF best
  <1>5. mask \in [best -> Int]
    BY <1>1, <1>4
  <1> HIDE DEF mask
  <1>6. PICK S \in best : \A T \in best : mask[S] <= mask[T]
    BY <1>3, <1>5, BestNumber
  <1>7. \E U \in best : \A T \in best : Mask(U, C) <= Mask(T, C)
    BY <1>6 DEF mask
  <1>8. BestCombo(C, total) \in best
    BY <1>7 DEF BestCombo, best
  <1>9. QED
    BY <1>4, <1>8

(* The drum that an order gets is one of the pool.                         *)
LEMMA HandIsOfPool ==
    ASSUME NEW W, IsFiniteSet(W), W # {}, \A w \in W : w.id \in Nat /\ w.len \in Nat,
           NEW left, \A w \in W : left[w.id] \in Int, NEW s
    PROVE  Hand(left, W, s) \in W
  <1> DEFINE enough == {w \in W : left[w.id] >= LenOf(s.order)}
             f == [w \in enough |-> -w.len]
             g == [w \in W |-> w.id]
             h == [w \in W |-> -left[w.id]]
  <1>1. enough # {} => \E w \in enough : \A v \in enough : w.len > v.len \/ (w.len = v.len /\ w.id <= v.id)
    <2> SUFFICES ASSUME enough # {}
                 PROVE  \E w \in enough : \A v \in enough : w.len > v.len \/ (w.len = v.len /\ w.id <= v.id)
      OBVIOUS
    <2> DEFINE k == [w \in enough |-> w.id]
    <2>1. IsFiniteSet(enough) /\ enough \subseteq W
      BY FS_Subset
    <2> HIDE DEF enough
    <2>2. f \in [enough -> Int] /\ k \in [enough -> Int]
      BY <2>1
    <2>3. \E w \in enough : \A v \in enough : f[w] < f[v] \/ (f[w] = f[v] /\ k[w] <= k[v])
      <3> HIDE DEF f, k
      <3>1. QED
        BY <2>1, <2>2, BestOfPairs
    <2>4. PICK w \in enough : \A v \in enough : f[w] < f[v] \/ (f[w] = f[v] /\ k[w] <= k[v])
      BY <2>3
    <2>5. ASSUME NEW v \in enough PROVE w.len > v.len \/ (w.len = v.len /\ w.id <= v.id)
      <3>1. w.len \in Nat /\ v.len \in Nat /\ f[w] = -w.len /\ f[v] = -v.len /\ k[w] = w.id /\ k[v] = v.id
        BY <2>1
      <3>2. f[w] < f[v] \/ (f[w] = f[v] /\ k[w] <= k[v])
        BY <2>4
      <3>3. QED
        BY <3>1, <3>2
    <2>6. QED
      BY <2>5
  <1>2. \E w \in W : \A v \in W : left[w.id] > left[v.id] \/ (left[w.id] = left[v.id] /\ w.id <= v.id)
    <2>1. h \in [W -> Int] /\ g \in [W -> Int]
      OBVIOUS
    <2>2. \E w \in W : \A v \in W : h[w] < h[v] \/ (h[w] = h[v] /\ g[w] <= g[v])
      <3> HIDE DEF h, g
      <3>1. QED
        BY <2>1, BestOfPairs
    <2>3. PICK w \in W : \A v \in W : h[w] < h[v] \/ (h[w] = h[v] /\ g[w] <= g[v])
      BY <2>2
    <2>4. ASSUME NEW v \in W PROVE left[w.id] > left[v.id] \/ (left[w.id] = left[v.id] /\ w.id <= v.id)
      <3>1. h[w] = -left[w.id] /\ h[v] = -left[v.id] /\ g[w] = w.id /\ g[v] = v.id
        OBVIOUS
      <3>2. left[w.id] \in Int /\ left[v.id] \in Int
        OBVIOUS
      <3>3. h[w] < h[v] \/ (h[w] = h[v] /\ g[w] <= g[v])
        BY <2>3
      <3> HIDE DEF h, g
      <3>4. QED
        BY <3>1, <3>2, <3>3
    <2>5. QED
      BY <2>4
  <1> DEFINE first == CHOOSE w \in enough : \A v \in enough : w.len > v.len \/ (w.len = v.len /\ w.id <= v.id)
             most  == CHOOSE w \in W : \A v \in W : left[w.id] > left[v.id] \/ (left[w.id] = left[v.id] /\ w.id <= v.id)
  <1>3. most \in W
    BY <1>2
  <1>4. enough # {} => first \in enough
    <2> HIDE DEF enough
    <2>1. QED
      BY <1>1
  <1>5. enough \subseteq W /\ Hand(left, W, s) = IF enough # {} THEN first ELSE most
    BY DEF Hand
  <1> HIDE DEF first, most, enough
  <1>6. QED
    BY <1>3, <1>4, <1>5

(* Each of some orders is on one of the drums with these numbers.          *)
Shares(T, I) ==
    {acc \in [left : [I -> Int], on : SUBSET (T \X I)] : \E h \in [T -> I] : acc.on = {<<s, h[s]>> : s \in T}}

(* One more order is put on a drum.                                        *)
Shared(acc, W, s) ==
    LET w == Hand(acc.left, W, s).id
    IN  [left |-> [acc.left EXCEPT ![w] = @ - LenOf(s.order)], on |-> acc.on \cup {<<s, w>>}]

(* It is put on one, and the others stay where they are.                   *)
LEMMA OneMoreShares ==
    ASSUME NEW W, IsFiniteSet(W), W # {}, W \subseteq StockRows, NEW I, I = {w.id : w \in W},
           NEW T, T \subseteq SaleRows, NEW s \in T, NEW acc \in Shares(T \ {s}, I)
    PROVE  Shared(acc, W, s) \in Shares(T, I)
  <1> DEFINE w == Hand(acc.left, W, s).id
             e == Shared(acc, W, s)
  <1>1. acc.left \in [I -> Int] /\ acc.on \subseteq (T \ {s}) \X I
    BY DEF Shares
  <1>2. PICK h \in [T \ {s} -> I] : acc.on = {<<t, h[t]>> : t \in T \ {s}}
    BY DEF Shares
  <1>3. w \in I
    <2>1. \A v \in W : v.id \in Nat /\ v.len \in Nat /\ acc.left[v.id] \in Int
      BY <1>1 DEF StockRows
    <2>2. Hand(acc.left, W, s) \in W
      BY <2>1, HandIsOfPool
    <2>3. QED
      BY <2>2
  <1>4. LenOf(s.order) \in Nat
    BY LenIsNat
  <1>5. e.left = [acc.left EXCEPT ![w] = @ - LenOf(s.order)] /\ e.on = acc.on \cup {<<s, w>>}
        /\ e = [left |-> e.left, on |-> e.on]
    BY DEF Shared
  <1> HIDE DEF w, e
  <1>6. e.left \in [I -> Int]
    BY <1>1, <1>3, <1>4, <1>5
  <1>7. e.on \subseteq T \X I
    BY <1>1, <1>3, <1>5
  <1> DEFINE k == [t \in T |-> IF t = s THEN w ELSE h[t]]
  <1>8. k \in [T -> I]
    BY <1>3
  <1>9. e.on = {<<t, k[t]>> : t \in T}
    BY <1>2, <1>5
  <1> HIDE DEF k
  <1>10. e \in [left : [I -> Int], on : SUBSET (T \X I)]
    BY <1>5, <1>6, <1>7
  <1>11. QED
    BY <1>8, <1>9, <1>10 DEF Shares, e

(* All orders of a combination are assigned, each to one drum.             *)
LEMMA AllAreAssigned ==
    ASSUME NEW S, IsFiniteSet(S), S \subseteq SaleRows,
           NEW W, IsFiniteSet(W), W # {}, W \subseteq StockRows, \A v, w \in W : v.id = w.id => v = w,
           NEW I, I = {w.id : w \in W}
    PROVE  Assign(S, W) \in Shares(S, I)
  <1> DEFINE pick == [T \in SUBSET S |-> CHOOSE s \in T : \A t \in T : ~Longer(s, t)]
             X    == [T \in SUBSET S |-> Shares(T, I)]
             accs == UNION {X[T] : T \in SUBSET S}
             step == [s \in S |-> [acc \in accs |-> Shared(acc, W, s)]]
             base == [left |-> [i \in I |-> (CHOOSE w \in W : w.id = i).len], on |-> {}]
             Body(g) == [T \in SUBSET S |-> IF T = {} THEN base
                                            ELSE Shared(g[T \ {CHOOSE s \in T : \A t \in T : ~Longer(s, t)}], W,
                                                        CHOOSE s \in T : \A t \in T : ~Longer(s, t))]
             iter == CHOOSE g : g = Body(g)
             P    == {T \in SUBSET S : iter[T] \in X[T]}
  <1>1. Assign(S, W) = iter[S]
    BY DEF Assign, MapThenFoldSet, Shared
  <1>2. \A T \in SUBSET S : T # {} => pick[T] \in T
    <2> TAKE T \in SUBSET S
    <2>1. ASSUME T # {} PROVE \E s \in T : \A t \in T : ~Longer(s, t)
      <3>1. IsFiniteSet(T) /\ T \subseteq SaleRows
        BY FS_Subset
      <3>2. QED
        BY <2>1, <3>1, OneIsLongest
    <2>2. QED
      BY <2>1
  <1>3. base \in X[{}]
    <2>1. \A i \in I : (CHOOSE w \in W : w.id = i).len \in Int
      <3> TAKE i \in I
      <3>1. (CHOOSE w \in W : w.id = i) \in W
        OBVIOUS
      <3>2. QED
        BY <3>1 DEF StockRows
    <2> DEFINE none == [t \in {} |-> 0]
    <2>2. none \in [{} -> I] /\ base.on = {<<t, none[t]>> : t \in {}}
      OBVIOUS
    <2>3. base \in [left : [I -> Int], on : SUBSET ({} \X I)]
      BY <2>1
    <2> HIDE DEF none, base
    <2>4. QED
      BY <2>2, <2>3 DEF Shares
  <1>4. ASSUME NEW T \in SUBSET S, NEW s \in T, NEW acc \in X[T \ {s}]
        PROVE  Shared(acc, W, s) \in X[T] /\ step[s][acc] = Shared(acc, W, s)
    <2>1. T \subseteq SaleRows /\ s \in S /\ T \ {s} \in SUBSET S
      OBVIOUS
    <2>2. acc \in Shares(T \ {s}, I) /\ acc \in accs
      BY <2>1
    <2>3. Shared(acc, W, s) \in Shares(T, I)
      BY <2>1, <2>2, OneMoreShares
    <2> HIDE DEF accs
    <2>4. QED
      BY <2>1, <2>2, <2>3
  <1> HIDE DEF base
  <1>5. PICK g : IsFold(g, S, X, base, pick, step)
    <2> HIDE DEF pick, X, step
    <2>1. \A T \in SUBSET S : T # {} => \A a \in X[T \ {pick[T]}] : step[pick[T]][a] \in X[T]
      BY <1>2, <1>4
    <2>2. QED
      BY <1>2, <1>3, <2>1, FoldExists, Zenon
  <1>6. g = Body(g)
    <2>1. ASSUME NEW T \in SUBSET S, T # {} PROVE g[T] = Shared(g[T \ {pick[T]}], W, pick[T])
      <3>1. g[T] = step[pick[T]][g[T \ {pick[T]}]] /\ g[T \ {pick[T]}] \in X[T \ {pick[T]}]
        BY <1>5, <2>1 DEF IsFold
      <3> HIDE DEF pick, X, step
      <3>2. QED
        BY <1>2, <1>4, <2>1, <3>1
    <2>2. g[{}] = base /\ g = [T \in SUBSET S |-> g[T]]
      BY <1>5 DEF IsFold
    <2>3. QED
      BY <2>1, <2>2
  <1>7. iter = Body(iter)
    <2> HIDE DEF Body
    <2>1. QED
      BY <1>6
  <1>8. ASSUME NEW T \in SUBSET S, \A x \in T : T \ {x} \in P PROVE T \in P
    <2>1. iter[T] = IF T = {} THEN base ELSE Shared(iter[T \ {pick[T]}], W, pick[T])
      <3>1. iter[T] = Body(iter)[T]
        <4> HIDE DEF iter, Body
        <4>1. QED
          BY <1>7
      <3> HIDE DEF iter
      <3>2. Body(iter)[T] = IF T = {} THEN base ELSE Shared(iter[T \ {pick[T]}], W, pick[T])
        OBVIOUS
      <3> HIDE DEF Body, pick
      <3>3. QED
        BY <3>1, <3>2
    <2>2. CASE T = {}
      <3>1. iter[T] = base
        <4> HIDE DEF iter
        <4>1. QED
          BY <2>1, <2>2
      <3> HIDE DEF iter, X
      <3>2. QED
        BY <1>3, <2>2, <3>1
    <2>3. CASE T # {}
      <3>1. pick[T] \in T /\ iter[T \ {pick[T]}] \in X[T \ {pick[T]}]
        <4> HIDE DEF iter, X, pick
        <4>1. QED
          BY <1>2, <1>8, <2>3
      <3>2. Shared(iter[T \ {pick[T]}], W, pick[T]) \in X[T]
        <4> HIDE DEF iter, X, pick
        <4>1. QED
          BY <1>4, <3>1
      <3> HIDE DEF iter, X, pick
      <3>3. QED
        BY <2>1, <2>3, <3>2
    <2>4. QED
      <3> HIDE DEF iter, X, pick
      <3>1. QED
        BY <2>2, <2>3
  <1>9. S \in P
    <2> HIDE DEF P
    <2>1. QED
      BY <1>8, SetInduction
  <1>10. QED
    BY <1>1, <1>9

(* Of the orders on a drum one is the longest.                             *)
LEMMA OneIsMain ==
    ASSUME NEW on, IsFiniteSet(on), NEW w, \A p \in on : p[1] \in SaleRows, \E p \in on : p[2] = w.id
    PROVE  \E p \in on : p[2] = w.id /\ \A q \in on : q[2] = w.id => ~Longer(q[1], p[1])
  <1> DEFINE O == {p \in on : p[2] = w.id}
             R == {x \in O \X O : ~Longer(x[2][1], x[1][1])}
  <1>1. IsFiniteSet(O) /\ O # {}
    BY FS_Subset
  <1>2. \A p, q \in O : <<p, q>> \in R <=> ~Longer(q[1], p[1])
    OBVIOUS
  <1>3. \A p \in O : p[1] \in SaleRows
    OBVIOUS
  <1> HIDE DEF R, O
  <1>4. \A x, y \in O : <<x, y>> \in R \/ <<y, x>> \in R
    BY <1>2, <1>3, LongerIsAnOrder
  <1>5. \A x, y, z \in O : <<x, y>> \in R /\ <<y, z>> \in R => <<x, z>> \in R
    <2> TAKE x, y, z \in O
    <2>1. x[1] \in SaleRows /\ y[1] \in SaleRows /\ z[1] \in SaleRows
      BY <1>3
    <2>2. ~Longer(z[1], y[1]) /\ ~Longer(y[1], x[1]) => ~Longer(z[1], x[1])
      BY <2>1, LongerIsAnOrder
    <2>3. QED
      BY <1>2, <2>2
  <1>6. PICK p \in O : \A q \in O : <<p, q>> \in R
    BY <1>1, <1>4, <1>5, Best
  <1>7. QED
    BY <1>2, <1>6 DEF O

(* A pool serves orders with stock that was not gone, and that is then.    *)
LEMMA MatchPoolIsGood ==
    ASSUME NEW d, Good(d), NEW run, NEW kind \in Kinds, NEW except
    PROVE  /\ Good(MatchPool(d, run, kind, except)) /\ Fair(d, MatchPool(d, run, kind, except))
           /\ Keeps(d, MatchPool(d, run, kind, except)) /\ OrdersStay(d, MatchPool(d, run, kind, except))
  <1> DEFINE W    == {w \in Available(d, except) : w.kind = kind}
             C    == Eligible(d.sales, run, kind, W)
             S    == BestCombo(C, Total([w \in W |-> w.len]))
             I    == {w.id : w \in W}
             on   == Assign(S, W).on
             used == {w \in W : \E p \in on : p[2] = w.id}
             main(w) == CHOOSE p \in on : p[2] = w.id /\ \A q \in on : q[2] = w.id => ~Longer(q[1], p[1])
             serve(p) == [p[1] EXCEPT !.use = kind[1], !.wip = p[2]]
             use(w)   == [w EXCEPT !.status = "used", !.matched = <<main(w)[1].order, main(w)[1].line>>]
             e == [d EXCEPT !.sales = (@ \ S) \cup {serve(p) : p \in on},
                            !.stock = (@ \ used) \cup {use(w) : w \in used}]
  <1>1. MatchPool(d, run, kind, except) = e
    BY DEF MatchPool
  <1>2. d \in DB /\ d.nextStock \in Nat /\ d.stock \subseteq StockRows /\ d.sales \subseteq SaleRows
    BY DEF Good, DB
  <1>3. /\ IsFiniteSet(W) /\ W \subseteq StockRows /\ W \subseteq d.stock
        /\ \A w \in W : w.status \notin Gone
        /\ \A v, w \in W : v.id = w.id => v = w
    <2>1. W \subseteq d.stock /\ \A w \in W : w.status \notin Gone
      BY DEF Available, Listed, Gone
    <2>2. IsFiniteSet(W)
      BY <2>1, FS_Subset DEF Good, TablesAreFinite
    <2> HIDE DEF W
    <2>3. QED
      BY <1>2, <2>1, <2>2 DEF Good, StockIsKeyed
  <1>4. /\ IsFiniteSet(C) /\ C \subseteq SaleRows /\ C \subseteq d.sales
        /\ (W = {} => C = {})
    <2>1. C \subseteq d.sales /\ (W = {} => C = {})
      BY DEF Eligible
    <2> HIDE DEF C
    <2>2. QED
      BY <1>2, <2>1, FS_Subset DEF Good, TablesAreFinite
  <1>5. /\ IsFiniteSet(S) /\ S \subseteq SaleRows /\ S \subseteq d.sales
        /\ (W = {} => S = {})
    <2> DEFINE f == [w \in W |-> w.len]
    <2>1. f \in [W -> Nat]
      BY <1>3 DEF StockRows
    <2>2. Total(f) \in Nat
      <3> HIDE DEF f
      <3>1. QED
        BY <1>3, <2>1, TotalIsNat
    <2> DEFINE total == Total(f)
    <2>3. S = BestCombo(C, total)
      OBVIOUS
    <2>4. S \subseteq C
      <3> HIDE DEF S, C, total, f
      <3>1. QED
        BY <1>4, <2>2, <2>3, ComboIsPart DEF total
    <2> HIDE DEF S, C, total, f
    <2>5. QED
      BY <1>4, <2>4, FS_Subset
  <1> HIDE DEF S, C
  <1>6. PICK h \in [S -> I] : on = {<<s, h[s]>> : s \in S}
    <2>1. CASE W = {}
      <3>1. S = {} /\ on = {}
        <4>1. S = {}
          BY <1>5, <2>1
        <4>2. Assign({}, W).on = {}
          <5> DEFINE base == [left |-> [i \in {w.id : w \in W} |-> (CHOOSE w \in W : w.id = i).len], on |-> {}]
                     Op(s, acc) == LET w == Hand(acc.left, W, s).id
                                   IN  [left |-> [acc.left EXCEPT ![w] = @ - LenOf(s.order)], on |-> acc.on \cup {<<s, w>>}]
                     Pk(T) == CHOOSE s \in T : \A t \in T : ~Longer(s, t)
                     Body(g) == [T \in SUBSET {} |-> IF T = {} THEN base ELSE Op(Pk(T), g[T \ {Pk(T)}])]
          <5>1. Assign({}, W) = (CHOOSE g : g = Body(g))[{}]
            BY DEF Assign, MapThenFoldSet
          <5> DEFINE just == [T \in SUBSET {} |-> base]
          <5>2. \A g : g = Body(g) <=> g = just
            <6>1. \A g : Body(g) = just
              OBVIOUS
            <6> HIDE DEF Body, just
            <6>2. QED
              BY <6>1
          <5>3. (CHOOSE g : g = Body(g)) = just
            <6> HIDE DEF Body, just
            <6>1. just = Body(just)
              BY <5>2
            <6>2. (CHOOSE g : g = Body(g)) = Body(CHOOSE g : g = Body(g))
              BY <6>1
            <6>3. QED
              BY <5>2, <6>2
          <5>4. just[{}] = base /\ base.on = {}
            OBVIOUS
          <5> HIDE DEF Body, just, base
          <5>5. QED
            BY <5>1, <5>3, <5>4
        <4>3. QED
          BY <4>1, <4>2
      <3> DEFINE none == [s \in {} |-> 0]
      <3>2. none \in [S -> I] /\ on = {<<s, none[s]>> : s \in S}
        BY <3>1
      <3>3. QED
        BY <3>2
    <2>2. CASE W # {}
      <3>1. Assign(S, W) \in Shares(S, I)
        <4> HIDE DEF W
        <4>1. QED
          BY <1>3, <1>5, <2>2, AllAreAssigned
      <3>2. QED
        BY <3>1 DEF Shares
    <2>3. QED
      BY <2>1, <2>2
  <1>7. IsFiniteSet(on) /\ \A p \in on : p[1] \in SaleRows
    <2> DEFINE f == [s \in S |-> <<s, h[s]>>]
    <2>1. on = {f[s] : s \in S}
      BY <1>6
    <2> HIDE DEF f, on
    <2>2. IsFiniteSet(on)
      BY <1>5, <2>1, ImageIsFinite
    <2>3. QED
      BY <1>5, <1>6, <2>2
  <1> HIDE DEF on
  <1>8. \A w \in used : main(w) \in on /\ main(w)[1] \in SaleRows
    <2> TAKE w \in used
    <2>1. \E p \in on : p[2] = w.id /\ \A q \in on : q[2] = w.id => ~Longer(q[1], p[1])
      <3>1. \E p \in on : p[2] = w.id
        OBVIOUS
      <3>2. QED
        BY <1>7, <3>1, OneIsMain
    <2>2. QED
      BY <1>7, <2>1
  <1> HIDE DEF main, W
  <1> DEFINE f == [w \in d.stock |-> IF w \in used THEN use(w) ELSE w]
             g == [s \in d.sales |-> IF s \in S THEN serve(<<s, h[s]>>) ELSE s]
  <1>9. \A w \in d.stock : /\ f[w] \in StockRows /\ f[w].id = w.id /\ f[w].source = w.source
                           /\ w \in used => f[w].status \in Gone
                           /\ w \notin used => f[w] = w
    <2> TAKE w \in d.stock
    <2>1. CASE w \in used
      <3> DEFINE m == main(w)[1]
      <3>1. m.order \in Order /\ m.line \in Nat
        BY <1>8, <2>1 DEF SaleRows
      <3>2. f[w] = [w EXCEPT !.status = "used", !.matched = <<m.order, m.line>>]
        BY <2>1
      <3>3. <<m.order, m.line>> \in Order \X Nat /\ w \in StockRows
        BY <1>2, <3>1
      <3> DEFINE pair == <<m.order, m.line>>
      <3>4. f[w] = [w EXCEPT !.status = "used", !.matched = pair] /\ pair \in Order \X Nat
        BY <3>2, <3>3
      <3> HIDE DEF m, f, pair
      <3>5. f[w] \in StockRows
        BY <3>3, <3>4 DEF StockRows, Statuses
      <3>6. f[w].id = w.id /\ f[w].source = w.source /\ f[w].status = "used"
        BY <3>3, <3>4 DEF StockRows
      <3>7. QED
        BY <2>1, <3>5, <3>6 DEF Gone
    <2>2. QED
      BY <1>2, <2>1
  <1>10. \A s \in d.sales : /\ g[s] \in SaleRows /\ Key(g[s]) = Key(s) /\ g[s].run = s.run
                            /\ s \in S => g[s].wip = h[s] /\ h[s] \in I
                            /\ s \notin S => g[s] = s
    <2> TAKE s \in d.sales
    <2>1. CASE s \in S
      <3>1. h[s] \in Nat
        BY <1>3, <1>6, <2>1 DEF StockRows
      <3>2. kind[1] \in Stages
        BY DEF Kinds
      <3>3. g[s] = [s EXCEPT !.use = kind[1], !.wip = h[s]]
        BY <2>1
      <3> HIDE DEF g
      <3>4. QED
        BY <1>2, <1>6, <2>1, <3>1, <3>2, <3>3 DEF SaleRows, Key
    <2>2. QED
      BY <1>2, <2>1
  <1>11. {f[w] : w \in d.stock} = (d.stock \ used) \cup {use(w) : w \in used}
    <2>1. used \subseteq d.stock
      BY <1>3
    <2> HIDE DEF used, use
    <2>2. QED
      BY <2>1
  <1>12. {g[s] : s \in d.sales} = (d.sales \ S) \cup {serve(p) : p \in on}
    <2>1. {serve(p) : p \in on} = {serve(<<s, h[s]>>) : s \in S}
      <3> HIDE DEF serve
      <3>1. QED
        BY <1>6
    <2> HIDE DEF serve
    <2>2. {g[s] : s \in d.sales} = (d.sales \ S) \cup {serve(<<s, h[s]>>) : s \in S}
      BY <1>5
    <2>3. QED
      BY <2>1, <2>2
  <1> HIDE DEF serve, use, f, g
  <1>13. /\ e \in DB /\ e.rows = d.rows /\ e.tasks = d.tasks /\ e.nextRow = d.nextRow
         /\ e.nextStock = d.nextStock
         /\ e.stock = {f[w] : w \in d.stock} /\ e.sales = {g[s] : s \in d.sales}
    <2> DEFINE F == {f[w] : w \in d.stock}
               G == {g[s] : s \in d.sales}
    <2>1. F \subseteq StockRows /\ G \subseteq SaleRows
      BY <1>9, <1>10
    <2>2. e = [d EXCEPT !.sales = G, !.stock = F]
      BY <1>11, <1>12
    <2> HIDE DEF F, G, e
    <2>3. /\ e \in DB /\ e.rows = d.rows /\ e.tasks = d.tasks /\ e.nextRow = d.nextRow
          /\ e.nextStock = d.nextStock /\ e.stock = F /\ e.sales = G
      BY <1>2, <2>1, <2>2 DEF DB
    <2>4. QED
      BY <2>3 DEF F, G
  <1> HIDE DEF e, used
  <1>14. Keeps(d, e)
    BY <1>13 DEF Keeps
  <1>15. Good(e)
    <2>1. \A s \in d.sales : Key(g[s]) = Key(s) /\ Holds(g[s], d)
      <3> TAKE s \in d.sales
      <3>1. CASE s \in S
        <4>1. h[s] \in I /\ g[s].wip = h[s]
          BY <1>10, <3>1
        <4>2. \E w \in d.stock : w.id = h[s]
          BY <1>3, <4>1
        <4>3. QED
          BY <1>10, <4>1, <4>2 DEF Holds
      <3>2. CASE s \notin S
        BY <1>10, <3>2 DEF Good, WipsHold
      <3>3. QED
        BY <3>1, <3>2
    <2>2. \A w \in d.stock : f[w].id = w.id /\ f[w].source = w.source
      BY <1>9
    <2>3. QED
      BY <1>13, <1>14, <2>1, <2>2, Remapped
  <1>16. Fair(d, e)
    <2>1. ASSUME NEW p \in OnStock(e) \ OnStock(d)
          PROVE  /\ \E v \in d.stock : v.id = p[2] /\ v.status \notin Gone
                 /\ \A w \in e.stock : w.id = p[2] => w.status \in Gone
      <3>1. PICK t \in e.sales : t.wip # Nothing /\ p = <<Key(t), t.wip>>
        BY DEF OnStock
      <3>2. PICK s \in d.sales : t = g[s]
        BY <1>13
      <3>3. s \in S
        BY <1>10, <2>1, <3>1, <3>2 DEF OnStock
      <3>4. PICK v \in W : v.id = h[s] /\ p[2] = h[s]
        BY <1>10, <3>1, <3>2, <3>3
      <3>5. v \in used
        <4>1. <<s, h[s]>> \in on
          BY <1>6, <3>3
        <4>2. QED
          BY <3>4, <4>1 DEF used
      <3>6. ASSUME NEW w \in e.stock, w.id = p[2] PROVE w.status \in Gone
        <4>1. PICK u \in d.stock : w = f[u]
          BY <1>13
        <4>2. u = v
          BY <1>3, <1>9, <3>4, <3>6, <4>1 DEF Good, StockIsKeyed
        <4>3. QED
          BY <1>9, <3>5, <4>1, <4>2
      <3>7. v \in d.stock /\ v.status \notin Gone
        BY <1>3
      <3>8. QED
        BY <3>4, <3>6, <3>7
    <2>2. \A w \in e.stock : \E v \in d.stock : v.id = w.id /\ (v.status \in Gone => w.status \in Gone)
      BY <1>9, <1>13
    <2>3. d.nextStock <= e.nextStock
      BY <1>2, <1>13
    <2>4. QED
      BY <2>1, <2>2, <2>3 DEF Fair
  <1>17. OrdersStay(d, e)
    <2>1. \A s \in d.sales : g[s] \in e.sales
      BY <1>13
    <2>2. QED
      BY <1>10, <2>1 DEF OrdersStay
  <1>18. QED
    BY <1>1, <1>14, <1>15, <1>16, <1>17

(* The pool that is served last is one of the pools.                       *)
LEMMA LastIsIn ==
    ASSUME NEW W, IsFiniteSet(W), W \subseteq StockRows, NEW K, K \subseteq Pools(W), K # {}
    PROVE  LastOf(K, W) \in K
  <1> DEFINE longest(k) == Max({w.len : w \in {v \in W : v.kind = k}})
             f == [k \in K |-> k[2]]
             g == [k \in K |-> longest(k)]
  <1>1. \A k \in K : k \in Kinds /\ k[2] \in Int
    <2> TAKE k \in K
    <2>1. k \in Kinds
      BY DEF Pools, StockRows
    <2>2. \A o \in Order : SqOf[o] \in Nat
      BY StockAssumption
    <2>3. QED
      BY <2>1, <2>2 DEF Kinds
  <1>2. \A k \in K : longest(k) \in Int
    <2> TAKE k \in K
    <2> DEFINE V == {v \in W : v.kind = k}
               len == [w \in V |-> w.len]
               L == {w.len : w \in V}
    <2>1. IsFiniteSet(V) /\ V # {}
      BY FS_Subset DEF Pools
    <2>2. L = {len[w] : w \in V}
      OBVIOUS
    <2>3. IsFiniteSet(L)
      <3> HIDE DEF L, len, V
      <3>1. QED
        BY <2>1, <2>2, ImageIsFinite
    <2>4. L # {} /\ L \subseteq Int
      BY <2>1 DEF StockRows
    <2>5. longest(k) = Max(L)
      OBVIOUS
    <2> HIDE DEF L
    <2>6. QED
      BY <2>3, <2>4, <2>5, MaxIsIn
  <1>3. IsFiniteSet(K)
    <2> DEFINE kind == [w \in W |-> w.kind]
    <2>1. Pools(W) = {kind[w] : w \in W}
      BY DEF Pools
    <2>2. IsFiniteSet(Pools(W))
      <3> HIDE DEF kind
      <3>1. QED
        BY <2>1, ImageIsFinite
    <2>3. QED
      BY <2>2, FS_Subset
  <1> HIDE DEF longest
  <1>4. f \in [K -> Int] /\ g \in [K -> Int]
    BY <1>1, <1>2
  <1> HIDE DEF f, g
  <1>5. PICK p \in K : \A q \in K : f[p] < f[q] \/ (f[p] = f[q] /\ g[p] <= g[q])
    BY <1>3, <1>4, BestOfPairs
  <1>6. ASSUME NEW q \in K PROVE ~Before(p, q, W)
    <2>1. f[p] < f[q] \/ (f[p] = f[q] /\ g[p] <= g[q])
      BY <1>5
    <2>2. p[2] \in Int /\ q[2] \in Int /\ longest(p) \in Int /\ longest(q) \in Int
      BY <1>1, <1>2
    <2>3. f[p] = p[2] /\ f[q] = q[2] /\ g[p] = longest(p) /\ g[q] = longest(q)
      BY DEF f, g
    <2>4. Before(p, q, W) <=> p[2] > q[2] \/ (p[2] = q[2] /\ longest(p) > longest(q))
      BY DEF Before, longest
    <2>5. QED
      BY <2>1, <2>2, <2>3, <2>4
  <1>7. QED
    BY <1>6 DEF LastOf

(* Matching goes from pool to pool.                                        *)
After(d) == {e \in DB : Good(e) /\ Fair(d, e) /\ Keeps(d, e) /\ OrdersStay(d, e)}

(* Matching changes orders and stock alone, and is fair.                   *)
LEMMA MatchIsGood ==
    ASSUME NEW d, Good(d), NEW run, NEW except
    PROVE  Match(d, run, except) \in After(d)
  <1> DEFINE W    == Available(d, except)
             S    == Pools(W)
             pick == [K \in SUBSET S |-> LastOf(K, W)]
             X    == [K \in SUBSET S |-> After(d)]
             step == [k \in S |-> [acc \in After(d) |-> MatchPool(acc, run, k, except)]]
             Body(g) == [K \in SUBSET S |-> IF K = {} THEN d ELSE MatchPool(g[K \ {LastOf(K, W)}], run, LastOf(K, W), except)]
             iter == CHOOSE g : g = Body(g)
             P    == {K \in SUBSET S : iter[K] \in X[K]}
  <1>1. Match(d, run, except) = iter[S]
    BY DEF Match, MapThenFoldSet
  <1>2. IsFiniteSet(W) /\ W \subseteq StockRows
    <2>1. W \subseteq d.stock
      BY DEF Available
    <2> HIDE DEF W
    <2>2. QED
      BY <2>1, FS_Subset DEF Good, TablesAreFinite, DB
  <1> HIDE DEF W
  <1>3. IsFiniteSet(S) /\ S \subseteq Kinds
    <2> DEFINE kind == [w \in W |-> w.kind]
    <2>1. S = {kind[w] : w \in W}
      BY DEF Pools
    <2>2. IsFiniteSet(S)
      <3> HIDE DEF kind, S
      <3>1. QED
        BY <1>2, <2>1, ImageIsFinite
    <2>3. QED
      BY <1>2, <2>2 DEF Pools, StockRows
  <1>4. \A K \in SUBSET S : K # {} => pick[K] \in K
    <2> TAKE K \in SUBSET S
    <2>1. K # {} => LastOf(K, W) \in K
      BY <1>2, LastIsIn
    <2>2. QED
      BY <2>1
  <1>5. d \in After(d)
    <2>1. d \in DB /\ d.nextStock \in Nat
      BY DEF Good, DB
    <2>2. Fair(d, d)
      <3>1. \A s \in d.sales : s.wip # Nothing => \E t \in d.sales : Key(t) = Key(s) /\ t.wip = s.wip
        OBVIOUS
      <3>2. QED
        BY <2>1, <3>1, FairIfSame
    <2>3. QED
      BY <2>1, <2>2 DEF After, Keeps, OrdersStay
  <1>6. ASSUME NEW acc \in After(d), NEW k \in S PROVE MatchPool(acc, run, k, except) \in After(d)
    <2>1. Good(acc) /\ Fair(d, acc) /\ Keeps(d, acc) /\ OrdersStay(d, acc) /\ k \in Kinds
      BY <1>3 DEF After
    <2> DEFINE e == MatchPool(acc, run, k, except)
    <2>2. Good(e) /\ Fair(acc, e) /\ Keeps(acc, e) /\ OrdersStay(acc, e)
      BY <2>1, MatchPoolIsGood
    <2> HIDE DEF e
    <2>3. Fair(d, e)
      BY <2>1, <2>2, FairIsTransitive
    <2>4. Keeps(d, e)
      BY <2>1, <2>2 DEF Keeps
    <2>5. e \in DB
      BY <2>2 DEF Good
    <2>6. OrdersStay(d, e)
      <3> SUFFICES ASSUME NEW s \in d.sales PROVE \E t \in e.sales : Key(t) = Key(s) /\ t.run = s.run
        BY DEF OrdersStay
      <3>1. PICK u \in acc.sales : Key(u) = Key(s) /\ u.run = s.run
        BY <2>1 DEF OrdersStay
      <3>2. PICK t \in e.sales : Key(t) = Key(u) /\ t.run = u.run
        BY <2>2 DEF OrdersStay
      <3>3. QED
        BY <3>1, <3>2
    <2>7. e \in After(d)
      BY <2>2, <2>3, <2>4, <2>5, <2>6 DEF After
    <2>8. QED
      BY <2>7 DEF e
  <1> HIDE DEF S
  <1>7. PICK g : IsFold(g, S, X, d, pick, step)
    <2>1. \A K \in SUBSET S : K # {} => \A a \in X[K \ {pick[K]}] : step[pick[K]][a] \in X[K]
      <3> TAKE K \in SUBSET S
      <3>1. SUFFICES ASSUME K # {}, NEW a \in X[K \ {pick[K]}] PROVE step[pick[K]][a] \in X[K]
        OBVIOUS
      <3>2. pick[K] \in S /\ a \in After(d)
        BY <1>4, <3>1
      <3> HIDE DEF pick
      <3>3. step[pick[K]][a] = MatchPool(a, run, pick[K], except)
        BY <3>2
      <3>4. QED
        BY <1>6, <3>2, <3>3
    <2>2. d \in X[{}]
      BY <1>5
    <2> HIDE DEF pick, X, step
    <2>3. QED
      BY <1>3, <1>4, <2>1, <2>2, FoldExists, Zenon
  <1>8. g = Body(g)
    <2>1. ASSUME NEW K \in SUBSET S, K # {} PROVE g[K] = MatchPool(g[K \ {pick[K]}], run, pick[K], except)
      <3>1. g[K] = step[pick[K]][g[K \ {pick[K]}]] /\ g[K \ {pick[K]}] \in X[K \ {pick[K]}]
        BY <1>7, <2>1 DEF IsFold
      <3>2. pick[K] \in S /\ g[K \ {pick[K]}] \in After(d)
        BY <1>4, <2>1, <3>1
      <3> HIDE DEF pick, X
      <3>3. QED
        BY <3>1, <3>2
    <2>2. g[{}] = d /\ g = [K \in SUBSET S |-> g[K]]
      BY <1>7 DEF IsFold
    <2>3. QED
      BY <2>1, <2>2
  <1>9. iter = Body(iter)
    <2> HIDE DEF Body
    <2>1. QED
      BY <1>8
  <1>10. ASSUME NEW K \in SUBSET S, \A x \in K : K \ {x} \in P PROVE K \in P
    <2>1. iter[K] = IF K = {} THEN d ELSE MatchPool(iter[K \ {pick[K]}], run, pick[K], except)
      <3>1. iter[K] = Body(iter)[K]
        <4> HIDE DEF iter, Body
        <4>1. QED
          BY <1>9
      <3> HIDE DEF iter
      <3>2. Body(iter)[K] = IF K = {} THEN d ELSE MatchPool(iter[K \ {pick[K]}], run, pick[K], except)
        OBVIOUS
      <3> HIDE DEF Body, pick
      <3>3. QED
        BY <3>1, <3>2
    <2> HIDE DEF iter, pick
    <2>2. K # {} => pick[K] \in S /\ iter[K \ {pick[K]}] \in After(d)
      BY <1>4, <1>10
    <2>3. K # {} => MatchPool(iter[K \ {pick[K]}], run, pick[K], except) \in After(d)
      BY <1>6, <2>2
    <2>4. iter[K] \in After(d)
      BY <1>5, <2>1, <2>3
    <2>5. QED
      BY <2>4
  <1>11. S \in P
    <2> HIDE DEF P
    <2>1. QED
      BY <1>3, <1>10, SetInduction
  <1>12. QED
    BY <1>1, <1>11

(* So is a matching that fails and is rolled back.                         *)
LEMMA MatchedIsGood ==
    ASSUME NEW d, Good(d), NEW run, NEW except, NEW matching
    PROVE  Matched(d, run, except, matching) \in After(d)
  <1>1. CASE matching
    BY <1>1, MatchIsGood DEF Matched
  <1>2. CASE ~matching
    <2>1. d \in DB /\ d.nextStock \in Nat
      BY DEF Good, DB
    <2>2. Fair(d, d)
      <3>1. \A s \in d.sales : s.wip # Nothing => \E t \in d.sales : Key(t) = Key(s) /\ t.wip = s.wip
        OBVIOUS
      <3>2. QED
        BY <2>1, <3>1, FairIfSame
    <2>3. d \in After(d)
      BY <2>1, <2>2 DEF After, Keeps, OrdersStay
    <2>4. QED
      BY <1>2, <2>3 DEF Matched
  <1>3. QED
    BY <1>1, <1>2 DEF Matched

-----------------------------------------------------------------------------
(* Work *)

(* A quotient that is rounded up covers the length, and leaves less than a *)
(* lot.                                                                    *)
LEMMA RoundedUp ==
    ASSUME NEW n \in Nat, NEW k \in Nat, k > 0
    PROVE  /\ (n + k - 1) \div k \in Nat
           /\ ((n + k - 1) \div k) * k - n \in Nat
           /\ (n + k - 1) \div k < 1 => n = 0
  <1> DEFINE a == n + k - 1
             q == a \div k
             r == a % k
  <1>1. a \in Nat /\ k \in Nat /\ k > 0
    OBVIOUS
  <1>2. q \in Nat /\ r \in Nat /\ r < k /\ a = k * q + r
    <2> HIDE DEF a
    <2>1. QED
      BY <1>1
  <1>3. k * q >= n
    <2>1. k * q \in Nat
      BY <1>1, <1>2
    <2> DEFINE z == k * q
    <2>2. z \in Nat /\ a = z + r
      BY <1>2, <2>1
    <2> HIDE DEF z, q, r
    <2>3. z >= n
      BY <1>2, <2>2
    <2>4. QED
      BY <2>3 DEF z
  <1>4. q * k = k * q
    BY <1>2
  <1>5. q < 1 => n = 0
    <2>1. q < 1 => q = 0
      BY <1>2
    <2>2. q = 0 => k * q = 0
      OBVIOUS
    <2> HIDE DEF q
    <2>3. QED
      BY <1>3, <2>1, <2>2
  <1>6. k * q - n \in Nat
    <2> DEFINE z == k * q
    <2>1. z \in Nat /\ z >= n
      BY <1>1, <1>2, <1>3
    <2> HIDE DEF z
    <2>2. z - n \in Nat
      BY <2>1
    <2>3. QED
      BY <2>2 DEF z
  <1> HIDE DEF q
  <1>7. q \in Nat /\ q * k - n \in Nat /\ (q < 1 => n = 0)
    BY <1>2, <1>4, <1>5, <1>6
  <1>8. QED
    BY <1>7 DEF q

(* Lots and surplus are natural numbers: the lots are enough for the       *)
(* length.                                                                 *)
LEMMA LotsAreNumbers ==
    ASSUME NEW len \in Nat, NEW sq \in Range(SqOf)
    PROVE  Lots(len, sq) \in Nat /\ Surplus(len, sq) \in Nat
  <1>1. LotOf[sq] \in Nat
    BY GroupingAssumption
  <1> DEFINE k == LotOf[sq]
             q == (len + k - 1) \div k
  <1>2. CASE k = 0
    BY <1>2 DEF Lots, Surplus
  <1>3. CASE k # 0
    <2>1. k \in Nat /\ k > 0
      BY <1>1, <1>3
    <2>2. q \in Nat /\ q * k - len \in Nat /\ (q < 1 => len = 0)
      <3> HIDE DEF k
      <3>1. QED
        BY <2>1, RoundedUp
    <2>3. Lots(len, sq) = Max({q, 1})
      BY <1>3 DEF Lots
    <2>4. Surplus(len, sq) = Lots(len, sq) * k - len
      BY <1>3 DEF Surplus
    <2> HIDE DEF k, q
    <2>5. Max({q, 1}) \in {q, 1} /\ \A y \in {q, 1} : y <= Max({q, 1})
      <3> DEFINE P == {q, 1}
      <3>1. P # {} /\ P \subseteq Int
        BY <2>2
      <3>2. IsFiniteSet({q}) /\ IsFiniteSet({1})
        BY FS_Singleton
      <3>3. {q} \cup {1} = P
        OBVIOUS
      <3>4. IsFiniteSet(P)
        <4>1. IsFiniteSet({q} \cup {1})
          BY <3>2, FS_Union
        <4>2. QED
          BY <3>3, <4>1
      <3>5. Max(P) \in P /\ \A y \in P : y <= Max(P)
        <4> HIDE DEF P
        <4>1. QED
          BY <3>1, <3>4, MaxIsIn
      <3>6. QED
        BY <3>5
    <2>6. CASE Max({q, 1}) = q
      BY <2>2, <2>3, <2>4, <2>6
    <2>7. CASE Max({q, 1}) = 1 /\ q # 1
      <3>1. q < 1
        BY <2>2, <2>5, <2>7
      <3>2. len = 0
        BY <2>2, <3>1
      <3>3. 1 * k - 0 \in Nat
        BY <2>1
      <3>4. QED
        BY <2>3, <2>4, <2>7, <3>2, <3>3
    <2>8. QED
      BY <2>5, <2>6, <2>7
  <1>4. QED
    BY <1>2, <1>3

(* The lengths of some orders add up to a natural number.                  *)
LEMMA SumIsNat ==
    ASSUME NEW S, IsFiniteSet(S), S \subseteq SaleRows
    PROVE  Length(S) \in Nat
  <1> DEFINE f == [s \in S |-> LenOf(s.order)]
  <1>1. f \in [S -> Nat]
    BY LenIsNat
  <1>2. Total(f) \in Nat
    <2> HIDE DEF f
    <2>1. QED
      BY <1>1, TotalIsNat
  <1>3. QED
    BY <1>2 DEF Length

(* The work of a header's group is a number.                               *)
LEMMA NetIsNat ==
    ASSUME NEW B, IsFiniteSet(B), \A b \in B : b.order \in Order, NEW h, h.order \in Order,
           NEW f, f = [b \in B |-> QtyOf[b.order] * CoresOf[h.order]]
    PROVE  Total(f) \in Nat
  <1>1. \A b \in B : QtyOf[b.order] \in Nat /\ CoresOf[h.order] \in Nat
    BY StockAssumption
  <1>2. \A x, y \in Nat : x * y \in Nat
    OBVIOUS
  <1>3. \A b \in B : QtyOf[b.order] * CoresOf[h.order] \in Nat
    BY <1>1, <1>2, Zenon
  <1>4. f \in [B -> Nat]
    BY <1>3
  <1>5. QED
    BY <1>4, TotalIsNat, Zenon

-----------------------------------------------------------------------------
(* New rows *)

(* Of some orders one is due before all others.                            *)
LEMMA OneIsFirst ==
    ASSUME NEW T, IsFiniteSet(T), T # {}, T \subseteq SaleRows, \A s, t \in T : Key(s) = Key(t) => s = t
    PROVE  \E s \in T : \A t \in T \ {s} : Sooner(s, t)
  <1> DEFINE R == {p \in T \X T : p[1] = p[2] \/ Sooner(p[1], p[2])}
  <1>1. \A s, t \in T : <<s, t>> \in R <=> s = t \/ Sooner(s, t)
    OBVIOUS
  <1> HIDE DEF R
  <1>2. \A s \in T : DueOf[s.order] \in Nat /\ s.order \in Nat /\ s.line \in Nat
    BY LenIsNat
  <1>3. \A x, y \in T : <<x, y>> \in R \/ <<y, x>> \in R
    <2> TAKE x, y \in T
    <2>1. x.order = y.order /\ x.line = y.line => x = y
      BY DEF Key
    <2>2. /\ DueOf[x.order] \in Nat /\ x.order \in Nat /\ x.line \in Nat
          /\ DueOf[y.order] \in Nat /\ y.order \in Nat /\ y.line \in Nat
      BY <1>2
    <2>3. x = y \/ Sooner(x, y) \/ Sooner(y, x)
      BY <2>1, <2>2 DEF Sooner
    <2>4. QED
      BY <1>1, <2>3
  <1>4. \A x, y, z \in T : <<x, y>> \in R /\ <<y, z>> \in R => <<x, z>> \in R
    <2> TAKE x, y, z \in T
    <2>1. /\ DueOf[x.order] \in Nat /\ x.order \in Nat /\ x.line \in Nat
          /\ DueOf[y.order] \in Nat /\ y.order \in Nat /\ y.line \in Nat
          /\ DueOf[z.order] \in Nat /\ z.order \in Nat /\ z.line \in Nat
      BY <1>2
    <2>2. Sooner(x, y) /\ Sooner(y, z) => Sooner(x, z)
      BY <2>1 DEF Sooner
    <2>3. QED
      BY <1>1, <2>2
  <1>5. \E s \in T : \A t \in T : <<s, t>> \in R
    BY <1>3, <1>4, Best
  <1>6. QED
    BY <1>1, <1>5

(* What a row is, but for its number and its work.                         *)
RowIs(b, run, s, seq, proc, group) ==
    /\ b.id = 0 /\ b.run = run /\ b.order = s.order /\ b.line = s.line /\ b.seq = seq /\ b.proc = proc
    /\ b.group = group /\ b.status = "planned" /\ b.sq = SqOf[s.order] /\ b.wip \in {Nothing, s.wip}

(* A row of an order has its types.                                        *)
LEMMA RowIsTyped ==
    ASSUME NEW run \in Nat, NEW s \in SaleRows, NEW seq \in {-1} \cup Nat, NEW proc \in Nat,
           NEW g \in Nat, NEW wip \in {Nothing, s.wip}, NEW group, group = <<g, SqOf[s.order], 0>>
    PROVE  /\ Row(run, s, seq, proc, group, wip) \in BatchRows
           /\ RowIs(Row(run, s, seq, proc, group, wip), run, s, seq, proc, group)
  <1>1. s.order \in Order /\ s.line \in Nat /\ s.wip \in Nat \cup {Nothing}
    BY DEF SaleRows
  <1>2. SqOf[s.order] \in Range(SqOf) /\ DueOf[s.order] \in Nat
    BY <1>1, StockAssumption DEF Range
  <1>3. group \in (Nat \X Range(SqOf) \X Nat)
    BY <1>2
  <1> DEFINE sq == SqOf[s.order]
             due == DueOf[s.order]
             b == Row(run, s, seq, proc, group, wip)
  <1>4. /\ sq \in Range(SqOf) /\ due \in Nat /\ s.order \in Order \cup {0} /\ s.line \in Nat
        /\ wip \in Nat \cup {Nothing} /\ group \in (Nat \X Range(SqOf) \X Nat) \cup {Nothing}
    BY <1>1, <1>2, <1>3
  <1>5. b = [id |-> 0, run |-> run, order |-> s.order, line |-> s.line, seq |-> seq, proc |-> proc, group |-> group,
             sq |-> sq, status |-> "planned", wip |-> wip, lots |-> 0, surplus |-> 0, due |-> due]
    BY DEF Row
  <1> HIDE DEF sq, due, b
  <1>6. b \in BatchRows
    BY <1>4, <1>5 DEF BatchRows
  <1>7. RowIs(b, run, s, seq, proc, group)
    BY <1>5 DEF RowIs, sq
  <1>8. QED
    BY <1>6, <1>7 DEF b

(* The header of a group of orders.                                        *)
LEMMA HeaderIsTyped ==
    ASSUME NEW run \in Nat, NEW S, IsFiniteSet(S), S \subseteq SaleRows, \A s, t \in S : Key(s) = Key(t) => s = t,
           NEW sq, Net(OfSq(S, sq)) > 0
    PROVE  /\ Header(run, OfSq(S, sq), sq) \in BatchRows
           /\ \E s \in OfSq(S, sq) :
                 /\ s \in S /\ SqOf[s.order] = sq
                 /\ RowIs(Header(run, OfSq(S, sq), sq), run, s, -1, Strand, <<Strand, sq, 0>>)
  <1> DEFINE Q   == OfSq(S, sq)
             rep == CHOOSE s \in Q : \A t \in Q \ {s} : Sooner(s, t)
             h   == Row(run, rep, -1, Strand, <<Strand, sq, 0>>, Nothing)
             U   == {s \in Q : s.use \notin Stages}
             b   == Header(run, Q, sq)
  <1>1. Q \subseteq S /\ \A s \in Q : SqOf[s.order] = sq
    BY DEF OfSq, Stranded
  <1>2. IsFiniteSet(Q) /\ Q \subseteq SaleRows
    BY <1>1, FS_Subset
  <1> HIDE DEF Q
  <1>3. U \subseteq SaleRows /\ IsFiniteSet(U)
    BY <1>2, FS_Subset
  <1>4. Length(U) \in Nat /\ Net(Q) = Length(U)
    <2> HIDE DEF U
    <2>1. Length(U) \in Nat
      BY <1>3, SumIsNat
    <2>2. QED
      BY <2>1 DEF Net, U
  <1>5. Q # {}
    <2>1. Length({}) = 0
      BY TotalOfNone DEF Length
    <2>2. ASSUME Q = {} PROVE FALSE
      <3>1. U = {}
        BY <2>2
      <3>2. Net(Q) = 0
        BY <1>4, <2>1, <3>1
      <3>3. QED
        BY <3>2 DEF Q
    <2>3. QED
      BY <2>2
  <1>6. rep \in Q
    <2>1. \E s \in Q : \A t \in Q \ {s} : Sooner(s, t)
      BY <1>1, <1>2, <1>5, OneIsFirst
    <2>2. QED
      BY <2>1
  <1> HIDE DEF rep
  <1>7. rep \in SaleRows /\ SqOf[rep.order] = sq /\ rep \in S
    BY <1>1, <1>2, <1>6
  <1>8. h \in BatchRows /\ RowIs(h, run, rep, -1, Strand, <<Strand, sq, 0>>)
    <2>1. Strand \in Nat /\ -1 \in {-1} \cup Nat /\ Nothing \in {Nothing, rep.wip}
          /\ <<Strand, sq, 0>> = <<Strand, SqOf[rep.order], 0>>
      BY <1>7 DEF Strand
    <2>2. QED
      BY <1>7, <2>1, RowIsTyped
  <1> HIDE DEF h
  <1>9. sq \in Range(SqOf)
    BY <1>7, StockAssumption DEF SaleRows, Range
  <1>10. Lots(Net(Q), sq) \in Nat /\ Surplus(Net(Q), sq) \in Nat
    BY <1>4, <1>9, LotsAreNumbers
  <1>11. b = [h EXCEPT !.lots = Lots(Net(Q), sq), !.surplus = Surplus(Net(Q), sq)]
    BY DEF Header, h, rep
  <1> HIDE DEF b
  <1>12. b \in BatchRows
    BY <1>8, <1>10, <1>11 DEF BatchRows
  <1>13. RowIs(b, run, rep, -1, Strand, <<Strand, sq, 0>>)
    BY <1>8, <1>11 DEF RowIs, BatchRows
  <1>14. QED
    BY <1>6, <1>7, <1>12, <1>13 DEF b, Q

(* Which row of an order it is.                                            *)
Made(b, run, S, s) ==
    \/ b.seq = -1 /\ b.proc = Strand /\ b = Header(run, OfSq(S, SqOf[s.order]), SqOf[s.order])
    \/ b.seq = 1 /\ b.proc = Strand /\ b = Row(run, s, 1, Strand, <<Strand, SqOf[s.order], 0>>, WipOf(s))
    \/ b.seq = 0 /\ b.proc = Strand /\ b = Row(run, s, 0, Strand, <<Core, SqOf[s.order], 0>>, WipOf(s))
    \/ b.seq >= 1 /\ b.proc # Strand /\ b = Row(run, s, b.seq, b.proc, <<b.proc, SqOf[s.order], 0>>, WipOf(s))

(* A row that is made for one of the orders S, as yet without a number.    *)
NewRow(b, run, S) ==
    /\ b \in BatchRows
    /\ \E s \in S : RowIs(b, run, s, b.seq, b.proc, b.group) /\ Made(b, run, S, s) /\ Makes(s.order, b.proc)

(* All rows that are made for the orders S.                                *)
NewRows(d, run, S) == StrandRows(run, S) \cup PerOrderRows(d, run, S)

(* The rows of stranding are such rows.                                    *)
LEMMA StrandRowIsNew ==
    ASSUME NEW run \in Nat, NEW S, IsFiniteSet(S), S \subseteq SaleRows, \A s, t \in S : Key(s) = Key(t) => s = t,
           NEW b \in StrandRows(run, S)
    PROVE  NewRow(b, run, S)
  <1> DEFINE name(g, sq) == <<g, sq, 0>>
  <1>1. PICK sq \in Sqs(S) : \/ Net(OfSq(S, sq)) > 0 /\ b = Header(run, OfSq(S, sq), sq)
                             \/ \E s \in OfSq(S, sq) : b = Row(run, s, 1, Strand, name(Strand, sq), WipOf(s))
                             \/ \E s \in OfSq(S, sq) : b = Row(run, s, 0, Strand, name(Core, sq), WipOf(s))
    <2>1. PICK sq \in Sqs(S) : b \in (IF Net(OfSq(S, sq)) > 0 THEN {Header(run, OfSq(S, sq), sq)} ELSE {}) \cup
             {Row(run, s, 1, Strand, <<Strand, sq, 0>>, WipOf(s)) : s \in OfSq(S, sq)} \cup
             {Row(run, s, 0, Strand, <<Core, sq, 0>>, WipOf(s)) :
                 s \in {t \in OfSq(S, sq) : t.order \in Cored /\ Net(OfSq(S, sq)) > 0}}
      BY DEF StrandRows
    <2>2. CASE b \in (IF Net(OfSq(S, sq)) > 0 THEN {Header(run, OfSq(S, sq), sq)} ELSE {})
      BY <2>2
    <2>3. CASE b \in {Row(run, s, 1, Strand, <<Strand, sq, 0>>, WipOf(s)) : s \in OfSq(S, sq)}
      BY <2>3
    <2>4. CASE b \in {Row(run, s, 0, Strand, <<Core, sq, 0>>, WipOf(s)) :
                         s \in {t \in OfSq(S, sq) : t.order \in Cored /\ Net(OfSq(S, sq)) > 0}}
      BY <2>4
    <2>5. QED
      BY <2>1, <2>2, <2>3, <2>4
  <1>2. OfSq(S, sq) \subseteq S /\ \A s \in OfSq(S, sq) : SqOf[s.order] = sq /\ Makes(s.order, Strand)
    BY DEF OfSq, Stranded, Makes
  <1>3. \A s \in S : WipOf(s) \in {Nothing, s.wip}
    BY DEF WipOf
  <1>4. CASE Net(OfSq(S, sq)) > 0 /\ b = Header(run, OfSq(S, sq), sq)
    <2>1. b \in BatchRows /\ \E s \in OfSq(S, sq) : s \in S /\ SqOf[s.order] = sq
                                                   /\ RowIs(b, run, s, -1, Strand, <<Strand, sq, 0>>)
      BY <1>4, HeaderIsTyped
    <2>2. PICK s \in S : SqOf[s.order] = sq /\ RowIs(b, run, s, -1, Strand, <<Strand, sq, 0>>) /\ Makes(s.order, Strand)
      BY <1>2, <2>1
    <2>3. b.seq = -1 /\ b.proc = Strand /\ b.group = <<Strand, sq, 0>>
      BY <2>2 DEF RowIs
    <2>4. RowIs(b, run, s, b.seq, b.proc, b.group)
      BY <2>2, <2>3
    <2>5. Made(b, run, S, s)
      BY <1>4, <2>2, <2>3 DEF Made
    <2>6. QED
      BY <2>1, <2>2, <2>3, <2>4, <2>5 DEF NewRow
  <1>5. ASSUME NEW s \in OfSq(S, sq), NEW i \in {0, 1}, NEW g \in Nat, b = Row(run, s, i, Strand, name(g, sq), WipOf(s))
        PROVE  /\ b \in BatchRows /\ s \in S /\ SqOf[s.order] = sq /\ Makes(s.order, Strand)
               /\ b.seq = i /\ b.proc = Strand /\ RowIs(b, run, s, b.seq, b.proc, b.group)
    <2>1. s \in SaleRows /\ s \in S /\ SqOf[s.order] = sq /\ Strand \in Nat /\ i \in {-1} \cup Nat /\ WipOf(s) \in {Nothing, s.wip}
      BY <1>2, <1>3 DEF Strand
    <2>2. name(g, sq) = <<g, SqOf[s.order], 0>>
      BY <2>1
    <2> DEFINE n == name(g, sq)
               wip == WipOf(s)
    <2>3. b = Row(run, s, i, Strand, n, wip) /\ n = <<g, SqOf[s.order], 0>> /\ wip \in {Nothing, s.wip}
      BY <1>5, <2>1, <2>2
    <2> HIDE DEF n, wip
    <2>4. b \in BatchRows /\ RowIs(b, run, s, i, Strand, n)
      BY <2>1, <2>3, RowIsTyped
    <2>5. b.seq = i /\ b.proc = Strand /\ b.group = n
      BY <2>4 DEF RowIs
    <2>6. QED
      BY <1>2, <2>1, <2>4, <2>5
  <1>6. CASE \E s \in OfSq(S, sq) : b = Row(run, s, 1, Strand, name(Strand, sq), WipOf(s))
    <2>1. PICK s \in OfSq(S, sq) : b = Row(run, s, 1, Strand, name(Strand, sq), WipOf(s))
      BY <1>6
    <2>2. Strand \in Nat /\ 1 \in {0, 1}
      BY DEF Strand
    <2>3. /\ b \in BatchRows /\ s \in S /\ SqOf[s.order] = sq /\ Makes(s.order, Strand)
          /\ b.seq = 1 /\ b.proc = Strand /\ RowIs(b, run, s, b.seq, b.proc, b.group)
      BY <1>5, <2>1, <2>2
    <2>4. Made(b, run, S, s)
      BY <2>1, <2>3 DEF Made
    <2>5. QED
      BY <2>3, <2>4 DEF NewRow
  <1>7. CASE \E s \in OfSq(S, sq) : b = Row(run, s, 0, Strand, name(Core, sq), WipOf(s))
    <2>1. PICK s \in OfSq(S, sq) : b = Row(run, s, 0, Strand, name(Core, sq), WipOf(s))
      BY <1>7
    <2>2. Core \in Nat /\ 0 \in {0, 1}
      BY DEF Core
    <2>3. /\ b \in BatchRows /\ s \in S /\ SqOf[s.order] = sq /\ Makes(s.order, Strand)
          /\ b.seq = 0 /\ b.proc = Strand /\ RowIs(b, run, s, b.seq, b.proc, b.group)
      BY <1>5, <2>1, <2>2
    <2>4. Made(b, run, S, s)
      BY <2>1, <2>3 DEF Made
    <2>5. QED
      BY <2>3, <2>4 DEF NewRow
  <1>8. QED
    BY <1>1, <1>4, <1>6, <1>7

(* And so are the rows of the other processes.                             *)
LEMMA OrderRowIsNew ==
    ASSUME NEW d, NEW run \in Nat, NEW S, S \subseteq SaleRows, NEW b \in PerOrderRows(d, run, S)
    PROVE  NewRow(b, run, S)
  <1>1. PICK s \in S : b \in LET R == Route[s.order]
                                 I == {i \in DOMAIN R : R[i] # Strand /\ R[i] \notin Covered(d, s)}
                             IN  {Row(run, s, i, R[i], <<R[i], SqOf[s.order], 0>>, WipOf(s)) : i \in I}
    BY DEF PerOrderRows
  <1> DEFINE R == Route[s.order]
  <1>2. PICK i \in DOMAIN R : R[i] # Strand /\ b = Row(run, s, i, R[i], <<R[i], SqOf[s.order], 0>>, WipOf(s))
    BY <1>1
  <1>3. s \in SaleRows /\ WipOf(s) \in {Nothing, s.wip}
    BY DEF WipOf
  <1>4. R \in Seq(Nat)
    BY <1>3, GroupingAssumption DEF SaleRows
  <1> HIDE DEF R
  <1>5. i \in 1 .. Len(R) /\ Len(R) \in Nat
    BY <1>4
  <1>6. R[i] \in Nat /\ i >= 1 /\ i \in Nat
    BY <1>4, <1>5
  <1> DEFINE p == R[i]
             n == <<p, SqOf[s.order], 0>>
             wip == WipOf(s)
  <1>7. /\ p \in Nat /\ p # Strand /\ i \in {-1} \cup Nat /\ wip \in {Nothing, s.wip}
        /\ n = <<p, SqOf[s.order], 0>> /\ b = Row(run, s, i, p, n, wip)
    BY <1>2, <1>3, <1>6
  <1> HIDE DEF p, n, wip
  <1>8. b \in BatchRows /\ RowIs(b, run, s, i, p, n)
    BY <1>3, <1>7, RowIsTyped
  <1>9. b.seq = i /\ b.proc = p /\ b.group = n
    BY <1>8 DEF RowIs
  <1>10. b = Row(run, s, b.seq, b.proc, <<b.proc, SqOf[s.order], 0>>, WipOf(s)) /\ b.seq >= 1 /\ b.proc # Strand
    BY <1>6, <1>7, <1>9 DEF wip
  <1>11. Made(b, run, S, s)
    BY <1>10 DEF Made
  <1>12. RowIs(b, run, s, b.seq, b.proc, b.group)
    BY <1>8, <1>9
  <1>13. Makes(s.order, b.proc)
    BY <1>2, <1>7, <1>9 DEF Makes, R, p
  <1>14. QED
    BY <1>8, <1>11, <1>12, <1>13 DEF NewRow

(* There are finitely many.                                                *)
LEMMA NewRowsAreFew ==
    ASSUME NEW d, NEW run \in Nat, NEW S, IsFiniteSet(S), S \subseteq SaleRows
    PROVE  IsFiniteSet(NewRows(d, run, S))
  <1> DEFINE strand(sq) == (IF Net(OfSq(S, sq)) > 0 THEN {Header(run, OfSq(S, sq), sq)} ELSE {}) \cup
                           {Row(run, s, 1, Strand, <<Strand, sq, 0>>, WipOf(s)) : s \in OfSq(S, sq)} \cup
                           {Row(run, s, 0, Strand, <<Core, sq, 0>>, WipOf(s)) :
                               s \in {t \in OfSq(S, sq) : t.order \in Cored /\ Net(OfSq(S, sq)) > 0}}
             steps(s) == {i \in DOMAIN Route[s.order] : Route[s.order][i] # Strand /\ Route[s.order][i] \notin Covered(d, s)}
             perOrder(s) == {Row(run, s, i, Route[s.order][i], <<Route[s.order][i], SqOf[s.order], 0>>, WipOf(s)) : i \in steps(s)}
  <1>1. ASSUME NEW sq PROVE IsFiniteSet(strand(sq))
    <2> DEFINE A == IF Net(OfSq(S, sq)) > 0 THEN {Header(run, OfSq(S, sq), sq)} ELSE {}
               f == [s \in OfSq(S, sq) |-> Row(run, s, 1, Strand, <<Strand, sq, 0>>, WipOf(s))]
               B == {Row(run, s, 1, Strand, <<Strand, sq, 0>>, WipOf(s)) : s \in OfSq(S, sq)}
               T == {t \in OfSq(S, sq) : t.order \in Cored /\ Net(OfSq(S, sq)) > 0}
               g == [s \in T |-> Row(run, s, 0, Strand, <<Core, sq, 0>>, WipOf(s))]
               C == {Row(run, s, 0, Strand, <<Core, sq, 0>>, WipOf(s)) : s \in T}
    <2>1. OfSq(S, sq) \subseteq S /\ T \subseteq S
      BY DEF OfSq, Stranded
    <2>2. IsFiniteSet(OfSq(S, sq)) /\ IsFiniteSet(T)
      <3> HIDE DEF T
      <3>1. QED
        BY <2>1, FS_Subset
    <2>3. IsFiniteSet(A)
      BY FS_Singleton, FS_EmptySet
    <2>4. IsFiniteSet(B)
      <3>1. B = {f[s] : s \in OfSq(S, sq)}
        OBVIOUS
      <3> HIDE DEF B, f
      <3>2. QED
        BY <2>2, <3>1, ImageIsFinite
    <2>5. IsFiniteSet(C)
      <3>1. C = {g[s] : s \in T}
        OBVIOUS
      <3> HIDE DEF C, g, T
      <3>2. QED
        BY <2>2, <3>1, ImageIsFinite
    <2>6. strand(sq) = (A \cup B) \cup C
      OBVIOUS
    <2> HIDE DEF A, B, C, strand
    <2>7. IsFiniteSet(A \cup B)
      BY <2>3, <2>4, FS_Union
    <2>8. IsFiniteSet((A \cup B) \cup C)
      BY <2>5, <2>7, FS_Union
    <2>9. QED
      BY <2>6, <2>8
  <1>2. ASSUME NEW s \in S PROVE IsFiniteSet(perOrder(s))
    <2> DEFINE f == [i \in steps(s) |-> Row(run, s, i, Route[s.order][i], <<Route[s.order][i], SqOf[s.order], 0>>, WipOf(s))]
               I == steps(s)
               B == perOrder(s)
    <2>1. Route[s.order] \in Seq(Nat)
      BY GroupingAssumption DEF SaleRows
    <2> DEFINE R == Route[s.order]
    <2>2. IsFiniteSet(DOMAIN R)
      <3> HIDE DEF R
      <3>1. R \in Seq(Nat)
        BY <2>1 DEF R
      <3>2. DOMAIN R = 1 .. Len(R) /\ Len(R) \in Nat
        BY <3>1
      <3>3. QED
        BY <3>2, FS_Interval
    <2>3. IsFiniteSet(I)
      BY <2>2, FS_Subset
    <2>4. B = {f[i] : i \in I}
      OBVIOUS
    <2>5. IsFiniteSet(B)
      <3> HIDE DEF B, I, f
      <3>1. QED
        BY <2>3, <2>4, ImageIsFinite
    <2>6. QED
      BY <2>5
  <1>3. IsFiniteSet(StrandRows(run, S))
    <2> DEFINE F == {strand(sq) : sq \in Sqs(S)}
               f == [s \in Stranded(S) |-> SqOf[s.order]]
               g == [sq \in Sqs(S) |-> strand(sq)]
    <2>1. StrandRows(run, S) = UNION F
      BY DEF StrandRows
    <2> HIDE DEF strand
    <2>2. IsFiniteSet(Stranded(S))
      BY FS_Subset DEF Stranded
    <2>3. Sqs(S) = {f[s] : s \in Stranded(S)}
      BY DEF Sqs
    <2>4. IsFiniteSet(Sqs(S))
      <3> HIDE DEF f
      <3>1. QED
        BY <2>2, <2>3, ImageIsFinite
    <2>5. F = {g[sq] : sq \in Sqs(S)}
      OBVIOUS
    <2>6. \A T \in F : IsFiniteSet(T)
      BY <1>1
    <2>7. IsFiniteSet(F)
      <3> HIDE DEF F, g
      <3>1. QED
        BY <2>4, <2>5, ImageIsFinite
    <2> HIDE DEF F
    <2>8. QED
      BY <2>1, <2>6, <2>7, FS_UNION
  <1>4. IsFiniteSet(PerOrderRows(d, run, S))
    <2> DEFINE F == {perOrder(s) : s \in S}
               g == [s \in S |-> perOrder(s)]
    <2>1. PerOrderRows(d, run, S) = UNION F
      BY DEF PerOrderRows
    <2> HIDE DEF perOrder
    <2>2. F = {g[s] : s \in S}
      OBVIOUS
    <2>3. \A T \in F : IsFiniteSet(T)
      BY <1>2
    <2>4. IsFiniteSet(F)
      <3> HIDE DEF F, g
      <3>1. QED
        BY <2>2, ImageIsFinite
    <2> HIDE DEF F
    <2>5. QED
      BY <2>1, <2>3, <2>4, FS_UNION
  <1>5. QED
    BY <1>3, <1>4, FS_Union DEF NewRows

(* Two rows of one order differ in process or sequence number.             *)
LEMMA NewRowsDiffer ==
    ASSUME NEW run, NEW S, \A s, t \in S : Key(s) = Key(t) => s = t,
           NEW b, NewRow(b, run, S), NEW c, NewRow(c, run, S),
           b.proc = c.proc, b.seq = c.seq, b.order = c.order, b.line = c.line
    PROVE  b = c
  <1>1. PICK s \in S : RowIs(b, run, s, b.seq, b.proc, b.group) /\ Made(b, run, S, s)
    BY DEF NewRow
  <1>2. PICK t \in S : RowIs(c, run, t, c.seq, c.proc, c.group) /\ Made(c, run, S, t)
    BY DEF NewRow
  <1>3. s = t
    BY <1>1, <1>2 DEF RowIs, Key
  <1>4. Made(b, run, S, s) /\ Made(c, run, S, s)
    BY <1>1, <1>2, <1>3
  <1>5. CASE b.seq = -1
    BY <1>4, <1>5 DEF Made
  <1>6. CASE b.seq = 0
    <2>1. c.seq = 0
      BY <1>6
    <2>2. ASSUME NEW x, x.seq = 0 PROVE x.seq # -1 /\ x.seq # 1 /\ ~(x.seq >= 1)
      BY <2>2
    <2>3. b = Row(run, s, 0, Strand, <<Core, SqOf[s.order], 0>>, WipOf(s))
      BY <1>4, <1>6, <2>2, Zenon DEF Made
    <2>4. c = Row(run, s, 0, Strand, <<Core, SqOf[s.order], 0>>, WipOf(s))
      BY <1>4, <2>1, <2>2, Zenon DEF Made
    <2>5. QED
      BY <2>3, <2>4
  <1>7. CASE b.seq = 1 /\ b.proc = Strand
    <2>1. c.seq = 1 /\ c.proc = Strand
      BY <1>7
    <2>2. ASSUME NEW x, x.seq = 1 PROVE x.seq # -1 /\ x.seq # 0
      BY <2>2
    <2>3. b = Row(run, s, 1, Strand, <<Strand, SqOf[s.order], 0>>, WipOf(s))
      BY <1>4, <1>7, <2>2, Zenon DEF Made
    <2>4. c = Row(run, s, 1, Strand, <<Strand, SqOf[s.order], 0>>, WipOf(s))
      BY <1>4, <2>1, <2>2, Zenon DEF Made
    <2>5. QED
      BY <2>3, <2>4
  <1>8. CASE b.seq >= 1 /\ b.proc # Strand
    BY <1>4, <1>8 DEF Made
  <1>9. QED
    BY <1>4, <1>5, <1>6, <1>7, <1>8 DEF Made

(* A row for the order and the process s has: B has it, or its stock is    *)
(* past the process.                                                       *)
Supplied(d, B, run, s, proc) ==
    \/ proc \in Covered(d, s)
    \/ \E c \in B : c.seq # -1 /\ c.run = run /\ c.order = s.order /\ c.line = s.line /\ c.proc = proc

AllSupplied(d, B, run, S) == \A s \in S : \A proc : Makes(s.order, proc) => Supplied(d, B, run, s, proc)

(* A stranded order has a row for the stranding.                           *)
LEMMA StrandRowOf ==
    ASSUME NEW run \in Nat, NEW S, S \subseteq SaleRows, NEW s \in S, Makes(s.order, Strand)
    PROVE  \E c \in StrandRows(run, S) : c.seq # -1 /\ c.run = run /\ c.order = s.order /\ c.line = s.line /\ c.proc = Strand
  <1> DEFINE sq == SqOf[s.order]
             n  == <<Strand, sq, 0>>
             c  == Row(run, s, 1, Strand, n, WipOf(s))
  <1>1. s \in OfSq(S, sq) /\ sq \in Sqs(S)
    BY DEF OfSq, Sqs, Stranded, Makes
  <1>2. c \in StrandRows(run, S)
    <2> DEFINE part(q) == (IF Net(OfSq(S, q)) > 0 THEN {Header(run, OfSq(S, q), q)} ELSE {}) \cup
                          {Row(run, t, 1, Strand, <<Strand, q, 0>>, WipOf(t)) : t \in OfSq(S, q)} \cup
                          {Row(run, t, 0, Strand, <<Core, q, 0>>, WipOf(t)) :
                              t \in {u \in OfSq(S, q) : u.order \in Cored /\ Net(OfSq(S, q)) > 0}}
    <2>1. StrandRows(run, S) = UNION {part(q) : q \in Sqs(S)}
      BY DEF StrandRows
    <2>2. c \in part(sq)
      <3>1. c \in {Row(run, t, 1, Strand, <<Strand, sq, 0>>, WipOf(t)) : t \in OfSq(S, sq)}
        BY <1>1
      <3> HIDE DEF c
      <3>2. QED
        BY <3>1
    <2> HIDE DEF part, c, sq
    <2>3. QED
      BY <1>1, <2>1, <2>2
  <1>3. Strand \in Nat /\ 1 \in {-1} \cup Nat /\ WipOf(s) \in {Nothing, s.wip} /\ s \in SaleRows
    BY DEF Strand, WipOf
  <1>4. n = <<Strand, SqOf[s.order], 0>>
    OBVIOUS
  <1>5. RowIs(c, run, s, 1, Strand, n)
    <2> DEFINE wip == WipOf(s)
    <2>1. c = Row(run, s, 1, Strand, n, wip) /\ wip \in {Nothing, s.wip}
      BY <1>3
    <2> HIDE DEF wip, c, n
    <2>2. QED
      BY <1>3, <1>4, <2>1, RowIsTyped
  <1> HIDE DEF c
  <1>6. c.seq = 1 /\ c.run = run /\ c.order = s.order /\ c.line = s.line /\ c.proc = Strand
    BY <1>5 DEF RowIs
  <1>7. c.seq # -1
    BY <1>6
  <1>8. QED
    BY <1>2, <1>6, <1>7

(* What is made keeps to the routes, and each order is supplied.           *)
LEMMA NewRowsSupply ==
    ASSUME NEW d, NEW run \in Nat, NEW S, S \subseteq SaleRows, NEW D, D = NewRows(d, run, S),
           \A b \in D : NewRow(b, run, S)
    PROVE  /\ \A b \in D : OnRoute(b) /\ Named(b, D)
           /\ AllSupplied(d, D, run, S)
  <1>1. ASSUME NEW b \in D PROVE OnRoute(b) /\ Named(b, D)
    <2>1. PICK s \in S : RowIs(b, run, s, b.seq, b.proc, b.group) /\ Made(b, run, S, s) /\ Makes(s.order, b.proc)
      BY DEF NewRow
    <2>2. b.order = s.order /\ b.run = run /\ b.line = s.line
      BY <2>1 DEF RowIs
    <2>3. OnRoute(b)
      BY <2>1, <2>2 DEF OnRoute
    <2>4. ASSUME b.seq = -1
          PROVE  \E c \in D : c.seq # -1 /\ c.run = b.run /\ c.order = b.order /\ c.line = b.line
      <3>1. b.proc = Strand
        BY <2>1, <2>4 DEF Made
      <3>2. \E c \in StrandRows(run, S) : c.seq # -1 /\ c.run = run /\ c.order = s.order /\ c.line = s.line /\ c.proc = Strand
        BY <2>1, <3>1, StrandRowOf
      <3>3. QED
        BY <2>2, <3>2 DEF NewRows
    <2>5. QED
      BY <2>3, <2>4 DEF Named
  <1>2. ASSUME NEW s \in S, NEW proc, Makes(s.order, proc) PROVE Supplied(d, D, run, s, proc)
    <2>1. CASE proc = Strand
      <3>1. \E c \in StrandRows(run, S) : c.seq # -1 /\ c.run = run /\ c.order = s.order /\ c.line = s.line /\ c.proc = Strand
        BY <1>2, <2>1, StrandRowOf
      <3>2. QED
        BY <2>1, <3>1 DEF NewRows, Supplied
    <2>2. CASE proc # Strand /\ proc \notin Covered(d, s)
      <3> DEFINE R == Route[s.order]
      <3>1. PICK i \in DOMAIN R : R[i] = proc
        BY <1>2 DEF Makes
      <3>2. R \in Seq(Nat) /\ s \in SaleRows
        BY GroupingAssumption DEF SaleRows
      <3>3. R[i] \in Nat /\ i >= 1 /\ i \in Nat
        <4> HIDE DEF R
        <4>1. i \in 1 .. Len(R) /\ Len(R) \in Nat
          BY <3>1, <3>2
        <4>2. QED
          BY <3>2, <4>1
      <3> DEFINE n   == <<proc, SqOf[s.order], 0>>
                 wip == WipOf(s)
                 c   == Row(run, s, i, proc, n, wip)
      <3>4. c \in PerOrderRows(d, run, S)
        <4> DEFINE steps(t) == {j \in DOMAIN Route[t.order] : Route[t.order][j] # Strand /\ Route[t.order][j] \notin Covered(d, t)}
                   part(t)  == {Row(run, t, j, Route[t.order][j], <<Route[t.order][j], SqOf[t.order], 0>>, WipOf(t)) : j \in steps(t)}
        <4>1. PerOrderRows(d, run, S) = UNION {part(t) : t \in S}
          BY DEF PerOrderRows
        <4>2. i \in steps(s)
          BY <2>2, <3>1
        <4>3. c = Row(run, s, i, Route[s.order][i], <<Route[s.order][i], SqOf[s.order], 0>>, WipOf(s))
          BY <3>1
        <4>4. c \in part(s)
          <5> HIDE DEF c, steps
          <5>1. QED
            BY <4>2, <4>3
        <4> HIDE DEF part, c
        <4>5. QED
          BY <4>1, <4>4
      <3>5. proc \in Nat /\ i \in {-1} \cup Nat /\ wip \in {Nothing, s.wip} /\ n = <<proc, SqOf[s.order], 0>>
        BY <3>1, <3>3 DEF WipOf
      <3> HIDE DEF n, wip, R
      <3>6. RowIs(c, run, s, i, proc, n)
        BY <3>2, <3>5, RowIsTyped
      <3> HIDE DEF c
      <3>7. c.seq = i /\ c.run = run /\ c.order = s.order /\ c.line = s.line /\ c.proc = proc
        BY <3>6 DEF RowIs
      <3>8. c.seq # -1
        BY <3>3, <3>7
      <3>9. QED
        BY <3>4, <3>7, <3>8 DEF NewRows, Supplied
    <2>3. QED
      BY <2>1, <2>2 DEF Supplied
  <1>3. QED
    BY <1>1, <1>2 DEF AllSupplied

(* The rows of some orders are inserted into a run that has none of them.  *)
LEMMA NewRowsAreGood ==
    ASSUME NEW d, Good(d), NEW run \in Nat, NEW S, S \subseteq d.sales,
           \A b \in d.rows : b.run = run /\ b.seq # -1 => \A s \in S : Key(s) # <<b.order, b.line>>,
           NEW D, D = NewRows(d, run, S)
    PROVE  /\ Good(Insert(d, D)) /\ Fair(d, Insert(d, D)) /\ Adds(d, Insert(d, D), D)
           /\ D \subseteq BatchRows /\ AllSupplied(d, D, run, S)
           /\ \A b \in D : OnRoute(b) /\ Named(b, D)
  <1>1. S \subseteq SaleRows /\ IsFiniteSet(S) /\ \A s, t \in S : Key(s) = Key(t) => s = t
    <2>1. IsFiniteSet(d.sales) /\ d.sales \subseteq SaleRows
      BY DEF Good, TablesAreFinite, DB
    <2>2. IsFiniteSet(S)
      BY <2>1, FS_Subset
    <2>3. QED
      BY <2>1, <2>2 DEF Good, SalesAreKeyed
  <1>2. IsFiniteSet(D)
    BY <1>1, NewRowsAreFew
  <1>3. \A b \in D : NewRow(b, run, S)
    <2> TAKE b \in D
    <2>1. CASE b \in StrandRows(run, S)
      BY <1>1, <2>1, StrandRowIsNew
    <2>2. CASE b \in PerOrderRows(d, run, S)
      BY <1>1, <2>2, OrderRowIsNew
    <2>3. QED
      BY <2>1, <2>2 DEF NewRows
  <1>4. D \subseteq BatchRows
    BY <1>3 DEF NewRow
  <1>5. \A b \in D : HasOrder(b) /\ Holds(b, d)
    <2> TAKE b \in D
    <2>1. PICK s \in S : RowIs(b, run, s, b.seq, b.proc, b.group)
      BY <1>3 DEF NewRow
    <2>2. b.order \in Order
      BY <1>1, <2>1 DEF RowIs, SaleRows
    <2>3. Holds(s, d)
      BY DEF Good, WipsHold
    <2>4. Holds(b, d)
      BY <2>1, <2>3 DEF RowIs, Holds
    <2>5. QED
      BY <2>2, <2>4 DEF HasOrder
  <1>6. \A b, c \in D : b.proc = c.proc /\ b.seq = c.seq /\ b.order = c.order /\ b.line = c.line => b = c
    BY <1>1, <1>3, NewRowsDiffer
  <1>7. \A b, c \in D : Rank(b) = Rank(c) => b = c
    BY <1>6 DEF Rank
  <1>8. \A b \in D : b.seq # -1 => \A c \in d.rows : ~SameRow(b, c)
    <2> SUFFICES ASSUME NEW b \in D, b.seq # -1, NEW c \in d.rows, SameRow(b, c) PROVE FALSE
      OBVIOUS
    <2>1. PICK s \in S : RowIs(b, run, s, b.seq, b.proc, b.group)
      BY <1>3 DEF NewRow
    <2>2. c.run = run /\ c.seq # -1 /\ Key(s) = <<c.order, c.line>>
      BY <2>1 DEF RowIs, SameRow, Key
    <2>3. QED
      BY <2>2
  <1>9. \A b \in D : b.seq # -1 => b \notin d.rows
    <2>1. \A b : SameRow(b, b)
      BY DEF SameRow
    <2>2. QED
      BY <1>8, <2>1
  <1>10. Once(d.rows \cup D)
    <2> SUFFICES ASSUME NEW b \in d.rows \cup D, NEW c \in d.rows \cup D, b.seq # -1, SameRow(b, c) PROVE b = c
      BY DEF Once
    <2>1. CASE b \in d.rows /\ c \in d.rows
      BY <2>1 DEF Good, Once
    <2>2. CASE b \in D /\ c \in D
      BY <1>6, <2>2 DEF SameRow
    <2>3. CASE b \in D /\ c \in d.rows
      BY <1>8, <2>3
    <2>4. CASE b \in d.rows /\ c \in D
      <3>1. c.seq # -1 /\ SameRow(c, b)
        BY DEF SameRow
      <3>2. QED
        BY <1>8, <2>4, <3>1
    <2>5. QED
      BY <2>1, <2>2, <2>3, <2>4
  <1>11. \A b \in D : b.seq # -1 => b \notin d.rows /\ \A c \in d.rows : ~SameRow(b, c)
    BY <1>8, <1>9
  <1>12. Good(Insert(d, D)) /\ Fair(d, Insert(d, D)) /\ Adds(d, Insert(d, D), D)
    BY <1>2, <1>4, <1>5, <1>7, <1>10, <1>11, InsertIsGood
  <1>13. AllSupplied(d, D, run, S) /\ \A b \in D : OnRoute(b) /\ Named(b, D)
    BY <1>1, <1>3, NewRowsSupply
  <1>14. QED
    BY <1>4, <1>12, <1>13

-----------------------------------------------------------------------------
(* Rows that are changed and removed *)

(* The same row, as a key and as work of an order.                         *)
Alike(b, c) ==
    /\ b.id = c.id /\ b.run = c.run /\ b.order = c.order /\ b.line = c.line /\ b.seq = c.seq /\ b.proc = c.proc

(* Rows that are removed or changed leave the keys and the orders of the   *)
(* rest in place.                                                          *)
LEMMA FewerRows ==
    ASSUME NEW d, Good(d), NEW e \in DB, e.nextRow = d.nextRow,
           NEW K, K \subseteq d.rows, NEW f, e.rows = {f[b] : b \in K},
           \A b \in K : Alike(f[b], b) /\ HasOrder(f[b])
    PROVE  IsFiniteSet(e.rows) /\ RowsAreKeyed(e) /\ RowsHaveOrders(e) /\ Once(e.rows)
  <1>1. IsFiniteSet(e.rows)
    <2>1. IsFiniteSet(K)
      BY FS_Subset DEF Good, TablesAreFinite
    <2>2. QED
      BY <2>1, ImageIsFinite
  <1>2. RowsAreKeyed(e)
    BY DEF Good, RowsAreKeyed, Alike
  <1>3. RowsHaveOrders(e)
    BY DEF RowsHaveOrders
  <1>4. Once(e.rows)
    <2> SUFFICES ASSUME NEW x \in e.rows, NEW y \in e.rows, x.seq # -1, SameRow(x, y) PROVE x = y
      BY DEF Once
    <2>1. PICK b \in K, c \in K : x = f[b] /\ y = f[c]
      OBVIOUS
    <2>2. Alike(x, b) /\ Alike(y, c)
      BY <2>1
    <2>3. b.seq # -1 /\ SameRow(b, c)
      BY <2>2 DEF Alike, SameRow
    <2>4. b = c
      BY <2>3 DEF Good, Once
    <2>5. QED
      BY <2>1, <2>4
  <1>5. QED
    BY <1>1, <1>2, <1>3, <1>4

(* The header that is due first is one of the group.                       *)
LEMMA FirstIsIn ==
    ASSUME NEW H, IsFiniteSet(H), H # {}, H \subseteq BatchRows
    PROVE  First(H) \in H
  <1> DEFINE f == [h \in H |-> h.due]
             g == [h \in H |-> h.id]
  <1>1. f \in [H -> Int] /\ g \in [H -> Int]
    <2>1. ASSUME NEW h \in H PROVE h.due \in Int /\ h.id \in Int
      <3>1. h \in BatchRows
        OBVIOUS
      <3>2. h.due \in Nat /\ h.id \in Nat
        BY <3>1 DEF BatchRows
      <3>3. QED
        BY <3>2
    <2>2. QED
      BY <2>1
  <1>2. \E h \in H : \A x \in H : f[h] < f[x] \/ (f[h] = f[x] /\ g[h] <= g[x])
    <2> HIDE DEF f, g
    <2>1. QED
      BY <1>1, BestOfPairs
  <1>3. \E h \in H : \A x \in H : h.due < x.due \/ (h.due = x.due /\ h.id <= x.id)
    BY <1>2
  <1>4. QED
    BY <1>3 DEF First

(* The dates of some rows have a first.                                    *)
LEMMA FirstDueIsNat ==
    ASSUME NEW B, IsFiniteSet(B), B # {}, B \subseteq BatchRows
    PROVE  Min({b.due : b \in B}) \in Nat
  <1> DEFINE f == [b \in B |-> b.due]
             D == {b.due : b \in B}
  <1>1. D = {f[b] : b \in B}
    OBVIOUS
  <1>2. IsFiniteSet(D)
    <2> HIDE DEF D, f
    <2>1. QED
      BY <1>1, ImageIsFinite
  <1>3. D # {} /\ D \subseteq Nat
    BY DEF BatchRows
  <1>4. Min(D) \in D
    <2>1. D \subseteq Int
      BY <1>3
    <2> HIDE DEF D
    <2>2. QED
      BY <1>2, <1>3, <2>1, MinIsIn
  <1>5. QED
    BY <1>3, <1>4

(* A header with other work, and a row in the half that is split off.      *)
Relotted(b, c)  == c = [b EXCEPT !.lots = c.lots, !.surplus = c.surplus, !.due = c.due]
Regrouped(b, c) == c = [b EXCEPT !.group = HalfOf(b.group)]

(* A header gets the work of some rows.                                    *)
LEMMA WorkIsTyped ==
    ASSUME NEW h \in BatchRows, h.order \in Order,
           NEW B, IsFiniteSet(B), B \subseteq BatchRows, \A b \in B : b.order \in Order
    PROVE  /\ Aggregated(h, B) \in BatchRows /\ Alike(Aggregated(h, B), h)
           /\ Aggregated(h, B).group = h.group /\ Aggregated(h, B).wip = h.wip /\ Aggregated(h, B).status = h.status
           /\ WorkOf(h, B) \in BatchRows /\ Alike(WorkOf(h, B), h)
           /\ WorkOf(h, B).group = h.group /\ WorkOf(h, B).wip = h.wip /\ WorkOf(h, B).status = h.status
           /\ Relotted(h, WorkOf(h, B))
  <1>1. CASE B = {}
    <2>1. WorkOf(h, B) = [h EXCEPT !.lots = 0, !.surplus = 0] /\ Aggregated(h, B) = h
      BY <1>1 DEF WorkOf, Aggregated
    <2> DEFINE x == [h EXCEPT !.lots = 0, !.surplus = 0]
    <2>2. x \in BatchRows /\ Alike(x, h) /\ x.group = h.group /\ x.wip = h.wip /\ x.status = h.status
      BY DEF BatchRows, Alike
    <2>3. x = [h EXCEPT !.lots = x.lots, !.surplus = x.surplus, !.due = x.due]
      BY DEF BatchRows
    <2>4. Relotted(h, x)
      BY <2>3 DEF Relotted
    <2>5. Alike(h, h)
      BY DEF Alike
    <2>6. WorkOf(h, B) = x /\ Aggregated(h, B) = h
      BY <2>1
    <2> HIDE DEF x
    <2>7. QED
      BY <2>2, <2>4, <2>5, <2>6
  <1>2. CASE B # {}
    <2> DEFINE f == [b \in B |-> QtyOf[b.order] * CoresOf[h.order]]
               net == Total(f)
               l == Lots(net, h.sq)
               s == Surplus(net, h.sq)
               m == Min({b.due : b \in B})
    <2>1. net \in Nat
      <3>1. f = [b \in B |-> QtyOf[b.order] * CoresOf[h.order]]
        OBVIOUS
      <3> HIDE DEF f
      <3>2. QED
        BY <3>1, NetIsNat
    <2>2. h.sq \in Range(SqOf)
      BY DEF BatchRows
    <2>3. l \in Nat /\ s \in Nat
      <3> HIDE DEF net
      <3>1. QED
        BY <2>1, <2>2, LotsAreNumbers
    <2>4. m \in Nat
      BY <1>2, FirstDueIsNat
    <2>5. Aggregated(h, B) = [h EXCEPT !.lots = l, !.surplus = s, !.due = m]
      BY <1>2 DEF Aggregated
    <2>6. WorkOf(h, B) = [h EXCEPT !.lots = l, !.surplus = s, !.due = m]
      BY <1>2 DEF WorkOf
    <2> DEFINE x == [h EXCEPT !.lots = l, !.surplus = s, !.due = m]
    <2> HIDE DEF l, s, m
    <2>7. x \in BatchRows
      BY <2>3, <2>4 DEF BatchRows
    <2>8. /\ Alike(x, h) /\ x.group = h.group /\ x.wip = h.wip /\ x.status = h.status
          /\ x.lots = l /\ x.surplus = s /\ x.due = m
      BY DEF BatchRows, Alike
    <2>11. Relotted(h, x)
      BY <2>8 DEF Relotted
    <2>9. Aggregated(h, B) = x /\ WorkOf(h, B) = x
      BY <2>5, <2>6
    <2> HIDE DEF x
    <2>10. QED
      BY <2>7, <2>8, <2>9, <2>11
  <1>3. QED
    BY <1>1, <1>2

(* What changes when duplicates are removed: headers of the run alone, and *)
(* each group has one of them afterwards.                                  *)
Tidy(d, e, run) ==
    /\ e.sales = d.sales /\ e.stock = d.stock /\ e.tasks = d.tasks
    /\ \A b \in d.rows : b.run # run \/ b.seq # -1 => b \in e.rows
    /\ \A b \in e.rows : b \in d.rows \/ (b.run = run /\ b.seq = -1)
    /\ \A b \in e.rows : \E c \in d.rows : SameRow(b, c)
    /\ \A g, h \in HeadersOf(e, run) : g.group = h.group => g = h

(* There are no rows that are there twice.                                 *)
LEMMA NoTwins ==
    ASSUME NEW d, Good(d), NEW run
    PROVE  Twins(d, run) = {}
  <1> SUFFICES ASSUME NEW b \in Twins(d, run) PROVE FALSE
    OBVIOUS
  <1>1. PICK c \in RowsOf(d, run) : Twin(b, c) /\ c.id < b.id
    BY DEF Twins
  <1>2. b \in d.rows /\ c \in d.rows /\ b.seq # -1 /\ SameRow(b, c)
    BY <1>1 DEF Twins, Twin, RowsOf, SameRow
  <1>3. b = c
    BY <1>2 DEF Good, Once
  <1>4. b.id \in Nat
    BY <1>2 DEF Good, DB, BatchRows
  <1>5. QED
    BY <1>1, <1>3, <1>4

(* The removal of duplicates leaves nothing that refers to them.           *)
LEMMA DeduplicateIsGood ==
    ASSUME NEW d, Good(d), NEW run, NEW e \in Deduplicate(d, run)
    PROVE  Good(e) /\ Fair(d, e) /\ Tidy(d, e, run)
  <1> DEFINE H        == HeadersOf(d, run)
             group(h) == {g \in H : g.group = h.group}
             kept     == {First(group(h)) : h \in H}
             subs(h)  == {b \in OrderRows(d, run) : b.group = h.group}
             K        == (d.rows \ H) \cup kept
             f        == [b \in K |-> IF b \in kept THEN Aggregated(b, subs(b)) ELSE b]
             Z        == {f[b] : b \in K}
  <1>1. d \in DB /\ d.rows \subseteq BatchRows /\ d.nextStock \in Nat
    BY DEF Good, DB
  <1>2. IsFiniteSet(d.rows) /\ RowsHaveOrders(d)
    BY DEF Good, TablesAreFinite
  <1>3. H \subseteq d.rows /\ \A h \in H : h.run = run /\ h.seq = -1 /\ h.group # Nothing /\ h.order \in Order
    BY <1>2 DEF HeadersOf, RowsOf, RowsHaveOrders, HasOrder
  <1>4. ~Referred(d, H \ kept) /\ e = [d EXCEPT !.rows = (@ \ H) \cup {Aggregated(h, subs(h)) : h \in kept}]
    <2>1. Twins(d, run) = {}
      BY NoTwins
    <2> DEFINE twins == Twins(d, run)
               subs0(h) == {b \in OrderRows(d, run) \ twins : b.group = h.group}
    <2>2. Deduplicate(d, run) = IF Referred(d, twins \cup (H \ kept)) THEN {}
                                ELSE {[d EXCEPT !.rows = (@ \ (twins \cup H)) \cup {Aggregated(h, subs0(h)) : h \in kept}]}
      BY DEF Deduplicate
    <2>3. twins = {} /\ \A h : subs0(h) = subs(h)
      BY <2>1
    <2>4. {Aggregated(h, subs0(h)) : h \in kept} = {Aggregated(h, subs(h)) : h \in kept}
      <3> HIDE DEF kept, subs0, subs
      <3>1. QED
        BY <2>3
    <2>5. twins \cup (H \ kept) = H \ kept /\ twins \cup H = H
      BY <2>3
    <2> HIDE DEF twins, kept, subs, subs0, H
    <2>6. Deduplicate(d, run) = IF Referred(d, H \ kept) THEN {}
                                ELSE {[d EXCEPT !.rows = (@ \ H) \cup {Aggregated(h, subs(h)) : h \in kept}]}
      BY <2>2, <2>4, <2>5
    <2>7. QED
      BY <2>6
  <1>5. \A h \in H : First(group(h)) \in H /\ First(group(h)).group = h.group
    <2> TAKE h \in H
    <2>1. IsFiniteSet(group(h)) /\ group(h) # {} /\ group(h) \subseteq BatchRows
      <3>1. group(h) \subseteq H /\ group(h) # {}
        OBVIOUS
      <3>2. group(h) \subseteq d.rows /\ group(h) \subseteq BatchRows
        BY <1>1, <1>3
      <3> HIDE DEF group
      <3>3. QED
        BY <1>2, <3>1, <3>2, FS_Subset
    <2>2. First(group(h)) \in group(h)
      <3> HIDE DEF group
      <3>1. QED
        BY <2>1, FirstIsIn
    <2>3. QED
      BY <2>2
  <1> HIDE DEF H
  <1>6. kept \subseteq H
    BY <1>5
  <1>7. K \subseteq d.rows /\ K \subseteq BatchRows /\ (d.rows \ K) \subseteq H \ kept
    BY <1>1, <1>3, <1>6
  <1>8. \A g, h \in kept : g.group = h.group => g = h
    <2> TAKE g, h \in kept
    <2>1. PICK x \in H, y \in H : g = First(group(x)) /\ h = First(group(y))
      OBVIOUS
    <2>2. g.group = x.group /\ h.group = y.group
      BY <1>5, <2>1
    <2>3. SUFFICES ASSUME g.group = h.group PROVE g = h
      OBVIOUS
    <2>4. x.group = y.group
      BY <2>2, <2>3
    <2>5. group(x) = group(y)
      BY <2>4
    <2> HIDE DEF group
    <2>6. QED
      BY <2>1, <2>5
  <1> HIDE DEF kept
  <1>9. \A b \in K : /\ f[b] \in BatchRows /\ Alike(f[b], b) /\ HasOrder(f[b])
                     /\ f[b].group = b.group /\ f[b].wip = b.wip
                     /\ b \notin kept => f[b] = b
    <2> TAKE b \in K
    <2>1. CASE b \in kept
      <3>1. b \in BatchRows /\ b.order \in Order
        BY <1>3, <1>6, <1>7, <2>1
      <3>2. subs(b) \subseteq d.rows /\ \A c \in subs(b) : c.order \in Order
        <4>1. \A c \in subs(b) : c \in d.rows /\ c.seq >= 1
          BY DEF OrderRows, RowsOf
        <4>2. \A c \in subs(b) : c.seq # -1
          <5> TAKE c \in subs(b)
          <5>1. c.seq >= 1
            BY <4>1
          <5>2. -1 < 1
            OBVIOUS
          <5>3. QED
            BY <5>1, <5>2
        <4>3. QED
          BY <1>2, <4>1, <4>2 DEF RowsHaveOrders, HasOrder
      <3>3. IsFiniteSet(subs(b)) /\ subs(b) \subseteq BatchRows
        <4> HIDE DEF subs
        <4>1. QED
          BY <1>1, <1>2, <3>2, FS_Subset
      <3> DEFINE x == Aggregated(b, subs(b))
      <3>4. x \in BatchRows /\ Alike(x, b) /\ x.group = b.group /\ x.wip = b.wip
        <4> HIDE DEF subs
        <4>1. QED
          BY <3>1, <3>2, <3>3, WorkIsTyped
      <3>5. f[b] = x
        BY <2>1
      <3> HIDE DEF x, f
      <3>6. HasOrder(x)
        BY <3>1, <3>4 DEF HasOrder, Alike
      <3>7. QED
        BY <2>1, <3>4, <3>5, <3>6
    <2>2. CASE b \notin kept
      BY <1>2, <1>7, <2>2 DEF RowsHaveOrders, Alike
    <2>3. QED
      BY <2>1, <2>2
  <1>10. (d.rows \ H) \cup {Aggregated(h, subs(h)) : h \in kept} = Z
    <2>1. kept \subseteq K
      OBVIOUS
    <2> HIDE DEF subs
    <2>2. QED
      BY <1>6, <2>1
  <1> HIDE DEF f, subs
  <1>11. /\ e \in DB /\ e.sales = d.sales /\ e.stock = d.stock /\ e.tasks = d.tasks
         /\ e.nextRow = d.nextRow /\ e.nextStock = d.nextStock /\ e.rows = Z
    <2>1. Z \subseteq BatchRows
      BY <1>9
    <2>2. e = [d EXCEPT !.rows = Z]
      BY <1>4, <1>10
    <2> HIDE DEF Z
    <2>3. QED
      BY <1>1, <2>1, <2>2 DEF DB
  <1>12. IsFiniteSet(e.rows) /\ RowsAreKeyed(e) /\ RowsHaveOrders(e) /\ Once(e.rows)
    <2>1. \A b \in K : Alike(f[b], b) /\ HasOrder(f[b])
      BY <1>9
    <2> HIDE DEF K
    <2>2. QED
      BY <1>7, <1>11, <2>1, FewerRows
  <1>13. TasksHold(e)
    <2> SUFFICES ASSUME NEW t \in d.tasks PROVE \E b \in e.rows : b.run = t.run /\ b.id = t.batch
      BY <1>11 DEF TasksHold
    <2>1. PICK b \in d.rows : b.run = t.run /\ b.id = t.batch
      BY DEF Good, TasksHold
    <2>2. b \in K
      BY <1>4, <1>7, <2>1 DEF Referred
    <2>3. f[b] \in e.rows /\ f[b].run = t.run /\ f[b].id = t.batch
      BY <1>9, <1>11, <2>1, <2>2 DEF Alike
    <2>4. QED
      BY <2>3
  <1>14. SourcesHold(e)
    <2> SUFFICES ASSUME NEW w \in d.stock, w.source # Nothing PROVE \E b \in e.rows : b.id = w.source
      BY <1>11 DEF SourcesHold
    <2>1. PICK b \in d.rows : b.id = w.source
      BY DEF Good, SourcesHold
    <2>2. b \in K
      BY <1>4, <1>7, <2>1 DEF Referred
    <2>3. f[b] \in e.rows /\ f[b].id = w.source
      BY <1>9, <1>11, <2>1, <2>2 DEF Alike
    <2>4. QED
      BY <2>3
  <1>15. WipsHold(e)
    <2>1. ASSUME NEW x \in e.rows PROVE Holds(x, e)
      <3>1. PICK b \in K : x = f[b]
        BY <1>11
      <3>2. x.wip = b.wip /\ Holds(b, d)
        BY <1>7, <1>9, <3>1 DEF Good, WipsHold
      <3>3. QED
        BY <1>11, <3>2 DEF Holds
    <2>2. ASSUME NEW x \in e.sales PROVE Holds(x, e)
      BY <1>11 DEF Good, WipsHold, Holds
    <2>3. QED
      BY <2>1, <2>2 DEF WipsHold
  <1>16. Good(e)
    <2>1. TablesAreFinite(e) /\ SalesAreKeyed(e) /\ StockIsKeyed(e)
      BY <1>11, <1>12 DEF Good, TablesAreFinite, SalesAreKeyed, StockIsKeyed
    <2>2. QED
      BY <1>11, <1>12, <1>13, <1>14, <1>15, <2>1 DEF Good
  <1>17. Fair(d, e)
    <2>1. \A s \in e.sales : s.wip # Nothing => \E t \in d.sales : Key(t) = Key(s) /\ t.wip = s.wip
      BY <1>11
    <2>2. QED
      BY <1>1, <1>11, <2>1, FairIfSame
  <1>18. Tidy(d, e, run)
    <2>1. \A b \in d.rows : b.run # run \/ b.seq # -1 => b \in e.rows
      <3> SUFFICES ASSUME NEW b \in d.rows, b.run # run \/ b.seq # -1 PROVE b \in e.rows
        OBVIOUS
      <3>1. b \notin H
        BY <1>3
      <3>2. b \in K /\ b \notin kept
        BY <1>6, <3>1
      <3>3. f[b] = b
        BY <1>9, <3>2
      <3>4. QED
        BY <1>11, <3>2, <3>3
    <2>2. ASSUME NEW x \in e.rows PROVE x \in d.rows \/ (x.run = run /\ x.seq = -1 /\ \E h \in kept : x.group = h.group /\ x = f[h])
      <3>1. PICK b \in K : x = f[b]
        BY <1>11
      <3>2. CASE b \in kept
        BY <1>3, <1>6, <1>9, <3>1, <3>2 DEF Alike
      <3>3. CASE b \notin kept
        BY <1>7, <1>9, <3>1, <3>3
      <3>4. QED
        BY <3>2, <3>3
    <2>3. ASSUME NEW x \in HeadersOf(e, run) PROVE \E h \in kept : x.group = h.group /\ x = f[h]
      <3>1. x \in e.rows /\ x.run = run /\ x.seq = -1 /\ x.group # Nothing
        BY DEF HeadersOf, RowsOf
      <3>2. PICK b \in K : x = f[b]
        BY <1>11, <3>1
      <3>3. b \in d.rows /\ b.run = run /\ b.seq = -1 /\ b.group # Nothing
        BY <1>7, <1>9, <3>1, <3>2 DEF Alike
      <3>4. b \in H
        BY <3>3 DEF H, HeadersOf, RowsOf
      <3>5. b \in kept /\ x.group = b.group
        BY <1>9, <3>2, <3>4
      <3>6. QED
        BY <3>2, <3>5
    <2>4. \A g, h \in HeadersOf(e, run) : g.group = h.group => g = h
      <3> TAKE g, h \in HeadersOf(e, run)
      <3>1. PICK x \in kept : g.group = x.group /\ g = f[x]
        BY <2>3
      <3>2. PICK y \in kept : h.group = y.group /\ h = f[y]
        BY <2>3
      <3>3. QED
        BY <1>8, <3>1, <3>2
    <2>5. \A x \in e.rows : x \in d.rows \/ (x.run = run /\ x.seq = -1)
      BY <2>2
    <2>6. ASSUME NEW x \in e.rows PROVE \E c \in d.rows : SameRow(x, c)
      <3>1. PICK b \in K : x = f[b]
        BY <1>11
      <3>2. QED
        BY <1>7, <1>9, <3>1 DEF Alike, SameRow
    <2>7. QED
      BY <1>11, <2>1, <2>4, <2>5, <2>6 DEF Tidy
  <1>19. QED
    BY <1>16, <1>17, <1>18

(* What comes of new batches.                                              *)
Batched(d, e, run) ==
    /\ e.sales = d.sales /\ e.tasks = d.tasks
    /\ \A b \in d.rows : b.run # run \/ b.seq # -1 => b \in e.rows
    /\ \A b \in e.rows : b \in d.rows \/ b.run = run
    /\ \A g, h \in HeadersOf(e, run) : g.group = h.group => g = h

(* The processes that the stock of an order is past are known by its wip:  *)
(* more stock does not change them.                                        *)
LEMMA CoveredStays ==
    ASSUME NEW d, Good(d), NEW e, Good(e), d.stock \subseteq e.stock, NEW s \in d.sales
    PROVE  Covered(e, s) = Covered(d, s)
  <1>1. CASE WipOf(s) = Nothing
    BY <1>1 DEF Covered
  <1>2. CASE WipOf(s) # Nothing
    <2>1. s.wip # Nothing
      BY <1>2 DEF WipOf
    <2>2. PICK w \in d.stock : w.id = s.wip
      BY <2>1 DEF Good, WipsHold, Holds
    <2>3. (CHOOSE v \in d.stock : v.id = s.wip) = w
      BY <2>2 DEF Good, StockIsKeyed
    <2>4. (CHOOSE v \in e.stock : v.id = s.wip) = w
      BY <2>2 DEF Good, StockIsKeyed
    <2> DEFINE v == CHOOSE x \in d.stock : x.id = s.wip
               u == CHOOSE x \in e.stock : x.id = s.wip
    <2>5. Covered(d, s) = Covers[v.kind[1]] /\ Covered(e, s) = Covers[u.kind[1]] /\ u = v
      <3>1. Covered(d, s) = Covers[v.kind[1]]
        BY <1>2 DEF Covered
      <3>2. Covered(e, s) = Covers[u.kind[1]]
        BY <1>2 DEF Covered
      <3>3. u = v
        BY <2>3, <2>4
      <3> HIDE DEF u, v
      <3>4. QED
        BY <3>1, <3>2, <3>3
    <2> HIDE DEF u, v
    <2>6. QED
      BY <2>5
  <1>3. QED
    BY <1>1, <1>2

(* The plan keeps to the routes, and each order has what it needs.         *)
Complete(d, e, run, S) ==
    /\ Routed(d) => Routed(e)
    /\ AllSupplied(e, e.rows, run, S)

(* The batches of some orders are created, where the run has no rows of    *)
(* these orders yet.                                                       *)
LEMMA CreateBatchesIsGood ==
    ASSUME NEW d, Good(d), NEW run \in Nat, NEW S, S \subseteq d.sales,
           \A b \in d.rows : b.run = run /\ b.seq # -1 => \A s \in S : Key(s) # <<b.order, b.line>>,
           NEW e \in CreateBatches(d, run, S)
    PROVE  Good(e) /\ Fair(d, e) /\ Batched(d, e, run) /\ Complete(d, e, run, S)
  <1> DEFINE D == NewRows(d, run, S)
             m == Insert(d, D)
  <1>1. /\ Good(m) /\ Fair(d, m) /\ Adds(d, m, D)
        /\ D \subseteq BatchRows /\ AllSupplied(d, D, run, S)
        /\ \A b \in D : OnRoute(b) /\ Named(b, D)
    <2>1. D = NewRows(d, run, S)
      OBVIOUS
    <2> HIDE DEF D
    <2>2. QED
      BY <2>1, NewRowsAreGood
  <1>2. \A b \in D : b \in BatchRows /\ b.run = run
    <2> TAKE b \in D
    <2>1. S \subseteq SaleRows /\ IsFiniteSet(S) /\ \A s, t \in S : Key(s) = Key(t) => s = t
      <3>1. IsFiniteSet(d.sales) /\ d.sales \subseteq SaleRows
        BY DEF Good, TablesAreFinite, DB
      <3>2. IsFiniteSet(S)
        BY <3>1, FS_Subset
      <3>3. QED
        BY <3>1, <3>2 DEF Good, SalesAreKeyed
    <2>2. NewRow(b, run, S)
      <3>1. CASE b \in StrandRows(run, S)
        BY <2>1, <3>1, StrandRowIsNew
      <3>2. CASE b \in PerOrderRows(d, run, S)
        BY <2>1, <3>2, OrderRowIsNew
      <3>3. QED
        BY <3>1, <3>2 DEF NewRows
    <2>3. QED
      BY <2>2 DEF NewRow, RowIs
  <1>3. e \in Deduplicate(m, run)
    BY DEF CreateBatches, NewRows
  <1> HIDE DEF m, D
  <1>4. Good(e) /\ Fair(m, e) /\ Tidy(m, e, run)
    BY <1>1, <1>3, DeduplicateIsGood
  <1>5. Fair(d, e)
    BY <1>1, <1>4, FairIsTransitive
  <1>6. \A b \in m.rows : b \in d.rows \/ b.run = run
    <2> SUFFICES ASSUME NEW b \in m.rows, b \notin d.rows PROVE b.run = run
      OBVIOUS
    <2>1. PICK c \in D : b = [c EXCEPT !.id = b.id]
      BY <1>1 DEF Adds
    <2>2. c \in BatchRows /\ c.run = run
      BY <1>2
    <2>3. QED
      BY <2>1, <2>2 DEF BatchRows
  <1>7. Batched(d, e, run)
    BY <1>1, <1>4, <1>6 DEF Batched, Tidy, Adds
  <1>8. ASSUME Routed(d) PROVE Routed(e)
    <2>1. Routed(m)
      BY <1>1, <1>8, MoreRouted
    <2>2. Follows(m, e)
      <3>1. \A c \in m.rows : c.seq # -1 => c \in e.rows /\ SameRow(c, c)
        BY <1>4 DEF Tidy, SameRow
      <3>2. \A b \in e.rows : \E c \in m.rows : Stems(b, c)
        BY <1>4 DEF Tidy, Stems
      <3>3. QED
        BY <3>1, <3>2 DEF Follows
    <2>3. e.rows \subseteq BatchRows
      BY <1>4 DEF Good, DB
    <2>4. QED
      BY <2>1, <2>2, <2>3, RoutedFollows
  <1>9. ASSUME NEW s \in S, NEW proc, Makes(s.order, proc) PROVE Supplied(e, e.rows, run, s, proc)
    <2>1. Supplied(d, D, run, s, proc)
      BY <1>1, <1>9 DEF AllSupplied
    <2>2. CASE proc \in Covered(d, s)
      <3>1. d.stock \subseteq e.stock
        BY <1>1, <1>4 DEF Adds, Tidy
      <3>2. Covered(e, s) = Covered(d, s)
        BY <1>4, <3>1, CoveredStays
      <3>3. QED
        BY <2>2, <3>2 DEF Supplied
    <2>3. CASE \E c \in D : c.seq # -1 /\ c.run = run /\ c.order = s.order /\ c.line = s.line /\ c.proc = proc
      <3>1. PICK c \in D : c.seq # -1 /\ c.run = run /\ c.order = s.order /\ c.line = s.line /\ c.proc = proc
        BY <2>3
      <3>2. PICK b \in m.rows : b = [c EXCEPT !.id = b.id]
        BY <1>1 DEF Adds
      <3> DEFINE i == b.id
      <3>3. b = [c EXCEPT !.id = i] /\ c \in BatchRows
        BY <1>1, <3>2
      <3> HIDE DEF i
      <3>4. b.seq = c.seq /\ b.run = c.run /\ b.order = c.order /\ b.line = c.line /\ b.proc = c.proc
        BY <3>3 DEF BatchRows
      <3>5. b \in e.rows
        BY <1>4, <3>1, <3>4 DEF Tidy
      <3>6. QED
        BY <3>1, <3>4, <3>5 DEF Supplied
    <2>4. QED
      BY <2>1, <2>2, <2>3 DEF Supplied
  <1>10. Complete(d, e, run, S)
    BY <1>8, <1>9 DEF Complete, AllSupplied
  <1>11. QED
    BY <1>4, <1>5, <1>7, <1>10

-----------------------------------------------------------------------------
(* Groups that are halved *)

(* The tables have one run.                                                *)
OneRun(d) == \A b, c \in d.rows : b.run = c.run

(* What is neither the header nor taken off stays; no other run gets a row,*)
(* and the run of the header gets one more, that of the second half.       *)
Halved(d, e, h, off) ==
    /\ e.sales = d.sales /\ e.tasks = d.tasks
    /\ \A b \in d.rows : b # h /\ b \notin off => b \in e.rows
    /\ \A b \in off : \E c \in e.rows : Regrouped(b, c)
    /\ \E c \in e.rows : Relotted(h, c)
    /\ \A c \in e.rows : \/ c \in d.rows \/ Relotted(h, c)
                         \/ \E b \in off : Regrouped(b, c)
                         \/ c.seq = -1 /\ c.group = HalfOf(h.group)
    /\ \A b \in e.rows : \E c \in d.rows : b.run = c.run
    /\ OneRun(d) => Follows(d, e)

(* Rows of a group are put into a second half, with a header of its own.   *)
LEMMA SplitOffIsGood ==
    ASSUME NEW d, Good(d), NEW h \in d.rows, h.seq = -1, h.group # Nothing,
           NEW off, off \subseteq d.rows, off # {},
           \A b \in off : b.seq >= 1 /\ b.group = h.group
    PROVE  Good(SplitOff(d, h, off)) /\ Fair(d, SplitOff(d, h, off)) /\ Halved(d, SplitOff(d, h, off), h, off)
  <1> DEFINE rest == {b \in d.rows : b.seq >= 1 /\ b.group = h.group} \ off
             name == HalfOf(h.group)
             s    == CHOOSE b \in off : \A c \in off \ {b} : Earlier(b, c) \/ ~Earlier(c, b)
             new  == [WorkOf(h, off) EXCEPT !.id = 0, !.order = s.order, !.line = s.line, !.group = name,
                                            !.status = "planned", !.wip = Nothing]
             m    == [d EXCEPT !.rows = (@ \ ({h} \cup off)) \cup {WorkOf(h, rest)} \cup {[b EXCEPT !.group = name] : b \in off}]
             f    == [b \in d.rows |-> IF b = h THEN WorkOf(h, rest) ELSE IF b \in off THEN [b EXCEPT !.group = name] ELSE b]
             Z    == {f[b] : b \in d.rows}
             e    == Insert(m, {new})
  <1>1. SplitOff(d, h, off) = e
    BY DEF SplitOff
  <1>2. /\ d \in DB /\ d.rows \subseteq BatchRows /\ d.nextStock \in Nat
        /\ IsFiniteSet(d.rows) /\ RowsHaveOrders(d)
    BY DEF Good, DB, TablesAreFinite
  <1>3. /\ h \in BatchRows /\ h.order \in Order /\ h.run \in Nat
        /\ name \in (Nat \X Range(SqOf) \X Nat)
    <2>1. h \in BatchRows /\ h.order \in Order
      BY <1>2 DEF RowsHaveOrders, HasOrder
    <2>2. h.group \in (Nat \X Range(SqOf) \X Nat) /\ h.run \in Nat
      BY <2>1 DEF BatchRows
    <2>3. QED
      BY <2>1, <2>2 DEF HalfOf
  <1> HIDE DEF name
  <1>4. \A b \in d.rows : b.seq >= 1 => b.seq # -1 /\ b.order \in Order /\ b \in BatchRows
    <2> SUFFICES ASSUME NEW b \in d.rows, b.seq >= 1 PROVE b.seq # -1 /\ b.order \in Order /\ b \in BatchRows
      OBVIOUS
    <2>1. b.seq # -1
      <3>1. -1 < 1
        OBVIOUS
      <3>2. QED
        BY <3>1
    <2>2. QED
      BY <1>2, <2>1 DEF RowsHaveOrders, HasOrder
  <1>5. /\ IsFiniteSet(off) /\ off \subseteq BatchRows /\ \A b \in off : b.order \in Order
        /\ IsFiniteSet(rest) /\ rest \subseteq BatchRows /\ \A b \in rest : b.order \in Order
    <2>1. rest \subseteq d.rows /\ \A b \in rest : b.seq >= 1
      OBVIOUS
    <2> HIDE DEF rest
    <2>2. IsFiniteSet(off) /\ IsFiniteSet(rest)
      BY <1>2, <2>1, FS_Subset
    <2>3. QED
      BY <1>2, <1>4, <2>1, <2>2
  <1>6. s \in off
    <2> DEFINE g == [b \in off |-> b.due]
               k == [b \in off |-> b.order]
    <2>1. ASSUME NEW b \in off PROVE b.due \in Int /\ b.order \in Int
      <3>1. b \in BatchRows /\ b.order \in Order
        BY <1>5
      <3>2. b.due \in Nat
        BY <3>1 DEF BatchRows
      <3>3. b.order \in Nat
        BY <3>1, StockAssumption
      <3>4. QED
        BY <3>2, <3>3
    <2>2. g \in [off -> Int] /\ k \in [off -> Int]
      BY <2>1
    <2>3. \E b \in off : \A c \in off : g[b] < g[c] \/ (g[b] = g[c] /\ k[b] <= k[c])
      <3> HIDE DEF g, k
      <3>1. QED
        BY <1>5, <2>2, BestOfPairs
    <2>4. PICK b \in off : \A c \in off : g[b] < g[c] \/ (g[b] = g[c] /\ k[b] <= k[c])
      BY <2>3
    <2>5. ASSUME NEW c \in off PROVE Earlier(b, c) \/ ~Earlier(c, b)
      <3>1. b.due \in Int /\ b.order \in Int /\ c.due \in Int /\ c.order \in Int
        BY <2>1
      <3>2. g[b] = b.due /\ g[c] = c.due /\ k[b] = b.order /\ k[c] = c.order
        OBVIOUS
      <3>3. g[b] < g[c] \/ (g[b] = g[c] /\ k[b] <= k[c])
        BY <2>4
      <3> HIDE DEF g, k
      <3>4. QED
        BY <3>1, <3>2, <3>3 DEF Earlier
    <2>6. \E x \in off : \A c \in off \ {x} : Earlier(x, c) \/ ~Earlier(c, x)
      BY <2>5
    <2>7. QED
      BY <2>6
  <1> HIDE DEF s
  <1>7. /\ WorkOf(h, rest) \in BatchRows /\ Alike(WorkOf(h, rest), h)
        /\ WorkOf(h, rest).group = h.group /\ WorkOf(h, rest).wip = h.wip
        /\ WorkOf(h, off) \in BatchRows /\ Alike(WorkOf(h, off), h)
        /\ Relotted(h, WorkOf(h, rest))
    <2> HIDE DEF rest
    <2>1. QED
      BY <1>3, <1>5, WorkIsTyped
  <1>8. /\ new \in BatchRows /\ new.seq = -1 /\ new.run = h.run
        /\ HasOrder(new) /\ new.wip = Nothing /\ new.order = s.order /\ new.line = s.line /\ new.group = name
    <2>1. s \in BatchRows /\ s.order \in Order
      BY <1>5, <1>6
    <2>2. s.line \in Nat
      BY <2>1 DEF BatchRows
    <2> DEFINE x == WorkOf(h, off)
               o == s.order
               l == s.line
    <2>3. x \in BatchRows /\ x.seq = -1 /\ x.run = h.run
      BY <1>7 DEF Alike
    <2>4. new = [x EXCEPT !.id = 0, !.order = o, !.line = l, !.group = name, !.status = "planned", !.wip = Nothing]
      OBVIOUS
    <2>5. o \in Order /\ l \in Nat
      BY <2>1, <2>2
    <2> HIDE DEF x, o, l, new
    <2>6. new \in BatchRows
      BY <1>3, <2>3, <2>4, <2>5 DEF BatchRows
    <2>7. new.seq = -1 /\ new.run = h.run /\ new.order = o /\ new.line = l /\ new.wip = Nothing
          /\ new.group = name
      BY <2>3, <2>4 DEF BatchRows
    <2>8. QED
      BY <2>5, <2>6, <2>7 DEF HasOrder, o, l
  <1> HIDE DEF new
  <1>9. ASSUME NEW b \in d.rows
        PROVE  /\ f[b] \in BatchRows /\ Alike(f[b], b) /\ HasOrder(f[b]) /\ f[b].wip = b.wip
               /\ b # h /\ b \notin off => f[b] = b
               /\ b \in off => Regrouped(b, f[b])
               /\ b = h => Relotted(h, f[b])
    <2>1. b \in BatchRows /\ HasOrder(b)
      BY <1>2 DEF RowsHaveOrders
    <2>2. CASE b = h
      <3> DEFINE x == WorkOf(h, rest)
      <3>1. f[b] = x
        BY <2>2
      <3>2. x \in BatchRows /\ Alike(x, h) /\ x.wip = h.wip /\ Relotted(h, x)
        BY <1>7
      <3>4. b \notin off
        BY <1>4, <2>2
      <3> HIDE DEF x, f
      <3>3. QED
        BY <1>3, <2>2, <3>1, <3>2, <3>4 DEF Alike, HasOrder
    <2>3. CASE b # h /\ b \in off
      <3>1. f[b] = [b EXCEPT !.group = name]
        BY <2>3
      <3>2. b.order \in Order
        BY <1>5, <2>3
      <3>6. b.group = h.group /\ name = HalfOf(h.group)
        BY <2>3 DEF name
      <3> HIDE DEF f
      <3>3. f[b] \in BatchRows
        BY <1>3, <2>1, <3>1 DEF BatchRows
      <3>4. Alike(f[b], b) /\ f[b].wip = b.wip
        BY <2>1, <3>1 DEF BatchRows, Alike
      <3>7. Regrouped(b, f[b])
        BY <3>1, <3>6 DEF Regrouped
      <3>5. QED
        BY <2>3, <3>2, <3>3, <3>4, <3>7 DEF HasOrder, Alike
    <2>4. CASE b # h /\ b \notin off
      BY <2>1, <2>4 DEF Alike
    <2>5. QED
      BY <2>2, <2>3, <2>4
  <1>10. (d.rows \ ({h} \cup off)) \cup {WorkOf(h, rest)} \cup {[b EXCEPT !.group = name] : b \in off} = Z
    <2>1. h \notin off
      BY <1>4
    <2> HIDE DEF rest
    <2>2. QED
      BY <2>1
  <1> HIDE DEF f, rest
  <1>11. /\ m \in DB /\ m.sales = d.sales /\ m.stock = d.stock /\ m.tasks = d.tasks
         /\ m.nextRow = d.nextRow /\ m.nextStock = d.nextStock /\ m.rows = Z
    <2>1. Z \subseteq BatchRows
      BY <1>9
    <2>2. m = [d EXCEPT !.rows = Z]
      BY <1>10
    <2> HIDE DEF Z, m
    <2>3. QED
      BY <1>2, <2>1, <2>2 DEF DB
  <1> HIDE DEF m
  <1>12. IsFiniteSet(m.rows) /\ RowsAreKeyed(m) /\ RowsHaveOrders(m) /\ Once(m.rows)
    <2>1. \A b \in d.rows : Alike(f[b], b) /\ HasOrder(f[b])
      BY <1>9
    <2>2. QED
      BY <1>11, <2>1, FewerRows
  <1>13. TasksHold(m)
    <2>1. \A b \in d.rows : f[b] \in m.rows /\ f[b].run = b.run /\ f[b].id = b.id
      BY <1>9, <1>11 DEF Alike
    <2>2. QED
      BY <1>11, <2>1 DEF Good, TasksHold
  <1>14. SourcesHold(m)
    <2>1. \A b \in d.rows : f[b] \in m.rows /\ f[b].id = b.id
      BY <1>9, <1>11 DEF Alike
    <2>2. QED
      BY <1>11, <2>1 DEF Good, SourcesHold
  <1>15. WipsHold(m)
    <2>1. ASSUME NEW x \in m.rows PROVE Holds(x, m)
      <3>1. PICK b \in d.rows : x = f[b]
        BY <1>11
      <3>2. x.wip = b.wip /\ Holds(b, d)
        BY <1>9, <3>1 DEF Good, WipsHold
      <3>3. QED
        BY <1>11, <3>2 DEF Holds
    <2>2. ASSUME NEW x \in m.sales PROVE Holds(x, m)
      BY <1>11 DEF Good, WipsHold, Holds
    <2>3. QED
      BY <2>1, <2>2 DEF WipsHold
  <1>16. Good(m)
    <2>1. TablesAreFinite(m) /\ SalesAreKeyed(m) /\ StockIsKeyed(m)
      BY <1>11, <1>12 DEF Good, TablesAreFinite, SalesAreKeyed, StockIsKeyed
    <2>2. QED
      BY <1>11, <1>12, <1>13, <1>14, <1>15, <2>1 DEF Good
  <1>17. Fair(d, m)
    <2>1. \A s_1 \in m.sales : s_1.wip # Nothing => \E t \in d.sales : Key(t) = Key(s_1) /\ t.wip = s_1.wip
      BY <1>11
    <2>2. QED
      BY <1>2, <1>11, <2>1, FairIfSame
  <1> DEFINE N == {new}
  <1>18. Good(e) /\ Fair(m, e) /\ Adds(m, e, N)
    <2>1. IsFiniteSet(N) /\ N \subseteq BatchRows
      BY <1>8, FS_Singleton
    <2>2. \A b \in N : HasOrder(b) /\ Holds(b, m)
      BY <1>8 DEF Holds
    <2>3. \A b, c \in N : Rank(b) = Rank(c) => b = c
      OBVIOUS
    <2>4. Once(m.rows \cup N)
      BY <1>8, <1>12 DEF Once, SameRow
    <2>5. \A b \in N : b.seq # -1 => b \notin m.rows /\ \A c \in m.rows : ~SameRow(b, c)
      BY <1>8
    <2> HIDE DEF N
    <2>6. Good(Insert(m, N)) /\ Fair(m, Insert(m, N)) /\ Adds(m, Insert(m, N), N)
      BY <1>16, <2>1, <2>2, <2>3, <2>4, <2>5, InsertIsGood
    <2>7. QED
      BY <2>6 DEF N
  <1> HIDE DEF e
  <1>19. Fair(d, e)
    BY <1>16, <1>17, <1>18, FairIsTransitive
  <1>20. Halved(d, e, h, off)
    <2>1. e.sales = d.sales /\ e.tasks = d.tasks /\ m.rows \subseteq e.rows
      BY <1>11, <1>18 DEF Adds
    <2>2. \A b \in d.rows : b # h /\ b \notin off => b \in e.rows
      BY <1>9, <1>11, <2>1
    <2>3. ASSUME NEW x \in e.rows PROVE \E c \in d.rows : x.run = c.run
      <3>1. CASE x \in m.rows
        <4>1. PICK b \in d.rows : x = f[b]
          BY <1>11, <3>1
        <4>2. QED
          BY <1>9, <4>1 DEF Alike
      <3>2. CASE x \notin m.rows
        <4>1. x = [new EXCEPT !.id = x.id]
          BY <1>18, <3>2 DEF Adds
        <4>2. x.run = h.run
          BY <1>8, <4>1 DEF BatchRows
        <4>3. QED
          BY <4>2
      <3>3. QED
        BY <3>1, <3>2
    <2>4. ASSUME OneRun(d) PROVE Follows(d, e)
      <3>1. ASSUME NEW x \in e.rows PROVE \E c \in d.rows : Stems(x, c)
        <4>1. CASE x \in m.rows
          <5>1. PICK b \in d.rows : x = f[b]
            BY <1>11, <4>1
          <5>2. SameRow(x, b)
            BY <1>9, <5>1 DEF Alike, SameRow
          <5>3. QED
            BY <5>2 DEF Stems
        <4>2. CASE x \notin m.rows
          <5>1. x = [new EXCEPT !.id = x.id]
            BY <1>18, <4>2 DEF Adds
          <5> DEFINE i == x.id
          <5>2. x = [new EXCEPT !.id = i]
            BY <5>1
          <5> HIDE DEF i
          <5>3. x.run = h.run /\ x.seq = -1 /\ x.order = s.order /\ x.line = s.line
            BY <1>8, <5>2 DEF BatchRows
          <5>4. s \in d.rows /\ s.seq # -1 /\ h.run = s.run
            BY <1>4, <1>6, <2>4 DEF OneRun
          <5>5. QED
            BY <5>3, <5>4 DEF Stems
        <4>3. QED
          BY <4>1, <4>2
      <3>2. ASSUME NEW c \in d.rows PROVE \E b \in e.rows : SameRow(b, c)
        <4>1. f[c] \in e.rows /\ SameRow(f[c], c)
          BY <1>9, <1>11, <2>1 DEF Alike, SameRow
        <4>2. QED
          BY <4>1
      <3>3. QED
        BY <3>1, <3>2 DEF Follows
    <2>5. \A b \in off : \E c \in e.rows : Regrouped(b, c)
      BY <1>9, <1>11, <2>1
    <2>6. \E c \in e.rows : Relotted(h, c)
      BY <1>9, <1>11, <2>1
    <2>7. ASSUME NEW c \in e.rows
          PROVE  \/ c \in d.rows \/ Relotted(h, c)
                 \/ \E b \in off : Regrouped(b, c)
                 \/ c.seq = -1 /\ c.group = HalfOf(h.group)
      <3>1. CASE c \in m.rows
        BY <1>9, <1>11, <3>1
      <3>2. CASE c \notin m.rows
        <4>1. c = [new EXCEPT !.id = c.id]
          BY <1>18, <3>2 DEF Adds
        <4> DEFINE i == c.id
        <4>2. c = [new EXCEPT !.id = i]
          BY <4>1
        <4> HIDE DEF i
        <4>3. c.seq = -1 /\ c.group = name
          BY <1>8, <4>2 DEF BatchRows
        <4>4. QED
          BY <4>3 DEF name
      <3>3. QED
        BY <3>1, <3>2
    <2>8. QED
      BY <2>1, <2>2, <2>3, <2>4, <2>5, <2>6, <2>7 DEF Halved
  <1>21. QED
    BY <1>1, <1>18, <1>19, <1>20

(* The rows that go to the second half are of the group.                   *)
LEMMA HalfIsPart ==
    ASSUME NEW d, NEW run, NEW g
    PROVE  SecondHalf(d, run, g) \subseteq {b \in OrderRows(d, run) : b.group = g.group}
  BY DEF SecondHalf

(* One group is split, in each of the plans D.                             *)
Halves(d, D, run, g) ==
    UNION {{SplitOff(e, h, SecondHalf(d, run, g)) : h \in {x \in e.rows : x.seq = -1 /\ x.group = g.group}} : e \in D}

(* There is a row of the run in the group g that was not in it before.     *)
HalfMade(d, e, run, g) == \E x \in e.rows \ d.rows : x.run = run /\ x.seq >= 1 /\ x.group = g

(* What splits make of a row: nothing, a row of the run in a second half,  *)
(* or a header of whichever run, of whose group there is a second half.    *)
Divided(d, e, run, b, c) ==
    \/ c = b
    \/ b.run = run /\ b.seq >= 1 /\ b.group # Nothing /\ Regrouped(b, c)
    \/ b.seq = -1 /\ b.group # Nothing /\ Relotted(b, c) /\ HalfMade(d, e, run, HalfOf(b.group))

Parted(d, e, run) ==
    /\ e.tasks = d.tasks
    /\ \A b \in d.rows : \E c \in e.rows : Divided(d, e, run, b, c)
    /\ \A c \in e.rows : \/ \E b \in d.rows : Divided(d, e, run, b, c)
                         \/ c.seq = -1 /\ HalfMade(d, e, run, c.group)

(* The groups of G are not split yet.                                      *)
Splitting(d, e, run, G) ==
    /\ Parted(d, e, run)
    /\ Good(e) /\ Fair(d, e) /\ e.sales = d.sales /\ e.tasks = d.tasks
    /\ \A b \in e.rows : \E c \in d.rows : b.run = c.run
    /\ OneRun(d) => Follows(d, e)
    /\ \A g \in G : SecondHalf(d, run, g) \subseteq e.rows

LEMMA RowsRemain ==
    ASSUME NEW b \in BatchRows, NEW c
    PROVE  /\ Regrouped(b, c) \/ Relotted(b, c) => Alike(c, b) /\ c.status = b.status
           /\ Regrouped(b, c) => c.group = HalfOf(b.group)
           /\ Relotted(b, c) => c.group = b.group
  <1>1. ASSUME Regrouped(b, c) PROVE Alike(c, b) /\ c.status = b.status /\ c.group = HalfOf(b.group)
    BY <1>1 DEF Regrouped, BatchRows, Alike
  <1>2. ASSUME Relotted(b, c) PROVE Alike(c, b) /\ c.status = b.status /\ c.group = b.group
    <2> DEFINE l == c.lots
               s == c.surplus
               m == c.due
    <2>1. c = [b EXCEPT !.lots = l, !.surplus = s, !.due = m]
      BY <1>2 DEF Relotted
    <2> HIDE DEF l, s, m
    <2>2. QED
      BY <2>1 DEF BatchRows, Alike
  <1>3. QED
    BY <1>1, <1>2

(* One more split parts the rows further.                                  *)
LEMMA PartedOnce ==
    ASSUME NEW d, Good(d), NEW e, Good(e), NEW x, NEW run, Parted(d, e, run),
           NEW h \in e.rows, h.seq = -1, h.group # Nothing,
           NEW off, off # {}, off \subseteq e.rows, off \subseteq OrderRows(d, run),
           \A b \in off : b.group = h.group, Halved(e, x, h, off)
    PROVE  Parted(d, x, run)
  <1>1. d.rows \subseteq BatchRows /\ e.rows \subseteq BatchRows /\ off \subseteq d.rows
        /\ \A b \in off : b.seq >= 1 /\ b.run = run
    BY DEF Good, DB, OrderRows, RowsOf
  <1>2. ~(-1 >= 1)
    OBVIOUS
  <1>3. ASSUME NEW b \in off, NEW c, Regrouped(b, c)
        PROVE  c \notin d.rows /\ c.run = run /\ c.seq >= 1 /\ c.group = HalfOf(h.group) /\ c.id = b.id
    <2>1. b \in BatchRows /\ b.group = h.group
      BY <1>1
    <2>2. c.id = b.id /\ c.run = b.run /\ c.seq = b.seq /\ c.group = HalfOf(b.group)
      BY <1>3, <2>1, RowsRemain DEF Alike
    <2>3. HalfOf(b.group) # b.group
      <3>1. b.group \in (Nat \X Range(SqOf) \X Nat)
        BY <2>1 DEF BatchRows
      <3>2. HalfOf(b.group)[3] = b.group[3] + 1 /\ b.group[3] \in Nat
        BY <3>1 DEF HalfOf
      <3>3. b.group[3] + 1 # b.group[3]
        BY <3>2
      <3>4. QED
        BY <3>2, <3>3
    <2>4. c \notin d.rows
      <3>1. SUFFICES ASSUME c \in d.rows PROVE FALSE
        OBVIOUS
      <3>2. c = b
        BY <1>1, <2>2, <3>1 DEF Good, RowsAreKeyed
      <3>3. QED
        BY <2>2, <2>3, <3>2
    <2>5. QED
      BY <1>1, <2>1, <2>2, <2>4
  <1>4. HalfMade(d, x, run, HalfOf(h.group))
    <2>1. PICK b \in off : TRUE
      OBVIOUS
    <2>2. PICK c \in x.rows : Regrouped(b, c)
      BY DEF Halved
    <2>3. QED
      BY <1>3, <2>2 DEF HalfMade
  <1>5. ASSUME NEW g, HalfMade(d, e, run, g) PROVE HalfMade(d, x, run, g)
    <2>1. PICK y \in e.rows \ d.rows : y.run = run /\ y.seq >= 1 /\ y.group = g
      BY <1>5 DEF HalfMade
    <2>2. y # h /\ y \notin off
      BY <1>1, <1>2, <2>1
    <2>3. y \in x.rows
      BY <2>1, <2>2 DEF Halved
    <2>4. QED
      BY <2>1, <2>3 DEF HalfMade
  <1>6. ASSUME NEW b, NEW c, Divided(d, e, run, b, c) PROVE Divided(d, x, run, b, c)
    BY <1>5, <1>6 DEF Divided
  <1>7. ASSUME NEW b \in d.rows, NEW c, Divided(d, e, run, b, c)
        PROVE  /\ b \in BatchRows /\ c.id = b.id /\ c.seq = b.seq
               /\ c \in off => c = b
               /\ c = h => b.seq = -1 /\ b.group = h.group /\ (c = b \/ Relotted(b, c))
    <2>1. b \in BatchRows
      BY <1>1
    <2>2. c = b \/ Regrouped(b, c) \/ Relotted(b, c)
      BY <1>7 DEF Divided
    <2>3. c.id = b.id /\ c.seq = b.seq
      BY <2>1, <2>2, RowsRemain DEF Alike
    <2>4. c \in off => c = b
      BY <1>1, <2>3 DEF Good, RowsAreKeyed
    <2>5. ASSUME c = h PROVE b.seq = -1 /\ b.group = h.group /\ (c = b \/ Relotted(b, c))
      <3>1. b.seq = -1
        BY <2>3, <2>5
      <3>2. c = b \/ Relotted(b, c)
        BY <1>2, <1>7, <3>1 DEF Divided
      <3>3. QED
        BY <2>1, <2>5, <3>1, <3>2, RowsRemain
    <2>6. QED
      BY <2>1, <2>3, <2>4, <2>5
  <1>8. ASSUME NEW b \in BatchRows, NEW c, NEW y, c = b \/ Relotted(b, c), Relotted(c, y)
        PROVE  Relotted(b, y)
    <2> DEFINE l == c.lots
               s == c.surplus
               m == c.due
               l2 == y.lots
               s2 == y.surplus
               m2 == y.due
    <2>1. y = [c EXCEPT !.lots = l2, !.surplus = s2, !.due = m2]
      BY <1>8 DEF Relotted
    <2>2. c = b \/ c = [b EXCEPT !.lots = l, !.surplus = s, !.due = m]
      BY <1>8 DEF Relotted
    <2> HIDE DEF l, s, m
    <2>3. SUFFICES y = [b EXCEPT !.lots = l2, !.surplus = s2, !.due = m2]
      BY DEF Relotted
    <2> HIDE DEF l2, s2, m2
    <2>4. QED
      BY <2>1, <2>2 DEF BatchRows
  <1>9. ASSUME NEW b \in d.rows PROVE \E y \in x.rows : Divided(d, x, run, b, y)
    <2>1. PICK c \in e.rows : Divided(d, e, run, b, c)
      BY DEF Parted
    <2>2. CASE c = h
      <3>1. PICK y \in x.rows : Relotted(h, y)
        BY DEF Halved
      <3>2. b \in BatchRows /\ b.seq = -1 /\ b.group = h.group /\ Relotted(b, y)
        BY <1>7, <1>8, <2>1, <2>2, <3>1
      <3>3. QED
        BY <1>4, <3>2 DEF Divided
    <2>3. CASE c \in off
      <3>1. PICK y \in x.rows : Regrouped(c, y)
        BY <2>3 DEF Halved
      <3>2. c = b /\ b.run = run /\ b.seq >= 1 /\ b.group # Nothing
        BY <1>1, <1>7, <2>1, <2>3
      <3>3. QED
        BY <3>1, <3>2 DEF Divided
    <2>4. CASE c # h /\ c \notin off
      <3>1. c \in x.rows
        BY <2>4 DEF Halved
      <3>2. QED
        BY <1>6, <2>1, <3>1
    <2>5. QED
      BY <2>2, <2>3, <2>4
  <1>10. ASSUME NEW y \in x.rows
         PROVE  \/ \E b \in d.rows : Divided(d, x, run, b, y)
                \/ y.seq = -1 /\ HalfMade(d, x, run, y.group)
    <2>1. CASE y \in e.rows
      <3>1. CASE \E b \in d.rows : Divided(d, e, run, b, y)
        BY <1>6, <3>1
      <3>2. CASE y.seq = -1 /\ HalfMade(d, e, run, y.group)
        BY <1>5, <3>2
      <3>3. QED
        BY <2>1, <3>1, <3>2 DEF Parted
    <2>2. CASE Relotted(h, y)
      <3>1. h \in BatchRows
        BY <1>1
      <3>2. y.seq = -1 /\ y.group = h.group
        BY <2>2, <3>1, RowsRemain DEF Alike
      <3>3. CASE h.seq = -1 /\ HalfMade(d, e, run, h.group)
        BY <1>5, <3>2, <3>3
      <3>4. CASE \E b \in d.rows : Divided(d, e, run, b, h)
        <4>1. PICK b \in d.rows : Divided(d, e, run, b, h)
          BY <3>4
        <4>2. b \in BatchRows /\ b.seq = -1 /\ b.group = h.group /\ (h = b \/ Relotted(b, h))
          BY <1>7, <4>1
        <4>3. Relotted(b, y)
          BY <1>8, <2>2, <4>2
        <4>4. QED
          BY <1>4, <4>2, <4>3 DEF Divided
      <3>5. QED
        BY <3>3, <3>4 DEF Parted
    <2>3. CASE \E b \in off : Regrouped(b, y)
      <3>1. PICK b \in off : Regrouped(b, y)
        BY <2>3
      <3>2. b \in d.rows /\ b.run = run /\ b.seq >= 1 /\ b.group # Nothing
        BY <1>1
      <3>3. QED
        BY <3>1, <3>2 DEF Divided
    <2>4. CASE y.seq = -1 /\ y.group = HalfOf(h.group)
      BY <1>4, <2>4
    <2>5. QED
      BY <2>1, <2>2, <2>3, <2>4 DEF Halved
  <1>11. QED
    BY <1>9, <1>10 DEF Parted, Halved

(* Splitting one group leaves the rows of the others to be split.          *)
LEMMA OneMoreSplit ==
    ASSUME NEW d, Good(d), NEW run, NEW late, \A g, h \in HeadersOf(d, run) : g.group = h.group => g = h,
           NEW G, G \subseteq TooLong(d, run, late), NEW g \in TooLong(d, run, late), g \notin G,
           NEW D, \A e \in D : Splitting(d, e, run, G \cup {g}),
           NEW x \in Halves(d, D, run, g)
    PROVE  Splitting(d, x, run, G)
  <1> DEFINE off == SecondHalf(d, run, g)
  <1>1. PICK e \in D : \E h \in e.rows : h.seq = -1 /\ h.group = g.group /\ x = SplitOff(e, h, off)
    BY DEF Halves
  <1>2. PICK h \in e.rows : h.seq = -1 /\ h.group = g.group /\ x = SplitOff(e, h, off)
    BY <1>1
  <1>3. Splitting(d, e, run, G \cup {g})
    OBVIOUS
  <1>4. Good(e) /\ off \subseteq e.rows
    BY <1>3 DEF Splitting
  <1>5. g \in HeadersOf(d, run) /\ g.group # Nothing /\ off # {}
    BY DEF TooLong, HeadersOf
  <1>6. \A b \in off : b.seq >= 1 /\ b.group = g.group
    BY HalfIsPart DEF OrderRows
  <1> HIDE DEF off
  <1>7. Good(x) /\ Fair(e, x) /\ Halved(e, x, h, off)
    BY <1>2, <1>4, <1>5, <1>6, SplitOffIsGood
  <1>8. ASSUME NEW k \in G PROVE SecondHalf(d, run, k) \subseteq x.rows
    <2>1. k \in HeadersOf(d, run) /\ k # g
      BY DEF TooLong
    <2>2. k.group # g.group
      BY <1>5, <2>1
    <2>3. SecondHalf(d, run, k) \subseteq e.rows
      BY <1>3 DEF Splitting
    <2>4. ASSUME NEW b \in SecondHalf(d, run, k) PROVE b \in x.rows
      <3>1. b.seq >= 1 /\ b.group = k.group
        BY HalfIsPart DEF OrderRows
      <3>2. b # h
        <4>1. ~(-1 >= 1)
          OBVIOUS
        <4>2. QED
          BY <1>2, <3>1, <4>1
      <3>3. b \notin off
        BY <1>6, <2>2, <3>1
      <3>4. QED
        BY <1>7, <2>3, <3>2, <3>3 DEF Halved
    <2>5. QED
      BY <2>4
  <1>9. QED
    <2>1. Fair(d, x)
      BY <1>3, <1>4, <1>7, FairIsTransitive DEF Splitting
    <2>2. x.sales = d.sales /\ x.tasks = d.tasks
      BY <1>3, <1>7 DEF Splitting, Halved
    <2>3. \A b \in x.rows : \E c \in d.rows : b.run = c.run
      BY <1>3, <1>7 DEF Splitting, Halved
    <2>4. ASSUME OneRun(d) PROVE Follows(d, x)
      <3>1. OneRun(e) /\ Follows(d, e)
        BY <1>3, <2>4 DEF Splitting, OneRun
      <3>2. Follows(e, x)
        BY <1>7, <3>1 DEF Halved
      <3>3. QED
        BY <3>1, <3>2, FollowsIsTransitive
    <2>5. Parted(d, x, run)
      <3>1. off \subseteq OrderRows(d, run)
        BY HalfIsPart DEF off
      <3>2. \A b \in off : b.group = h.group
        BY <1>2, <1>6
      <3>3. Parted(d, e, run)
        BY <1>3 DEF Splitting
      <3>4. QED
        BY <1>2, <1>4, <1>5, <1>7, <3>1, <3>2, <3>3, PartedOnce
    <2>6. QED
      BY <1>7, <1>8, <2>1, <2>2, <2>3, <2>4, <2>5 DEF Splitting

(* All groups are split, one after the other.                              *)
LEMMA AutoSplitIsGood ==
    ASSUME NEW d, Good(d), NEW run, NEW late, \A g, h \in HeadersOf(d, run) : g.group = h.group => g = h,
           NEW e \in AutoSplit(d, run, late)
    PROVE  Splitting(d, e, run, {}) /\ (late = {} => e = d)
  <1> DEFINE S    == TooLong(d, run, late)
             some(G) == CHOOSE g \in G : TRUE
             pick == [G \in SUBSET S |-> some(G)]
             X    == [G \in SUBSET S |-> {D \in SUBSET DB : \A x \in D : Splitting(d, x, run, S \ G)}]
             step == [g \in S |-> [D \in SUBSET DB |-> Halves(d, D, run, g)]]
             Body(f) == [G \in SUBSET S |-> IF G = {} THEN {d} ELSE Halves(d, f[G \ {some(G)}], run, some(G))]
             iter == CHOOSE f : f = Body(f)
             P    == {G \in SUBSET S : iter[G] \in X[G]}
  <1>1. AutoSplit(d, run, late) = iter[S]
    BY DEF AutoSplit, FoldSet, MapThenFoldSet, Halves
  <1>2. IsFiniteSet(S)
    <2>1. S \subseteq d.rows
      BY DEF TooLong, HeadersOf, RowsOf
    <2> HIDE DEF S
    <2>2. QED
      BY <2>1, FS_Subset DEF Good, TablesAreFinite
  <1>3. \A G \in SUBSET S : G # {} => pick[G] \in G
    OBVIOUS
  <1>4. {d} \in X[{}]
    <2>1. d \in DB /\ d.nextStock \in Nat
      BY DEF Good, DB
    <2>2. Fair(d, d)
      <3>1. \A s \in d.sales : s.wip # Nothing => \E t \in d.sales : Key(t) = Key(s) /\ t.wip = s.wip
        OBVIOUS
      <3>2. QED
        BY <2>1, <3>1, FairIfSame
    <2>3. \A g \in S : SecondHalf(d, run, g) \subseteq d.rows
      BY HalfIsPart DEF OrderRows, RowsOf
    <2> HIDE DEF S
    <2>4. Follows(d, d)
      BY DEF Follows, Stems, SameRow
    <2>8. Parted(d, d, run)
      BY DEF Parted, Divided
    <2>5. Splitting(d, d, run, S)
      BY <2>2, <2>3, <2>4, <2>8 DEF Splitting
    <2>6. S \ {} = S
      OBVIOUS
    <2>7. QED
      BY <2>1, <2>5, <2>6
  <1>5. ASSUME NEW G \in SUBSET S, NEW g \in G, NEW D \in X[G \ {g}]
        PROVE  Halves(d, D, run, g) \in X[G] /\ step[g][D] = Halves(d, D, run, g)
    <2>1. g \in S /\ G \ {g} \in SUBSET S
      OBVIOUS
    <2> DEFINE U == S \ G
    <2>2. U \subseteq S /\ g \notin U /\ S \ (G \ {g}) = U \cup {g}
      BY <2>1
    <2>3. D \in SUBSET DB /\ \A x \in D : Splitting(d, x, run, U \cup {g})
      BY <2>1, <2>2
    <2>4. ASSUME NEW x \in Halves(d, D, run, g) PROVE Splitting(d, x, run, U)
      <3> HIDE DEF U
      <3>1. QED
        BY <2>1, <2>2, <2>3, OneMoreSplit
    <2>5. \A x \in Halves(d, D, run, g) : x \in DB
      BY <2>4 DEF Splitting, Good
    <2>6. Halves(d, D, run, g) \in X[G]
      BY <2>4, <2>5
    <2> HIDE DEF S
    <2>7. step[g][D] = Halves(d, D, run, g)
      BY <2>1, <2>3
    <2>8. QED
      BY <2>6, <2>7
  <1> HIDE DEF S
  <1>6. PICK f : IsFold(f, S, X, {d}, pick, step)
    <2>1. \A G \in SUBSET S : G # {} => \A D \in X[G \ {pick[G]}] : step[pick[G]][D] \in X[G]
      <3> TAKE G \in SUBSET S
      <3>1. SUFFICES ASSUME G # {}, NEW D \in X[G \ {pick[G]}] PROVE step[pick[G]][D] \in X[G]
        OBVIOUS
      <3>2. pick[G] \in G
        BY <1>3, <3>1
      <3> HIDE DEF pick, X, step
      <3>3. QED
        BY <1>5, <3>1, <3>2
    <2> HIDE DEF pick, X, step
    <2>2. QED
      BY <1>2, <1>3, <1>4, <2>1, FoldExists, Zenon
  <1>7. f = Body(f)
    <2>1. ASSUME NEW G \in SUBSET S, G # {} PROVE f[G] = Halves(d, f[G \ {pick[G]}], run, pick[G])
      <3>1. f[G] = step[pick[G]][f[G \ {pick[G]}]] /\ f[G \ {pick[G]}] \in X[G \ {pick[G]}]
        BY <1>6, <2>1 DEF IsFold
      <3>2. pick[G] \in G
        BY <1>3, <2>1
      <3> HIDE DEF pick, X, step
      <3>3. QED
        BY <1>5, <3>1, <3>2
    <2>2. f[{}] = {d} /\ f = [G \in SUBSET S |-> f[G]]
      BY <1>6 DEF IsFold
    <2> HIDE DEF some
    <2>3. QED
      BY <2>1, <2>2
  <1>8. iter = Body(iter)
    <2> HIDE DEF Body
    <2>1. QED
      BY <1>7
  <1>9. ASSUME NEW G \in SUBSET S
        PROVE  iter[G] = IF G = {} THEN {d} ELSE Halves(d, iter[G \ {pick[G]}], run, pick[G])
    <2>1. iter[G] = Body(iter)[G]
      <3> HIDE DEF iter, Body
      <3>1. QED
        BY <1>8
    <2> HIDE DEF iter
    <2>2. Body(iter)[G] = IF G = {} THEN {d} ELSE Halves(d, iter[G \ {pick[G]}], run, pick[G])
      OBVIOUS
    <2> HIDE DEF Body, pick
    <2>3. QED
      BY <2>1, <2>2
  <1> HIDE DEF iter
  <1>10. ASSUME NEW G \in SUBSET S, \A x \in G : G \ {x} \in P PROVE G \in P
    <2>1. CASE G = {}
      <3>1. iter[G] = {d}
        BY <1>9, <2>1
      <3> HIDE DEF X
      <3>2. QED
        BY <1>4, <2>1, <3>1
    <2>2. CASE G # {}
      <3>1. pick[G] \in G
        BY <1>3, <2>2
      <3> HIDE DEF X, pick
      <3>2. iter[G \ {pick[G]}] \in X[G \ {pick[G]}]
        BY <1>10, <3>1
      <3>3. Halves(d, iter[G \ {pick[G]}], run, pick[G]) \in X[G]
        BY <1>5, <3>1, <3>2
      <3>4. QED
        BY <1>9, <2>2, <3>3
    <2>3. QED
      BY <2>1, <2>2
  <1>11. S \in P
    <2> HIDE DEF P
    <2>1. QED
      BY <1>2, <1>10, SetInduction
  <1>12. Splitting(d, e, run, {})
    <2>1. S \ S = {}
      OBVIOUS
    <2>2. QED
      BY <1>1, <1>11, <2>1
  <1>13. ASSUME late = {} PROVE e = d
    <2>1. S = {}
      BY <1>13 DEF S, TooLong
    <2>2. iter[S] = {d}
      BY <1>9, <2>1
    <2>3. QED
      BY <1>1, <2>2
  <1>14. QED
    BY <1>12, <1>13

-----------------------------------------------------------------------------
(* Orders *)

(* Stock that an order is on is gone.                                      *)
Taken(d) == \A s \in d.sales, w \in d.stock : w.id = s.wip => w.status \in Gone

(* What is fair keeps it so.                                               *)
LEMMA TakenIsKept ==
    ASSUME NEW d, Good(d), Taken(d), NEW e, Good(e), Fair(d, e)
    PROVE  Taken(e)
  <1> SUFFICES ASSUME NEW s \in e.sales, NEW w \in e.stock, w.id = s.wip PROVE w.status \in Gone
    BY DEF Taken
  <1>1. w.id \in Nat /\ s.wip # Nothing /\ d.nextStock \in Nat
    BY StockAssumption DEF Good, DB, StockRows
  <1> DEFINE p == <<Key(s), s.wip>>
  <1>2. p \in OnStock(e) /\ p[2] = w.id
    BY <1>1 DEF OnStock
  <1>3. CASE p \notin OnStock(d)
    BY <1>2, <1>3 DEF Fair
  <1>4. CASE p \in OnStock(d)
    <2>1. PICK t \in d.sales : t.wip # Nothing /\ p = <<Key(t), t.wip>>
      BY <1>4 DEF OnStock
    <2>2. t.wip = w.id
      BY <1>2, <2>1
    <2>3. PICK v \in d.stock : v.id = w.id
      BY <1>1, <2>1, <2>2 DEF Good, WipsHold, Holds
    <2>4. v.status \in Gone /\ v.id < d.nextStock
      BY <2>2, <2>3 DEF Taken, Good, StockIsKeyed
    <2>5. ~(w.id >= d.nextStock)
      BY <1>1, <2>3, <2>4
    <2>6. PICK u \in d.stock : u.id = w.id /\ (u.status \in Gone => w.status \in Gone)
      BY <2>5 DEF Fair
    <2>7. u = v
      BY <2>3, <2>6 DEF Good, StockIsKeyed
    <2>8. QED
      BY <2>4, <2>6, <2>7
  <1>5. QED
    BY <1>3, <1>4

(* What an order gets that had none was not gone.                          *)
LEMMA FairIsOnce ==
    ASSUME NEW d, Good(d), Taken(d), NEW e, Fair(d, e),
           NEW p \in OnStock(e) \ OnStock(d), NEW q \in OnStock(d)
    PROVE  p[2] # q[2]
  <1> SUFFICES ASSUME p[2] = q[2] PROVE FALSE
    OBVIOUS
  <1>1. PICK t \in d.sales : t.wip # Nothing /\ q = <<Key(t), t.wip>>
    BY DEF OnStock
  <1>2. PICK v \in d.stock : v.id = t.wip
    BY <1>1 DEF Good, WipsHold, Holds
  <1>3. v.status \in Gone /\ v.id < d.nextStock /\ v.id \in Nat /\ d.nextStock \in Nat
    BY <1>2 DEF Taken, Good, StockIsKeyed, DB, StockRows
  <1>4. p[2] = v.id
    BY <1>1, <1>2
  <1>5. ~(p[2] >= d.nextStock)
    BY <1>3, <1>4
  <1>6. PICK u \in d.stock : u.id = p[2] /\ u.status \notin Gone
    BY <1>5 DEF Fair
  <1>7. u = v
    BY <1>2, <1>4, <1>6 DEF Good, StockIsKeyed
  <1>8. QED
    BY <1>3, <1>6, <1>7

(* The orders of a file get lines of their own, and no stock.              *)
LEMMA ParsedIsTyped ==
    ASSUME NEW d, Good(d), NEW run \in Nat, NEW file \in Seq(Order)
    PROVE  /\ IsFiniteSet(Parsed(d, run, file)) /\ Parsed(d, run, file) \subseteq SaleRows
           /\ \A s \in Parsed(d, run, file) : s.wip = Nothing /\ s.run = run
           /\ \A s, t \in Parsed(d, run, file) : Key(s) = Key(t) => s = t
  <1> DEFINE I     == Unknown(d, run, file)
             final  == LastLine(d, run)
             upto  == [i \in I |-> {j \in I : j <= i}]
             place == [i \in I |-> Cardinality(upto[i])]
             f     == [i \in I |-> [order |-> file[i], line |-> final + place[i], run |-> run,
                                    use |-> Nothing, wip |-> Nothing]]
             P     == {f[i] : i \in I}
  <1>1. Parsed(d, run, file) = P
    BY DEF Parsed
  <1>2. IsFiniteSet(I) /\ \A i \in I : i \in Nat /\ file[i] \in Order
    <2>1. DOMAIN file = 1 .. Len(file) /\ Len(file) \in Nat /\ \A i \in DOMAIN file : file[i] \in Order
      OBVIOUS
    <2>2. I \subseteq DOMAIN file
      BY DEF Unknown
    <2> HIDE DEF I
    <2>3. IsFiniteSet(DOMAIN file)
      BY <2>1, FS_Interval
    <2>4. IsFiniteSet(I)
      BY <2>2, <2>3, FS_Subset
    <2>5. \A i \in DOMAIN file : i \in Nat
      BY <2>1
    <2>6. QED
      BY <2>1, <2>2, <2>4, <2>5
  <1> HIDE DEF I
  <1>3. final \in Nat
    <2> DEFINE S == {x \in d.sales : x.run = run}
               line == [s \in S |-> s.line]
               L == {s.line : s \in S}
               M == {0} \cup L
    <2>1. IsFiniteSet(S) /\ S \subseteq SaleRows
      BY FS_Subset DEF Good, TablesAreFinite, DB
    <2>2. L = {line[s] : s \in S}
      OBVIOUS
    <2>3. IsFiniteSet(L)
      <3> HIDE DEF L, line, S
      <3>1. QED
        BY <2>1, <2>2, ImageIsFinite
    <2>4. L \subseteq Nat
      BY <2>1 DEF SaleRows
    <2>5. final = Max(M)
      BY DEF LastLine
    <2> HIDE DEF L, final
    <2>6. IsFiniteSet(M) /\ M # {} /\ \A n \in M : n \in Nat
      <3>1. IsFiniteSet({0})
        BY FS_Singleton
      <3>2. IsFiniteSet(M)
        BY <2>3, <3>1, FS_Union
      <3>3. QED
        BY <2>4, <3>2
    <2> HIDE DEF M
    <2>7. M \subseteq Int
      BY <2>6
    <2>8. Max(M) \in M
      BY <2>6, <2>7, MaxIsIn
    <2>9. QED
      BY <2>5, <2>6, <2>8
  <1> HIDE DEF final
  <1>4. \A i \in I : IsFiniteSet(upto[i]) /\ place[i] \in Nat
    <2> TAKE i \in I
    <2>1. upto[i] \subseteq I
      OBVIOUS
    <2> HIDE DEF upto
    <2>2. IsFiniteSet(upto[i]) /\ Cardinality(upto[i]) \in Nat
      BY <1>2, <2>1, FS_Subset, FS_CardinalityType
    <2>3. QED
      BY <2>2
  <1>5. ASSUME NEW i \in I, NEW j \in I, i < j PROVE place[i] < place[j]
    <2>1. i \in Nat /\ j \in Nat
      BY <1>2
    <2>2. upto[i] \subseteq upto[j]
      <3> SUFFICES ASSUME NEW k \in I, k <= i PROVE k <= j
        OBVIOUS
      <3>1. k \in Nat
        BY <1>2
      <3>2. QED
        BY <1>5, <2>1, <3>1
    <2>3. j \in upto[j] /\ j \notin upto[i]
      BY <1>5, <2>1
    <2> HIDE DEF upto
    <2>4. IsFiniteSet(upto[j])
      BY <1>4
    <2>5. Cardinality(upto[i]) < Cardinality(upto[j])
      BY <2>2, <2>3, <2>4, PartIsSmaller
    <2>6. QED
      BY <2>5
  <1> HIDE DEF place, upto
  <1>6. IsFiniteSet(P)
    <2> HIDE DEF f
    <2>1. QED
      BY <1>2, ImageIsFinite
  <1>7. \A i \in I : /\ f[i] \in SaleRows /\ f[i].wip = Nothing /\ f[i].run = run
                     /\ Key(f[i]) = <<file[i], final + place[i]>>
    <2> TAKE i \in I
    <2>1. file[i] \in Order /\ final + place[i] \in Nat
      BY <1>2, <1>3, <1>4
    <2>2. QED
      BY <2>1 DEF SaleRows, Key
  <1>8. ASSUME NEW s \in P, NEW t \in P, Key(s) = Key(t) PROVE s = t
    <2>1. PICK i \in I, j \in I : s = f[i] /\ t = f[j]
      OBVIOUS
    <2>2. final + place[i] = final + place[j]
      <3>1. Key(s) = <<file[i], final + place[i]>> /\ Key(t) = <<file[j], final + place[j]>>
        BY <1>7, <2>1
      <3> DEFINE a == final + place[i]
                 b == final + place[j]
      <3>2. <<file[i], a>> = <<file[j], b>>
        BY <1>8, <3>1
      <3> HIDE DEF P, f, a, b
      <3>3. a = b
        BY <3>2
      <3>4. QED
        BY <3>3 DEF a, b
    <2>3. place[i] = place[j] /\ place[i] \in Nat
      BY <1>3, <1>4, <2>2
    <2>4. i \in Nat /\ j \in Nat
      BY <1>2
    <2>5. ~(i < j) /\ ~(j < i)
      BY <1>5, <2>3
    <2>6. i = j
      BY <2>4, <2>5
    <2>7. QED
      BY <2>1, <2>6
  <1> HIDE DEF f
  <1>9. P \subseteq SaleRows /\ \A s \in P : s.wip = Nothing /\ s.run = run
    BY <1>7
  <1> HIDE DEF P
  <1>10. QED
    BY <1>1, <1>6, <1>8, <1>9

(* Orders that are added are on no stock.                                  *)
LEMMA MoreSales ==
    ASSUME NEW d, Good(d), NEW P, IsFiniteSet(P), P \subseteq SaleRows, \A s \in P : s.wip = Nothing,
           \A s, t \in P : Key(s) = Key(t) => s = t, ~Clash(d, P),
           NEW e, e = [d EXCEPT !.sales = @ \cup P]
    PROVE  Good(e) /\ Fair(d, e) /\ Keeps(d, e) /\ e.sales = d.sales \cup P
  <1>1. d \in DB /\ d.nextStock \in Nat
    BY DEF Good, DB
  <1>2. /\ e \in DB /\ e.sales = d.sales \cup P /\ e.rows = d.rows /\ e.tasks = d.tasks /\ e.stock = d.stock
        /\ e.nextRow = d.nextRow /\ e.nextStock = d.nextStock
    <2>1. d.sales \cup P \subseteq SaleRows
      BY <1>1 DEF DB
    <2>2. QED
      BY <1>1, <2>1 DEF DB
  <1>3. TablesAreFinite(e)
    <2>1. IsFiniteSet(d.sales \cup P)
      BY FS_Union DEF Good, TablesAreFinite
    <2>2. QED
      BY <1>2, <2>1 DEF Good, TablesAreFinite
  <1>4. SalesAreKeyed(e)
    <2>1. \A s \in P, t \in d.sales : Key(s) # Key(t)
      BY DEF Clash
    <2>2. \A s, t \in d.sales : Key(s) = Key(t) => s = t
      BY DEF Good, SalesAreKeyed
    <2>3. QED
      BY <1>2, <2>1, <2>2 DEF SalesAreKeyed
  <1>5. Good(e)
    <2>1. WipsHold(e)
      BY <1>2 DEF Good, WipsHold, Holds
    <2>2. RowsAreKeyed(e) /\ StockIsKeyed(e) /\ RowsHaveOrders(e) /\ Once(e.rows) /\ TasksHold(e) /\ SourcesHold(e)
      BY <1>2 DEF Good, RowsAreKeyed, StockIsKeyed, RowsHaveOrders, TasksHold, SourcesHold
    <2>3. QED
      BY <1>2, <1>3, <1>4, <2>1, <2>2 DEF Good
  <1>6. Fair(d, e)
    <2>1. \A s \in e.sales : s.wip # Nothing => \E t \in d.sales : Key(t) = Key(s) /\ t.wip = s.wip
      BY <1>2
    <2>2. QED
      BY <1>1, <1>2, <2>1, FairIfSame
  <1>7. QED
    BY <1>2, <1>5, <1>6 DEF Keeps

(* Tables without a plan.                                                  *)
LEMMA NoPlanIsGood ==
    ASSUME NEW e \in DB, e.rows = {}, e.tasks = {}, e.stock = {},
           IsFiniteSet(e.sales), SalesAreKeyed(e), \A s \in e.sales : s.wip = Nothing
    PROVE  Good(e) /\ Taken(e)
  <1>1. TablesAreFinite(e)
    BY FS_EmptySet DEF TablesAreFinite
  <1>2. RowsAreKeyed(e) /\ StockIsKeyed(e) /\ RowsHaveOrders(e) /\ Once(e.rows) /\ TasksHold(e) /\ SourcesHold(e)
    BY DEF RowsAreKeyed, StockIsKeyed, RowsHaveOrders, Once, TasksHold, SourcesHold
  <1>3. WipsHold(e) /\ Taken(e)
    BY DEF WipsHold, Holds, Taken
  <1>4. QED
    BY <1>1, <1>2, <1>3 DEF Good

(* The tables when the old plan is gone, with the orders or without.       *)
LEMMA PurgedIsGood ==
    ASSUME Good(db)
    PROVE  /\ Good(Purged) /\ Taken(Purged) /\ Purged.rows = {}
           /\ Good([Purged EXCEPT !.sales = {}]) /\ Taken([Purged EXCEPT !.sales = {}])
           /\ [Purged EXCEPT !.sales = {}].rows = {} /\ [Purged EXCEPT !.sales = {}].sales = {}
  <1> DEFINE f == [s \in db.sales |-> [s EXCEPT !.use = Nothing, !.wip = Nothing]]
             N == {f[s] : s \in db.sales}
             c == [Purged EXCEPT !.sales = {}]
  <1>1. db \in DB /\ db.sales \subseteq SaleRows
    BY DEF Good, DB
  <1>2. \A s \in db.sales : f[s] \in SaleRows /\ f[s].wip = Nothing /\ Key(f[s]) = Key(s)
    BY <1>1 DEF SaleRows, Key
  <1>3. Purged = [db EXCEPT !.sales = N, !.rows = {}, !.tasks = {}, !.stock = {}]
    BY DEF Purged
  <1> HIDE DEF f
  <1>4. N \subseteq SaleRows /\ \A s \in N : s.wip = Nothing
    BY <1>2
  <1>5. IsFiniteSet(N)
    BY ImageIsFinite DEF Good, TablesAreFinite
  <1>6. \A s, t \in N : Key(s) = Key(t) => s = t
    BY <1>2 DEF Good, SalesAreKeyed
  <1> HIDE DEF N
  <1>7. Purged \in DB /\ Purged.sales = N /\ Purged.rows = {} /\ Purged.tasks = {} /\ Purged.stock = {}
    BY <1>1, <1>3, <1>4 DEF DB
  <1>8. c \in DB /\ c.sales = {} /\ c.rows = {} /\ c.tasks = {} /\ c.stock = {}
    BY <1>7 DEF DB
  <1>9. Good(Purged) /\ Taken(Purged)
    BY <1>4, <1>5, <1>6, <1>7, NoPlanIsGood DEF SalesAreKeyed
  <1> HIDE DEF c
  <1>10. Good(c) /\ Taken(c)
    <2>1. IsFiniteSet(c.sales) /\ SalesAreKeyed(c) /\ \A s \in c.sales : s.wip = Nothing
      BY <1>8, FS_EmptySet DEF SalesAreKeyed
    <2>2. QED
      BY <1>8, <2>1, NoPlanIsGood
  <1>11. QED
    BY <1>7, <1>8, <1>9, <1>10 DEF c

-----------------------------------------------------------------------------
(* What an update carries over *)

(* The newest label is no smaller than any that a row has.                 *)
Recent(d, n) == n \in Nat /\ \A b \in d.rows : b.run <= n

(* A row that is carried over gets a new number and the new label.         *)
IsCopy(b, c, run) == b = [c EXCEPT !.id = b.id, !.run = run]

(* d is what db becomes when the rows of p that are carried over are       *)
(* copied, with their tasks.                                               *)
Copying(d, p, run) ==
    /\ d.sales = db.sales /\ db.rows \subseteq d.rows /\ db.tasks \subseteq d.tasks
    /\ \A b \in d.rows : b \in db.rows \/ \E c \in Related(p) : IsCopy(b, c, run)
    /\ \A c \in Related(p) :
          \E b \in d.rows : /\ IsCopy(b, c, run)
                            /\ (\E t \in db.tasks : t.run = p /\ t.batch = c.id)
                               => [run |-> run, batch |-> b.id] \in d.tasks
    /\ \A t \in d.tasks : t \in db.tasks \/ t.run = run

(* The rows are copied with their tasks, and what headers are expected to  *)
(* leave over is expected again.                                           *)
LEMMA CopiedIsGood ==
    ASSUME Good(db), Recent(db, latest), NEW p \in Nat, NEW run, run = latest + 1
    PROVE  Good(Copied(p, run)) /\ Fair(db, Copied(p, run)) /\ Copying(Copied(p, run), p, run)
  <1> DEFINE R     == Related(p)
             place == [c \in R |-> Cardinality(Lesser(R, c))]
             new   == [c \in R |-> [c EXCEPT !.id = db.nextRow + place[c], !.run = run]]
             B     == {new[c] : c \in R}
             T     == {[run |-> run, batch |-> db.nextRow + Cardinality({b \in R : b.id < t.batch})] :
                          t \in {x \in db.tasks : x.run = p /\ \E b \in R : b.id = x.batch}}
             m     == [db EXCEPT !.rows = @ \cup B, !.tasks = @ \cup T, !.nextRow = @ + Cardinality(B)]
             e     == Expected(m, B)
  <1>1. /\ db \in DB /\ db.nextRow \in Nat /\ db.rows \subseteq BatchRows /\ db.tasks \subseteq [run : Nat, batch : Nat]
        /\ run \in Nat /\ \A b \in db.rows : b.run < run
    <2>1. db \in DB /\ db.nextRow \in Nat /\ db.rows \subseteq BatchRows /\ db.tasks \subseteq [run : Nat, batch : Nat]
      BY DEF Good, DB
    <2>2. run \in Nat /\ latest \in Nat
      BY DEF Recent
    <2>3. \A b \in db.rows : b.run \in Nat /\ b.run <= latest
      BY <2>1 DEF Recent, BatchRows
    <2>4. \A b \in db.rows : b.run < run
      BY <2>2, <2>3
    <2>5. QED
      BY <2>1, <2>2, <2>4
  <1>2. R \subseteq db.rows /\ IsFiniteSet(R) /\ Cardinality(R) \in Nat
    <2>1. R \subseteq db.rows
      BY DEF Related, RowsOf
    <2> HIDE DEF R
    <2>2. IsFiniteSet(R)
      BY <2>1, FS_Subset DEF Good, TablesAreFinite
    <2>3. QED
      BY <2>1, <2>2, FS_CardinalityType
  <1>3. Copied(p, run) = e
    <2>1. \A c \in R : Cardinality({b \in R : b.id < c.id}) = place[c]
      BY DEF Lesser
    <2>2. {[b EXCEPT !.id = db.nextRow + Cardinality({x \in R : x.id < b.id}), !.run = run] : b \in R} = B
      <3> HIDE DEF place, R
      <3>1. QED
        BY <2>1
    <2>3. QED
      BY <2>2 DEF Copied
  <1>4. Placed(R, place)
    <2>1. \A c \in R : place[c] = Cardinality(Lesser(R, c))
      OBVIOUS
    <2> HIDE DEF R, place
    <2>2. QED
      BY <1>2, <2>1, IdsArePlaces
  <1>5. \A t \in T : t.run = run /\ \E c \in R : t.batch = db.nextRow + place[c]
    <2> TAKE t \in T
    <2>1. PICK x \in db.tasks : /\ x.run = p /\ \E b \in R : b.id = x.batch
                                /\ t = [run |-> run, batch |-> db.nextRow + Cardinality({b \in R : b.id < x.batch})]
      OBVIOUS
    <2>2. PICK c \in R : c.id = x.batch
      BY <2>1
    <2>3. place[c] = Cardinality({b \in R : b.id < x.batch})
      BY <2>2 DEF Lesser
    <2> HIDE DEF R, place, T
    <2>4. QED
      BY <2>1, <2>2, <2>3
  <1>6. \A c \in R : (\E t \in db.tasks : t.run = p /\ t.batch = c.id)
                     => [run |-> run, batch |-> db.nextRow + place[c]] \in T
    <2> SUFFICES ASSUME NEW c \in R, NEW t \in db.tasks, t.run = p, t.batch = c.id
                 PROVE  [run |-> run, batch |-> db.nextRow + place[c]] \in T
      OBVIOUS
    <2>1. place[c] = Cardinality({b \in R : b.id < t.batch})
      BY DEF Lesser
    <2> HIDE DEF place, R
    <2>2. QED
      BY <2>1
  <1> HIDE DEF place, R, T
  <1>7. \A c \in R : /\ new[c] \in BatchRows /\ new[c].id = db.nextRow + place[c] /\ new[c].run = run
                     /\ IsCopy(new[c], c, run)
                     /\ new[c].order = c.order /\ new[c].line = c.line /\ new[c].seq = c.seq
                     /\ new[c].proc = c.proc /\ new[c].group = c.group /\ new[c].wip = c.wip
    <2> TAKE c \in R
    <2>1. c \in BatchRows /\ db.nextRow + place[c] \in Nat
      BY <1>1, <1>2, <1>4 DEF Placed
    <2>2. QED
      BY <1>1, <2>1 DEF BatchRows, IsCopy
  <1>8. \A b, c \in R : new[b].id = new[c].id => b = c
    <2> TAKE b, c \in R
    <2>1. new[b].id = db.nextRow + place[b] /\ new[c].id = db.nextRow + place[c]
      BY <1>7
    <2>2. place[b] \in Nat /\ place[c] \in Nat /\ (place[b] = place[c] => b = c)
      BY <1>4 DEF Placed
    <2> HIDE DEF new
    <2>3. QED
      BY <1>1, <2>1, <2>2
  <1>9. IsFiniteSet(B) /\ Cardinality(B) = Cardinality(R)
    <2>1. \A b, c \in R : new[b] = new[c] => b = c
      BY <1>8
    <2> HIDE DEF new
    <2>2. QED
      BY <1>2, <2>1, ImageIsAsLarge
  <1> HIDE DEF new
  <1>10. /\ m.sales = db.sales /\ m.stock = db.stock /\ m.nextStock = db.nextStock /\ m.tasks = db.tasks \cup T
         /\ m.rows = db.rows \cup B /\ m.nextRow = db.nextRow + Cardinality(R) /\ m \in DB
    <2>1. B \subseteq BatchRows /\ T \subseteq [run : Nat, batch : Nat]
      <3>1. B \subseteq BatchRows
        BY <1>7
      <3>2. ASSUME NEW t \in T PROVE t \in [run : Nat, batch : Nat]
        <4>1. PICK x \in db.tasks : t = [run |-> run, batch |-> db.nextRow + Cardinality({b \in R : b.id < x.batch})]
          BY DEF T
        <4>2. t.batch \in Nat
          BY <1>1, <1>4, <1>5 DEF Placed
        <4>3. QED
          BY <1>1, <4>1, <4>2
      <3>3. QED
        BY <3>1, <3>2
    <2>2. db.nextRow + Cardinality(B) = db.nextRow + Cardinality(R) /\ db.nextRow + Cardinality(R) \in Nat
      BY <1>1, <1>2, <1>9
    <2> HIDE DEF B
    <2>3. QED
      BY <1>1, <2>1, <2>2 DEF DB
  <1> HIDE DEF m
  <1>11. Once(m.rows)
    <2> SUFFICES ASSUME NEW x \in m.rows, NEW y \in m.rows, x.seq # -1, SameRow(x, y) PROVE x = y
      BY DEF Once
    <2>1. \A b \in B : b.run = run
      BY <1>7
    <2>2. CASE x \in db.rows /\ y \in db.rows
      BY <2>2 DEF Good, Once
    <2>3. CASE x \in B /\ y \in B
      <3>1. PICK b \in R, c \in R : x = new[b] /\ y = new[c]
        BY <2>3
      <3>2. b.seq # -1 /\ b.order = c.order /\ b.line = c.line /\ b.seq = c.seq /\ b.proc = c.proc
        BY <1>7, <3>1 DEF SameRow
      <3>3. b.run = c.run
        BY DEF R, Related, RowsOf
      <3>4. b = c
        BY <1>2, <3>2, <3>3 DEF Good, Once, SameRow
      <3>5. QED
        BY <3>1, <3>4
    <2>4. ASSUME NEW u \in db.rows, NEW v \in B PROVE u.run # v.run
      BY <1>1, <2>1
    <2>5. QED
      BY <1>10, <2>2, <2>3, <2>4 DEF SameRow
  <1>12. TasksHold(m)
    <2> SUFFICES ASSUME NEW t \in m.tasks PROVE \E b \in m.rows : b.run = t.run /\ b.id = t.batch
      BY DEF TasksHold
    <2>1. CASE t \in db.tasks
      BY <1>10, <2>1 DEF Good, TasksHold
    <2>2. CASE t \in T
      <3>1. PICK c \in R : t.run = run /\ t.batch = db.nextRow + place[c]
        BY <1>5, <2>2
      <3>2. new[c] \in m.rows /\ new[c].run = t.run /\ new[c].id = t.batch
        BY <1>7, <1>10, <3>1
      <3>3. QED
        BY <3>2
    <2>3. QED
      BY <1>10, <2>1, <2>2
  <1>13. Good(m)
    <2>1. db.nextRow <= m.nextRow
      BY <1>1, <1>2, <1>10
    <2>2. \A b \in B : HasOrder(b) /\ Holds(b, db) /\ db.nextRow <= b.id /\ b.id < m.nextRow
      <3> TAKE x \in B
      <3>1. PICK c \in R : x = new[c]
        OBVIOUS
      <3>2. HasOrder(c) /\ Holds(c, db)
        BY <1>2 DEF Good, RowsHaveOrders, WipsHold
      <3>3. HasOrder(x) /\ Holds(x, db)
        BY <1>7, <3>1, <3>2 DEF HasOrder, Holds
      <3>4. db.nextRow <= x.id /\ x.id < m.nextRow
        BY <1>1, <1>2, <1>4, <1>7, <1>10, <3>1 DEF Placed
      <3>5. QED
        BY <3>3, <3>4
    <2>3. \A b, c \in B : b.id = c.id => b = c
      BY <1>8
    <2>4. B \subseteq BatchRows
      BY <1>7
    <2> HIDE DEF B
    <2>5. QED
      BY <1>9, <1>10, <1>11, <1>12, <2>1, <2>2, <2>3, <2>4, MoreRows
  <1>14. Fair(db, m)
    BY <1>1, <1>10, FairIfSame
  <1>15. Good(e) /\ Fair(m, e) /\ e.rows = m.rows /\ e.sales = m.sales /\ e.tasks = m.tasks
    <2>1. B \subseteq m.rows
      BY <1>10
    <2> HIDE DEF B
    <2>2. QED
      BY <1>13, <2>1, ExpectedIsGood
  <1> HIDE DEF e
  <1>16. Fair(db, e)
    BY <1>13, <1>14, <1>15, FairIsTransitive
  <1>17. Copying(e, p, run)
    <2>1. ASSUME NEW b \in e.rows, b \notin db.rows PROVE \E c \in Related(p) : IsCopy(b, c, run)
      BY <1>7, <1>10, <1>15, <2>1 DEF R
    <2>2. ASSUME NEW c \in Related(p)
          PROVE  \E b \in e.rows : /\ IsCopy(b, c, run)
                                   /\ (\E t \in db.tasks : t.run = p /\ t.batch = c.id)
                                      => [run |-> run, batch |-> b.id] \in e.tasks
      <3>1. c \in R
        BY DEF R
      <3>2. new[c] \in e.rows /\ IsCopy(new[c], c, run) /\ new[c].id = db.nextRow + place[c]
        BY <1>7, <1>10, <1>15, <3>1
      <3>3. (\E t \in db.tasks : t.run = p /\ t.batch = c.id) => [run |-> run, batch |-> new[c].id] \in e.tasks
        BY <1>6, <1>10, <1>15, <3>1, <3>2
      <3>4. QED
        BY <3>2, <3>3
    <2>3. \A t \in e.tasks : t \in db.tasks \/ t.run = run
      BY <1>5, <1>10, <1>15
    <2>4. QED
      BY <1>10, <1>15, <2>1, <2>2, <2>3 DEF Copying
  <1>18. QED
    BY <1>3, <1>15, <1>16, <1>17

-----------------------------------------------------------------------------
(* The orders and the stock of an update *)

(* Where no stock comes back and no order gets any, all is fair.           *)
LEMMA FairIfNoMore ==
    ASSUME NEW d \in DB, NEW e, e.nextStock = d.nextStock,
           \A w \in e.stock : \E v \in d.stock : v.id = w.id /\ (v.status \in Gone => w.status \in Gone),
           \A s \in e.sales : s.wip # Nothing => \E t \in d.sales : Key(t) = Key(s) /\ t.wip = s.wip
    PROVE  Fair(d, e)
  <1>1. OnStock(e) \subseteq OnStock(d)
    BY DEF OnStock
  <1>2. d.nextStock \in Nat
    BY DEF DB
  <1>3. QED
    BY <1>1, <1>2 DEF Fair

(* The rows change but for their stock not, the tasks not at all.          *)
Rewired(d, e) == Bare(e) = Bare(d) /\ e.tasks = d.tasks

(* The orders of p that are not started are orders of the run run.         *)
Moved(d, e, p, run) ==
    \A s \in d.sales : s.run = p /\ Key(s) \notin Keys(Frozen(p)) => \E t \in e.sales : Key(t) = Key(s) /\ t.run = run

LEMMA MovedStay ==
    ASSUME NEW d, NEW e, NEW f, NEW p, NEW run, Moved(d, e, p, run), OrdersStay(e, f)
    PROVE  Moved(d, f, p, run)
  <1> SUFFICES ASSUME NEW s \in d.sales, s.run = p, Key(s) \notin Keys(Frozen(p))
               PROVE  \E t \in f.sales : Key(t) = Key(s) /\ t.run = run
    BY DEF Moved
  <1>1. PICK u \in e.sales : Key(u) = Key(s) /\ u.run = run
    BY DEF Moved
  <1>2. PICK t \in f.sales : Key(t) = Key(u) /\ t.run = u.run
    BY DEF OrdersStay
  <1>3. QED
    BY <1>1, <1>2

(* Orders and stock get the new label.                                     *)
LEMMA ForwardIsGood ==
    ASSUME NEW d, Good(d), NEW p, NEW run \in Nat
    PROVE  /\ Good(Forward(d, p, run)) /\ Fair(d, Forward(d, p, run)) /\ Rewired(d, Forward(d, p, run))
           /\ Moved(d, Forward(d, p, run), p, run)
  <1> DEFINE g == [s \in d.sales |-> IF s.run = p /\ Key(s) \notin Keys(Frozen(p)) THEN [s EXCEPT !.run = run] ELSE s]
             f == [w \in d.stock |-> IF w.run = p /\ w.id \notin FrozenStock(p) THEN [w EXCEPT !.run = run] ELSE w]
             e == Forward(d, p, run)
  <1>1. d \in DB /\ d.sales \subseteq SaleRows /\ d.stock \subseteq StockRows
    BY DEF Good, DB
  <1>2. \A s \in d.sales : g[s] \in SaleRows /\ Key(g[s]) = Key(s) /\ g[s].wip = s.wip
                          /\ (s.run = p /\ Key(s) \notin Keys(Frozen(p)) => g[s].run = run)
    BY <1>1 DEF SaleRows, Key
  <1>3. \A w \in d.stock : f[w] \in StockRows /\ f[w].id = w.id /\ f[w].source = w.source /\ f[w].status = w.status
    BY <1>1 DEF StockRows
  <1>4. e = [d EXCEPT !.sales = {g[s] : s \in d.sales}, !.stock = {f[w] : w \in d.stock}]
    BY DEF Forward
  <1> HIDE DEF e, f, g
  <1>5. e \in DB /\ e.sales = {g[s] : s \in d.sales} /\ e.stock = {f[w] : w \in d.stock}
        /\ e.nextStock = d.nextStock /\ Keeps(d, e)
    <2> DEFINE F == {f[w] : w \in d.stock}
               G == {g[s] : s \in d.sales}
    <2>1. F \subseteq StockRows /\ G \subseteq SaleRows
      BY <1>2, <1>3
    <2>2. e = [d EXCEPT !.sales = G, !.stock = F]
      BY <1>4
    <2> HIDE DEF F, G
    <2>3. e \in DB /\ e.sales = G /\ e.stock = F /\ e.nextStock = d.nextStock /\ Keeps(d, e)
      BY <1>1, <2>1, <2>2 DEF DB, Keeps
    <2>4. QED
      BY <2>3 DEF F, G
  <1>6. Good(e)
    <2>1. \A s \in d.sales : Holds(g[s], d)
      BY <1>2 DEF Good, WipsHold, Holds
    <2>2. \A s \in d.sales : Key(g[s]) = Key(s) /\ Holds(g[s], d)
      BY <1>2, <2>1
    <2>3. \A w \in d.stock : f[w].id = w.id /\ f[w].source = w.source
      BY <1>3
    <2>4. QED
      BY <1>5, <2>2, <2>3, Remapped
  <1>7. Fair(d, e)
    <2>1. \A w \in e.stock : \E v \in d.stock : v.id = w.id /\ (v.status \in Gone => w.status \in Gone)
      BY <1>3, <1>5
    <2>2. \A s \in e.sales : s.wip # Nothing => \E t \in d.sales : Key(t) = Key(s) /\ t.wip = s.wip
      BY <1>2, <1>5
    <2>3. QED
      BY <1>1, <1>5, <2>1, <2>2, FairIfNoMore
  <1>8. Moved(d, e, p, run)
    BY <1>2, <1>5 DEF Moved
  <1>9. QED
    BY <1>5, <1>6, <1>7, <1>8 DEF e, Keeps, Rewired, Bare

(* Orders are deleted.                                                     *)
LEMMA RemainingIsGood ==
    ASSUME NEW d, Good(d), NEW run, NEW mode
    PROVE  Good(Remaining(d, run, mode)) /\ Fair(d, Remaining(d, run, mode)) /\ Rewired(d, Remaining(d, run, mode))
  <1> DEFINE e == Remaining(d, run, mode)
  <1>1. d \in DB /\ d.sales \subseteq SaleRows /\ d.nextStock \in Nat
    BY DEF Good, DB
  <1>2. e \in DB /\ e.sales \subseteq d.sales /\ e.stock = d.stock /\ e.nextStock = d.nextStock /\ Keeps(d, e)
    BY <1>1 DEF Remaining, DB, Keeps
  <1> HIDE DEF e
  <1>3. TablesAreFinite(e)
    <2>1. IsFiniteSet(e.sales)
      BY <1>2, FS_Subset DEF Good, TablesAreFinite
    <2>2. QED
      BY <1>2, <2>1 DEF Good, TablesAreFinite, Keeps
  <1>4. Good(e)
    <2>1. SalesAreKeyed(e) /\ RowsAreKeyed(e) /\ StockIsKeyed(e) /\ RowsHaveOrders(e) /\ Once(e.rows)
      BY <1>2 DEF Good, SalesAreKeyed, RowsAreKeyed, StockIsKeyed, RowsHaveOrders, Keeps
    <2>2. TasksHold(e) /\ SourcesHold(e) /\ WipsHold(e)
      BY <1>2 DEF Good, TasksHold, SourcesHold, WipsHold, Holds, Keeps
    <2>3. QED
      BY <1>2, <1>3, <2>1, <2>2 DEF Good
  <1>5. Fair(d, e)
    BY <1>1, <1>2, FairIfSame
  <1>6. QED
    BY <1>2, <1>4, <1>5 DEF e, Keeps, Rewired, Bare

(* Stock makes way for a survey, and is taken off rows and orders first.   *)
LEMMA ClearedIsGood ==
    ASSUME NEW d, Good(d), NEW run, NEW survey
    PROVE  /\ Good(Cleared(d, run, survey)) /\ Fair(d, Cleared(d, run, survey)) /\ Rewired(d, Cleared(d, run, survey))
           /\ OrdersStay(d, Cleared(d, run, survey))
  <1> DEFINE gone == {w.id : w \in {x \in d.stock : x.run = run}}
             f == [b \in d.rows |-> IF b.wip \in gone THEN [b EXCEPT !.wip = Nothing] ELSE b]
             g == [s \in d.sales |-> IF s.wip \in gone THEN [s EXCEPT !.wip = Nothing, !.use = Nothing] ELSE s]
             e == Cleared(d, run, survey)
  <1>1. d \in DB /\ d.sales \subseteq SaleRows /\ d.stock \subseteq StockRows /\ d.rows \subseteq BatchRows
    BY DEF Good, DB
  <1>2. CASE survey = Nothing
    <2>1. e = d
      BY <1>2 DEF Cleared
    <2>2. Fair(d, d)
      BY <1>1, FairIfSame
    <2>3. QED
      BY <2>1, <2>2 DEF Rewired, OrdersStay
  <1>3. CASE survey # Nothing
    <2>1. \A b \in d.rows : /\ f[b] \in BatchRows /\ Alike(f[b], b) /\ f[b].group = b.group
                            /\ [f[b] EXCEPT !.wip = Nothing] = [b EXCEPT !.wip = Nothing]
                            /\ f[b].wip = Nothing \/ (f[b].wip = b.wip /\ b.wip \notin gone)
      <3> TAKE b \in d.rows
      <3>1. b \in BatchRows
        BY <1>1
      <3> DEFINE c == [b EXCEPT !.wip = Nothing]
      <3>2. f[b] = IF b.wip \in gone THEN c ELSE b
        OBVIOUS
      <3> HIDE DEF gone, f
      <3>3. c \in BatchRows /\ Alike(c, b) /\ c.group = b.group /\ [c EXCEPT !.wip = Nothing] = c /\ c.wip = Nothing
        BY <3>1 DEF BatchRows, Alike
      <3>4. Alike(b, b)
        BY DEF Alike
      <3>5. CASE b.wip \in gone
        <4>1. f[b] = c
          BY <3>2, <3>5
        <4>2. [f[b] EXCEPT !.wip = Nothing] = [b EXCEPT !.wip = Nothing]
          BY <3>3, <4>1
        <4> HIDE DEF c
        <4>3. QED
          BY <3>3, <4>1, <4>2
      <3>6. CASE b.wip \notin gone
        <4>1. f[b] = b
          BY <3>2, <3>6
        <4>2. QED
          BY <3>1, <3>4, <3>6, <4>1
      <3>7. QED
        BY <3>5, <3>6
    <2>2. \A s \in d.sales : /\ g[s] \in SaleRows /\ Key(g[s]) = Key(s) /\ g[s].run = s.run
                             /\ g[s].wip = Nothing \/ (g[s].wip = s.wip /\ s.wip \notin gone)
      <3> TAKE s \in d.sales
      <3> DEFINE t == [s EXCEPT !.wip = Nothing, !.use = Nothing]
      <3>1. g[s] = IF s.wip \in gone THEN t ELSE s
        OBVIOUS
      <3>2. t \in SaleRows /\ Key(t) = Key(s) /\ t.run = s.run /\ t.wip = Nothing
        BY <1>1 DEF SaleRows, Key
      <3> HIDE DEF gone, g, t
      <3>3. CASE s.wip \in gone
        BY <3>1, <3>2, <3>3
      <3>4. CASE s.wip \notin gone
        BY <1>1, <3>1, <3>4
      <3>5. QED
        BY <3>3, <3>4
    <2>3. e = [d EXCEPT !.rows = {f[b] : b \in d.rows}, !.sales = {g[s] : s \in d.sales}, !.stock = {w \in @ : w.run # run}]
      BY <1>3 DEF Cleared
    <2> HIDE DEF e, f, g
    <2>4. /\ e \in DB /\ e.rows = {f[b] : b \in d.rows} /\ e.sales = {g[s] : s \in d.sales}
          /\ e.stock = {w \in d.stock : w.run # run} /\ e.tasks = d.tasks
          /\ e.nextRow = d.nextRow /\ e.nextStock = d.nextStock
      <3> DEFINE F == {f[b] : b \in d.rows}
                 G == {g[s] : s \in d.sales}
                 W == {w \in d.stock : w.run # run}
      <3>1. F \subseteq BatchRows /\ G \subseteq SaleRows /\ W \subseteq StockRows
        BY <1>1, <2>1, <2>2
      <3>2. e = [d EXCEPT !.rows = F, !.sales = G, !.stock = W]
        BY <2>3
      <3> HIDE DEF F, G, W
      <3>3. /\ e \in DB /\ e.rows = F /\ e.sales = G /\ e.stock = W /\ e.tasks = d.tasks
            /\ e.nextRow = d.nextRow /\ e.nextStock = d.nextStock
        BY <1>1, <3>1, <3>2 DEF DB
      <3>4. QED
        BY <3>3 DEF F, G, W
    <2>5. IsFiniteSet(e.rows) /\ RowsAreKeyed(e) /\ RowsHaveOrders(e) /\ Once(e.rows)
      <3>1. \A b \in d.rows : Alike(f[b], b) /\ HasOrder(f[b])
        <4>1. \A b \in d.rows : HasOrder(b)
          BY DEF Good, RowsHaveOrders
        <4>2. ASSUME NEW b \in d.rows PROVE HasOrder(f[b])
          <5>1. f[b].seq = b.seq /\ f[b].group = b.group /\ f[b].order = b.order
            BY <2>1 DEF Alike
          <5>2. QED
            BY <4>1, <5>1 DEF HasOrder
        <4>3. QED
          BY <2>1, <4>2
      <3>2. QED
        BY <2>4, <3>1, FewerRows
    <2>6. TablesAreFinite(e) /\ SalesAreKeyed(e) /\ StockIsKeyed(e)
      <3>1. IsFiniteSet(e.sales)
        BY <2>4, ImageIsFinite DEF Good, TablesAreFinite
      <3>2. IsFiniteSet(e.stock)
        BY <2>4, FS_Subset DEF Good, TablesAreFinite
      <3>3. SalesAreKeyed(e)
        BY <2>2, <2>4 DEF Good, SalesAreKeyed
      <3>4. StockIsKeyed(e)
        BY <2>4 DEF Good, StockIsKeyed
      <3>5. QED
        BY <2>5, <3>1, <3>2, <3>3, <3>4 DEF TablesAreFinite
    <2>7. TasksHold(e) /\ SourcesHold(e)
      <3>1. \A b \in d.rows : f[b] \in e.rows /\ f[b].id = b.id /\ f[b].run = b.run
        BY <2>1, <2>4 DEF Alike
      <3>2. TasksHold(e)
        BY <2>4, <3>1 DEF Good, TasksHold
      <3>3. SourcesHold(e)
        BY <2>4, <3>1 DEF Good, SourcesHold
      <3>4. QED
        BY <3>2, <3>3
    <2>8. WipsHold(e)
      <3>1. ASSUME NEW x, Holds(x, d), x.wip \notin gone PROVE Holds(x, e)
        BY <2>4, <3>1 DEF Holds
      <3>2. ASSUME NEW b \in d.rows PROVE Holds(f[b], e)
        <4>1. CASE f[b].wip = Nothing
          BY <4>1 DEF Holds
        <4>2. CASE f[b].wip = b.wip /\ b.wip \notin gone
          BY <3>1, <4>2 DEF Good, WipsHold, Holds
        <4>3. QED
          BY <2>1, <4>1, <4>2
      <3>3. ASSUME NEW s \in d.sales PROVE Holds(g[s], e)
        <4>1. CASE g[s].wip = Nothing
          BY <4>1 DEF Holds
        <4>2. CASE g[s].wip = s.wip /\ s.wip \notin gone
          BY <3>1, <4>2 DEF Good, WipsHold, Holds
        <4>3. QED
          BY <2>2, <4>1, <4>2
      <3>4. QED
        BY <2>4, <3>2, <3>3 DEF WipsHold
    <2>9. Good(e)
      BY <2>4, <2>5, <2>6, <2>7, <2>8 DEF Good
    <2>10. Fair(d, e)
      <3>1. \A s \in e.sales : s.wip # Nothing => \E t \in d.sales : Key(t) = Key(s) /\ t.wip = s.wip
        BY <2>2, <2>4
      <3>2. QED
        BY <1>1, <2>4, <3>1, FairIfNoMore
    <2>11. Rewired(d, e)
      <3> DEFINE bare(b) == [b EXCEPT !.wip = Nothing]
      <3>1. \A b \in d.rows : bare(f[b]) = bare(b)
        BY <2>1
      <3>2. Bare(e) = {bare(b) : b \in e.rows} /\ Bare(d) = {bare(b) : b \in d.rows}
        BY DEF Bare
      <3> HIDE DEF bare
      <3>3. QED
        BY <2>4, <3>1, <3>2 DEF Rewired
    <2>12. OrdersStay(d, e)
      BY <2>2, <2>4 DEF OrdersStay
    <2>13. QED
      BY <2>9, <2>10, <2>11, <2>12 DEF e
  <1>4. QED
    BY <1>2, <1>3

(* A survey leaves rows and orders alone.                                  *)
LEMMA SurveyedIsGood ==
    ASSUME NEW d, Good(d), NEW run \in Nat, NEW survey \in Surveys
    PROVE  /\ Good(Surveyed(d, run, survey)) /\ Fair(d, Surveyed(d, run, survey)) /\ Rewired(d, Surveyed(d, run, survey))
           /\ Surveyed(d, run, survey).rows = d.rows /\ Surveyed(d, run, survey).sales = d.sales
  <1>1. CASE survey = Nothing
    <2>1. Fair(d, d)
      BY FairIfSame DEF Good
    <2>2. QED
      BY <1>1, <2>1 DEF Surveyed, Rewired
  <1>2. CASE survey # Nothing
    <2>1. survey \in Seq([kind : Kinds, len : Nat])
      BY <1>2, Stage1Assumption
    <2>2. QED
      BY <1>2, <2>1, SurveyIsGood DEF Surveyed, Rewired, Keeps, Bare
  <1>3. QED
    BY <1>1, <1>2

-----------------------------------------------------------------------------
(* An update *)

(* One row but for its number, its run and the stock it is on.             *)
AsBefore(b, c) ==
    /\ b.order = c.order /\ b.line = c.line /\ b.seq = c.seq /\ b.proc = c.proc
    /\ b.group = c.group /\ b.status = c.status

(* Each row is one of before, but for its stock.                           *)
LEMMA RewiredRow ==
    ASSUME NEW d, NEW e, d \in DB, e \in DB, Rewired(d, e), NEW b \in e.rows
    PROVE  \E c \in d.rows : AsBefore(b, c) /\ b.id = c.id /\ b.run = c.run /\ Unchanged(c, b)
  <1>1. [b EXCEPT !.wip = Nothing] \in Bare(d)
    BY DEF Rewired, Bare
  <1>2. PICK c \in d.rows : [b EXCEPT !.wip = Nothing] = [c EXCEPT !.wip = Nothing]
    BY <1>1 DEF Bare
  <1>3. b \in BatchRows /\ c \in BatchRows
    BY DEF DB
  <1> DEFINE x == [b EXCEPT !.wip = Nothing]
             y == [c EXCEPT !.wip = Nothing]
  <1>4. AsBefore(x, b) /\ x.id = b.id /\ x.run = b.run
    BY <1>3 DEF BatchRows, AsBefore
  <1>5. AsBefore(y, c) /\ y.id = c.id /\ y.run = c.run
    BY <1>3 DEF BatchRows, AsBefore
  <1>6. x = y
    BY <1>2
  <1>7. \A w : [x EXCEPT !.wip = w] = [b EXCEPT !.wip = w] /\ [y EXCEPT !.wip = w] = [c EXCEPT !.wip = w]
    BY <1>3 DEF BatchRows
  <1>8. b = [b EXCEPT !.wip = b.wip]
    BY <1>3 DEF BatchRows
  <1> HIDE DEF x, y
  <1>9. Unchanged(c, b)
    BY <1>6, <1>7, <1>8 DEF Unchanged
  <1>10. QED
    BY <1>4, <1>5, <1>6, <1>9 DEF AsBefore

(* A copy is the row that was copied, but for number, run and stock.       *)
LEMMA CopiedRow ==
    ASSUME NEW c \in BatchRows, NEW b, NEW run, IsCopy(b, c, run)
    PROVE  AsBefore(b, c) /\ b.run = run /\ b.seq = c.seq
  <1> DEFINE n == b.id
  <1>1. b = [c EXCEPT !.id = n, !.run = run]
    BY DEF IsCopy
  <1> HIDE DEF n
  <1>2. QED
    BY <1>1 DEF BatchRows, AsBefore

(* Tables that are rewired follow each other.                              *)
LEMMA RewiredFollows ==
    ASSUME NEW d, NEW e, d \in DB, e \in DB, Rewired(d, e)
    PROVE  Follows(d, e)
  <1>1. ASSUME NEW b \in e.rows PROVE \E c \in d.rows : Stems(b, c)
    <2>1. PICK c \in d.rows : AsBefore(b, c) /\ b.id = c.id /\ b.run = c.run
      BY RewiredRow
    <2>2. QED
      BY <2>1 DEF AsBefore, Stems, SameRow
  <1>2. ASSUME NEW c \in d.rows PROVE \E b \in e.rows : SameRow(b, c)
    <2>1. Rewired(e, d)
      BY DEF Rewired
    <2>2. PICK b \in e.rows : AsBefore(c, b) /\ c.id = b.id /\ c.run = b.run
      BY <2>1, RewiredRow
    <2>3. QED
      BY <2>2 DEF AsBefore, SameRow
  <1>3. QED
    BY <1>1, <1>2 DEF Follows

(* The copies keep to the routes: a header is copied with the row of the   *)
(* order that it names, as that is the order it was started with.          *)
LEMMA CopiesAreRouted ==
    ASSUME Good(db), Routed(db), NEW p, NEW run, NEW d, Copying(d, p, run)
    PROVE  Routed(d)
  <1> SUFFICES ASSUME NEW b \in d.rows PROVE OnRoute(b) /\ Named(b, d.rows)
    BY DEF Routed
  <1>1. db.rows \subseteq d.rows /\ db.rows \subseteq BatchRows
    BY DEF Copying, Good, DB
  <1>2. CASE b \in db.rows
    <2>1. OnRoute(b) /\ Named(b, db.rows)
      BY <1>2 DEF Routed
    <2>2. QED
      BY <1>1, <2>1 DEF Named
  <1>3. CASE b \notin db.rows
    <2>1. PICK c \in Related(p) : IsCopy(b, c, run)
      BY <1>3 DEF Copying
    <2>2. c \in db.rows /\ c \in BatchRows /\ c.run = p
      BY <1>1 DEF Related, RowsOf
    <2>3. AsBefore(b, c) /\ b.run = run
      BY <2>1, <2>2, CopiedRow
    <2>4. OnRoute(c) /\ Named(c, db.rows)
      BY <2>2 DEF Routed
    <2>5. OnRoute(b)
      BY <2>3, <2>4 DEF OnRoute, AsBefore
    <2>6. ASSUME b.seq = -1, b.order # 0
          PROVE  \E x \in d.rows : x.seq # -1 /\ x.run = b.run /\ x.order = b.order /\ x.line = b.line
      <3>1. c.seq = -1 /\ c.order # 0 /\ b.order = c.order /\ b.line = c.line
        BY <2>3, <2>6 DEF AsBefore
      <3>2. PICK y \in db.rows : y.seq # -1 /\ y.run = c.run /\ y.order = c.order /\ y.line = c.line
        BY <2>4, <3>1 DEF Named
      <3>3. <<c.order, c.line>> \in Keys(Frozen(p))
        BY <3>1 DEF Related, Keys
      <3>4. y \in Related(p)
        BY <2>2, <3>2, <3>3 DEF Related, RowsOf
      <3>5. PICK x \in d.rows : IsCopy(x, y, run)
        BY <3>4 DEF Copying
      <3>6. AsBefore(x, y) /\ x.run = run /\ x.seq = y.seq
        BY <1>1, <3>2, <3>5, CopiedRow
      <3>7. QED
        BY <2>3, <3>1, <3>2, <3>6 DEF AsBefore
    <2>7. QED
      BY <2>5, <2>6 DEF Named
  <1>4. QED
    BY <1>2, <1>3

(* What is carried over are orders that were started.                      *)
LEMMA RelatedWasStarted ==
    ASSUME Good(db), NEW p, NEW c \in Related(p), c.seq # -1
    PROVE  <<c.order, c.line>> \in Keys(Frozen(p))
  <1>1. CASE c \in Frozen(p)
    <2>1. c \in db.rows
      BY <1>1 DEF Frozen, RowsOf
    <2>2. c.order \in Order
      BY <2>1 DEF Good, RowsHaveOrders, HasOrder
    <2>3. c.order # 0
      BY <2>2, StockAssumption
    <2>4. QED
      BY <1>1, <2>3 DEF Keys
  <1>2. CASE c \notin Frozen(p)
    BY <1>2 DEF Related
  <1>3. QED
    BY <1>1, <1>2

(* The plan that is updated has the rows and tasks that are carried over,  *)
(* then new batches, and then some of its groups are split.                *)
Renewed(e, p, run) ==
    \E d, m, f \in DB : Copying(d, p, run) /\ Rewired(d, m) /\ Batched(m, f, run) /\ Parted(f, e, run)

(* The orders of the new plan that are not started have what they need,    *)
(* and an update that adds orders has taken over all that the parent has.  *)
Unstarted(e, p, run) == {s \in e.sales : s.run = run /\ Key(s) \notin Keys(Frozen(p))}

Continued(e, p, run, mode) ==
    /\ Routed(db) => Routed(e)
    /\ AllSupplied(e, e.rows, run, Unstarted(e, p, run))
    /\ mode = "incremental" => Moved(db, e, p, run)

(* An update, from the copies to the groups that are split.                *)
LEMMA UpdatedIsGood ==
    ASSUME Good(db), Recent(db, latest), NEW p \in Nat, NEW run, run = latest + 1, NEW mode,
           NEW file \in Seq(Order), NEW survey \in Surveys, NEW late, NEW matching,
           NEW e \in Updated(mode, p, run, file, survey, late, matching)
    PROVE  /\ Good(e) /\ Fair(db, e) /\ Recent(e, run) /\ Renewed(e, p, run)
           /\ late = {} => Continued(e, p, run, mode)
  <1> DEFINE c == Copied(p, run)
             f == Forward(c, p, run)
             d == Remaining(f, run, mode)
             P == Parsed(d, run, file)
             x == [d EXCEPT !.sales = @ \cup P]
             y == Cleared(x, run, survey)
             z == Surveyed(y, run, survey)
             m == Matched(z, run, FrozenStock(p), matching)
             S == Unstarted(m, p, run)
  <1>1. run \in Nat /\ latest \in Nat /\ \A b \in db.rows : b.run \in Nat /\ b.run <= latest
    <2>1. \A b \in db.rows : b \in BatchRows
      BY DEF Good, DB
    <2>2. \A b \in db.rows : b.run \in Nat
      BY <2>1 DEF BatchRows
    <2>3. QED
      BY <2>2 DEF Recent
  <1>2. ~Clash(d, P) /\ \E b \in CreateBatches(m, run, S) : e \in AutoSplit(b, run, late)
    <2> DEFINE split(n) ==
                 UNION {AutoSplit(b, run, late) :
                          b \in CreateBatches(n, run, {s \in n.sales : s.run = run /\ Key(s) \notin Keys(Frozen(p))})}
               from(v) == UNION {split(n) : n \in {v}}
               to(v) == Matched(Surveyed(Cleared([v EXCEPT !.sales = @ \cup Parsed(v, run, file)], run, survey), run, survey),
                                run, FrozenStock(p), matching)
               plans(v) == IF Clash(v, Parsed(v, run, file)) THEN {} ELSE from(to(v))
    <2>1. Updated(mode, p, run, file, survey, late, matching) = UNION {plans(v) : v \in {d}}
      BY DEF Updated
    <2>2. to(d) = m
      OBVIOUS
    <2> HIDE DEF to, from, split, d
    <2>3. e \in plans(d)
      <3> HIDE DEF plans
      <3>1. QED
        BY <2>1
    <2>4. ~Clash(d, P) /\ e \in from(m)
      <3> HIDE DEF m
      <3>1. QED
        BY <2>2, <2>3
    <2> HIDE DEF m, P
    <2>5. e \in from(m) => \E b \in CreateBatches(m, run, S) : e \in AutoSplit(b, run, late)
      <3>1. split(m) = UNION {AutoSplit(b, run, late) : b \in CreateBatches(m, run, S)}
        BY DEF split, Unstarted
      <3>2. from(m) = split(m)
        <4> HIDE DEF split
        <4>1. QED
          BY DEF from
      <3> HIDE DEF split, from, S
      <3>3. QED
        BY <3>1, <3>2
    <2>6. QED
      BY <2>4, <2>5
  <1>3. Good(c) /\ Fair(db, c) /\ Copying(c, p, run)
    BY CopiedIsGood
  <1> HIDE DEF c
  <1>4. Good(f) /\ Fair(c, f) /\ Rewired(c, f) /\ Moved(c, f, p, run)
    BY <1>1, <1>3, ForwardIsGood
  <1> HIDE DEF f
  <1>5. Good(d) /\ Fair(f, d) /\ Rewired(f, d) /\ (mode = "incremental" => d = f)
    <2>1. mode = "incremental" => d = f
      BY DEF Remaining
    <2>2. QED
      BY <1>4, <2>1, RemainingIsGood
  <1> HIDE DEF d
  <1>6. Good(x) /\ Fair(d, x) /\ Rewired(d, x) /\ OrdersStay(d, x)
    <2>1. /\ IsFiniteSet(P) /\ P \subseteq SaleRows /\ \A s \in P : s.wip = Nothing /\ s.run = run
      BY <1>1, <1>5, ParsedIsTyped
    <2>2. \A s, t \in P : Key(s) = Key(t) => s = t
      BY <1>1, <1>5, ParsedIsTyped
    <2>3. x = [d EXCEPT !.sales = @ \cup P]
      OBVIOUS
    <2> HIDE DEF P, x
    <2>4. Good(x) /\ Fair(d, x) /\ Keeps(d, x)
      BY <1>2, <1>5, <2>1, <2>2, <2>3, MoreSales
    <2>5. d.sales \subseteq x.sales
      BY <1>5, <2>3 DEF Good, DB
    <2>6. QED
      BY <2>4, <2>5 DEF Keeps, Rewired, Bare, OrdersStay
  <1> HIDE DEF P, x
  <1>7. Good(y) /\ Fair(x, y) /\ Rewired(x, y) /\ OrdersStay(x, y)
    BY <1>6, ClearedIsGood
  <1> HIDE DEF y
  <1>8. Good(z) /\ Fair(y, z) /\ Rewired(y, z) /\ z.sales = y.sales
    BY <1>1, <1>7, SurveyedIsGood
  <1> HIDE DEF z
  <1>9. Good(m) /\ Fair(z, m) /\ Rewired(z, m) /\ OrdersStay(z, m)
    BY <1>8, MatchedIsGood DEF After, Keeps, Rewired, Bare
  <1> HIDE DEF m
  <1>10. Fair(db, m)
    <2>1. Fair(db, f)
      BY <1>3, <1>4, FairIsTransitive
    <2>2. Fair(db, d)
      BY <1>4, <1>5, <2>1, FairIsTransitive
    <2>3. Fair(db, x)
      BY <1>5, <1>6, <2>2, FairIsTransitive
    <2>4. Fair(db, y)
      BY <1>6, <1>7, <2>3, FairIsTransitive
    <2>5. Fair(db, z)
      BY <1>7, <1>8, <2>4, FairIsTransitive
    <2>6. QED
      BY <1>8, <1>9, <2>5, FairIsTransitive
  <1>11. c \in DB /\ m \in DB /\ Rewired(c, m)
    BY <1>3, <1>4, <1>5, <1>6, <1>7, <1>8, <1>9 DEF Rewired, Good
  <1>12. ASSUME NEW b \in m.rows
         PROVE  \/ b.run \in Nat /\ b.run <= latest
                \/ /\ b.run = run
                   /\ b.seq # -1 => <<b.order, b.line>> \in Keys(Frozen(p))
    <2>1. PICK r \in c.rows : AsBefore(b, r) /\ b.run = r.run
      BY <1>11, RewiredRow
    <2>2. CASE r \in db.rows
      BY <1>1, <2>1, <2>2
    <2>3. CASE r \notin db.rows
      <3>1. PICK o \in Related(p) : IsCopy(r, o, run)
        BY <1>3, <2>3 DEF Copying
      <3>2. o \in BatchRows
        BY DEF Good, DB, Related, RowsOf
      <3>3. AsBefore(r, o) /\ r.run = run
        BY <3>1, <3>2, CopiedRow
      <3>4. o.seq # -1 => <<o.order, o.line>> \in Keys(Frozen(p))
        BY RelatedWasStarted
      <3>5. QED
        BY <2>1, <3>3, <3>4 DEF AsBefore
    <2>4. QED
      BY <2>2, <2>3
  <1>13. PICK b \in CreateBatches(m, run, S) : e \in AutoSplit(b, run, late)
    BY <1>2
  <1>14. Good(b) /\ Fair(m, b) /\ Batched(m, b, run) /\ Complete(m, b, run, S)
    <2>1. ASSUME NEW r \in m.rows, r.run = run, r.seq # -1, NEW s \in S PROVE Key(s) # <<r.order, r.line>>
      <3>1. ~(run <= latest)
        BY <1>1
      <3>2. <<r.order, r.line>> \in Keys(Frozen(p))
        BY <1>12, <2>1, <3>1
      <3>3. QED
        BY <3>2 DEF Unstarted
    <2>2. S \subseteq m.sales
      BY DEF Unstarted
    <2> HIDE DEF S
    <2>3. QED
      BY <1>1, <1>9, <2>1, <2>2, CreateBatchesIsGood
  <1>15. /\ Good(e) /\ Fair(b, e) /\ (late = {} => e = b) /\ Parted(b, e, run)
         /\ \A r \in e.rows : \E q \in b.rows : r.run = q.run
    <2>1. \A g, h \in HeadersOf(b, run) : g.group = h.group => g = h
      BY <1>14 DEF Batched
    <2>2. QED
      BY <1>13, <1>14, <2>1, AutoSplitIsGood DEF Splitting
  <1>16. Fair(db, e)
    <2>1. Fair(db, b)
      BY <1>9, <1>10, <1>14, FairIsTransitive
    <2>2. QED
      BY <1>14, <1>15, <2>1, FairIsTransitive
  <1>17. Recent(e, run)
    <2>1. \A q \in b.rows : q.run = run \/ (q.run \in Nat /\ q.run <= latest)
      BY <1>12, <1>14 DEF Batched
    <2>2. \A q \in b.rows : q.run <= run
      BY <1>1, <2>1
    <2>3. QED
      BY <1>1, <1>15, <2>2 DEF Recent
  <1>18. Renewed(e, p, run)
    <2>1. b \in DB
      BY <1>14 DEF Good
    <2>2. QED
      BY <1>3, <1>11, <1>14, <1>15, <2>1 DEF Renewed
  <1>19. ASSUME Routed(db) PROVE Routed(b)
    <2>1. Routed(c)
      BY <1>3, <1>19, CopiesAreRouted
    <2>2. Follows(c, m) /\ m.rows \subseteq BatchRows
      BY <1>11, RewiredFollows DEF DB
    <2>3. Routed(m)
      BY <2>1, <2>2, RoutedFollows
    <2>4. QED
      BY <1>14, <2>3 DEF Complete
  <1>20. AllSupplied(b, b.rows, run, Unstarted(b, p, run))
    <2>1. Unstarted(b, p, run) = S
      BY <1>14 DEF Batched, Unstarted
    <2>2. QED
      BY <1>14, <2>1 DEF Complete
  <1>21. ASSUME mode = "incremental" PROVE Moved(db, b, p, run)
    <2>1. Moved(db, d, p, run)
      BY <1>3, <1>4, <1>5, <1>21 DEF Moved, Copying
    <2>2. Moved(db, x, p, run)
      BY <1>6, <2>1, MovedStay
    <2>3. Moved(db, y, p, run)
      BY <1>7, <2>2, MovedStay
    <2>4. Moved(db, z, p, run)
      BY <1>8, <2>3 DEF Moved
    <2>5. Moved(db, m, p, run)
      BY <1>9, <2>4, MovedStay
    <2>6. QED
      BY <1>14, <2>5 DEF Moved, Batched
  <1>22. late = {} => Continued(e, p, run, mode)
    BY <1>15, <1>19, <1>20, <1>21 DEF Continued
  <1>23. QED
    BY <1>15, <1>16, <1>17, <1>18, <1>22

-----------------------------------------------------------------------------
(* A new plan *)

(* A new plan, from the orders of the file to the groups that are split.   *)
LEMMA IngestIsGood ==
    ASSUME Good(db), NEW run \in Nat, NEW file \in Seq(Order), NEW survey \in Surveys, NEW window, NEW late, NEW matching,
           NEW parsed, parsed = [Purged EXCEPT !.sales = Parsed([Purged EXCEPT !.sales = {}], run, file)],
           NEW matched, matched = Matched(Surveyed(parsed, run, survey), run, {}, matching),
           NEW d \in CreateBatches(matched, run, {s \in matched.sales : Within(s, window)}),
           NEW e \in AutoSplit(d, run, late)
    PROVE  Good(e) /\ Taken(e) /\ Recent(e, run) /\ Routed(e)
  <1> DEFINE c == [Purged EXCEPT !.sales = {}]
             P == Parsed(c, run, file)
             z == Surveyed(parsed, run, survey)
             S == {s \in matched.sales : Within(s, window)}
  <1>1. Good(c) /\ Taken(c) /\ c.rows = {} /\ c.sales = {}
    BY PurgedIsGood
  <1>2. parsed = [c EXCEPT !.sales = @ \cup P]
    <2>1. [c EXCEPT !.sales = c.sales \cup P] = [c EXCEPT !.sales = P]
      <3>1. c.sales \cup P = P
        BY <1>1
      <3> HIDE DEF P, c
      <3>2. QED
        BY <3>1
    <2>2. [c EXCEPT !.sales = P] = parsed
      <3> HIDE DEF P
      <3>1. parsed = [Purged EXCEPT !.sales = P]
        BY DEF P
      <3>2. QED
        BY <3>1
    <2>3. QED
      BY <2>1, <2>2
  <1> HIDE DEF c
  <1>3. Good(parsed) /\ Fair(c, parsed) /\ parsed.rows = {}
    <2>1. IsFiniteSet(P) /\ P \subseteq SaleRows /\ \A s \in P : s.wip = Nothing
      BY <1>1, ParsedIsTyped
    <2>2. \A s, t \in P : Key(s) = Key(t) => s = t
      BY <1>1, ParsedIsTyped
    <2> HIDE DEF P
    <2>3. ~Clash(c, P)
      BY <1>1 DEF Clash
    <2>4. Good(parsed) /\ Fair(c, parsed) /\ Keeps(c, parsed)
      BY <1>1, <1>2, <2>1, <2>2, <2>3, MoreSales
    <2>5. QED
      BY <1>1, <2>4 DEF Keeps
  <1>4. Good(z) /\ Fair(parsed, z) /\ z.rows = {}
    BY <1>3, SurveyedIsGood
  <1> HIDE DEF z
  <1>5. Good(matched) /\ Fair(z, matched) /\ matched.rows = {}
    <2>1. matched = Matched(z, run, {}, matching)
      BY DEF z
    <2>2. QED
      BY <1>4, <2>1, MatchedIsGood DEF After, Keeps
  <1>6. Good(d) /\ Fair(matched, d) /\ Batched(matched, d, run) /\ Complete(matched, d, run, S)
    <2>1. S \subseteq matched.sales /\ d \in CreateBatches(matched, run, S)
      OBVIOUS
    <2> HIDE DEF S
    <2>2. QED
      BY <1>5, <2>1, CreateBatchesIsGood
  <1>7. /\ Good(e) /\ Fair(d, e)
        /\ \A b \in e.rows : \E q \in d.rows : b.run = q.run
        /\ OneRun(d) => Follows(d, e)
    <2>1. \A g, h \in HeadersOf(d, run) : g.group = h.group => g = h
      BY <1>6 DEF Batched
    <2>2. QED
      BY <1>6, <2>1, AutoSplitIsGood DEF Splitting
  <1>8. Taken(e)
    <2>1. Taken(parsed)
      BY <1>1, <1>3, TakenIsKept
    <2>2. Taken(z)
      BY <1>3, <1>4, <2>1, TakenIsKept
    <2>3. Taken(matched)
      BY <1>4, <1>5, <2>2, TakenIsKept
    <2>4. Taken(d)
      BY <1>5, <1>6, <2>3, TakenIsKept
    <2>5. QED
      BY <1>6, <1>7, <2>4, TakenIsKept
  <1>9. Recent(e, run)
    <2>1. \A q \in d.rows : q.run = run
      BY <1>5, <1>6 DEF Batched
    <2>2. \A b \in e.rows : b.run = run
      BY <1>7, <2>1
    <2>3. QED
      BY <2>2 DEF Recent
  <1>10. Routed(e)
    <2>1. Routed(matched)
      BY <1>5 DEF Routed
    <2>2. Routed(d)
      BY <1>6, <2>1 DEF Complete
    <2>3. Follows(d, e)
      <3>1. \A q \in d.rows : q.run = run
        BY <1>5, <1>6 DEF Batched
      <3>2. OneRun(d)
        BY <3>1 DEF OneRun
      <3>3. QED
        BY <1>7, <3>2
    <2>4. e.rows \subseteq BatchRows
      BY <1>7 DEF Good, DB
    <2>5. QED
      BY <2>2, <2>3, <2>4, RoutedFollows
  <1>11. QED
    BY <1>7, <1>8, <1>9, <1>10

-----------------------------------------------------------------------------
(* Work on the plan *)

(* Rows and stock that change and keep what others know of them.           *)
LEMMA Reworked ==
    ASSUME NEW d, Good(d), NEW e \in DB, e.sales = d.sales, e.nextRow = d.nextRow, e.nextStock = d.nextStock,
           NEW f, e.rows = {f[b] : b \in d.rows},
           \A b \in d.rows : Alike(f[b], b) /\ f[b].group = b.group /\ f[b].wip = b.wip,
           NEW g, e.stock = {g[w] : w \in d.stock},
           \A w \in d.stock : /\ g[w].id = w.id /\ g[w].source = w.source
                              /\ w.status \in Gone => g[w].status \in Gone,
           TasksHold(e)
    PROVE  /\ Good(e) /\ Fair(d, e)
           /\ \A n : Recent(d, n) => Recent(e, n)
           /\ Routed(d) => Routed(e)
  <1>1. \A b \in d.rows : HasOrder(f[b])
    BY DEF Good, RowsHaveOrders, HasOrder, Alike
  <1>2. IsFiniteSet(e.rows) /\ RowsAreKeyed(e) /\ RowsHaveOrders(e) /\ Once(e.rows)
    BY <1>1, FewerRows
  <1>3. TablesAreFinite(e) /\ SalesAreKeyed(e) /\ StockIsKeyed(e)
    <2>1. IsFiniteSet(e.stock)
      BY ImageIsFinite DEF Good, TablesAreFinite
    <2>2. StockIsKeyed(e)
      BY DEF Good, StockIsKeyed
    <2>3. SalesAreKeyed(e)
      BY DEF Good, SalesAreKeyed
    <2>4. QED
      BY <1>2, <2>1, <2>2, <2>3 DEF Good, TablesAreFinite
  <1>4. SourcesHold(e)
    <2>1. \A b \in d.rows : f[b] \in e.rows /\ f[b].id = b.id
      BY DEF Alike
    <2>2. QED
      BY <2>1 DEF Good, SourcesHold
  <1>5. WipsHold(e)
    <2>1. \A x : Holds(x, d) => Holds(x, e)
      BY DEF Holds
    <2>2. \A b \in d.rows : Holds(f[b], d)
      BY DEF Good, WipsHold, Holds
    <2>3. QED
      BY <2>1, <2>2 DEF Good, WipsHold
  <1>6. Good(e)
    BY <1>2, <1>3, <1>4, <1>5 DEF Good
  <1>7. Fair(d, e)
    <2>1. \A w \in e.stock : \E v \in d.stock : v.id = w.id /\ (v.status \in Gone => w.status \in Gone)
      OBVIOUS
    <2>2. \A s \in e.sales : s.wip # Nothing => \E t \in d.sales : Key(t) = Key(s) /\ t.wip = s.wip
      OBVIOUS
    <2>3. d \in DB
      BY DEF Good
    <2>4. QED
      BY <2>1, <2>2, <2>3, FairIfNoMore
  <1>8. \A n : Recent(d, n) => Recent(e, n)
    BY DEF Recent, Alike
  <1>9. ASSUME Routed(d) PROVE Routed(e)
    <2>1. \A b \in d.rows : f[b] \in e.rows /\ SameRow(f[b], b)
      BY DEF Alike, SameRow
    <2>2. Follows(d, e)
      BY <2>1 DEF Follows, Stems
    <2>3. e.rows \subseteq BatchRows
      BY DEF DB
    <2>4. QED
      BY <1>9, <2>2, <2>3, RoutedFollows
  <1>10. QED
    BY <1>6, <1>7, <1>8, <1>9

(* Rows get a status, and what they leave over is estimated.               *)
LEMMA WithStatusIsGood ==
    ASSUME Good(db), NEW ids, NEW status \in NewStatuses, NEW e, e = WithStatus(db, ids, status)
    PROVE  /\ Good(e) /\ Fair(db, e)
           /\ \A n : Recent(db, n) => Recent(e, n)
           /\ Routed(db) => Routed(e)
  <1> DEFINE f == [b \in db.rows |-> IF b.id \in ids THEN [b EXCEPT !.status = status] ELSE b]
             g == [w \in db.stock |-> IF status = "completed" /\ w.source \in ids /\ w.status = "expected"
                                      THEN [w EXCEPT !.status = "estimated"] ELSE w]
             F == {f[b] : b \in db.rows}
             G == {g[w] : w \in db.stock}
  <1>1. db \in DB /\ db.rows \subseteq BatchRows /\ db.stock \subseteq StockRows
    BY DEF Good, DB
  <1>2. status \in {"planned", "scheduled"} \cup Started
    BY Stage1Assumption
  <1>3. \A b \in db.rows : f[b] \in BatchRows /\ Alike(f[b], b) /\ f[b].group = b.group /\ f[b].wip = b.wip
    <2> TAKE b \in db.rows
    <2> DEFINE c == [b EXCEPT !.status = status]
    <2>1. c \in BatchRows /\ Alike(c, b) /\ c.group = b.group /\ c.wip = b.wip
      BY <1>1, <1>2 DEF BatchRows, Alike
    <2>2. Alike(b, b)
      BY DEF Alike
    <2>3. f[b] = c \/ f[b] = b
      OBVIOUS
    <2> HIDE DEF c, f
    <2>4. QED
      BY <1>1, <2>1, <2>2, <2>3
  <1>4. \A w \in db.stock : /\ g[w] \in StockRows /\ g[w].id = w.id /\ g[w].source = w.source
                            /\ w.status \in Gone => g[w].status \in Gone
    <2> TAKE w \in db.stock
    <2> DEFINE v == [w EXCEPT !.status = "estimated"]
    <2>1. v \in StockRows /\ v.id = w.id /\ v.source = w.source
      BY <1>1 DEF StockRows, Statuses, Listed
    <2>2. (g[w] = v /\ w.status \notin Gone) \/ g[w] = w
      BY DEF Gone
    <2> HIDE DEF v, g
    <2>3. QED
      BY <1>1, <2>1, <2>2
  <1>5. e = [db EXCEPT !.rows = F, !.stock = G]
    BY <1>1 DEF WithStatus, Promote, DB
  <1>6. F \subseteq BatchRows /\ G \subseteq StockRows
    BY <1>3, <1>4
  <1> HIDE DEF F, G
  <1>7. /\ e \in DB /\ e.rows = F /\ e.stock = G /\ e.sales = db.sales /\ e.tasks = db.tasks
        /\ e.nextRow = db.nextRow /\ e.nextStock = db.nextStock
    BY <1>1, <1>5, <1>6 DEF DB
  <1> HIDE DEF f, g
  <1>8. TasksHold(e)
    <2>1. \A b \in db.rows : f[b] \in e.rows /\ f[b].id = b.id /\ f[b].run = b.run
      BY <1>3, <1>7 DEF F, Alike
    <2>2. QED
      BY <1>7, <2>1 DEF Good, TasksHold
  <1>9. e.rows = {f[b] : b \in db.rows} /\ e.stock = {g[w] : w \in db.stock}
    BY <1>7 DEF F, G
  <1>10. QED
    BY <1>3, <1>4, <1>7, <1>8, <1>9, Reworked

(* The row that a group's task is for is one of the group.                 *)
LEMMA RepIsIn ==
    ASSUME NEW B, IsFiniteSet(B), B # {}, B \subseteq BatchRows
    PROVE  \E b \in B : b.id = Rep(B)
  <1> DEFINE C == IF \E h \in B : h.seq = -1 THEN {h \in B : h.seq = -1} ELSE B
             I == {b.id : b \in C}
             f == [b \in C |-> b.id]
  <1>1. C \subseteq B /\ C # {}
    OBVIOUS
  <1>2. Rep(B) = Min(I)
    BY DEF Rep
  <1> HIDE DEF C
  <1>3. IsFiniteSet(C)
    BY <1>1, FS_Subset
  <1>4. I = {f[b] : b \in C}
    OBVIOUS
  <1>5. I # {} /\ \A i \in I : i \in Int
    <2>1. \A b \in C : b.id \in Nat
      BY <1>1 DEF BatchRows
    <2>2. QED
      BY <1>1, <2>1
  <1> HIDE DEF I, f
  <1>6. IsFiniteSet(I)
    BY <1>3, <1>4, ImageIsFinite
  <1>7. I \subseteq Int
    BY <1>5
  <1>8. Min(I) \in I
    BY <1>5, <1>6, <1>7, MinIsIn
  <1>9. QED
    BY <1>1, <1>2, <1>8 DEF I

(* Stage 2 gives each group a task, that of one of its rows.               *)
LEMMA Stage2IsGood ==
    ASSUME Good(db), NEW run \in Nat, Stage2(run)
    PROVE  /\ Good(db') /\ Fair(db, db')
           /\ \A n : Recent(db, n) => Recent(db', n)
           /\ Routed(db) => Routed(db')
  <1> DEFINE done == {b \in Planned(run) : InStock(b)}
             todo == Planned(run) \ done
             group(b) == IF b.group = Nothing THEN {b} ELSE {c \in todo : c.group = b.group}
             kept == {t \in db.tasks : t.run # run \/ \E b \in RowsOf(db, run) : b.id = t.batch /\ b.status \in Started}
             now(b) == IF b \in done THEN [b EXCEPT !.status = "wip_complete"]
                       ELSE IF b \in todo THEN [b EXCEPT !.status = "scheduled"] ELSE b
             f == [b \in db.rows |-> now(b)]
             g == [w \in db.stock |-> w]
             F == {f[b] : b \in db.rows}
             T == {[run |-> run, batch |-> Rep(group(b))] : b \in todo}
             K == kept \cup T
             e == [db EXCEPT !.rows = F, !.tasks = K]
  <1>1. db \in DB /\ db.rows \subseteq BatchRows /\ db.tasks \subseteq [run : Nat, batch : Nat]
    BY DEF Good, DB
  <1>2. db' = e
    BY <1>1 DEF Stage2, DB
  <1>3. \A b \in db.rows : f[b] \in BatchRows /\ Alike(f[b], b) /\ f[b].group = b.group /\ f[b].wip = b.wip
    <2> TAKE b \in db.rows
    <2> DEFINE c == [b EXCEPT !.status = "wip_complete"]
               d == [b EXCEPT !.status = "scheduled"]
    <2>1. c \in BatchRows /\ Alike(c, b) /\ c.group = b.group /\ c.wip = b.wip
      BY <1>1 DEF BatchRows, Alike, Started
    <2>2. d \in BatchRows /\ Alike(d, b) /\ d.group = b.group /\ d.wip = b.wip
      BY <1>1 DEF BatchRows, Alike
    <2>3. Alike(b, b)
      BY DEF Alike
    <2>4. f[b] \in {b, c, d}
      OBVIOUS
    <2> HIDE DEF c, d, f
    <2>5. QED
      BY <1>1, <2>1, <2>2, <2>3, <2>4
  <1>4. todo \subseteq RowsOf(db, run)
    BY DEF Planned
  <1>5. \A b \in todo : b \in group(b) /\ group(b) \subseteq todo
    OBVIOUS
  <1>6. ASSUME NEW t \in T PROVE t.run = run /\ \E c \in RowsOf(db, run) : t.batch = c.id
    <2>1. PICK b \in todo : t = [run |-> run, batch |-> Rep(group(b))]
      OBVIOUS
    <2> HIDE DEF todo
    <2> DEFINE B == group(b)
    <2>2. b \in B /\ B \subseteq todo /\ t.run = run /\ t.batch = Rep(B)
      BY <1>5, <2>1
    <2> HIDE DEF group
    <2>3. B \subseteq db.rows /\ B \subseteq RowsOf(db, run)
      BY <1>4, <2>2 DEF RowsOf
    <2> HIDE DEF B
    <2>4. IsFiniteSet(B) /\ B # {} /\ B \subseteq BatchRows
      BY <1>1, <2>2, <2>3, FS_Subset DEF Good, TablesAreFinite
    <2>5. \E c \in B : c.id = Rep(B)
      BY <2>4, RepIsIn
    <2>6. QED
      BY <2>2, <2>3, <2>5
  <1>7. ASSUME NEW t \in K PROVE t \in [run : Nat, batch : Nat]
    <2>1. CASE t \in T
      <3>1. PICK c \in RowsOf(db, run) : t.batch = c.id
        BY <1>6, <2>1
      <3>2. t.batch \in Nat
        BY <1>1, <3>1 DEF RowsOf, BatchRows
      <3>3. PICK b \in todo : t = [run |-> run, batch |-> Rep(group(b))]
        BY <2>1
      <3> HIDE DEF group, todo
      <3>4. QED
        BY <3>2, <3>3
    <2>2. CASE t \in kept
      BY <1>1, <2>2
    <2> HIDE DEF kept, T
    <2>3. QED
      BY <2>1, <2>2
  <1>8. \A t \in K : t \in db.tasks \/ (t.run = run /\ \E c \in RowsOf(db, run) : t.batch = c.id)
    <2>1. kept \subseteq db.tasks
      OBVIOUS
    <2> HIDE DEF kept, T
    <2>2. QED
      BY <1>6, <2>1
  <1>9. F \subseteq BatchRows /\ K \subseteq [run : Nat, batch : Nat]
    <2>1. F \subseteq BatchRows
      BY <1>3
    <2> HIDE DEF F, K
    <2>2. QED
      BY <1>7, <2>1
  <1> HIDE DEF F, K, f, g
  <1>10. /\ e \in DB /\ e.rows = F /\ e.tasks = K /\ e.sales = db.sales /\ e.stock = db.stock
         /\ e.nextRow = db.nextRow /\ e.nextStock = db.nextStock
    BY <1>1, <1>9 DEF DB
  <1>11. e.rows = {f[b] : b \in db.rows} /\ e.stock = {g[w] : w \in db.stock}
    BY <1>10 DEF F, g
  <1> HIDE DEF e
  <1>12. TasksHold(e)
    <2>1. \A b \in db.rows : f[b] \in e.rows /\ f[b].id = b.id /\ f[b].run = b.run
      BY <1>3, <1>11 DEF Alike
    <2> SUFFICES ASSUME NEW t \in K PROVE \E b \in e.rows : b.run = t.run /\ b.id = t.batch
      BY <1>10 DEF TasksHold
    <2>2. PICK b \in db.rows : b.run = t.run /\ b.id = t.batch
      <3>1. CASE t \in db.tasks
        BY <3>1 DEF Good, TasksHold
      <3>2. CASE t \notin db.tasks
        BY <1>8, <3>2 DEF RowsOf
      <3>3. QED
        BY <3>1, <3>2
    <2>3. QED
      BY <2>1, <2>2
  <1>13. \A w \in db.stock : /\ g[w].id = w.id /\ g[w].source = w.source
                             /\ w.status \in Gone => g[w].status \in Gone
    BY DEF g
  <1>14. \A b \in db.rows : Alike(f[b], b) /\ f[b].group = b.group /\ f[b].wip = b.wip
    BY <1>3
  <1>15. /\ Good(e) /\ Fair(db, e)
         /\ \A n : Recent(db, n) => Recent(e, n)
         /\ Routed(db) => Routed(e)
    BY <1>10, <1>11, <1>12, <1>13, <1>14, Reworked
  <1>16. QED
    BY <1>2, <1>15

(* Stock is measured, and is gone as far as matching knows.                *)
LEMMA MeasuredIsGood ==
    ASSUME Good(db), NEW w \in db.stock, NEW len \in Lengths, UpdateWipActual(w, len)
    PROVE  /\ Good(db') /\ Fair(db, db')
           /\ \A n : Recent(db, n) => Recent(db', n)
           /\ Routed(db) => Routed(db')
  <1> DEFINE before == IF w.expected > 0 THEN w.expected ELSE w.len
             v == [w EXCEPT !.len = len, !.variance = len - before, !.status = "actual"]
             f == [b \in db.rows |-> b]
             g == [u \in db.stock |-> IF u = w THEN v ELSE u]
             G == (db.stock \ {w}) \cup {v}
             e == [db EXCEPT !.stock = G]
  <1>1. db \in DB /\ db.stock \subseteq StockRows
    BY DEF Good, DB
  <1>2. db' = e
    BY <1>1 DEF UpdateWipActual, DB
  <1>3. v \in StockRows /\ v.id = w.id /\ v.source = w.source /\ v.status \in Gone
    <2>1. w \in StockRows /\ len \in Nat
      BY <1>1, Stage1Assumption
    <2>2. before \in Nat
      BY <2>1 DEF StockRows
    <2>3. len - before \in Int
      BY <2>1, <2>2
    <2> HIDE DEF before
    <2>4. QED
      BY <2>1, <2>3 DEF StockRows, Statuses, Gone
  <1> HIDE DEF v
  <1>4. G \subseteq StockRows /\ G = {g[u] : u \in db.stock}
    BY <1>1, <1>3
  <1>5. \A u \in db.stock : /\ g[u].id = u.id /\ g[u].source = u.source
                            /\ u.status \in Gone => g[u].status \in Gone
    BY <1>3
  <1> HIDE DEF G, g
  <1>6. /\ e \in DB /\ e.rows = db.rows /\ e.tasks = db.tasks /\ e.sales = db.sales /\ e.stock = {g[u] : u \in db.stock}
        /\ e.nextRow = db.nextRow /\ e.nextStock = db.nextStock
    BY <1>1, <1>4 DEF DB
  <1> HIDE DEF e
  <1>7. e.rows = {f[b] : b \in db.rows} /\ TasksHold(e)
    BY <1>6 DEF Good, TasksHold
  <1>8. \A b \in db.rows : Alike(f[b], b) /\ f[b].group = b.group /\ f[b].wip = b.wip
    BY DEF Alike
  <1> HIDE DEF f
  <1>9. /\ Good(e) /\ Fair(db, e)
        /\ \A n : Recent(db, n) => Recent(e, n)
        /\ Routed(db) => Routed(e)
    BY <1>5, <1>6, <1>7, <1>8, Reworked
  <1>10. QED
    BY <1>2, <1>9

-----------------------------------------------------------------------------
(* A header for each row of stock that is short                            *)

(* The headers are numbered by their stock, whose numbers differ.          *)
LEMMA ShortageIsGood ==
    ASSUME Good(db), NEW run \in Nat, CreateShortageBatches(run)
    PROVE  /\ Good(db') /\ Fair(db, db')
           /\ \A n : run <= n /\ Recent(db, n) => Recent(db', n)
           /\ Routed(db) => Routed(db')
  <1> DEFINE short == {w \in db.stock : w.run = run /\ w.variance < 0 /\ w.status = "counted"}
             new == [w \in short |->
                       [id |-> w.id, run |-> run, order |-> 0, line |-> 0, seq |-> -1, proc |-> Strand, group |-> Nothing,
                        sq |-> w.kind[2], status |-> "planned", wip |-> Nothing, lots |-> Lots(-w.variance, w.kind[2]),
                        surplus |-> Surplus(-w.variance, w.kind[2]), due |-> 0]]
             D == {new[w] : w \in short}
  <1>1. db \in DB /\ db.stock \subseteq StockRows /\ short \subseteq db.stock /\ \A w \in short : w.variance < 0
    BY DEF Good, DB
  <1>2. db' = Insert(db, D)
    BY DEF CreateShortageBatches
  <1> HIDE DEF short
  <1>3. \A w \in short : /\ new[w] \in BatchRows /\ new[w].id = w.id /\ new[w].seq = -1 /\ new[w].group = Nothing
                         /\ new[w].wip = Nothing /\ new[w].run = run /\ new[w].order = 0
    <2> TAKE w \in short
    <2>1. w.id \in Nat /\ w.kind \in Kinds /\ w.variance \in Int /\ w.variance < 0
      BY <1>1 DEF StockRows
    <2> DEFINE l == Lots(-w.variance, w.kind[2])
               r == Surplus(-w.variance, w.kind[2])
               q == w.kind[2]
               i == w.id
    <2>2. q \in Range(SqOf)
      BY <2>1, StockAssumption DEF Kinds, Range
    <2>3. -w.variance \in Nat
      BY <2>1
    <2>4. l \in Nat /\ r \in Nat
      <3> HIDE DEF q
      <3> DEFINE n == -w.variance
      <3>1. n \in Nat
        BY <2>3
      <3> HIDE DEF n
      <3>2. Lots(n, q) \in Nat /\ Surplus(n, q) \in Nat
        BY <2>2, <3>1, LotsAreNumbers
      <3>3. QED
        BY <3>2 DEF n, q
    <2>5. new[w] = [id |-> i, run |-> run, order |-> 0, line |-> 0, seq |-> -1, proc |-> Strand, group |-> Nothing,
                    sq |-> q, status |-> "planned", wip |-> Nothing, lots |-> l, surplus |-> r, due |-> 0]
      OBVIOUS
    <2>6. i \in Nat
      BY <2>1
    <2> HIDE DEF l, r, q, i, new
    <2>7. new[w] \in BatchRows
      BY <2>2, <2>4, <2>5, <2>6 DEF BatchRows, Strand
    <2>8. QED
      BY <2>5, <2>7 DEF i
  <1>4. IsFiniteSet(D)
    <2>1. IsFiniteSet(short)
      BY <1>1, FS_Subset DEF Good, TablesAreFinite
    <2> HIDE DEF new
    <2>2. QED
      BY <2>1, ImageIsFinite
  <1> HIDE DEF new
  <1>5. D \subseteq BatchRows /\ \A b \in D : b.seq = -1 /\ b.group = Nothing /\ b.wip = Nothing /\ b.run = run /\ b.order = 0
    BY <1>3
  <1>6. \A b, c \in D : Rank(b) = Rank(c) => b = c
    <2> SUFFICES ASSUME NEW v \in short, NEW w \in short, Rank(new[v]) = Rank(new[w]) PROVE v = w
      OBVIOUS
    <2>1. Rank(new[v])[5] = new[v].id /\ Rank(new[w])[5] = new[w].id
      BY DEF Rank
    <2>2. v.id = w.id
      BY <1>3, <2>1
    <2>3. QED
      BY <1>1, <2>2 DEF Good, StockIsKeyed
  <1> HIDE DEF D
  <1>7. \A b \in D : HasOrder(b) /\ Holds(b, db)
    BY <1>5 DEF HasOrder, Holds
  <1>8. Once(db.rows \cup D)
    <2>1. \A b \in D : \A c : ~(b.seq # -1) /\ (SameRow(c, b) => ~(c.seq # -1))
      BY <1>5 DEF SameRow
    <2>2. QED
      BY <2>1 DEF Good, Once
  <1>9. \A b \in D : b.seq # -1 => b \notin db.rows /\ \A c \in db.rows : ~SameRow(b, c)
    BY <1>5
  <1>10. Good(Insert(db, D)) /\ Fair(db, Insert(db, D)) /\ Adds(db, Insert(db, D), D)
    BY <1>4, <1>5, <1>6, <1>7, <1>8, <1>9, InsertIsGood
  <1>11. ASSUME NEW n, run <= n, Recent(db, n) PROVE Recent(Insert(db, D), n)
    <2>1. ASSUME NEW b \in Insert(db, D).rows, b \notin db.rows PROVE b.run = run
      <3>1. PICK c \in D : b = [c EXCEPT !.id = b.id]
        BY <1>10, <2>1 DEF Adds
      <3> DEFINE i == b.id
      <3>2. b = [c EXCEPT !.id = i]
        BY <3>1
      <3> HIDE DEF i
      <3>3. QED
        BY <1>5, <3>2 DEF BatchRows
    <2>2. QED
      BY <1>11, <2>1 DEF Recent
  <1>12. ASSUME Routed(db) PROVE Routed(Insert(db, D))
    <2>1. ASSUME NEW b \in D PROVE OnRoute(b) /\ Named(b, D)
      <3>1. ~(-1 >= 1)
        OBVIOUS
      <3>2. QED
        BY <1>5, <3>1 DEF OnRoute, Named
    <2>2. QED
      BY <1>5, <1>10, <1>12, <2>1, MoreRouted
  <1>13. QED
    BY <1>2, <1>10, <1>11, <1>12

-----------------------------------------------------------------------------
(* A run is deleted *)

(* What refers to the run is cleared before the run goes.                  *)
LEMMA DeletedIsGood ==
    ASSUME Good(db), NEW run \in Nat, DeleteRun(run)
    PROVE  /\ Good(db')
           /\ \A n : Recent(db, n) => Recent(db', n)
           /\ Routed(db) => Routed(db')
  <1> DEFINE stock == {w.id : w \in {x \in db.stock : x.run = run}}
             rows  == {b.id : b \in RowsOf(db, run)}
             free(w) == IF w.status = "used" /\ w.matched # Nothing
                        THEN [w EXCEPT !.status = "free", !.matched = Nothing] ELSE w
             loose(w) == IF w.source \in rows THEN [w EXCEPT !.source = Nothing] ELSE w
             off(x) == IF x.wip \in stock THEN [x EXCEPT !.wip = Nothing] ELSE x
             L == {x \in db.sales : x.run # run}
             K == {x \in db.rows : x.run # run}
             W == {x \in db.stock : x.run # run}
             g == [s \in L |-> off(s)]
             f == [b \in K |-> off(b)]
             h == [w \in W |-> free(loose(w))]
             S == {g[s] : s \in L}
             B == {f[b] : b \in K}
             H == {h[w] : w \in W}
             T == {t \in db.tasks : t.run # run}
             e == [db EXCEPT !.sales = S, !.rows = B, !.tasks = T, !.stock = H]
  <1>1. /\ db \in DB /\ db.sales \subseteq SaleRows /\ db.rows \subseteq BatchRows /\ db.stock \subseteq StockRows
        /\ db.tasks \subseteq [run : Nat, batch : Nat]
    BY DEF Good, DB
  <1>2. db' = e
    BY <1>1 DEF DeleteRun, DB
  <1>3. \A b \in K : /\ f[b] \in BatchRows /\ Alike(f[b], b) /\ f[b].group = b.group
                     /\ f[b].wip = Nothing \/ (f[b].wip = b.wip /\ b.wip \notin stock)
    <2> TAKE b \in K
    <2> DEFINE c == [b EXCEPT !.wip = Nothing]
    <2>1. b \in BatchRows /\ f[b] = IF b.wip \in stock THEN c ELSE b
      BY <1>1
    <2>2. c \in BatchRows /\ Alike(c, b) /\ c.group = b.group /\ c.wip = Nothing
      BY <2>1 DEF BatchRows, Alike
    <2>3. Alike(b, b)
      BY DEF Alike
    <2> HIDE DEF stock, f, c
    <2>4. CASE b.wip \in stock
      BY <2>1, <2>2, <2>4
    <2>5. CASE b.wip \notin stock
      BY <2>1, <2>3, <2>5
    <2>6. QED
      BY <2>4, <2>5
  <1>4. \A s \in L : /\ g[s] \in SaleRows /\ Key(g[s]) = Key(s)
                     /\ g[s].wip = Nothing \/ (g[s].wip = s.wip /\ s.wip \notin stock)
    <2> TAKE s \in L
    <2> DEFINE t == [s EXCEPT !.wip = Nothing]
    <2>1. s \in SaleRows /\ g[s] = IF s.wip \in stock THEN t ELSE s
      BY <1>1
    <2>2. t \in SaleRows /\ Key(t) = Key(s) /\ t.wip = Nothing
      BY <2>1 DEF SaleRows, Key
    <2> HIDE DEF stock, g, t
    <2>3. CASE s.wip \in stock
      BY <2>1, <2>2, <2>3
    <2>4. CASE s.wip \notin stock
      BY <2>1, <2>4
    <2>5. QED
      BY <2>3, <2>4
  <1>5. \A w \in W : /\ h[w] \in StockRows /\ h[w].id = w.id
                     /\ h[w].source = Nothing \/ (h[w].source = w.source /\ w.source \notin rows)
    <2> TAKE w \in W
    <2> DEFINE v == loose(w)
               u == [v EXCEPT !.status = "free", !.matched = Nothing]
    <2>1. w \in StockRows
      BY <1>1
    <2>2. v \in StockRows /\ v.id = w.id /\ (v.source = Nothing \/ (v.source = w.source /\ w.source \notin rows))
      <3> DEFINE x == [w EXCEPT !.source = Nothing]
      <3>1. v = IF w.source \in rows THEN x ELSE w
        OBVIOUS
      <3>2. x \in StockRows /\ x.id = w.id /\ x.source = Nothing
        BY <2>1 DEF StockRows
      <3> HIDE DEF rows, v, x
      <3>3. CASE w.source \in rows
        BY <3>1, <3>2, <3>3
      <3>4. CASE w.source \notin rows
        BY <2>1, <3>1, <3>4
      <3>5. QED
        BY <3>3, <3>4
    <2>3. h[w] = u \/ h[w] = v
      OBVIOUS
    <2> HIDE DEF v, h, rows
    <2>4. u \in StockRows /\ u.id = v.id /\ u.source = v.source
      BY <2>2 DEF StockRows, Statuses, Listed
    <2> HIDE DEF u
    <2>5. QED
      BY <2>2, <2>3, <2>4
  <1>6. S \subseteq SaleRows /\ B \subseteq BatchRows /\ H \subseteq StockRows /\ T \subseteq [run : Nat, batch : Nat]
    <2>1. S \subseteq SaleRows
      BY <1>4
    <2>2. B \subseteq BatchRows
      BY <1>3
    <2>3. H \subseteq StockRows
      BY <1>5
    <2>4. T \subseteq [run : Nat, batch : Nat]
      BY <1>1
    <2> HIDE DEF S, B, H, T
    <2>5. QED
      BY <2>1, <2>2, <2>3, <2>4
  <1> HIDE DEF S, B, H, T, f, g, h
  <1>7. /\ e \in DB /\ e.sales = S /\ e.rows = B /\ e.tasks = T /\ e.stock = H
        /\ e.nextRow = db.nextRow /\ e.nextStock = db.nextStock
    BY <1>1, <1>6 DEF DB
  <1>8. e.sales = {g[s] : s \in L} /\ e.rows = {f[b] : b \in K} /\ e.stock = {h[w] : w \in W}
    BY <1>7 DEF S, B, H
  <1> HIDE DEF e
  <1>9. IsFiniteSet(e.rows) /\ RowsAreKeyed(e) /\ RowsHaveOrders(e) /\ Once(e.rows)
    <2>1. ASSUME NEW b \in K PROVE Alike(f[b], b) /\ HasOrder(f[b])
      <3>1. Alike(f[b], b) /\ f[b].group = b.group
        BY <1>3
      <3>2. HasOrder(b)
        BY DEF Good, RowsHaveOrders
      <3>3. QED
        BY <3>1, <3>2 DEF HasOrder, Alike
    <2>2. K \subseteq db.rows
      OBVIOUS
    <2> HIDE DEF K
    <2>3. QED
      BY <1>7, <1>8, <2>1, <2>2, FewerRows
  <1>10. TablesAreFinite(e) /\ SalesAreKeyed(e) /\ StockIsKeyed(e)
    <2>1. IsFiniteSet(L) /\ IsFiniteSet(W)
      BY FS_Subset DEF Good, TablesAreFinite
    <2>2. SalesAreKeyed(e)
      BY <1>4, <1>8 DEF Good, SalesAreKeyed
    <2>3. StockIsKeyed(e)
      BY <1>5, <1>7, <1>8 DEF Good, StockIsKeyed
    <2> HIDE DEF L, W
    <2>4. IsFiniteSet(e.sales)
      BY <1>8, <2>1, ImageIsFinite
    <2>5. IsFiniteSet(e.stock)
      BY <1>8, <2>1, ImageIsFinite
    <2>6. QED
      BY <1>9, <2>2, <2>3, <2>4, <2>5 DEF TablesAreFinite
  <1>11. \A b \in K : f[b] \in e.rows /\ f[b].id = b.id /\ f[b].run = b.run
    BY <1>3, <1>8 DEF Alike
  <1>12. TasksHold(e)
    <2>1. ASSUME NEW t \in db.tasks, t.run # run PROVE \E b \in e.rows : b.run = t.run /\ b.id = t.batch
      <3>1. PICK b \in db.rows : b.run = t.run /\ b.id = t.batch
        BY DEF Good, TasksHold
      <3>2. b \in K
        BY <2>1, <3>1
      <3>3. QED
        BY <1>11, <3>1, <3>2
    <2>2. QED
      BY <1>7, <2>1 DEF T, TasksHold
  <1>13. SourcesHold(e)
    <2>1. ASSUME NEW w \in W PROVE h[w].source = Nothing \/ \E b \in e.rows : b.id = h[w].source
      <3>1. SUFFICES ASSUME h[w].source = w.source, w.source # Nothing, w.source \notin rows
                     PROVE  \E b \in e.rows : b.id = w.source
        <4> HIDE DEF W, rows
        <4>1. QED
          BY <1>5
      <3>2. PICK b \in db.rows : b.id = w.source
        BY <3>1 DEF Good, SourcesHold
      <3>3. b \in K
        BY <3>1, <3>2 DEF RowsOf
      <3>4. QED
        BY <1>11, <3>2, <3>3
    <2>2. QED
      BY <1>8, <2>1 DEF SourcesHold
  <1>14. WipsHold(e)
    <2>1. ASSUME NEW x, Holds(x, db), x.wip \notin stock PROVE Holds(x, e)
      <3>1. CASE x.wip = Nothing
        BY <3>1 DEF Holds
      <3>2. CASE x.wip # Nothing
        <4>1. PICK w \in db.stock : w.id = x.wip
          BY <2>1, <3>2 DEF Holds
        <4>2. w \in W
          BY <2>1, <4>1
        <4>3. h[w] \in e.stock /\ h[w].id = w.id
          BY <1>5, <1>8, <4>2
        <4>4. QED
          BY <4>1, <4>3 DEF Holds
      <3>3. QED
        BY <3>1, <3>2
    <2>2. ASSUME NEW b \in K PROVE Holds(f[b], e)
      <3>1. CASE f[b].wip = Nothing
        BY <3>1 DEF Holds
      <3>2. CASE f[b].wip = b.wip /\ b.wip \notin stock
        BY <2>1, <3>2 DEF Good, WipsHold, Holds
      <3>3. QED
        BY <1>3, <3>1, <3>2
    <2>3. ASSUME NEW s \in L PROVE Holds(g[s], e)
      <3>1. CASE g[s].wip = Nothing
        BY <3>1 DEF Holds
      <3>2. CASE g[s].wip = s.wip /\ s.wip \notin stock
        BY <2>1, <3>2 DEF Good, WipsHold, Holds
      <3>3. QED
        BY <1>4, <3>1, <3>2
    <2>4. QED
      BY <1>8, <2>2, <2>3 DEF WipsHold
  <1>15. Good(e)
    BY <1>7, <1>9, <1>10, <1>12, <1>13, <1>14 DEF Good
  <1>16. ASSUME NEW n, Recent(db, n) PROVE Recent(e, n)
    <2>1. \A b \in K : f[b].run <= n
      BY <1>3, <1>16 DEF Recent, Alike
    <2>2. QED
      BY <1>8, <1>16, <2>1 DEF Recent
  <1>17. ASSUME Routed(db) PROVE Routed(e)
    <2>1. \A b \in K : f[b] \in e.rows /\ SameRow(f[b], b) /\ b \in db.rows
      BY <1>3, <1>8 DEF Alike, SameRow
    <2>2. \A b \in e.rows : \E c \in db.rows : Stems(b, c)
      BY <1>8, <2>1 DEF Stems
    <2>3. \A b \in e.rows : b.run # run
      BY <1>3, <1>8 DEF Alike
    <2>4. \A c \in db.rows : (\E b \in e.rows : b.run = c.run) => c \in K
      BY <2>3
    <2>5. Follows(db, e)
      BY <2>1, <2>2, <2>4 DEF Follows
    <2>6. e.rows \subseteq BatchRows
      BY <1>7 DEF DB
    <2>7. QED
      BY <1>17, <2>5, <2>6, RoutedFollows
  <1>18. QED
    BY <1>2, <1>15, <1>16, <1>17

-----------------------------------------------------------------------------
(* The invariant *)

(* The requests that are counted.                                          *)
Requests == {"ingest", "update", "status", "stage2", "delete", "measure", "shortage"}

(* The inductive invariant. Stock that orders are on is gone as long as no *)
(* run was deleted: deleting one makes used stock free again.  Rows keep   *)
(* to the routes where no update splits a group: the header of a second    *)
(* half is put into the run of the first header that is found, which need  *)
(* not be that of the order that it names.                                 *)
PlanInv ==
    /\ Good(db) /\ Recent(db, latest)
    /\ made \in [Requests -> Nat]
    /\ made["delete"] = 0 => Taken(db)
    /\ Late["update"] = {} => Routed(db)

(* A request counts itself alone.                                          *)
LEMMA RequestCounts ==
    ASSUME made \in [Requests -> Nat], NEW r \in Requests, NEW update, Asked(r, update)
    PROVE  /\ made' \in [Requests -> Nat] /\ made'[r] # made[r]
           /\ \A q \in Requests : q # r => made'[q] = made[q]
           /\ made["delete"] = 0 \/ made'["delete"] # 0
           /\ r = "delete" => made'["delete"] # 0
           /\ last' = update
  <1>1. made' = [made EXCEPT ![r] = @ + 1] /\ made[r] \in Nat /\ last' = update
    BY DEF Asked
  <1>2. made'[r] = made[r] + 1 /\ \A q \in Requests : q # r => made'[q] = made[q]
    BY <1>1
  <1>3. made' \in [Requests -> Nat]
    BY <1>1
  <1>4. made'[r] # made[r] /\ made'[r] # 0
    BY <1>1, <1>2
  <1>5. "delete" \in Requests
    BY DEF Requests
  <1>6. made["delete"] = 0 \/ made'["delete"] # 0
    BY <1>2, <1>4, <1>5
  <1>7. QED
    BY <1>1, <1>2, <1>3, <1>4, <1>6

(* A step that is fair, a deletion or a new plan.                          *)
Stepped ==
    /\ Good(db') /\ Recent(db', latest') /\ made' \in [Requests -> Nat]
    /\ made["delete"] = 0 \/ made'["delete"] # 0
    /\ Late["update"] = {} => Routed(db')
    /\ \/ Fair(db, db')
       \/ made'["delete"] # 0
       \/ Taken(db') /\ made'["ingest"] # made["ingest"]

(* A step of an update, or none.                                           *)
UpdateStep ==
    IsUpdate => \E p \in Runs :
                   /\ last'.parent = p /\ latest' = latest + 1 /\ Good(db') /\ Renewed(db', p, latest + 1)
                   /\ Late["update"] = {} => Continued(db', p, latest + 1, last'.mode)

(* A request that changes nothing is fair.                                 *)
LEMMA StaysFair ==
    ASSUME Good(db), Recent(db, latest), db' = db, latest' = latest
    PROVE  Good(db') /\ Fair(db, db') /\ Recent(db', latest')
  <1>1. Fair(db, db)
    BY FairIfSame DEF Good
  <1>2. QED
    BY <1>1

(* The steps of the plan, one by one.                                      *)
LEMMA IngestStep ==
    ASSUME PlanInv, NEW file \in Files, NEW survey \in Surveys, NEW window, NEW late, NEW matching,
           Ingest(file, survey, window, late, matching)
    PROVE  Stepped /\ ~IsUpdate
  <1>1. Asked("ingest", NoUpdate) /\ latest' = latest + 1 /\ latest + 1 \in Nat /\ "ingest" \in Requests /\ "update" \in Requests
    <2>1. latest \in Nat
      BY DEF PlanInv, Recent
    <2>2. Asked("ingest", NoUpdate) /\ latest' = latest + 1
      BY DEF Ingest, Request
    <2>3. "ingest" \in Requests /\ "update" \in Requests
      BY DEF Requests
    <2>4. latest + 1 \in Nat
      BY <2>1
    <2>5. QED
      BY <2>2, <2>3, <2>4
  <1> DEFINE run == latest + 1
             parsed == [Purged EXCEPT !.sales = Parsed([Purged EXCEPT !.sales = {}], run, file)]
             matched == Matched(Surveyed(parsed, run, survey), run, {}, matching)
             S == {s \in matched.sales : Within(s, window)}
  <1>2. PICK d \in CreateBatches(matched, run, S) : \E e \in AutoSplit(d, run, late) : db' = e
    BY DEF Ingest, Request
  <1>3. PICK e \in AutoSplit(d, run, late) : db' = e
    BY <1>2
  <1>4. file \in Seq(Order) /\ Good(db)
    BY Stage1Assumption DEF PlanInv
  <1>5. Good(e) /\ Taken(e) /\ Recent(e, run) /\ Routed(e)
    <2>1. run \in Nat
      BY <1>1
    <2>2. parsed = [Purged EXCEPT !.sales = Parsed([Purged EXCEPT !.sales = {}], run, file)]
          /\ matched = Matched(Surveyed(parsed, run, survey), run, {}, matching)
          /\ d \in CreateBatches(matched, run, {s \in matched.sales : Within(s, window)})
      BY <1>2
    <2> HIDE DEF run, parsed, matched
    <2>3. QED
      BY <1>3, <1>4, <2>1, <2>2, IngestIsGood
  <1>6. Good(db') /\ Taken(db') /\ Recent(db', latest') /\ Routed(db')
    BY <1>1, <1>3, <1>5
  <1>7. QED
    BY <1>1, <1>6, RequestCounts DEF Stepped, IsUpdate, PlanInv

(* An ingest that is refused has deleted the plan.                         *)
LEMMA IngestRefusedStep ==
    ASSUME PlanInv, IngestRefused
    PROVE  Stepped /\ ~IsUpdate
  <1>1. Asked("ingest", NoUpdate) /\ db' = Purged /\ latest' = latest /\ "ingest" \in Requests /\ "update" \in Requests
    BY DEF IngestRefused, Requests, Request
  <1>2. Good(Purged) /\ Taken(Purged) /\ Purged.rows = {}
    BY PurgedIsGood DEF PlanInv
  <1>3. Good(db') /\ Taken(db') /\ Recent(db', latest') /\ Routed(db')
    BY <1>1, <1>2 DEF Recent, PlanInv, Routed
  <1>4. QED
    BY <1>1, <1>3, RequestCounts DEF Stepped, IsUpdate, PlanInv

(* A status is set, by whichever of the three routes.                      *)
LEMMA StatusStep ==
    ASSUME PlanInv, NEW status \in NewStatuses, NEW ids,
           Asked("status", NoUpdate), db' = WithStatus(db, ids, status), latest' = latest
    PROVE  Stepped /\ ~IsUpdate
  <1>1. "status" \in Requests /\ "update" \in Requests
    BY DEF Requests
  <1>2. Good(db') /\ Fair(db, db') /\ Recent(db', latest') /\ (Late["update"] = {} => Routed(db'))
    BY WithStatusIsGood DEF PlanInv
  <1>3. QED
    BY <1>1, <1>2, RequestCounts DEF Stepped, IsUpdate, PlanInv

(* An update that is accepted.                                             *)
LEMMA UpdatedStep ==
    ASSUME PlanInv, NEW mode, NEW p \in Runs, NEW file \in Files, NEW survey \in Surveys, NEW late \in SUBSET Late["update"], NEW matching,
           Update(mode, p, file, survey, late, matching)
    PROVE  Stepped /\ UpdateStep
  <1>1. Asked("update", [mode |-> mode, parent |-> p]) /\ latest' = latest + 1 /\ "update" \in Requests
    BY DEF Update, Requests
  <1>2. db' \in Updated(mode, p, latest + 1, file, survey, late, matching) /\ file \in Seq(Order)
    BY Stage1Assumption DEF Update
  <1>3. Good(db) /\ Recent(db, latest) /\ p \in Nat
    BY DEF PlanInv, Runs, Recent
  <1>4. \A e \in Updated(mode, p, latest + 1, file, survey, late, matching) :
           /\ Good(e) /\ Fair(db, e) /\ Recent(e, latest + 1) /\ Renewed(e, p, latest + 1)
           /\ late = {} => Continued(e, p, latest + 1, mode)
    BY <1>2, <1>3, UpdatedIsGood
  <1>5. /\ Good(db') /\ Fair(db, db') /\ Recent(db', latest') /\ Renewed(db', p, latest + 1)
        /\ late = {} => Continued(db', p, latest + 1, mode)
    BY <1>1, <1>2, <1>4
  <1>6. Late["update"] = {} => late = {}
    OBVIOUS
  <1>7. Late["update"] = {} => Routed(db')
    BY <1>5, <1>6 DEF PlanInv, Continued
  <1>8. Stepped
    BY <1>1, <1>5, <1>7, RequestCounts DEF Stepped, PlanInv
  <1>9. last'.parent = p /\ last'.mode = mode
    <2>1. last' = [mode |-> mode, parent |-> p]
      BY <1>1, RequestCounts DEF PlanInv
    <2>2. QED
      BY <2>1
  <1>10. QED
    BY <1>1, <1>5, <1>6, <1>8, <1>9 DEF UpdateStep

(* Any step.                                                               *)
LEMMA NextStep ==
    ASSUME PlanInv, Next
    PROVE  Stepped /\ UpdateStep
  <1>1. "update" \in Requests /\ "stage2" \in Requests /\ "delete" \in Requests /\ "measure" \in Requests /\ "shortage" \in Requests
    BY DEF Requests
  <1>2. ~IsUpdate => UpdateStep
    BY DEF UpdateStep
  <1>3. /\ Good(db) /\ Recent(db, latest) /\ latest \in Nat /\ made \in [Requests -> Nat]
        /\ Late["update"] = {} => Routed(db)
    BY DEF PlanInv, Recent
  <1>4. \A r \in Runs : r \in Nat /\ r <= latest
    BY <1>3 DEF Runs
  <1>5. ASSUME NEW survey \in Surveys, NEW file \in Files, NEW window \in Windows, NEW late \in SUBSET Late["ingest"],
               NEW matching \in Matching["ingest"],
               Ingest(file, survey, window, late, matching)
        PROVE  Stepped /\ ~IsUpdate
    BY <1>5, IngestStep
  <1>6. ASSUME NEW survey \in Surveys, NEW mode \in {"incremental", "full"}, NEW p \in Runs, NEW file \in Files,
               NEW late \in SUBSET Late["update"], NEW matching \in Matching["update"], Update(mode, p, file, survey, late, matching)
        PROVE  Stepped /\ UpdateStep
    BY <1>6, UpdatedStep
  <1>7. ASSUME NEW survey \in Surveys, NEW mode \in {"incremental", "full"}, NEW p \in Runs, NEW file \in Files,
               NEW late \in SUBSET Late["update"], NEW matching \in Matching["update"],
               UpdateRefused(mode, p, file, survey, late, matching)
        PROVE  Stepped /\ ~IsUpdate
    <2>1. Asked("update", NoUpdate) /\ db' = db /\ latest' = latest
      BY <1>7 DEF UpdateRefused, Request
    <2>3. last' = NoUpdate
      BY <1>1, <1>3, <2>1, RequestCounts
    <2>4. QED
      BY <1>1, <1>3, <2>1, <2>3, StaysFair, RequestCounts DEF Stepped, IsUpdate
  <1>8. ASSUME NEW status \in NewStatuses, NEW b \in db.rows, UpdateBatchStatus(b, status)
        PROVE  Stepped /\ ~IsUpdate
    <2>1. Asked("status", NoUpdate) /\ latest' = latest /\ \E ids : db' = WithStatus(db, ids, status)
      BY <1>8 DEF UpdateBatchStatus, Request
    <2>2. QED
      BY <2>1, StatusStep
  <1>9. ASSUME NEW status \in NewStatuses, NEW b \in db.rows, UpdateBatch(b, status)
        PROVE  Stepped /\ ~IsUpdate
    BY <1>9, StatusStep DEF UpdateBatch, Request
  <1>10. ASSUME NEW status \in NewStatuses, NEW g, UpdateBatchGroupStatus(g, status)
         PROVE  Stepped /\ ~IsUpdate
    BY <1>10, StatusStep DEF UpdateBatchGroupStatus, Request
  <1>11. ASSUME NEW run \in Runs, Stage2(run) PROVE Stepped /\ ~IsUpdate
    <2>1. Asked("stage2", NoUpdate) /\ latest' = latest
      BY <1>11 DEF Stage2, Request
    <2>2. Good(db') /\ Fair(db, db') /\ Recent(db', latest') /\ (Late["update"] = {} => Routed(db'))
      BY <1>3, <1>4, <1>11, <2>1, Stage2IsGood
    <2>3. QED
      BY <1>1, <1>3, <2>1, <2>2, RequestCounts DEF Stepped, IsUpdate
  <1>12. ASSUME NEW run \in Runs, DeleteRun(run) PROVE Stepped /\ ~IsUpdate
    <2>1. Asked("delete", NoUpdate) /\ latest' = latest
      BY <1>12 DEF DeleteRun, Request
    <2>2. Good(db') /\ Recent(db', latest') /\ (Late["update"] = {} => Routed(db'))
      BY <1>3, <1>4, <1>12, <2>1, DeletedIsGood
    <2>3. QED
      BY <1>1, <1>3, <2>1, <2>2, RequestCounts DEF Stepped, IsUpdate
  <1>13. ASSUME NEW run \in Runs, CreateShortageBatches(run) PROVE Stepped /\ ~IsUpdate
    <2>1. Asked("shortage", NoUpdate) /\ latest' = latest
      BY <1>13 DEF CreateShortageBatches, Request
    <2>2. Good(db') /\ Fair(db, db') /\ Recent(db', latest') /\ (Late["update"] = {} => Routed(db'))
      BY <1>3, <1>4, <1>13, <2>1, ShortageIsGood
    <2>3. QED
      BY <1>1, <1>3, <2>1, <2>2, RequestCounts DEF Stepped, IsUpdate
  <1>14. ASSUME NEW w \in db.stock, NEW len \in Lengths, UpdateWipActual(w, len) PROVE Stepped /\ ~IsUpdate
    <2>1. Asked("measure", NoUpdate) /\ latest' = latest
      BY <1>14 DEF UpdateWipActual, Request
    <2>2. Good(db') /\ Fair(db, db') /\ Recent(db', latest') /\ (Late["update"] = {} => Routed(db'))
      BY <1>3, <1>14, <2>1, MeasuredIsGood
    <2>3. QED
      BY <1>1, <1>3, <2>1, <2>2, RequestCounts DEF Stepped, IsUpdate
  <1>15. ASSUME IngestRefused PROVE Stepped /\ ~IsUpdate
    BY <1>15, IngestRefusedStep
  <1>16. QED
    BY <1>2, <1>5, <1>6, <1>7, <1>8, <1>9, <1>10, <1>11, <1>12, <1>13, <1>14, <1>15 DEF Next

(* The invariant holds in the first state, and each step keeps it.         *)
LEMMA PlanInvHolds == Spec => []PlanInv
  <1>1. Init => PlanInv
    <2> SUFFICES ASSUME Init PROVE PlanInv
      OBVIOUS
    <2>1. /\ db = [sales |-> {}, rows |-> {}, tasks |-> {}, stock |-> {}, nextRow |-> 1, nextStock |-> 1]
          /\ latest = 0 /\ made = [r \in DOMAIN Bound |-> 0]
      BY DEF Init
    <2>2. db \in DB /\ db.sales = {} /\ db.rows = {} /\ db.tasks = {} /\ db.stock = {}
      BY <2>1 DEF DB
    <2>3. IsFiniteSet(db.sales) /\ SalesAreKeyed(db) /\ \A s \in db.sales : s.wip = Nothing
      BY <2>2, FS_EmptySet DEF SalesAreKeyed
    <2>4. Good(db) /\ Taken(db)
      BY <2>2, <2>3, NoPlanIsGood
    <2>5. Recent(db, latest)
      BY <2>1, <2>2 DEF Recent
    <2>6. made \in [Requests -> Nat]
      BY <2>1, Stage1Assumption DEF Requests
    <2>7. Routed(db)
      BY <2>2 DEF Routed
    <2>8. QED
      BY <2>4, <2>5, <2>6, <2>7 DEF PlanInv
  <1>2. PlanInv /\ [Next]_vars => PlanInv'
    <2> SUFFICES ASSUME PlanInv, [Next]_vars PROVE PlanInv'
      OBVIOUS
    <2>1. CASE UNCHANGED vars
      BY <2>1 DEF vars, PlanInv, Taken, Recent, Routed
    <2>2. CASE Next
      <3>1. Stepped
        BY <2>2, NextStep
      <3>2. Good(db) /\ (made["delete"] = 0 => Taken(db))
        BY DEF PlanInv
      <3>3. ASSUME made'["delete"] = 0 PROVE Taken(db')
        <4>1. made["delete"] = 0 /\ (Fair(db, db') \/ Taken(db')) /\ Good(db')
          BY <3>1, <3>3 DEF Stepped
        <4>2. CASE Fair(db, db')
          BY <3>2, <4>1, <4>2, TakenIsKept
        <4>3. QED
          BY <4>1, <4>2
      <3>4. QED
        BY <3>1, <3>3 DEF Stepped, PlanInv
    <2>3. QED
      BY <2>1, <2>2
  <1>3. QED
    BY <1>1, <1>2, PTL DEF Spec

(* All rows of the tables have their types and their keys: numbers that    *)
(* are given out are new, whichever request gives them out (Insert,        *)
(* Copied, Survey, Expected), and an update that would add an order that   *)
(* is there is refused.                                                    *)
THEOREM TypeCorrect == Spec => []TypeOK
  <1>1. PlanInv => TypeOK
    BY DEF PlanInv, Good, DB, SalesAreKeyed, RowsAreKeyed, StockIsKeyed, Recent, TypeOK
  <1>2. QED
    BY <1>1, PlanInvHolds, PTL

(* No row ever refers to one that is gone: each of the requests that       *)
(* delete rows or stock (delete_run, run_stage1_update with a survey, the  *)
(* deduplication of create_batches, the purge of an ingest) clears what    *)
(* refers to them, or is refused.                                          *)
THEOREM ReferencesAlwaysHold == Spec => []ReferencesHold
  <1>1. PlanInv => ReferencesHold
    <2> SUFFICES ASSUME PlanInv PROVE ReferencesHold
      OBVIOUS
    <2>1. TasksHold(db) /\ SourcesHold(db) /\ WipsHold(db)
      BY DEF PlanInv, Good
    <2>2. \A t \in db.tasks : \E b \in RowsOf(db, t.run) : b.id = t.batch
      BY <2>1 DEF TasksHold, RowsOf
    <2>3. \A x \in db.rows \cup db.sales : x.wip = Nothing \/ x.wip \in {w.id : w \in db.stock}
      BY <2>1 DEF WipsHold, Holds
    <2>4. QED
      BY <2>1, <2>2, <2>3 DEF SourcesHold, ReferencesHold
  <1>2. QED
    BY <1>1, PlanInvHolds, PTL

(* An order never gets stock that an order was on before, as long as no    *)
(* run is deleted (match_wip, over the stock of all runs).                 *)
THEOREM StockIsAlwaysPromisedOnce == Spec => StockIsPromisedOnce
  <1> DEFINE Act == made'["delete"] = 0 /\ made'["ingest"] = made["ingest"] =>
                      \A p \in OnStock(db') \ OnStock(db), q \in OnStock(db) : p[2] # q[2]
  <1>1. PlanInv /\ Next => Act
    <2> SUFFICES ASSUME PlanInv, Next, made'["delete"] = 0, made'["ingest"] = made["ingest"]
                 PROVE  \A p \in OnStock(db') \ OnStock(db), q \in OnStock(db) : p[2] # q[2]
      OBVIOUS
    <2>1. Fair(db, db') /\ made["delete"] = 0
      BY NextStep DEF Stepped
    <2>2. Good(db) /\ Taken(db)
      BY <2>1 DEF PlanInv
    <2>3. QED
      BY <2>1, <2>2, FairIsOnce
  <1>2. PlanInv /\ [Next]_vars => [Act]_vars
    BY <1>1
  <1>3. QED
    BY <1>2, PlanInvHolds, PTL DEF Spec, StockIsPromisedOnce

-----------------------------------------------------------------------------
(* What an update leaves of the older plans *)

(* The same row, on whichever stock.                                       *)
Kin(b, c) == AsBefore(b, c) /\ b.id = c.id /\ b.run = c.run

LEMMA UnchangedIsKin ==
    ASSUME NEW b \in BatchRows, NEW c, Unchanged(b, c)
    PROVE  Kin(b, c)
  <1> DEFINE w == c.wip
  <1>1. c = [b EXCEPT !.wip = w]
    BY DEF Unchanged
  <1> HIDE DEF w
  <1>2. QED
    BY <1>1 DEF BatchRows, Kin, AsBefore

(* A header with other work is the one of before, with other work.         *)
LEMMA RelottedIsRecounted ==
    ASSUME NEW b \in BatchRows, NEW c, Unchanged(b, c), NEW x, Relotted(c, x)
    PROVE  Recounted(b, x)
  <1> DEFINE w == c.wip
             l == x.lots
             s == x.surplus
             u == x.due
  <1>1. c = [b EXCEPT !.wip = w]
    BY DEF Unchanged
  <1>2. x = [c EXCEPT !.lots = l, !.surplus = s, !.due = u]
    BY DEF Relotted
  <1> HIDE DEF w, l, s, u
  <1>3. x = [b EXCEPT !.wip = w, !.lots = l, !.surplus = s, !.due = u] /\ x.wip = w
    BY <1>1, <1>2 DEF BatchRows
  <1>4. QED
    BY <1>3 DEF Recounted, l, s, u

(* What a split makes there is in the new plan.                            *)
LEMMA HalfIsPopulated ==
    ASSUME NEW d, NEW e, NEW run, NEW g, HalfMade(d, e, run, g)
    PROVE  Populated(e, run, g)
  BY DEF HalfMade, Populated, OrderRows, RowsOf

(* An update leaves the rows of orders and the tasks of the older runs, and*)
(* adds none to them; their headers it recounts, and adds some, only where *)
(* the new plan has rows in the half of that name.                         *)
OlderStay(e, run) ==
    /\ db.tasks \subseteq e.tasks
    /\ \A t \in e.tasks : t \in db.tasks \/ t.run = run
    /\ \A b \in db.rows : \E c \in e.rows :
          \/ Unchanged(b, c)
          \/ b.seq = -1 /\ b.group # Nothing /\ Recounted(b, c) /\ Populated(e, run, HalfOf(b.group))
    /\ \A c \in {x \in e.rows : x.run # run} :
          IF c.seq = -1 THEN (\E b \in db.rows : b.id = c.id) \/ Populated(e, run, c.group)
          ELSE \E b \in db.rows : Unchanged(b, c)

LEMMA OlderRowsStay ==
    ASSUME Good(db), Recent(db, latest), NEW p \in Nat, NEW e, Good(e), Renewed(e, p, latest + 1)
    PROVE  OlderStay(e, latest + 1)
  <1> DEFINE run == latest + 1
  <1>1. PICK d \in DB, m \in DB, f \in DB : Copying(d, p, run) /\ Rewired(d, m) /\ Batched(m, f, run) /\ Parted(f, e, run)
    BY DEF Renewed
  <1>2. /\ latest \in Nat /\ run \in Nat
        /\ db.rows \subseteq BatchRows /\ m.rows \subseteq BatchRows /\ f.rows \subseteq BatchRows
    BY DEF Recent, Good, DB
  <1>3. \A b \in db.rows : b.run # run
    <2> TAKE b \in db.rows
    <2>1. b.run \in Nat /\ b.run <= latest
      BY <1>2 DEF Recent, BatchRows
    <2>2. QED
      BY <1>2, <2>1
  <1> HIDE DEF run
  <1>4. ASSUME NEW b \in db.rows
        PROVE  \E c \in e.rows :
                  \/ Unchanged(b, c)
                  \/ b.seq = -1 /\ b.group # Nothing /\ Recounted(b, c) /\ Populated(e, run, HalfOf(b.group))
    <2>1. b \in d.rows /\ b \in BatchRows
      BY <1>1, <1>2 DEF Copying
    <2>2. Rewired(m, d)
      BY <1>1 DEF Rewired
    <2>3. PICK c \in m.rows : AsBefore(b, c) /\ b.id = c.id /\ b.run = c.run /\ [b EXCEPT !.wip = Nothing] = [c EXCEPT !.wip = Nothing]
      <3>1. [b EXCEPT !.wip = Nothing] \in Bare(m)
        BY <1>1, <2>1 DEF Rewired, Bare
      <3>2. PICK c \in m.rows : [b EXCEPT !.wip = Nothing] = [c EXCEPT !.wip = Nothing]
        BY <3>1 DEF Bare
      <3>3. c \in BatchRows
        BY <1>2
      <3> DEFINE x == [b EXCEPT !.wip = Nothing]
                 y == [c EXCEPT !.wip = Nothing]
      <3>4. Kin(b, x)
        BY <2>1 DEF BatchRows, AsBefore, Kin
      <3>5. Kin(y, c)
        BY <3>3 DEF BatchRows, AsBefore, Kin
      <3>6. x = y
        BY <3>2
      <3> HIDE DEF x, y
      <3>7. Kin(b, c)
        BY <3>4, <3>5, <3>6 DEF Kin, AsBefore
      <3>8. QED
        BY <3>2, <3>7 DEF Kin
    <2>4. Unchanged(b, c)
      <3>1. c \in BatchRows
        BY <1>2
      <3> DEFINE x == [b EXCEPT !.wip = Nothing]
                 y == [c EXCEPT !.wip = Nothing]
      <3>2. x = y
        BY <2>3
      <3>3. \A w : [x EXCEPT !.wip = w] = [b EXCEPT !.wip = w] /\ [y EXCEPT !.wip = w] = [c EXCEPT !.wip = w]
        BY <2>1, <3>1 DEF BatchRows
      <3>4. c = [c EXCEPT !.wip = c.wip]
        BY <3>1 DEF BatchRows
      <3> HIDE DEF x, y
      <3>5. QED
        BY <3>2, <3>3, <3>4 DEF Unchanged
    <2>5. c \in f.rows /\ c.run # run
      BY <1>1, <1>3, <2>3 DEF Batched
    <2>6. PICK x \in e.rows : Divided(f, e, run, c, x)
      BY <1>1, <2>5 DEF Parted
    <2>7. CASE x = c
      BY <2>4, <2>6, <2>7
    <2>8. CASE c.seq = -1 /\ c.group # Nothing /\ Relotted(c, x) /\ HalfMade(f, e, run, HalfOf(c.group))
      <3>1. Recounted(b, x)
        BY <2>1, <2>4, <2>8, RelottedIsRecounted
      <3>2. b.seq = -1 /\ b.group = c.group
        BY <2>3, <2>8 DEF AsBefore
      <3>3. Populated(e, run, HalfOf(b.group))
        BY <2>8, <3>2, HalfIsPopulated
      <3>4. QED
        BY <2>6, <2>8, <3>1, <3>2, <3>3
    <2>9. QED
      BY <2>5, <2>6, <2>7, <2>8 DEF Divided
  <1>5. db.tasks \subseteq e.tasks /\ \A t \in e.tasks : t \in db.tasks \/ t.run = run
    <2>1. e.tasks = f.tasks
      BY <1>1 DEF Parted
    <2>2. QED
      BY <1>1, <2>1 DEF Copying, Rewired, Batched
  <1>6. ASSUME NEW b \in f.rows, b.run # run PROVE \E o \in db.rows : Unchanged(o, b) /\ o.id = b.id
    <2>1. b \in m.rows
      BY <1>1, <1>6 DEF Batched
    <2>2. PICK o \in d.rows : AsBefore(b, o) /\ b.id = o.id /\ b.run = o.run /\ Unchanged(o, b)
      BY <1>1, <2>1, RewiredRow
    <2>3. o \in db.rows
      <3>1. SUFFICES ASSUME NEW r \in Related(p), IsCopy(o, r, run) PROVE FALSE
        BY <1>1 DEF Copying
      <3>2. r \in BatchRows
        BY <1>2 DEF Related, RowsOf
      <3>3. o.run = run
        BY <3>1, <3>2, CopiedRow
      <3>4. QED
        BY <1>6, <2>2, <3>3
    <2>4. QED
      BY <2>2, <2>3
  <1>7. ASSUME NEW c \in e.rows, c.run # run
        PROVE  IF c.seq = -1 THEN (\E b \in db.rows : b.id = c.id) \/ Populated(e, run, c.group)
               ELSE \E b \in db.rows : Unchanged(b, c)
    <2>1. CASE c.seq = -1 /\ HalfMade(f, e, run, c.group)
      BY <2>1, HalfIsPopulated
    <2>2. ASSUME NEW b \in f.rows, Divided(f, e, run, b, c)
          PROVE  IF c.seq = -1 THEN \E o \in db.rows : o.id = c.id ELSE \E o \in db.rows : Unchanged(o, c)
      <3>1. b \in BatchRows
        BY <1>2
      <3>2. c = b \/ Regrouped(b, c) \/ Relotted(b, c)
        BY <2>2 DEF Divided
      <3>3. c.run = b.run /\ c.id = b.id /\ c.seq = b.seq
        BY <3>1, <3>2, RowsRemain DEF Alike
      <3>4. c = b \/ c.seq = -1
        BY <1>7, <2>2, <3>3 DEF Divided
      <3>5. PICK o \in db.rows : Unchanged(o, b) /\ o.id = b.id
        BY <1>6, <1>7, <3>3
      <3>6. QED
        BY <3>3, <3>4, <3>5
    <2>3. QED
      BY <1>1, <2>1, <2>2 DEF Parted
  <1>8. QED
    BY <1>4, <1>5, <1>7 DEF OlderStay, run

(* Runs that have the same rows of orders with the same tasks compare      *)
(* alike.                                                                  *)
Ordered(d, r) == {b \in RowsOf(d, r) : b.seq # -1}

LEMMA SameRunsCompareAlike ==
    ASSUME NEW d, NEW e, NEW p, NEW q, d.tasks \subseteq e.tasks,
           \A r \in {p, q} : /\ \A b \in Ordered(d, r) : \E c \in Ordered(e, r) : Kin(b, c)
                             /\ \A c \in Ordered(e, r) : \E b \in Ordered(d, r) : Kin(b, c)
                             /\ \A t \in e.tasks : t.run = r => t \in d.tasks
    PROVE  OfOrders(Compared(e, p, q)) = OfOrders(Compared(d, p, q))
  <1> DEFINE keys(x, r) == {StableKey(b) : b \in RowsOf(x, r)}
             placed(x, r) == {StableKey(b) : b \in {y \in RowsOf(x, r) : [run |-> r, batch |-> y.id] \in x.tasks}}
             K(x, r) == {StableKey(b) : b \in Ordered(x, r)}
             P(x, r) == {StableKey(b) : b \in {y \in Ordered(x, r) : [run |-> r, batch |-> y.id] \in x.tasks}}
  <1>1. \A b, c : Kin(b, c) => StableKey(b) = StableKey(c) /\ b.id = c.id
    BY DEF Kin, AsBefore, StableKey
  <1>2. \A b : StableKey(b)[4] = b.seq
    BY DEF StableKey
  <1>3. \A r \in {p, q} : \A i : [run |-> r, batch |-> i] \in d.tasks <=> [run |-> r, batch |-> i] \in e.tasks
    OBVIOUS
  <1>4. \A r \in {p, q} : K(e, r) = K(d, r)
    BY <1>1
  <1>5. ASSUME NEW r \in {p, q} PROVE P(e, r) = P(d, r)
    <2> DEFINE D == {y \in Ordered(d, r) : [run |-> r, batch |-> y.id] \in d.tasks}
               E == {y \in Ordered(e, r) : [run |-> r, batch |-> y.id] \in e.tasks}
    <2>1. \A b \in D : \E c \in E : StableKey(b) = StableKey(c)
      BY <1>1, <1>3
    <2>2. \A c \in E : \E b \in D : StableKey(b) = StableKey(c)
      BY <1>1, <1>3
    <2>3. P(d, r) = {StableKey(b) : b \in D} /\ P(e, r) = {StableKey(b) : b \in E}
      OBVIOUS
    <2> HIDE DEF D, E, P
    <2>4. QED
      BY <2>1, <2>2, <2>3
  <1>6. \A x, r, k : /\ k[4] # -1 => ((k \in keys(x, r)) <=> (k \in K(x, r))) /\ ((k \in placed(x, r)) <=> (k \in P(x, r)))
                     /\ k \in K(x, r) => k[4] # -1
    <2> TAKE x, r, k
    <2> HIDE DEF StableKey
    <2>1. k[4] # -1 => ((k \in keys(x, r)) <=> (k \in K(x, r)))
      BY <1>2 DEF Ordered
    <2>2. k[4] # -1 => ((k \in placed(x, r)) <=> (k \in P(x, r)))
      BY <1>2 DEF Ordered
    <2>3. k \in K(x, r) => k[4] # -1
      BY <1>2 DEF Ordered
    <2>4. QED
      BY <2>1, <2>2, <2>3
  <1>7. \A x : OfOrders(Compared(x, p, q)) =
           [added   |-> {k \in keys(x, q) \ keys(x, p) : k[4] # -1},
            removed |-> {k \in keys(x, p) \ keys(x, q) : k[4] # -1},
            moved   |-> {k \in {j \in keys(x, p) \cap keys(x, q) : (j \in placed(x, p)) # (j \in placed(x, q))} : k[4] # -1}]
    BY DEF OfOrders, Compared
  <1> HIDE DEF keys, placed, K, P
  <1>8. ASSUME NEW x
        PROVE  /\ {k \in keys(x, q) \ keys(x, p) : k[4] # -1} = K(x, q) \ K(x, p)
               /\ {k \in keys(x, p) \ keys(x, q) : k[4] # -1} = K(x, p) \ K(x, q)
               /\ {k \in {j \in keys(x, p) \cap keys(x, q) : (j \in placed(x, p)) # (j \in placed(x, q))} : k[4] # -1}
                    = {k \in K(x, p) \cap K(x, q) : (k \in P(x, p)) # (k \in P(x, q))}
    <2>1. {k \in keys(x, q) \ keys(x, p) : k[4] # -1} = K(x, q) \ K(x, p)
      BY <1>6
    <2>2. {k \in keys(x, p) \ keys(x, q) : k[4] # -1} = K(x, p) \ K(x, q)
      BY <1>6
    <2>3. {k \in {j \in keys(x, p) \cap keys(x, q) : (j \in placed(x, p)) # (j \in placed(x, q))} : k[4] # -1}
             = {k \in K(x, p) \cap K(x, q) : (k \in P(x, p)) # (k \in P(x, q))}
      BY <1>6
    <2>4. QED
      BY <2>1, <2>2, <2>3
  <1>9. K(e, p) = K(d, p) /\ K(e, q) = K(d, q) /\ P(e, p) = P(d, p) /\ P(e, q) = P(d, q)
    BY <1>4, <1>5
  <1> DEFINE same(x) == [added   |-> K(x, q) \ K(x, p),
                         removed |-> K(x, p) \ K(x, q),
                         moved   |-> {k \in K(x, p) \cap K(x, q) : (k \in P(x, p)) # (k \in P(x, q))}]
  <1>10. ASSUME NEW x PROVE OfOrders(Compared(x, p, q)) = same(x)
    <2> DEFINE A == {k \in keys(x, q) \ keys(x, p) : k[4] # -1}
               R == {k \in keys(x, p) \ keys(x, q) : k[4] # -1}
               M == {k \in {j \in keys(x, p) \cap keys(x, q) : (j \in placed(x, p)) # (j \in placed(x, q))} : k[4] # -1}
               N == {k \in K(x, p) \cap K(x, q) : (k \in P(x, p)) # (k \in P(x, q))}
    <2>1. OfOrders(Compared(x, p, q)) = [added |-> A, removed |-> R, moved |-> M]
      BY <1>7
    <2>2. A = K(x, q) \ K(x, p) /\ R = K(x, p) \ K(x, q) /\ M = N
      BY <1>8
    <2>3. same(x) = [added |-> K(x, q) \ K(x, p), removed |-> K(x, p) \ K(x, q), moved |-> N]
      OBVIOUS
    <2> HIDE DEF A, R, M, N, same
    <2>4. QED
      BY <2>1, <2>2, <2>3
  <1>11. same(e) = same(d)
    BY <1>9
  <1> HIDE DEF same
  <1>12. QED
    BY <1>10, <1>11

(* An update leaves the orders and the tasks of older plans as they are,   *)
(* and compare_runs says the same of them, whichever groups are split and  *)
(* however often: a split takes rows of the new plan alone, although it    *)
(* looks for the header of a group in all runs, and so it changes or adds  *)
(* a header of an older plan only where the new plan has rows in the half  *)
(* of that name (_apply_auto_split, run_stage1_update).                     *)
THEOREM RunsAlwaysStay == Spec => RunsStayAsTheyWere
  <1> DEFINE Act == IsUpdate =>
         /\ \A b \in db.rows : \E c \in db'.rows :
               \/ Unchanged(b, c)
               \/ b.seq = -1 /\ b.group # Nothing /\ Recounted(b, c) /\ Populated(db', latest', HalfOf(b.group))
         /\ \A c \in {x \in db'.rows : x.run # latest'} :
               IF c.seq = -1 THEN (\E b \in db.rows : b.id = c.id) \/ Populated(db', latest', c.group)
               ELSE \E b \in db.rows : Unchanged(b, c)
         /\ db.tasks \subseteq db'.tasks
         /\ \A p, q \in Runs : p < q => OfOrders(Compared(db', p, q)) = OfOrders(Compared(db, p, q))
  <1>1. PlanInv /\ Next => Act
    <2> SUFFICES ASSUME PlanInv, Next, IsUpdate PROVE Act
      OBVIOUS
    <2>1. PICK o \in Runs : Good(db') /\ Renewed(db', o, latest + 1) /\ latest' = latest + 1
      BY NextStep DEF UpdateStep
    <2>2. Good(db) /\ Recent(db, latest) /\ o \in Nat /\ latest \in Nat
      BY DEF PlanInv, Recent, Runs
    <2>3. \A e : Good(e) /\ Renewed(e, o, latest + 1) => OlderStay(e, latest + 1)
      BY <2>2, OlderRowsStay
    <2>4. OlderStay(db', latest + 1)
      BY <2>1, <2>3
    <2>5. ASSUME NEW r \in Runs
          PROVE  /\ \A b \in Ordered(db, r) : \E c \in Ordered(db', r) : Kin(b, c)
                 /\ \A c \in Ordered(db', r) : \E b \in Ordered(db, r) : Kin(b, c)
                 /\ \A t \in db'.tasks : t.run = r => t \in db.tasks
      <3>1. r # latest + 1
        BY <2>2 DEF Runs
      <3>2. ASSUME NEW b \in Ordered(db, r) PROVE \E c \in Ordered(db', r) : Kin(b, c)
        <4>1. b \in db.rows /\ b.seq # -1 /\ b.run = r /\ b \in BatchRows
          BY <2>2 DEF Ordered, RowsOf, Good, DB
        <4>2. PICK c \in db'.rows : Unchanged(b, c)
          BY <2>4, <4>1 DEF OlderStay
        <4>3. Kin(b, c)
          BY <4>1, <4>2, UnchangedIsKin
        <4>4. QED
          BY <4>1, <4>2, <4>3 DEF Ordered, RowsOf, Kin, AsBefore
      <3>3. ASSUME NEW c \in Ordered(db', r) PROVE \E b \in Ordered(db, r) : Kin(b, c)
        <4>1. c \in db'.rows /\ c.seq # -1 /\ c.run = r
          BY DEF Ordered, RowsOf
        <4>2. PICK b \in db.rows : Unchanged(b, c)
          BY <2>4, <3>1, <4>1 DEF OlderStay
        <4>3. b \in BatchRows
          BY <2>2 DEF Good, DB
        <4>4. Kin(b, c)
          BY <4>2, <4>3, UnchangedIsKin
        <4>5. QED
          BY <4>1, <4>2, <4>4 DEF Ordered, RowsOf, Kin, AsBefore
      <3>4. QED
        BY <2>4, <3>1, <3>2, <3>3 DEF OlderStay
    <2>6. \A p, q \in Runs : OfOrders(Compared(db', p, q)) = OfOrders(Compared(db, p, q))
      <3> TAKE p, q \in Runs
      <3>1. \A r \in {p, q} : r \in Runs
        OBVIOUS
      <3>2. db.tasks \subseteq db'.tasks
        BY <2>4 DEF OlderStay
      <3>3. QED
        BY <2>5, <3>1, <3>2, SameRunsCompareAlike
    <2>7. QED
      BY <2>1, <2>4, <2>6 DEF OlderStay
  <1>2. PlanInv /\ [Next]_vars => [Act]_vars
    BY <1>1
  <1>3. QED
    BY <1>2, PlanInvHolds, PTL DEF Spec, RunsStayAsTheyWere

(* A row that was started has one copy in the new plan, which is as it was,*)
(* but for its group when that is split.                                   *)
LEMMA StartedRowIsKept ==
    ASSUME Good(db), Recent(db, latest), NEW p \in Nat, NEW e, Good(e), Renewed(e, p, latest + 1),
           NEW b \in Frozen(p), b.seq >= 0,
           NEW C, C = {c \in RowsOf(e, latest + 1) : Same(b, c)}
    PROVE  /\ Cardinality(C) = 1
           /\ \A c \in C : /\ c.status = b.status
                           /\ (\E t \in db.tasks : t.batch = b.id) => \E t \in e.tasks : t.batch = c.id
  <1> DEFINE run == latest + 1
  <1>1. PICK d \in DB, m \in DB, f \in DB : Copying(d, p, run) /\ Rewired(d, m) /\ Batched(m, f, run) /\ Parted(f, e, run)
    BY DEF Renewed
  <1> HIDE DEF run
  <1>2. b \in Related(p) /\ b \in db.rows /\ b \in BatchRows /\ b.run = p
    BY DEF Frozen, Related, RowsOf, Good, DB
  <1>3. b.seq # -1
    <2>1. ~(-1 >= 0)
      OBVIOUS
    <2>2. QED
      BY <2>1
  <1>4. PICK o \in d.rows : /\ IsCopy(o, b, run)
                            /\ (\E t \in db.tasks : t.run = p /\ t.batch = b.id) => [run |-> run, batch |-> o.id] \in d.tasks
    BY <1>1, <1>2 DEF Copying
  <1>5. AsBefore(o, b) /\ o.run = run
    BY <1>2, <1>4, CopiedRow
  <1>6. PICK c \in m.rows : AsBefore(o, c) /\ o.id = c.id /\ o.run = c.run
    <2>1. Rewired(m, d)
      BY <1>1 DEF Rewired
    <2>2. QED
      BY <1>1, <2>1, RewiredRow
  <1>7. AsBefore(c, b) /\ c.run = run
    BY <1>5, <1>6 DEF AsBefore
  <1>8. PICK x \in e.rows : Divided(f, e, run, c, x)
    <2>1. c \in f.rows
      BY <1>1, <1>3, <1>7 DEF Batched, AsBefore
    <2>2. QED
      BY <1>1, <2>1 DEF Parted
  <1>9. x.id = c.id /\ x.run = run /\ x.status = b.status /\ x \in C /\ x.seq # -1
    <2>1. c \in BatchRows /\ c.seq # -1 /\ c.group = b.group /\ c.status = b.status
      BY <1>3, <1>7 DEF DB, AsBefore
    <2>2. x = c \/ (b.group # Nothing /\ Regrouped(c, x))
      BY <1>8, <2>1 DEF Divided
    <2>3. Alike(x, c) /\ x.status = c.status /\ (x.group = b.group \/ (b.group # Nothing /\ x.group = HalfOf(b.group)))
      <3>1. CASE x = c
        BY <2>1, <3>1 DEF Alike
      <3>2. CASE b.group # Nothing /\ Regrouped(c, x)
        BY <2>1, <3>2, RowsRemain
      <3>3. QED
        BY <2>2, <3>1, <3>2
    <2>4. QED
      BY <1>7, <1>8, <2>1, <2>3 DEF Alike, AsBefore, RowsOf, Same, run
  <1>10. ASSUME NEW y \in C PROVE y = x
    <2>1. y \in e.rows /\ y.run = run /\ Same(b, y) /\ Same(b, x) /\ x \in e.rows
      BY <1>8, <1>9 DEF RowsOf, run
    <2>2. SameRow(x, y)
      BY <1>9, <2>1 DEF SameRow, Same
    <2>3. QED
      BY <1>9, <2>1, <2>2 DEF Good, Once
  <1>11. C = {x}
    BY <1>9, <1>10
  <1>12. Cardinality(C) = 1
    BY <1>11, FS_Singleton
  <1>13. x.status = b.status
    BY <1>9
  <1>14. ASSUME NEW t \in db.tasks, t.batch = b.id PROVE \E u \in e.tasks : u.batch = x.id
    <2>1. PICK a \in db.rows : a.run = t.run /\ a.id = t.batch
      BY DEF Good, TasksHold
    <2>2. a = b
      BY <1>2, <1>14, <2>1 DEF Good, RowsAreKeyed
    <2>3. [run |-> run, batch |-> o.id] \in d.tasks
      BY <1>2, <1>4, <1>14, <2>1, <2>2
    <2>4. [run |-> run, batch |-> o.id] \in e.tasks
      BY <1>1, <2>3 DEF Rewired, Batched, Parted
    <2>5. QED
      BY <1>6, <1>9, <2>4
  <1>15. QED
    BY <1>11, <1>12, <1>13, <1>14

(* Work that was started is in the new plan, once, as it was: with its     *)
(* status and its task, in its group or in the half that is split off it   *)
(* (run_stage1_update, _copy_frozen_batches, _apply_auto_split).           *)
THEOREM StartedWorkIsAlwaysKept == Spec => StartedWorkIsKept
  <1> DEFINE Act == IsUpdate =>
                      \A b \in Frozen(last'.parent) :
                         b.seq >= 0 =>
                           LET C == {c \in RowsOf(db', latest') : Same(b, c)} IN
                           /\ Cardinality(C) = 1
                           /\ \A c \in C : /\ c.status = b.status
                                           /\ (\E t \in db.tasks : t.batch = b.id) => \E t \in db'.tasks : t.batch = c.id
  <1>1. PlanInv /\ Next => Act
    <2> SUFFICES ASSUME PlanInv, Next, IsUpdate, NEW b \in Frozen(last'.parent), b.seq >= 0
                 PROVE  LET C == {c \in RowsOf(db', latest') : Same(b, c)} IN
                        /\ Cardinality(C) = 1
                        /\ \A c \in C : /\ c.status = b.status
                                        /\ (\E t \in db.tasks : t.batch = b.id) => \E t \in db'.tasks : t.batch = c.id
      OBVIOUS
    <2>1. PICK o \in Runs : last'.parent = o /\ latest' = latest + 1 /\ Good(db') /\ Renewed(db', o, latest + 1)
      BY NextStep DEF UpdateStep
    <2>2. Good(db) /\ Recent(db, latest) /\ o \in Nat /\ b \in Frozen(o)
      BY <2>1 DEF PlanInv, Recent, Runs
    <2>3. \A e : Good(e) /\ Renewed(e, o, latest + 1) =>
             LET C == {c \in RowsOf(e, latest + 1) : Same(b, c)} IN
             /\ Cardinality(C) = 1
             /\ \A c \in C : /\ c.status = b.status
                             /\ (\E t \in db.tasks : t.batch = b.id) => \E t \in e.tasks : t.batch = c.id
      BY <2>2, StartedRowIsKept
    <2>4. QED
      BY <2>1, <2>3
  <1>2. PlanInv /\ [Next]_vars => [Act]_vars
    BY <1>1
  <1>3. QED
    BY <1>2, PlanInvHolds, PTL DEF Spec, StartedWorkIsKept

(* What was copied is in the new plan, but for headers; its group may be   *)
(* another one.                                                            *)
Carried(c, b) == c.order = b.order /\ c.line = b.line /\ c.seq = b.seq /\ c.proc = b.proc

LEMMA CopiesStay ==
    ASSUME Good(db), NEW p \in Nat, NEW e, Renewed(e, p, latest + 1), NEW b \in Related(p), b.seq # -1
    PROVE  \E c \in RowsOf(e, latest + 1) : Carried(c, b)
  <1> DEFINE run == latest + 1
  <1>1. PICK d \in DB, m \in DB, f \in DB : Copying(d, p, run) /\ Rewired(d, m) /\ Batched(m, f, run) /\ Parted(f, e, run)
    BY DEF Renewed
  <1> HIDE DEF run
  <1>2. b \in BatchRows
    BY DEF Related, RowsOf, Good, DB
  <1>3. PICK o \in d.rows : IsCopy(o, b, run)
    BY <1>1 DEF Copying
  <1>4. AsBefore(o, b) /\ o.run = run
    BY <1>2, <1>3, CopiedRow
  <1>5. PICK c \in m.rows : AsBefore(o, c) /\ o.id = c.id /\ o.run = c.run
    <2>1. Rewired(m, d)
      BY <1>1 DEF Rewired
    <2>2. QED
      BY <1>1, <2>1, RewiredRow
  <1>6. AsBefore(c, b) /\ c.run = run
    BY <1>4, <1>5 DEF AsBefore
  <1>7. c \in f.rows
    BY <1>1, <1>6 DEF Batched, AsBefore
  <1>8. PICK x \in e.rows : Divided(f, e, run, c, x)
    BY <1>1, <1>7 DEF Parted
  <1>9. Alike(x, c)
    <2>1. c \in BatchRows
      BY DEF DB
    <2>2. x = c \/ Regrouped(c, x) \/ Relotted(c, x)
      BY <1>8 DEF Divided
    <2>3. QED
      BY <2>1, <2>2, RowsRemain DEF Alike
  <1>10. QED
    BY <1>6, <1>8, <1>9 DEF RowsOf, run, Alike, AsBefore, Carried

(* What becomes of a row of an order: see OrdersAreKept.                   *)
RowIsKept(e, mode, p, run, b) ==
    IF mode = "incremental"
    THEN \/ \E c \in RowsOf(e, run) : c.order = b.order /\ c.line = b.line /\ c.proc = b.proc
         \/ \E s \in e.sales : Key(s) = <<b.order, b.line>> /\ b.proc \in Covered(e, s)
    ELSE \/ \E c \in RowsOf(e, run) : c.order = b.order
         \/ \E s \in e.sales : s.order = b.order /\ b.proc \in Covered(e, s)
         \/ b.order \in DiffSummary(db, e, p, run).deleted

LEMMA OrderRowIsKept ==
    ASSUME Good(db), Routed(db), NEW p \in Nat, NEW e, Renewed(e, p, latest + 1),
           NEW mode, Continued(e, p, latest + 1, mode), NEW b \in OrderRows(db, p),
           \/ <<b.order, b.line>> \in Keys(Frozen(p))
           \/ \E s \in db.sales : Key(s) = <<b.order, b.line>> /\ s.run = p
    PROVE  RowIsKept(e, mode, p, latest + 1, b)
  <1> DEFINE run == latest + 1
  <1>1. b \in RowsOf(db, p) /\ b \in db.rows /\ b.seq >= 1
    BY DEF OrderRows, RowsOf
  <1>2. Makes(b.order, b.proc)
    BY <1>1 DEF Routed, OnRoute
  <1>3. b.seq # -1
    <2>1. ~(-1 >= 1)
      OBVIOUS
    <2>2. QED
      BY <1>1, <2>1
  <1>4. Renewed(e, p, run) /\ Continued(e, p, run, mode)
    OBVIOUS
  <1>5. \A c \in Related(p) : c.seq # -1 => \E x \in RowsOf(e, run) : Carried(x, c)
    BY CopiesStay
  <1> HIDE DEF run
  <1>6. CASE <<b.order, b.line>> \in Keys(Frozen(p))
    <2>1. b \in Related(p)
      BY <1>1, <1>6 DEF Related
    <2>2. PICK c \in RowsOf(e, run) : Carried(c, b)
      BY <1>3, <1>5, <2>1
    <2>3. QED
      BY <2>2 DEF RowIsKept, Carried, run
  <1>7. ASSUME NEW s \in db.sales, Key(s) = <<b.order, b.line>>, s.run = p, <<b.order, b.line>> \notin Keys(Frozen(p))
        PROVE  RowIsKept(e, mode, p, run, b)
    <2>1. s.order = b.order /\ s.line = b.line
      BY <1>7 DEF Key
    <2>2. ASSUME NEW t \in Unstarted(e, p, run), t.order = b.order
          PROVE  \/ b.proc \in Covered(e, t)
                 \/ \E c \in RowsOf(e, run) : c.order = b.order /\ c.line = t.line /\ c.proc = b.proc
      <3>1. Supplied(e, e.rows, run, t, b.proc)
        BY <1>2, <1>4, <2>2 DEF Continued, AllSupplied
      <3>2. QED
        BY <2>2, <3>1 DEF Supplied, RowsOf
    <2>3. CASE mode = "incremental"
      <3>1. PICK t \in e.sales : Key(t) = Key(s) /\ t.run = run
        BY <1>4, <1>7, <2>3 DEF Continued, Moved
      <3>2. t \in Unstarted(e, p, run) /\ t.order = b.order /\ t.line = b.line
        BY <1>7, <3>1 DEF Unstarted, Key
      <3>3. Key(t) = <<b.order, b.line>>
        BY <1>7, <3>1
      <3>4. QED
        BY <2>2, <2>3, <3>2, <3>3 DEF RowIsKept
    <2>4. ASSUME NEW k \in Keys(Frozen(p)), k[1] = b.order PROVE \E c \in RowsOf(e, run) : c.order = b.order
      <3>1. PICK f \in Frozen(p) : f.order # 0 /\ k = <<f.order, f.line>>
        BY DEF Keys
      <3>2. f \in db.rows /\ f.run = p /\ f.order = b.order
        BY <2>4, <3>1 DEF Frozen, RowsOf
      <3>3. PICK y \in Related(p) : y.seq # -1 /\ y.order = b.order
        <4>1. CASE f.seq # -1
          <5>1. f \in Related(p)
            BY DEF Related, Frozen
          <5>2. QED
            BY <3>2, <4>1, <5>1
        <4>2. CASE f.seq = -1
          <5>1. PICK y \in db.rows : y.seq # -1 /\ y.run = f.run /\ y.order = f.order /\ y.line = f.line
            BY <3>1, <3>2, <4>2 DEF Routed, Named
          <5>2. y \in Related(p)
            BY <3>1, <3>2, <5>1 DEF Related, RowsOf
          <5>3. QED
            BY <3>2, <5>1, <5>2
        <4>3. QED
          BY <4>1, <4>2
      <3>4. PICK c \in RowsOf(e, run) : Carried(c, y)
        BY <1>5, <3>3
      <3>5. QED
        BY <3>3, <3>4 DEF Carried
    <2>5. CASE mode # "incremental"
      <3> DEFINE frozen == {k[1] : k \in Keys({x \in RowsOf(db, p) : x.status \in Started})}
                 pre    == {x.order : x \in {y \in db.sales : y.run = p}}
                 new    == {x.order : x \in {y \in e.sales : y.run = run}}
      <3>1. DiffSummary(db, e, p, run).deleted = pre \ (new \cup frozen)
        BY DEF DiffSummary
      <3>2. b.order \in pre
        BY <1>7, <2>1
      <3>3. CASE b.order \in frozen
        <4>1. \E k \in Keys(Frozen(p)) : k[1] = b.order
          BY <3>3 DEF Frozen
        <4>2. QED
          BY <2>4, <2>5, <4>1 DEF RowIsKept
      <3>4. CASE b.order \in new
        <4>1. PICK t \in e.sales : t.run = run /\ t.order = b.order
          BY <3>4
        <4>2. CASE Key(t) \in Keys(Frozen(p))
          <5>1. Key(t)[1] = b.order
            BY <4>1 DEF Key
          <5>2. QED
            BY <2>4, <2>5, <4>2, <5>1 DEF RowIsKept
        <4>3. CASE Key(t) \notin Keys(Frozen(p))
          <5>1. t \in Unstarted(e, p, run)
            BY <4>1, <4>3 DEF Unstarted
          <5>2. QED
            BY <2>2, <2>5, <4>1, <5>1 DEF RowIsKept
        <4>4. QED
          BY <4>2, <4>3
      <3> HIDE DEF frozen, pre, new
      <3>5. QED
        BY <2>5, <3>1, <3>2, <3>3, <3>4 DEF RowIsKept
    <2>6. QED
      BY <2>3, <2>5
  <1>8. QED
    BY <1>6, <1>7 DEF run

(* When no group of a new plan is split, an update that adds orders loses  *)
(* no process of an order that was started in the parent or is listed with *)
(* it, unless stock has taken its place, and a full update reports every   *)
(* such order that is gone (run_stage1_update, diff_summary).              *)
THEOREM OrdersAreAlwaysKept ==
    ASSUME Late["update"] = {}
    PROVE  Spec => OrdersAreKept
  <1> DEFINE Act == IsUpdate =>
                      \A b \in OrderRows(db, last'.parent) :
                         (\/ <<b.order, b.line>> \in Keys(Frozen(last'.parent))
                          \/ \E s \in db.sales : Key(s) = <<b.order, b.line>> /\ s.run = last'.parent)
                         => IF last'.mode = "incremental"
                            THEN \/ \E c \in RowsOf(db', latest') : c.order = b.order /\ c.line = b.line /\ c.proc = b.proc
                                 \/ \E s \in db'.sales : Key(s) = <<b.order, b.line>> /\ b.proc \in Covered(db', s)
                            ELSE \/ \E c \in RowsOf(db', latest') : c.order = b.order
                                 \/ \E s \in db'.sales : s.order = b.order /\ b.proc \in Covered(db', s)
                                 \/ b.order \in DiffSummary(db, db', last'.parent, latest').deleted
  <1>1. PlanInv /\ Next => Act
    <2> SUFFICES ASSUME PlanInv, Next, IsUpdate, NEW b \in OrderRows(db, last'.parent),
                        \/ <<b.order, b.line>> \in Keys(Frozen(last'.parent))
                        \/ \E s \in db.sales : Key(s) = <<b.order, b.line>> /\ s.run = last'.parent
                 PROVE  RowIsKept(db', last'.mode, last'.parent, latest', b)
      BY DEF RowIsKept
    <2>1. PICK o \in Runs : /\ last'.parent = o /\ latest' = latest + 1 /\ Renewed(db', o, latest + 1)
                            /\ Continued(db', o, latest + 1, last'.mode)
      BY NextStep DEF UpdateStep
    <2>2. Good(db) /\ Routed(db) /\ o \in Nat /\ b \in OrderRows(db, o)
      BY <2>1 DEF PlanInv, Recent, Runs
    <2>3. \/ <<b.order, b.line>> \in Keys(Frozen(o))
          \/ \E s \in db.sales : Key(s) = <<b.order, b.line>> /\ s.run = o
      BY <2>1
    <2>4. \A e, mode : Renewed(e, o, latest + 1) /\ Continued(e, o, latest + 1, mode) => RowIsKept(e, mode, o, latest + 1, b)
      BY <2>2, <2>3, OrderRowIsKept
    <2>5. QED
      BY <2>1, <2>4
  <1>2. PlanInv /\ [Next]_vars => [Act]_vars
    BY <1>1
  <1>3. QED
    BY <1>2, PlanInvHolds, PTL DEF Spec, OrdersAreKept

=============================================================================
