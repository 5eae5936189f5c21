----------------------------- MODULE Induction -----------------------------
(***************************************************************************)
(* Induction over the natural numbers and over sequences, the existence of *)
(* functions defined by recursion, and walks of sequences, stated about    *)
(* sets and functions; and what they say of the lists of module ListField. *)
(***************************************************************************)
EXTENDS Integers, Sequences, FiniteSets, ListField, TLAPS, FiniteSetTheorems

\* Every set of natural numbers has a least element: of the sets 1..n, with n
\* in the set, one includes no other.
LEMMA LeastNat == \A T \in SUBSET Nat : T # {} => \E x \in T : \A y \in T : x <= y
<1> SUFFICES ASSUME NEW T \in SUBSET Nat, T # {} PROVE \E x \in T : \A y \in T : x <= y
  OBVIOUS
<1> DEFINE S == {1..n : n \in T}
           R == StrictSubsetOrdering(Nat)
           F == FiniteSubsetsOf(Nat)
<1>1. IsWellFoundedOn(R, F)
  BY FS_StrictSubsetOrderingWellFounded
<1>2. S \subseteq F /\ S # {}
  <2>1. ASSUME NEW n \in T PROVE 1..n \in F
    <3>1. IsFiniteSet(1..n)
      BY FS_Interval
    <3>2. 1..n \subseteq Nat
      OBVIOUS
    <3> QED BY <3>1, <3>2 DEF FiniteSubsetsOf
  <2> QED BY <2>1
<1>3. PICK s \in S : \A r \in S : <<r, s>> \notin R
  <2> HIDE DEF S, R, F
  <2> QED BY <1>1, <1>2, WFMin, Zenon
<1>4. PICK x \in T : s = 1..x
  OBVIOUS
<1>5. ASSUME NEW y \in T PROVE x <= y
  <2>1. SUFFICES ASSUME y < x PROVE FALSE
    OBVIOUS
  <2>2. 1..y \subseteq 1..x /\ 1..y # 1..x
    <3>1. x \in 1..x /\ x \notin 1..y
      BY <2>1
    <3>2. 1..y \subseteq 1..x
      BY <2>1
    <3> QED BY <3>1, <3>2
  <2>3. <<1..y, 1..x>> \in R
    BY <2>2 DEF StrictSubsetOrdering
  <2> QED BY <1>3, <1>4, <2>3
<1> QED BY <1>5

\* Every non-empty set of numbers from 0 to n has a greatest element.
LEMMA GreatestUpTo ==
  ASSUME NEW n \in Nat, NEW T \in SUBSET (0..n), T # {}
  PROVE  \E x \in T : \A y \in T : y <= x
<1> DEFINE U == {n - y : y \in T}
<1>1. U \in SUBSET Nat /\ U # {}
  <2>1. \A y \in T : n - y \in Nat
    OBVIOUS
  <2> QED BY <2>1
<1>2. PICK u \in U : \A v \in U : u <= v
  <2> HIDE DEF U
  <2> QED BY <1>1, LeastNat, Zenon
<1>3. PICK x \in T : u = n - x
  OBVIOUS
<1>4. ASSUME NEW y \in T PROVE y <= x
  <2>1. n - y \in U
    OBVIOUS
  <2>2. n - x <= n - y
    BY <1>2, <1>3, <2>1
  <2> QED BY <2>2
<1> QED BY <1>4

\* The same of numbers from 1 to n.
LEMMA GreatestNat ==
  ASSUME NEW n \in Nat, NEW T \in SUBSET (1..n), T # {}
  PROVE  \E x \in T : \A y \in T : y <= x
<1>1. T \in SUBSET (0..n)
  OBVIOUS
<1> QED BY <1>1, GreatestUpTo

\* Induction up to n: what holds of 0 and passes from k - 1 to k.
THEOREM InductionUpTo ==
  ASSUME NEW n \in Nat, NEW S, 0 \in S, \A k \in 1..n : k - 1 \in S => k \in S
  PROVE  0..n \subseteq S
<1> SUFFICES ASSUME 0..n \ S # {} PROVE FALSE
  OBVIOUS
<1> DEFINE T == 0..n \ S
<1>0. T \in SUBSET Nat /\ T # {}
  OBVIOUS
<1>1. PICK x \in T : \A y \in T : x <= y
  <2> HIDE DEF T
  <2> QED BY <1>0, LeastNat, Zenon
<1>2. x \in 1..n
  OBVIOUS
<1>3. x - 1 \in S
  BY <1>1, <1>2
<1> QED BY <1>2, <1>3

\* What passes to k from all numbers before it.
LEMMA StrongInduction ==
  ASSUME NEW n \in Nat, NEW S, \A k \in 1..n : (\A m \in 1..(k - 1) : m \in S) => k \in S
  PROVE  1..n \subseteq S
<1> DEFINE T == {k \in 0..n : 1..k \subseteq S}
<1>1. 0 \in T
  OBVIOUS
<1>2. ASSUME NEW k \in 1..n, k - 1 \in T PROVE k \in T
  <2>1. \A m \in 1..(k - 1) : m \in S
    BY <1>2
  <2>2. k \in S
    BY <2>1
  <2>3. 1..k \subseteq S
    BY <2>1, <2>2
  <2> QED BY <2>3
<1>3. n \in T
  <2> HIDE DEF T
  <2> QED BY <1>1, <1>2, InductionUpTo
<1> QED BY <1>3

\* f has value c at 0, and g gives its value at k from the one at k - 1.
Recurses(f, n, V, c, g) ==
  /\ f \in [0..n -> V]
  /\ f[0] = c
  /\ \A k \in 1..n : f[k] = g[<<k, f[k - 1]>>]

\* A function can be defined by recursion on 0..n.
THEOREM RecursionExists ==
  ASSUME NEW n \in Nat, NEW V, NEW c \in V, NEW g \in [(1..n) \X V -> V]
  PROVE  \E f : Recurses(f, n, V, c, g)
<1> DEFINE Defines(f, m) == Recurses(f, m, V, c, g)
           S == {m \in 0..n : \E f : Defines(f, m)}
<1>1. 0 \in S
  <2> DEFINE f == [m \in 0..0 |-> c]
  <2>1. Defines(f, 0)
    BY DEF Recurses
  <2> HIDE DEF f, Defines
  <2> QED BY <2>1
<1>2. ASSUME NEW m \in 1..n, m - 1 \in S PROVE m \in S
  <2>1. PICK f : Defines(f, m - 1)
    BY <1>2
  <2> DEFINE h == [k \in 0..m |-> IF k = m THEN g[<<m, f[m - 1]>>] ELSE f[k]]
  <2>2. g[<<m, f[m - 1]>>] \in V
    BY <2>1 DEF Recurses
  <2>3. \A k \in 0..(m - 1) : h[k] = f[k] /\ f[k] \in V
    BY <2>1 DEF Recurses
  <2>4. h \in [0..m -> V] /\ h[0] = c
    BY <2>1, <2>2, <2>3 DEF Recurses
  <2>5. ASSUME NEW k \in 1..m PROVE h[k] = g[<<k, h[k - 1]>>]
    <3>1. h[k - 1] = f[k - 1] /\ k \in 0..m
      BY <2>3
    <3>2. h[k] = g[<<k, f[k - 1]>>]
      <4>1. CASE k = m
        BY <4>1, <3>1
      <4>2. CASE k # m
        BY <4>2, <3>1, <2>1, <2>3 DEF Recurses
      <4> QED BY <4>1, <4>2
    <3> HIDE DEF h
    <3> QED BY <3>1, <3>2
  <2>6. Defines(h, m)
    BY <2>4, <2>5 DEF Recurses
  <2> HIDE DEF h, Defines
  <2> QED BY <2>6
<1>3. n \in S
  <2> HIDE DEF S
  <2> QED BY <1>1, <1>2, InductionUpTo
<1> QED BY <1>3

\* f has value c at 1, and g gives its value at k from the one at par[k].
Descends(f, n, par, V, c, g) ==
  /\ f \in [1..n -> V]
  /\ \A k \in 1..n : f[k] = IF k = 1 THEN c ELSE g[<<k, f[par[k]]>>]

\* A function can be defined by recursion along a tree whose nodes are numbered
\* after their parents.
LEMMA DescentExists ==
  ASSUME NEW n \in Nat, NEW par, \A k \in 2..n : par[k] \in 1..(k - 1),
         NEW V, NEW c \in V, NEW g \in [(1..n) \X V -> V]
  PROVE  \E f : Descends(f, n, par, V, c, g)
<1> DEFINE Defines(f, m) == Descends(f, m, par, V, c, g)
           S == {m \in 0..n : \E f : Defines(f, m)}
<1>1. 0 \in S
  <2> DEFINE f == [m \in 1..0 |-> c]
  <2>1. Defines(f, 0)
    BY DEF Descends
  <2> HIDE DEF f, Defines
  <2> QED BY <2>1
<1>2. ASSUME NEW m \in 1..n, m - 1 \in S PROVE m \in S
  <2>1. PICK f : Defines(f, m - 1)
    BY <1>2
  <2> DEFINE v == IF m = 1 THEN c ELSE g[<<m, f[par[m]]>>]
             h == [k \in 1..m |-> IF k = m THEN v ELSE f[k]]
  <2>2. v \in V
    <3>1. CASE m = 1
      BY <3>1
    <3>2. CASE m # 1
      <4>1. f[par[m]] \in V
        BY <2>1, <3>2 DEF Descends
      <4> QED BY <3>2, <4>1
    <3> QED BY <3>1, <3>2
  <2> HIDE DEF v
  <2>3. \A k \in 1..(m - 1) : h[k] = f[k] /\ f[k] \in V
    BY <2>1 DEF Descends
  <2>4. h \in [1..m -> V]
    <3>1. ASSUME NEW k \in 1..m PROVE (IF k = m THEN v ELSE f[k]) \in V
      <4>1. k # m => k \in 1..(m - 1)
        OBVIOUS
      <4> QED BY <2>2, <2>3, <4>1
    <3> QED BY <3>1
  <2>5. ASSUME NEW k \in 1..m PROVE h[k] = IF k = 1 THEN c ELSE g[<<k, h[par[k]]>>]
    <3>1. k # 1 => par[k] \in 1..(k - 1) /\ h[par[k]] = f[par[k]]
      BY <2>3
    <3>2. CASE k = m
      BY <3>1, <3>2 DEF v
    <3>3. CASE k # m
      <4>1. f[k] = IF k = 1 THEN c ELSE g[<<k, f[par[k]]>>]
        BY <2>1, <3>3 DEF Descends
      <4> QED BY <3>1, <3>3, <4>1
    <3> QED BY <3>2, <3>3
  <2>6. Defines(h, m)
    BY <2>4, <2>5 DEF Descends
  <2> HIDE DEF h, Defines
  <2> QED BY <2>6
<1>3. n \in S
  <2> HIDE DEF S
  <2>1. 0..n \subseteq S
    BY <1>1, <1>2, InductionUpTo, Zenon
  <2> QED BY <2>1
<1> QED BY <1>3

-----------------------------------------------------------------------------
(* Sequences, and functions folded over them                               *)

\* Induction on sequences: what holds of the empty one and passes to a sequence
\* with one more item.
THEOREM SequenceInduction ==
  ASSUME NEW V, NEW S, << >> \in S,
         \A s \in Seq(V) : s \in S => \A x \in V : Append(s, x) \in S
  PROVE  Seq(V) \subseteq S
<1> SUFFICES ASSUME NEW s \in Seq(V) PROVE s \in S
  OBVIOUS
<1> DEFINE n == Len(s)
           T == {k \in 0..n : SubSeq(s, 1, k) \in S}
<1>1. n \in Nat /\ SubSeq(s, 1, n) = s
  OBVIOUS
<1>2. 0 \in T
  <2>1. SubSeq(s, 1, 0) = << >>
    OBVIOUS
  <2>2. 0 \in 0..n
    BY <1>1
  <2> QED BY <2>1, <2>2
<1>3. ASSUME NEW k \in 1..n, k - 1 \in T PROVE k \in T
  <2>1. SubSeq(s, 1, k) = Append(SubSeq(s, 1, k - 1), s[k])
    OBVIOUS
  <2>2. SubSeq(s, 1, k - 1) \in Seq(V) /\ s[k] \in V
    OBVIOUS
  <2>3. SubSeq(s, 1, k - 1) \in S
    BY <1>3
  <2>4. SubSeq(s, 1, k) \in S
    BY <2>1, <2>2, <2>3
  <2> QED BY <1>1, <2>4
<1>4. n \in T
  <2> HIDE DEF T, n
  <2>1. \A k \in 1..n : k - 1 \in T => k \in T
    BY <1>3
  <2>2. 0..n \subseteq T
    BY <1>1, <1>2, <2>1, InductionUpTo
  <2> QED BY <1>1, <2>2
<1> QED BY <1>1, <1>4

\* f is what becomes of c, item by item of s.
Folds(f, g, c, s) == f = [k \in 0..Len(s) |-> IF k = 0 THEN c ELSE g[<<f[k - 1], s[k]>>]]

\* f satisfies the equations, as far as they give values in V.
Follows(f, V, X, g, c, s) ==
  /\ c \in V /\ g \in [V \X X -> V] /\ s \in Seq(X)
  /\ f[0] = c
  /\ \A k \in 1..Len(s) : f[k - 1] \in V => f[k] = g[<<f[k - 1], s[k]>>]

FoldedBy(g, c, s) == (CHOOSE f : Folds(f, g, c, s))[Len(s)]

LEMMA FoldExists ==
  ASSUME NEW V, NEW X, NEW c \in V, NEW g \in [V \X X -> V], NEW s \in Seq(X)
  PROVE  \E f \in [0..Len(s) -> V] : Folds(f, g, c, s)
<1> DEFINE n == Len(s)
           h == [p \in (1..n) \X V |-> g[<<p[2], s[p[1]]>>]]
<1>1. n \in Nat /\ h \in [(1..n) \X V -> V]
  OBVIOUS
<1>2. PICK f : Recurses(f, n, V, c, h)
  <2> HIDE DEF h, n
  <2> QED BY <1>1, RecursionExists
<1>3. ASSUME NEW k \in 1..n PROVE f[k] = g[<<f[k - 1], s[k]>>]
  <2>1. f[k] = h[<<k, f[k - 1]>>] /\ f[k - 1] \in V
    <3>1. f \in [0..n -> V] /\ \A i \in 1..n : f[i] = h[<<i, f[i - 1]>>]
      BY <1>2 DEF Recurses
    <3> HIDE DEF h, n
    <3> QED BY <1>1, <3>1
  <2>2. <<k, f[k - 1]>> \in (1..n) \X V
    BY <2>1
  <2> QED BY <2>1, <2>2
<1>4. \A k \in 0..n : f[k] = IF k = 0 THEN c ELSE g[<<f[k - 1], s[k]>>]
  BY <1>1, <1>2, <1>3 DEF Recurses
<1> QED BY <1>2, <1>4 DEF Folds, Recurses

\* Whatever satisfies the equations of a fold ends with its value.
LEMMA FoldUnique ==
  ASSUME NEW f, NEW V, NEW X, NEW g, NEW c, NEW s, Follows(f, V, X, g, c, s)
  PROVE  f[Len(s)] = FoldedBy(g, c, s)
<1> DEFINE n == Len(s)
           h == CHOOSE x : Folds(x, g, c, s)
           S == {k \in 0..n : f[k] = h[k] /\ f[k] \in V}
<1>0. c \in V /\ g \in [V \X X -> V] /\ s \in Seq(X)
  BY DEF Follows
<1>1. Folds(h, g, c, s)
  BY <1>0, FoldExists
<1>2. n \in Nat /\ \A k \in 1..n : s[k] \in X
  BY <1>0
<1>3. h[0] = c /\ \A k \in 1..n : h[k] = g[<<h[k - 1], s[k]>>]
  <2> HIDE DEF h
  <2> QED BY <1>1, <1>2 DEF Folds
<1> HIDE DEF h
<1>4. 0 \in S
  BY <1>2, <1>3 DEF Follows
<1>5. ASSUME NEW k \in 1..n, k - 1 \in S PROVE k \in S
  <2>1. f[k] = g[<<f[k - 1], s[k]>>] /\ h[k] = f[k]
    BY <1>3, <1>5 DEF Follows
  <2>2. <<f[k - 1], s[k]>> \in V \X X
    BY <1>2, <1>5
  <2> QED BY <1>0, <1>2, <2>1, <2>2
<1>6. n \in S
  <2> HIDE DEF S, n
  <2>1. \A k \in 1..n : k - 1 \in S => k \in S
    BY <1>5
  <2>2. 0..n \subseteq S
    BY <1>2, <1>4, <2>1, InductionUpTo
  <2> QED BY <1>2, <2>2
<1> QED BY <1>6 DEF FoldedBy, h

\* The equations of a fold.
FoldEquations(V, X, g, c) ==
  /\ FoldedBy(g, c, << >>) = c
  /\ \A s \in Seq(X) :
       /\ FoldedBy(g, c, s) \in V
       /\ \A x \in X : FoldedBy(g, c, Append(s, x)) = g[<<FoldedBy(g, c, s), x>>]

\* A fold over sequences of items of X satisfies its equations.
THEOREM FoldedStep ==
  ASSUME NEW V, NEW X, NEW g \in [V \X X -> V], NEW c \in V
  PROVE  FoldEquations(V, X, g, c)
<1>1. ASSUME NEW s \in Seq(X)
      PROVE  \E f \in [0..Len(s) -> V] :
               /\ f[0] = c /\ \A k \in 1..Len(s) : f[k] = g[<<f[k - 1], s[k]>>]
               /\ FoldedBy(g, c, s) = f[Len(s)]
  <2>1. PICK f \in [0..Len(s) -> V] : Folds(f, g, c, s)
    BY FoldExists
  <2>2. Len(s) \in Nat
    OBVIOUS
  <2>3. f[0] = c /\ \A k \in 1..Len(s) : f[k] = g[<<f[k - 1], s[k]>>]
    BY <2>1, <2>2 DEF Folds
  <2>4. f[Len(s)] = FoldedBy(g, c, s)
    <3>1. Follows(f, V, X, g, c, s)
      BY <2>3 DEF Follows
    <3> QED BY <3>1, FoldUnique
  <2> QED BY <2>3, <2>4
<1>2. FoldedBy(g, c, << >>) = c
  <2>1. << >> \in Seq(X) /\ Len(<< >>) = 0
    OBVIOUS
  <2> QED BY <1>1, <2>1
<1>3. ASSUME NEW s \in Seq(X) PROVE FoldedBy(g, c, s) \in V
  BY <1>1
<1>4. ASSUME NEW s \in Seq(X), NEW x \in X
      PROVE  FoldedBy(g, c, Append(s, x)) = g[<<FoldedBy(g, c, s), x>>]
  <2> DEFINE t == Append(s, x)
  <2>1. t \in Seq(X) /\ Len(t) = Len(s) + 1 /\ t[Len(t)] = x /\ Len(s) \in Nat
        /\ \A k \in 1..Len(s) : t[k] = s[k]
    OBVIOUS
  <2> HIDE DEF t
  <2>2. PICK f \in [0..Len(t) -> V] :
          /\ f[0] = c /\ \A k \in 1..Len(t) : f[k] = g[<<f[k - 1], t[k]>>]
          /\ FoldedBy(g, c, t) = f[Len(t)]
    BY <1>1, <2>1
  <2>3. \A k \in 1..Len(s) : f[k] = g[<<f[k - 1], s[k]>>]
    BY <2>1, <2>2
  <2>4. f[Len(s)] = FoldedBy(g, c, s)
    <3>1. Follows(f, V, X, g, c, s)
      BY <2>2, <2>3 DEF Follows
    <3> QED BY <3>1, FoldUnique
  <2>5. f[Len(t)] = g[<<f[Len(s)], x>>]
    BY <2>1, <2>2
  <2> QED BY <2>2, <2>4, <2>5 DEF t
<1> QED BY <1>2, <1>3, <1>4 DEF FoldEquations

-----------------------------------------------------------------------------
(* Lists of module ListField                                               *)

\* What a list consists of.
LEMMA ElementsType ==
  ASSUME NEW X, NEW s \in Seq(X)
  PROVE  Elements(s) \subseteq X /\ Elements(<< >>) = {}
<1>1. \A i \in 1..Len(s) : s[i] \in X
  OBVIOUS
<1>2. Elements(<< >>) = {}
  BY DEF Elements
<1> QED BY <1>1, <1>2 DEF Elements

LEMMA ElementsConcat ==
  ASSUME NEW X, NEW s \in Seq(X), NEW t \in Seq(X)
  PROVE  Elements(s \o t) = Elements(s) \union Elements(t)
<1> DEFINE n == Len(s)
           m == Len(t)
           w == s \o t
<1>1. /\ n \in Nat /\ m \in Nat /\ Len(w) = n + m
      /\ \A i \in 1..n : w[i] = s[i]
      /\ \A i \in 1..m : w[n + i] = t[i]
  OBVIOUS
<1> HIDE DEF w
<1>2. \A i \in 1..Len(w) : i \in 1..n \/ i - n \in 1..m
  BY <1>1
<1>3. ASSUME NEW i \in 1..Len(w) PROVE w[i] \in Elements(s) \union Elements(t)
  <2>1. CASE i \in 1..n
    BY <1>1, <2>1 DEF Elements
  <2>2. CASE i - n \in 1..m
    <3>1. w[n + (i - n)] = t[i - n] /\ n + (i - n) = i
      BY <1>1, <2>2
    <3> QED BY <2>2, <3>1 DEF Elements
  <2> QED BY <1>2, <2>1, <2>2
<1>4. ASSUME NEW i \in 1..n PROVE s[i] \in Elements(w)
  <2>1. i \in 1..Len(w) /\ w[i] = s[i]
    BY <1>1
  <2> QED BY <2>1 DEF Elements
<1>5. ASSUME NEW i \in 1..m PROVE t[i] \in Elements(w)
  <2>1. n + i \in 1..Len(w) /\ w[n + i] = t[i]
    BY <1>1
  <2> QED BY <2>1 DEF Elements
<1>6. Elements(w) \subseteq Elements(s) \union Elements(t)
  BY <1>3 DEF Elements
<1>7. Elements(s) \subseteq Elements(w) /\ Elements(t) \subseteq Elements(w)
  BY <1>4, <1>5 DEF Elements
<1> QED BY <1>6, <1>7 DEF w

LEMMA ElementsAppend ==
  ASSUME NEW X, NEW s \in Seq(X), NEW x \in X
  PROVE  Elements(Append(s, x)) = Elements(s) \union {x}
<1>1. <<x>> \in Seq(X) /\ Append(s, x) = s \o <<x>>
  OBVIOUS
<1>2. Elements(<<x>>) = {x}
  <2>1. Len(<<x>>) = 1 /\ <<x>>[1] = x
    OBVIOUS
  <2>2. \A i \in 1..1 : i = 1
    OBVIOUS
  <2> QED BY <2>1, <2>2 DEF Elements
<1>3. Elements(s \o <<x>>) = Elements(s) \union Elements(<<x>>)
  BY <1>1, ElementsConcat
<1> QED BY <1>1, <1>2, <1>3

LEMMA ElementsHeadTail ==
  ASSUME NEW X, NEW s \in Seq(X), s # << >>
  PROVE  /\ Head(s) \in X /\ Tail(s) \in Seq(X)
         /\ Elements(s) = {Head(s)} \union Elements(Tail(s))
<1>1. /\ Head(s) \in X /\ Tail(s) \in Seq(X) /\ Len(s) \in Nat /\ Len(s) > 0
      /\ Len(Tail(s)) = Len(s) - 1 /\ Head(s) = s[1]
      /\ \A i \in 1..Len(Tail(s)) : Tail(s)[i] = s[i + 1]
  OBVIOUS
<1> DEFINE t == Tail(s)
           h == Head(s)
<1> HIDE DEF t, h
<1>2. ASSUME NEW i \in 1..Len(s) PROVE s[i] \in {h} \union Elements(t)
  <2>1. CASE i = 1
    BY <1>1, <2>1 DEF h
  <2>2. CASE i # 1
    <3>1. i - 1 \in 1..Len(t) /\ t[i - 1] = s[(i - 1) + 1] /\ (i - 1) + 1 = i
      BY <1>1, <2>2 DEF t
    <3> QED BY <3>1 DEF Elements
  <2> QED BY <2>1, <2>2
<1>3. ASSUME NEW i \in 1..Len(t) PROVE t[i] \in Elements(s)
  <2>1. i + 1 \in 1..Len(s) /\ t[i] = s[i + 1]
    BY <1>1 DEF t
  <2> QED BY <2>1 DEF Elements
<1>4. h \in Elements(s)
  BY <1>1 DEF Elements, h
<1>5. Elements(s) \subseteq {h} \union Elements(t)
  BY <1>2 DEF Elements
<1>6. Elements(t) \subseteq Elements(s)
  BY <1>3 DEF Elements
<1> QED BY <1>1, <1>4, <1>5, <1>6 DEF h, t

\* The equations of Without.
WithoutEquations(X, T) ==
  /\ Without(<< >>, T) = << >>
  /\ \A s \in Seq(X) :
       /\ Without(s, T) \in Seq(X)
       /\ \A x \in X : Without(Append(s, x), T) = IF x \in T THEN Without(s, T) ELSE Append(Without(s, T), x)

LEMMA WithoutStep ==
  ASSUME NEW X, NEW T
  PROVE  WithoutEquations(X, T)
<1> DEFINE V == Seq(X)
           g == [p \in V \X X |-> IF p[2] \in T THEN p[1] ELSE Append(p[1], p[2])]
<1>1. << >> \in V /\ \A v \in V, x \in X : (IF x \in T THEN v ELSE Append(v, x)) \in V
  <2>1. << >> \in V /\ \A v \in V, x \in X : v \in V /\ Append(v, x) \in V
    OBVIOUS
  <2> HIDE DEF V
  <2> QED BY <2>1
<1>2. g \in [V \X X -> V] /\ \A v \in V, x \in X : g[<<v, x>>] = IF x \in T THEN v ELSE Append(v, x)
  <2> HIDE DEF V
  <2>1. \A p \in V \X X : p[1] \in V /\ p[2] \in X
    OBVIOUS
  <2>2. \A p \in V \X X : (IF p[2] \in T THEN p[1] ELSE Append(p[1], p[2])) \in V
    BY <1>1, <2>1
  <2>3. \A v \in V, x \in X : <<v, x>> \in V \X X
    OBVIOUS
  <2> QED BY <2>2, <2>3
<1> HIDE DEF V, g
<1>3. FoldEquations(V, X, g, << >>)
  BY <1>1, <1>2, FoldedStep
<1>4. ASSUME NEW s \in Seq(X) PROVE Without(s, T) = FoldedBy(g, << >>, s)
  <2> DEFINE Defines(f) == f = [i \in 0..Len(s) |->
                            IF i = 0 THEN << >> ELSE IF s[i] \in T THEN f[i - 1] ELSE Append(f[i - 1], s[i])]
             F == CHOOSE f : Defines(f)
  <2>1. /\ 0 \in 0..Len(s)
        /\ \A i \in 1..Len(s) : i \in 0..Len(s) /\ i # 0 /\ s[i] \in X
        /\ \A i \in 0..Len(s) : i # 0 => i \in 1..Len(s) /\ i - 1 \in 0..Len(s)
    OBVIOUS
  <2>2. PICK f \in [0..Len(s) -> V] : Folds(f, g, << >>, s)
    BY <1>1, <1>2, FoldExists
  <2>3. Defines(f)
    <3>1. f = [i \in 0..Len(s) |-> IF i = 0 THEN << >> ELSE g[<<f[i - 1], s[i]>>]]
      BY <2>2 DEF Folds
    <3>2. \A i \in 0..Len(s) : i # 0 => g[<<f[i - 1], s[i]>>] = IF s[i] \in T THEN f[i - 1] ELSE Append(f[i - 1], s[i])
      BY <1>2, <2>1
    <3> QED BY <3>1, <3>2
  <2>4. Defines(F)
    <3> HIDE DEF Defines
    <3> QED BY <2>3
  <2>5. F[0] = << >> /\ \A i \in 1..Len(s) : F[i] = IF s[i] \in T THEN F[i - 1] ELSE Append(F[i - 1], s[i])
    <3>1. F = [i \in 0..Len(s) |-> IF i = 0 THEN << >> ELSE IF s[i] \in T THEN F[i - 1] ELSE Append(F[i - 1], s[i])]
      BY <2>4
    <3> HIDE DEF F, Defines
    <3> QED BY <2>1, <3>1
  <2>6. Without(s, T) = F[Len(s)]
    BY DEF Without
  <2> HIDE DEF F, Defines
  <2>7. Follows(F, V, X, g, << >>, s)
    BY <1>1, <1>2, <2>1, <2>5 DEF Follows
  <2> QED BY <2>6, <2>7, FoldUnique
<1>5. << >> \in Seq(X) /\ \A s \in Seq(X), x \in X : Append(s, x) \in Seq(X)
  OBVIOUS
<1>6. ASSUME NEW s \in Seq(X)
      PROVE  Without(s, T) \in V /\ \A x \in X : Without(Append(s, x), T) = IF x \in T THEN Without(s, T) ELSE Append(Without(s, T), x)
  <2>1. Without(s, T) \in V /\ \A x \in X : Without(Append(s, x), T) = g[<<Without(s, T), x>>]
    BY <1>3, <1>4, <1>5 DEF FoldEquations
  <2>2. \A x \in X : g[<<Without(s, T), x>>] = IF x \in T THEN Without(s, T) ELSE Append(Without(s, T), x)
    BY <1>2, <2>1
  <2> QED BY <2>1, <2>2
<1>7. Without(<< >>, T) = << >>
  BY <1>3, <1>4, <1>5 DEF FoldEquations
<1> QED BY <1>6, <1>7 DEF V, WithoutEquations

\* The equations of StoreList.
StoreListEquations(X, list) ==
  /\ StoreList(list, << >>) = list
  /\ \A s \in Seq(X) :
       /\ StoreList(list, s) \in Seq(X)
       /\ \A x \in X : StoreList(list, Append(s, x)) = StoreListItem(StoreList(list, s), x)

LEMMA StoreListStep ==
  ASSUME NEW X, NEW list \in Seq(X)
  PROVE  StoreListEquations(X, list)
<1> DEFINE V == Seq(X)
           g == [p \in V \X X |-> StoreListItem(p[1], p[2])]
<1>1. list \in V /\ \A v \in V, x \in X : (StoreListItem(v, x)) \in V
  <2>1. list \in V /\ \A v \in V, x \in X : Append(v, x) \in V
    OBVIOUS
  <2>2. \A v \in V, x \in X : Without(v, {x}) \in V
    BY WithoutStep DEF WithoutEquations
  <2> HIDE DEF V
  <2> QED BY <2>1, <2>2 DEF StoreListItem
<1>2. g \in [V \X X -> V] /\ \A v \in V, x \in X : g[<<v, x>>] = StoreListItem(v, x)
  <2> HIDE DEF V
  <2>1. \A p \in V \X X : p[1] \in V /\ p[2] \in X
    OBVIOUS
  <2>2. \A p \in V \X X : (StoreListItem(p[1], p[2])) \in V
    BY <1>1, <2>1
  <2>3. \A v \in V, x \in X : <<v, x>> \in V \X X
    OBVIOUS
  <2> QED BY <2>2, <2>3
<1> HIDE DEF V, g
<1>3. FoldEquations(V, X, g, list)
  BY <1>1, <1>2, FoldedStep
<1>4. ASSUME NEW s \in Seq(X) PROVE StoreList(list, s) = FoldedBy(g, list, s)
  <2> DEFINE Defines(f) == f = [i \in 0..Len(s) |->
                            IF i = 0 THEN list ELSE StoreListItem(f[i - 1], s[i])]
             F == CHOOSE f : Defines(f)
  <2>1. /\ 0 \in 0..Len(s)
        /\ \A i \in 1..Len(s) : i \in 0..Len(s) /\ i # 0 /\ s[i] \in X
        /\ \A i \in 0..Len(s) : i # 0 => i \in 1..Len(s) /\ i - 1 \in 0..Len(s)
    OBVIOUS
  <2>2. PICK f \in [0..Len(s) -> V] : Folds(f, g, list, s)
    BY <1>1, <1>2, FoldExists
  <2>3. Defines(f)
    <3>1. f = [i \in 0..Len(s) |-> IF i = 0 THEN list ELSE g[<<f[i - 1], s[i]>>]]
      BY <2>2 DEF Folds
    <3>2. \A i \in 0..Len(s) : i # 0 => g[<<f[i - 1], s[i]>>] = StoreListItem(f[i - 1], s[i])
      BY <1>2, <2>1
    <3> QED BY <3>1, <3>2
  <2>4. Defines(F)
    <3> HIDE DEF Defines
    <3> QED BY <2>3
  <2>5. F[0] = list /\ \A i \in 1..Len(s) : F[i] = StoreListItem(F[i - 1], s[i])
    <3>1. F = [i \in 0..Len(s) |-> IF i = 0 THEN list ELSE StoreListItem(F[i - 1], s[i])]
      BY <2>4
    <3> HIDE DEF F, Defines
    <3> QED BY <2>1, <3>1
  <2>6. StoreList(list, s) = F[Len(s)]
    BY DEF StoreList
  <2> HIDE DEF F, Defines
  <2>7. Follows(F, V, X, g, list, s)
    BY <1>1, <1>2, <2>1, <2>5 DEF Follows
  <2> QED BY <2>6, <2>7, FoldUnique
<1>5. << >> \in Seq(X) /\ \A s \in Seq(X), x \in X : Append(s, x) \in Seq(X)
  OBVIOUS
<1>6. ASSUME NEW s \in Seq(X)
      PROVE  StoreList(list, s) \in V /\ \A x \in X : StoreList(list, Append(s, x)) = StoreListItem(StoreList(list, s), x)
  <2>1. StoreList(list, s) \in V /\ \A x \in X : StoreList(list, Append(s, x)) = g[<<StoreList(list, s), x>>]
    BY <1>3, <1>4, <1>5 DEF FoldEquations
  <2>2. \A x \in X : g[<<StoreList(list, s), x>>] = StoreListItem(StoreList(list, s), x)
    BY <1>2, <2>1
  <2> QED BY <2>1, <2>2
<1>7. StoreList(list, << >>) = list
  BY <1>3, <1>4, <1>5 DEF FoldEquations
<1> QED BY <1>6, <1>7 DEF V, StoreListEquations

\* Whatever the items are, nothing is dropped from an empty list, and a list
\* stays a list of them.
LEMMA WithoutType ==
  ASSUME NEW X, NEW T
  PROVE  Without(<< >>, T) = << >> /\ \A s \in Seq(X) : Without(s, T) \in Seq(X)
BY WithoutStep DEF WithoutEquations

\* No items are dropped when none are named.
LEMMA WithoutNone ==
  ASSUME NEW X
  PROVE  \A s \in Seq(X) : Without(s, {}) = s
<1> DEFINE S == {s \in Seq(X) : Without(s, {}) = s}
<1>0. WithoutEquations(X, {})
  BY WithoutStep
<1>1. << >> \in S
  BY <1>0 DEF WithoutEquations
<1>2. \A s \in Seq(X) : s \in S => \A x \in X : Append(s, x) \in S
  BY <1>0 DEF WithoutEquations
<1>3. Seq(X) \subseteq S
  <2> HIDE DEF S
  <2> QED BY <1>1, <1>2, SequenceInduction
<1> QED BY <1>3

\* Only the items that occur matter.
LEMMA WithoutAgrees ==
  ASSUME NEW X, NEW T, NEW U
  PROVE  \A s \in Seq(X) : (\A x \in Elements(s) : x \in T <=> x \in U) => Without(s, T) = Without(s, U)
<1> DEFINE S == {s \in Seq(X) : (\A x \in Elements(s) : x \in T <=> x \in U) => Without(s, T) = Without(s, U)}
<1>0. WithoutEquations(X, T) /\ WithoutEquations(X, U)
  BY WithoutStep
<1>1. << >> \in S
  BY <1>0 DEF WithoutEquations
<1>2. ASSUME NEW s \in Seq(X), s \in S, NEW x \in X PROVE Append(s, x) \in S
  <2>1. Elements(Append(s, x)) = Elements(s) \union {x}
    BY ElementsAppend
  <2>2. Append(s, x) \in Seq(X)
    OBVIOUS
  <2>3. ASSUME \A y \in Elements(Append(s, x)) : y \in T <=> y \in U
        PROVE  Without(Append(s, x), T) = Without(Append(s, x), U)
    <3>1. Without(s, T) = Without(s, U) /\ (x \in T <=> x \in U)
      BY <1>2, <2>1, <2>3
    <3> QED BY <1>0, <3>1 DEF WithoutEquations
  <2> QED BY <2>2, <2>3
<1>3. Seq(X) \subseteq S
  <2> HIDE DEF S
  <2>1. \A s \in Seq(X) : s \in S => \A x \in X : Append(s, x) \in S
    BY <1>2
  <2> QED BY <1>1, <2>1, SequenceInduction
<1> QED BY <1>3

LEMMA WithoutConcat ==
  ASSUME NEW X, NEW T, NEW s \in Seq(X)
  PROVE  \A t \in Seq(X) : Without(s \o t, T) = Without(s, T) \o Without(t, T)
<1> DEFINE S == {t \in Seq(X) : Without(s \o t, T) = Without(s, T) \o Without(t, T)}
<1>0. WithoutEquations(X, T)
  BY WithoutStep
<1>1. << >> \in S
  <2>1. Without(s, T) \in Seq(X)
    BY <1>0 DEF WithoutEquations
  <2>2. s \o << >> = s /\ Without(s, T) \o << >> = Without(s, T)
    BY <2>1
  <2> QED BY <1>0, <2>2 DEF WithoutEquations
<1>2. ASSUME NEW t \in Seq(X), t \in S, NEW x \in X PROVE Append(t, x) \in S
  <2> DEFINE A == Without(s, T)
             B == Without(t, T)
  <2>1. s \o t \in Seq(X) /\ s \o Append(t, x) = Append(s \o t, x) /\ Append(t, x) \in Seq(X)
    OBVIOUS
  <2>2. A \in Seq(X) /\ B \in Seq(X)
    BY <1>0 DEF WithoutEquations
  <2>3. A \o Append(B, x) = Append(A \o B, x)
    <3> HIDE DEF A, B
    <3> QED BY <2>2
  <2>4. Without(s \o t, T) = A \o B
    BY <1>2
  <2>5. Without(Append(s \o t, x), T) = IF x \in T THEN A \o B ELSE Append(A \o B, x)
    <3> HIDE DEF A, B
    <3> QED BY <1>0, <2>1, <2>4 DEF WithoutEquations
  <2>6. Without(Append(t, x), T) = IF x \in T THEN B ELSE Append(B, x)
    BY <1>0 DEF WithoutEquations
  <2> HIDE DEF A, B
  <2> QED BY <2>1, <2>3, <2>5, <2>6 DEF A
<1>3. Seq(X) \subseteq S
  <2> HIDE DEF S
  <2>1. \A t \in Seq(X) : t \in S => \A x \in X : Append(t, x) \in S
    BY <1>2
  <2> QED BY <1>1, <2>1, SequenceInduction
<1> QED BY <1>3

LEMMA WithoutCommutes ==
  ASSUME NEW X, NEW T, NEW U
  PROVE  \A s \in Seq(X) : Without(Without(s, T), U) = Without(Without(s, U), T)
<1> DEFINE S == {s \in Seq(X) : Without(Without(s, T), U) = Without(Without(s, U), T)}
<1>0. WithoutEquations(X, T) /\ WithoutEquations(X, U)
  BY WithoutStep
<1>1. << >> \in S
  BY <1>0 DEF WithoutEquations
<1>2. ASSUME NEW s \in Seq(X), s \in S, NEW x \in X PROVE Append(s, x) \in S
  <2> DEFINE A == Without(s, T)
             B == Without(s, U)
  <2>1. A \in Seq(X) /\ B \in Seq(X) /\ Append(s, x) \in Seq(X)
    BY <1>0 DEF WithoutEquations
  <2>2. Without(A, U) = Without(B, T)
    BY <1>2
  <2>3. /\ Without(Append(s, x), T) = IF x \in T THEN A ELSE Append(A, x)
        /\ Without(Append(s, x), U) = IF x \in U THEN B ELSE Append(B, x)
    BY <1>0 DEF WithoutEquations
  <2> HIDE DEF A, B
  <2>4. /\ Without(Append(A, x), U) = IF x \in U THEN Without(A, U) ELSE Append(Without(A, U), x)
        /\ Without(Append(B, x), T) = IF x \in T THEN Without(B, T) ELSE Append(Without(B, T), x)
    BY <1>0, <2>1 DEF WithoutEquations
  <2> QED BY <2>1, <2>2, <2>3, <2>4
<1>3. Seq(X) \subseteq S
  <2> HIDE DEF S
  <2>1. \A t \in Seq(X) : t \in S => \A x \in X : Append(t, x) \in S
    BY <1>2
  <2> QED BY <1>1, <2>1, SequenceInduction
<1> QED BY <1>3

LEMMA WithoutTwice ==
  ASSUME NEW X, NEW T
  PROVE  \A s \in Seq(X) : Without(Without(s, T), T) = Without(s, T)
<1> DEFINE S == {s \in Seq(X) : Without(Without(s, T), T) = Without(s, T)}
<1>0. WithoutEquations(X, T)
  BY WithoutStep
<1>1. << >> \in S
  BY <1>0 DEF WithoutEquations
<1>2. ASSUME NEW s \in Seq(X), s \in S, NEW x \in X PROVE Append(s, x) \in S
  <2> DEFINE A == Without(s, T)
  <2>1. A \in Seq(X) /\ Without(A, T) = A /\ Append(s, x) \in Seq(X)
    BY <1>0, <1>2 DEF WithoutEquations
  <2>2. Without(Append(s, x), T) = IF x \in T THEN A ELSE Append(A, x)
    BY <1>0 DEF WithoutEquations
  <2> HIDE DEF A
  <2>3. Without(Append(A, x), T) = IF x \in T THEN Without(A, T) ELSE Append(Without(A, T), x)
    BY <1>0, <2>1 DEF WithoutEquations
  <2> QED BY <2>1, <2>2, <2>3
<1>3. Seq(X) \subseteq S
  <2> HIDE DEF S
  <2>1. \A t \in Seq(X) : t \in S => \A x \in X : Append(t, x) \in S
    BY <1>2
  <2> QED BY <1>1, <2>1, SequenceInduction
<1> QED BY <1>3

\* Whether v was in a list does not matter where v is dropped again.
LEMMA StoreListWithout ==
  ASSUME NEW X, NEW list \in Seq(X), NEW v \in X
  PROVE  \A s \in Seq(X) :
           Without(StoreList(list, Without(s, {v})), {v}) = Without(StoreList(list, s), {v})
<1> DEFINE S == {s \in Seq(X) :
                   Without(StoreList(list, Without(s, {v})), {v}) = Without(StoreList(list, s), {v})}
<1>0. WithoutEquations(X, {v}) /\ StoreListEquations(X, list)
  BY WithoutStep, StoreListStep
<1>1. << >> \in S
  BY <1>0 DEF WithoutEquations
<1>2. ASSUME NEW s \in Seq(X), s \in S, NEW w \in X PROVE Append(s, w) \in S
  <2> DEFINE A == StoreList(list, s)
             B == StoreList(list, Without(s, {v}))
  <2>1. Without(s, {v}) \in Seq(X) /\ Append(s, w) \in Seq(X)
    <3>1. Without(s, {v}) \in Seq(X)
      BY WithoutType
    <3>2. Append(s, w) \in Seq(X)
      OBVIOUS
    <3> QED BY <3>1, <3>2
  <2>2. A \in Seq(X) /\ B \in Seq(X) /\ Without(A, {v}) = Without(B, {v})
    BY <1>0, <1>2, <2>1 DEF StoreListEquations
  <2>3. StoreList(list, Append(s, w)) = Append(Without(A, {w}), w)
    BY <1>0 DEF StoreListEquations, StoreListItem
  <2>4. Without(A, {w}) \in Seq(X) /\ Without(B, {w}) \in Seq(X)
    <3> HIDE DEF A, B
    <3> QED BY <2>2, WithoutType
  <2>5. CASE w = v
    <3>1. Without(Append(s, w), {v}) = Without(s, {v})
      BY <1>0, <2>5 DEF WithoutEquations
    <3> HIDE DEF A, B
    <3>2. Without(Append(Without(A, {w}), w), {v}) = Without(Without(A, {v}), {v})
      BY <1>0, <2>2, <2>4, <2>5 DEF WithoutEquations
    <3>3. @ = Without(A, {v})
      BY <2>2, WithoutTwice
    <3> QED BY <2>1, <2>2, <2>3, <3>1, <3>2, <3>3 DEF B
  <2>6. CASE w # v
    <3>1. Without(Append(s, w), {v}) = Append(Without(s, {v}), w)
      BY <1>0, <2>6 DEF WithoutEquations
    <3>2. StoreList(list, Append(Without(s, {v}), w)) = Append(Without(B, {w}), w)
      BY <1>0, <2>1 DEF StoreListEquations, StoreListItem
    <3> HIDE DEF A, B
    <3>3. Without(Append(Without(A, {w}), w), {v}) = Append(Without(Without(A, {w}), {v}), w)
      BY <1>0, <2>4, <2>6 DEF WithoutEquations
    <3>4. Without(Append(Without(B, {w}), w), {v}) = Append(Without(Without(B, {w}), {v}), w)
      BY <1>0, <2>4, <2>6 DEF WithoutEquations
    <3>5. Without(Without(A, {w}), {v}) = Without(Without(B, {w}), {v})
      BY <2>2, WithoutCommutes
    <3> QED BY <2>1, <2>3, <3>1, <3>2, <3>3, <3>4, <3>5
  <2> QED BY <2>5, <2>6
<1>3. Seq(X) \subseteq S
  <2> HIDE DEF S
  <2>1. \A t \in Seq(X) : t \in S => \A x \in X : Append(t, x) \in S
    BY <1>2
  <2> QED BY <1>1, <2>1, SequenceInduction
<1> QED BY <1>3

\* To gather values in a list and merge that list is to store them one list
\* after the other.
THEOREM StoreListMerges ==
  ASSUME NEW X, NEW list \in Seq(X), NEW s \in Seq(X)
  PROVE  \A t \in Seq(X) : StoreList(list, StoreList(s, t)) = StoreList(StoreList(list, s), t)
<1> DEFINE S == {t \in Seq(X) : StoreList(list, StoreList(s, t)) = StoreList(StoreList(list, s), t)}
<1>1. /\ StoreListEquations(X, list) /\ StoreListEquations(X, s)
      /\ StoreList(list, s) \in Seq(X)
  <2>1. StoreListEquations(X, list) /\ StoreListEquations(X, s)
    BY StoreListStep
  <2> QED BY <2>1 DEF StoreListEquations
<1>2. StoreListEquations(X, StoreList(list, s))
  BY <1>1, StoreListStep
<1>3. << >> \in S
  BY <1>1, <1>2 DEF StoreListEquations
<1>4. ASSUME NEW t \in Seq(X), t \in S, NEW v \in X PROVE Append(t, v) \in S
  <2> DEFINE A == StoreList(s, t)
             B == StoreList(StoreList(list, s), t)
  <2>1. A \in Seq(X) /\ B \in Seq(X) /\ StoreList(list, A) = B
    BY <1>1, <1>2, <1>4 DEF StoreListEquations
  <2>2. StoreList(s, Append(t, v)) = Append(Without(A, {v}), v)
    BY <1>1 DEF StoreListEquations, StoreListItem
  <2>3. StoreList(StoreList(list, s), Append(t, v)) = Append(Without(B, {v}), v)
    BY <1>2 DEF StoreListEquations, StoreListItem
  <2> HIDE DEF A, B
  <2>4. Without(A, {v}) \in Seq(X)
    BY <2>1, WithoutType
  <2>5. StoreList(list, Append(Without(A, {v}), v))
          = Append(Without(StoreList(list, Without(A, {v})), {v}), v)
    BY <1>1, <2>4 DEF StoreListEquations, StoreListItem
  <2>6. Without(StoreList(list, Without(A, {v})), {v}) = Without(B, {v})
    BY <2>1, StoreListWithout
  <2>7. Append(t, v) \in Seq(X)
    OBVIOUS
  <2> QED BY <2>2, <2>3, <2>5, <2>6, <2>7
<1>5. Seq(X) \subseteq S
  <2> HIDE DEF S
  <2>1. \A t \in Seq(X) : t \in S => \A x \in X : Append(t, x) \in S
    BY <1>4
  <2> QED BY <1>3, <2>1, SequenceInduction
<1> QED BY <1>5

\* Values stored one list after the other are stored in a row.
LEMMA StoreListConcat ==
  ASSUME NEW X, NEW list \in Seq(X), NEW s \in Seq(X)
  PROVE  \A t \in Seq(X) : StoreList(list, s \o t) = StoreList(StoreList(list, s), t)
<1> DEFINE m == StoreList(list, s)
           S == {t \in Seq(X) : StoreList(list, s \o t) = StoreList(m, t)}
<1>1. StoreListEquations(X, list) /\ m \in Seq(X)
  <2>1. StoreListEquations(X, list)
    BY StoreListStep
  <2> QED BY <2>1 DEF StoreListEquations
<1>2. StoreListEquations(X, m)
  <2> HIDE DEF m
  <2> QED BY <1>1, StoreListStep
<1>3. << >> \in S
  <2>1. s \o << >> = s
    OBVIOUS
  <2> QED BY <1>2, <2>1 DEF StoreListEquations
<1>4. ASSUME NEW t \in Seq(X), t \in S, NEW x \in X PROVE Append(t, x) \in S
  <2>1. s \o t \in Seq(X) /\ s \o Append(t, x) = Append(s \o t, x) /\ Append(t, x) \in Seq(X)
    OBVIOUS
  <2>2. StoreList(list, Append(s \o t, x)) = StoreListItem(StoreList(list, s \o t), x)
    BY <1>1, <2>1 DEF StoreListEquations
  <2>3. StoreList(m, Append(t, x)) = StoreListItem(StoreList(m, t), x)
    <3> HIDE DEF m
    <3> QED BY <1>2 DEF StoreListEquations
  <2> QED BY <1>4, <2>1, <2>2, <2>3
<1>5. Seq(X) \subseteq S
  <2> HIDE DEF S
  <2>1. \A t \in Seq(X) : t \in S => \A x \in X : Append(t, x) \in S
    BY <1>4
  <2> QED BY <1>3, <2>1, SequenceInduction
<1> QED BY <1>5

-----------------------------------------------------------------------------
(* Lists put together, and lists without repeats                           *)

LEMMA OneItem ==
  ASSUME NEW X, NEW x \in X
  PROVE  /\ <<x>> \in Seq(X) /\ Len(<<x>>) = 1 /\ <<x>>[1] = x
         /\ Elements(<<x>>) = {x}
         /\ \A i \in 1..Len(<<x>>) : <<x>>[i] = x
<1>1. <<x>> \in Seq(X) /\ Len(<<x>>) = 1 /\ <<x>>[1] = x
  OBVIOUS
<1>2. \A i \in 1..1 : i = 1
  OBVIOUS
<1> QED BY <1>1, <1>2 DEF Elements

LEMMA ConcatItems ==
  ASSUME NEW X, NEW s \in Seq(X), NEW t \in Seq(X)
  PROVE  /\ Len(s) \in Nat /\ Len(t) \in Nat /\ Len(s \o t) = Len(s) + Len(t)
         /\ \A i \in 1..Len(s) : (s \o t)[i] = s[i]
         /\ \A i \in 1..Len(t) : (s \o t)[Len(s) + i] = t[i]
OBVIOUS

\* The equations of Concat.
ConcatEquations(X) ==
  /\ Concat(<< >>) = << >>
  /\ \A s \in Seq(Seq(X)) :
       /\ Concat(s) \in Seq(X)
       /\ \A x \in Seq(X) : Concat(Append(s, x)) = Concat(s) \o x

LEMMA ConcatStep ==
  ASSUME NEW X
  PROVE  ConcatEquations(X)
<1> DEFINE V == Seq(X)
           g == [p \in V \X Seq(X) |-> p[1] \o p[2]]
<1>1. << >> \in V /\ \A v \in V, x \in Seq(X) : (v \o x) \in V
  OBVIOUS
<1>2. g \in [V \X Seq(X) -> V] /\ \A v \in V, x \in Seq(X) : g[<<v, x>>] = v \o x
  <2> HIDE DEF V
  <2>1. \A p \in V \X Seq(X) : p[1] \in V /\ p[2] \in Seq(X)
    OBVIOUS
  <2>2. \A p \in V \X Seq(X) : (p[1] \o p[2]) \in V
    BY <1>1, <2>1
  <2>3. \A v \in V, x \in Seq(X) : <<v, x>> \in V \X Seq(X)
    OBVIOUS
  <2> QED BY <2>2, <2>3
<1> HIDE DEF V, g
<1>3. FoldEquations(V, Seq(X), g, << >>)
  BY <1>1, <1>2, FoldedStep
<1>4. ASSUME NEW s \in Seq(Seq(X)) PROVE Concat(s) = FoldedBy(g, << >>, s)
  <2> DEFINE Defines(f) == f = [i \in 0..Len(s) |->
                            IF i = 0 THEN << >> ELSE f[i - 1] \o s[i]]
             F == CHOOSE f : Defines(f)
  <2>1. /\ 0 \in 0..Len(s)
        /\ \A i \in 1..Len(s) : i \in 0..Len(s) /\ i # 0 /\ s[i] \in Seq(X)
        /\ \A i \in 0..Len(s) : i # 0 => i \in 1..Len(s) /\ i - 1 \in 0..Len(s)
    OBVIOUS
  <2>2. PICK f \in [0..Len(s) -> V] : Folds(f, g, << >>, s)
    BY <1>1, <1>2, FoldExists
  <2>3. Defines(f)
    <3>1. f = [i \in 0..Len(s) |-> IF i = 0 THEN << >> ELSE g[<<f[i - 1], s[i]>>]]
      BY <2>2 DEF Folds
    <3>2. \A i \in 0..Len(s) : i # 0 => g[<<f[i - 1], s[i]>>] = f[i - 1] \o s[i]
      BY <1>2, <2>1
    <3> QED BY <3>1, <3>2
  <2>4. Defines(F)
    <3> HIDE DEF Defines
    <3> QED BY <2>3
  <2>5. F[0] = << >> /\ \A i \in 1..Len(s) : F[i] = F[i - 1] \o s[i]
    <3>1. F = [i \in 0..Len(s) |-> IF i = 0 THEN << >> ELSE F[i - 1] \o s[i]]
      BY <2>4
    <3> HIDE DEF F, Defines
    <3> QED BY <2>1, <3>1
  <2>6. Concat(s) = F[Len(s)]
    BY DEF Concat
  <2> HIDE DEF F, Defines
  <2>7. Follows(F, V, Seq(X), g, << >>, s)
    BY <1>1, <1>2, <2>1, <2>5 DEF Follows
  <2> QED BY <2>6, <2>7, FoldUnique
<1>5. << >> \in Seq(Seq(X)) /\ \A s \in Seq(Seq(X)), x \in Seq(X) : Append(s, x) \in Seq(Seq(X))
  OBVIOUS
<1>6. ASSUME NEW s \in Seq(Seq(X))
      PROVE  Concat(s) \in V /\ \A x \in Seq(X) : Concat(Append(s, x)) = Concat(s) \o x
  <2>1. Concat(s) \in V /\ \A x \in Seq(X) : Concat(Append(s, x)) = g[<<Concat(s), x>>]
    BY <1>3, <1>4, <1>5 DEF FoldEquations
  <2>2. \A x \in Seq(X) : g[<<Concat(s), x>>] = Concat(s) \o x
    BY <1>2, <2>1
  <2> QED BY <2>1, <2>2
<1>7. Concat(<< >>) = << >>
  BY <1>3, <1>4, <1>5 DEF FoldEquations
<1> QED BY <1>6, <1>7 DEF V, ConcatEquations

LEMMA ConcatElements ==
  ASSUME NEW X, NEW ss \in Seq(Seq(X))
  PROVE  /\ Concat(ss) \in Seq(X)
         /\ \A i \in 1..Len(ss) : Elements(ss[i]) \subseteq Elements(Concat(ss))
<1> DEFINE S == {t \in Seq(Seq(X)) : \A i \in 1..Len(t) : Elements(t[i]) \subseteq Elements(Concat(t))}
<1>0. ConcatEquations(X)
  BY ConcatStep
<1>1. << >> \in S
  OBVIOUS
<1>2. ASSUME NEW t \in Seq(Seq(X)), t \in S, NEW s \in Seq(X) PROVE Append(t, s) \in S
  <2> DEFINE w == Append(t, s)
  <2>1. /\ w \in Seq(Seq(X)) /\ Len(t) \in Nat /\ Len(w) = Len(t) + 1 /\ w[Len(t) + 1] = s
        /\ \A i \in 1..Len(t) : w[i] = t[i]
    OBVIOUS
  <2>2. Concat(t) \in Seq(X) /\ Concat(w) = Concat(t) \o s
    BY <1>0 DEF ConcatEquations
  <2>3. Elements(Concat(w)) = Elements(Concat(t)) \union Elements(s)
    BY <2>2, ElementsConcat
  <2> HIDE DEF w
  <2>4. ASSUME NEW i \in 1..Len(w) PROVE Elements(w[i]) \subseteq Elements(Concat(w))
    <3>1. CASE i \in 1..Len(t)
      <4>1. Elements(t[i]) \subseteq Elements(Concat(t)) /\ w[i] = t[i]
        BY <1>2, <2>1, <3>1
      <4> QED BY <2>3, <4>1
    <3>2. CASE i = Len(t) + 1
      <4>1. w[i] = s
        BY <2>1, <3>2
      <4> QED BY <2>3, <4>1
    <3> QED BY <2>1, <3>1, <3>2
  <2> QED BY <2>1, <2>4 DEF w
<1>3. Seq(Seq(X)) \subseteq S
  <2> HIDE DEF S
  <2>1. \A t \in Seq(Seq(X)) : t \in S => \A s \in Seq(X) : Append(t, s) \in S
    BY <1>2
  <2> QED BY <1>1, <2>1, SequenceInduction
<1>4. Concat(ss) \in Seq(X)
  BY <1>0 DEF ConcatEquations
<1> QED BY <1>3, <1>4

\* What the joined list has comes from one of the lists.
LEMMA ConcatSources ==
  ASSUME NEW X, NEW ss \in Seq(Seq(X))
  PROVE  \A x \in Elements(Concat(ss)) : \E i \in 1..Len(ss) : x \in Elements(ss[i])
<1> DEFINE S == {t \in Seq(Seq(X)) :
                   \A x \in Elements(Concat(t)) : \E i \in 1..Len(t) : x \in Elements(t[i])}
<1>0. ConcatEquations(X)
  BY ConcatStep
<1>1. << >> \in S
  <2>1. Elements(Concat(<< >>)) = {}
    BY <1>0 DEF ConcatEquations, Elements
  <2> QED BY <2>1
<1>2. ASSUME NEW t \in Seq(Seq(X)), t \in S, NEW s \in Seq(X) PROVE Append(t, s) \in S
  <2> DEFINE w == Append(t, s)
  <2>1. /\ w \in Seq(Seq(X)) /\ Len(t) \in Nat /\ Len(w) = Len(t) + 1 /\ w[Len(t) + 1] = s
        /\ \A i \in 1..Len(t) : w[i] = t[i]
    OBVIOUS
  <2>2. Concat(t) \in Seq(X) /\ Concat(w) = Concat(t) \o s
    BY <1>0 DEF ConcatEquations
  <2>3. Elements(Concat(w)) = Elements(Concat(t)) \union Elements(s)
    BY <2>2, ElementsConcat
  <2> HIDE DEF w
  <2>4. ASSUME NEW x \in Elements(Concat(w)) PROVE \E i \in 1..Len(w) : x \in Elements(w[i])
    <3>1. CASE x \in Elements(Concat(t))
      <4>1. PICK i \in 1..Len(t) : x \in Elements(t[i])
        BY <1>2, <3>1
      <4>2. i \in 1..Len(w) /\ w[i] = t[i]
        BY <2>1
      <4> QED BY <4>1, <4>2
    <3>2. CASE x \in Elements(s)
      <4>1. Len(w) \in 1..Len(w) /\ w[Len(w)] = s
        BY <2>1
      <4> QED BY <3>2, <4>1
    <3> QED BY <2>3, <3>1, <3>2
  <2> QED BY <2>1, <2>4 DEF w
<1>3. Seq(Seq(X)) \subseteq S
  <2> HIDE DEF S
  <2>1. \A t \in Seq(Seq(X)) : t \in S => \A s \in Seq(X) : Append(t, s) \in S
    BY <1>2
  <2> QED BY <1>1, <2>1, SequenceInduction
<1> QED BY <1>3

\* Each item of u comes after those that s has before the item's first copy.
FirstOccurrences(u, s) ==
  \A k \in 1..Len(u) : \E j \in 1..Len(s) :
    u[k] = s[j] /\ \A i \in 1..(j - 1) : \E m \in 1..(k - 1) : s[i] = u[m]

\* Nothing gets lost when later copies are removed, and the order stays.
LEMMA UniqueList ==
  ASSUME NEW X, NEW s \in Seq(X)
  PROVE  /\ Unique(s) \in Seq(X) /\ Elements(Unique(s)) = Elements(s)
         /\ NoRepeats(Unique(s)) /\ FirstOccurrences(Unique(s), s)
<1> DEFINE n == Len(s)
           Again(i) == \E j \in 1..(i - 1) : s[j] = s[i]
           V == Seq(X)
           g == [p \in (1..n) \X V |-> IF Again(p[1]) THEN p[2] ELSE Append(p[2], s[p[1]])]
           Defines(f) == f = [i \in 0..n |-> IF i = 0 THEN << >>
                                             ELSE IF Again(i) THEN f[i - 1] ELSE Append(f[i - 1], s[i])]
           F == CHOOSE f : Defines(f)
           So(i) == {s[j] : j \in 1..i}
<1>1. n \in Nat /\ \A i \in 1..n : s[i] \in X
  OBVIOUS
<1>2. Unique(s) = F[n]
  BY DEF Unique
<1>3. g \in [(1..n) \X V -> V]
      /\ \A k \in 1..n, v \in V : g[<<k, v>>] = IF Again(k) THEN v ELSE Append(v, s[k])
  <2> HIDE DEF Again
  <2>1. \A k \in 1..n, v \in V : v \in V /\ Append(v, s[k]) \in V
    BY <1>1
  <2> HIDE DEF V, n
  <2>2. \A p \in (1..n) \X V : p[1] \in 1..n /\ p[2] \in V
    OBVIOUS
  <2>3. \A k \in 1..n, v \in V : <<k, v>> \in (1..n) \X V
    OBVIOUS
  <2> QED BY <2>1, <2>2, <2>3
<1>4. PICK f : Recurses(f, n, V, << >>, g)
  <2>1. << >> \in V
    OBVIOUS
  <2> HIDE DEF g, n, V
  <2> QED BY <1>1, <1>3, <2>1, RecursionExists
<1>5. Defines(f)
  <2> HIDE DEF g, V, Again, n
  <2>1. f \in [0..n -> V] /\ f[0] = << >> /\ \A k \in 1..n : f[k] = g[<<k, f[k - 1]>>]
    BY <1>4 DEF Recurses
  <2>2. \A k \in 1..n : k - 1 \in 0..n
    BY <1>1
  <2>3. \A k \in 1..n : f[k] = IF Again(k) THEN f[k - 1] ELSE Append(f[k - 1], s[k])
    BY <1>3, <2>1, <2>2
  <2>4. \A k \in 0..n : k = 0 \/ k \in 1..n
    BY <1>1
  <2> QED BY <2>1, <2>3, <2>4
<1>6. F[0] = << >> /\ \A k \in 1..n : F[k] = IF Again(k) THEN F[k - 1] ELSE Append(F[k - 1], s[k])
  <2>1. Defines(F)
    <3> HIDE DEF Defines
    <3> QED BY <1>5
  <2>2. F = [i \in 0..n |-> IF i = 0 THEN << >>
                            ELSE IF Again(i) THEN F[i - 1] ELSE Append(F[i - 1], s[i])]
    BY <2>1
  <2> HIDE DEF F, n, Defines, Again
  <2>3. 0 \in 0..n /\ \A k \in 1..n : k \in 0..n /\ k # 0
    BY <1>1
  <2> QED BY <2>2, <2>3
<1> DEFINE Kept(i, v) == v \in Seq(X) /\ Elements(v) = So(i) /\ NoRepeats(v) /\ FirstOccurrences(v, s)
           T == {k \in 0..n : Kept(k, F[k])}
<1> HIDE DEF F, Defines, g
<1>7. 0 \in T
  <2>1. So(0) = {}
    OBVIOUS
  <2>2. << >> \in Seq(X) /\ Elements(<< >>) = {} /\ NoRepeats(<< >>)
    BY DEF Elements, NoRepeats
  <2>3. Kept(0, << >>)
    BY <2>1, <2>2 DEF FirstOccurrences
  <2>4. 0 \in 0..n /\ F[0] = << >>
    BY <1>1, <1>6
  <2> HIDE DEF Kept
  <2> QED BY <2>3, <2>4
<1>8. ASSUME NEW k \in 1..n, k - 1 \in T PROVE k \in T
  <2> DEFINE v == F[k - 1]
  <2>1. v \in Seq(X) /\ Elements(v) = So(k - 1) /\ NoRepeats(v) /\ FirstOccurrences(v, s)
    BY <1>8
  <2>2. So(k) = So(k - 1) \union {s[k]}
    <3>1. \A j \in 1..k : j \in 1..(k - 1) \/ j = k
      BY <1>1
    <3>2. k \in 1..k /\ \A j \in 1..(k - 1) : j \in 1..k
      BY <1>1
    <3> QED BY <3>1, <3>2
  <2>3. Again(k) <=> s[k] \in So(k - 1)
    OBVIOUS
  <2>4. F[k] = IF Again(k) THEN v ELSE Append(v, s[k])
    BY <1>6
  <2> SUFFICES Kept(k, F[k])
    BY <1>1
  <2>5. CASE Again(k)
    <3>1. F[k] = v /\ So(k) = So(k - 1)
      BY <2>2, <2>3, <2>4, <2>5
    <3>2. Kept(k, v)
      <4> HIDE DEF v, So
      <4> QED BY <2>1, <3>1
    <3> HIDE DEF Kept, v
    <3> QED BY <3>1, <3>2
  <2>6. CASE ~ Again(k)
    <3>1. F[k] = Append(v, s[k]) /\ s[k] \notin So(k - 1) /\ s[k] \in X
      BY <1>1, <2>3, <2>4, <2>6
    <3> HIDE DEF v, So, Again
    <3>3. Append(v, s[k]) \in Seq(X)
      BY <2>1, <3>1
    <3>4. Elements(Append(v, s[k])) = So(k)
      BY <2>1, <2>2, <3>1, ElementsAppend
    <3>5. FirstOccurrences(Append(v, s[k]), s)
      <4> DEFINE w == Append(v, s[k])
                 m == Len(v)
      <4>1. m \in Nat /\ Len(w) = m + 1 /\ w[m + 1] = s[k] /\ \A i \in 1..m : w[i] = v[i]
        BY <2>1, <3>1
      <4>2. \A i \in 1..(k - 1) : \E l \in 1..m : s[i] = v[l]
        BY <2>1 DEF Elements, So
      <4>3. \A l \in 1..m : \E j \in 1..Len(s) :
              v[l] = s[j] /\ \A i \in 1..(j - 1) : \E o \in 1..(l - 1) : s[i] = v[o]
        BY <2>1 DEF FirstOccurrences
      <4> HIDE DEF w, m, v
      <4>4. ASSUME NEW l \in 1..Len(w)
            PROVE  \E j \in 1..Len(s) :
                     w[l] = s[j] /\ \A i \in 1..(j - 1) : \E o \in 1..(l - 1) : s[i] = w[o]
        <5>1. CASE l = m + 1
          <6>1. w[l] = s[k] /\ k \in 1..Len(s) /\ \A i \in 1..(k - 1) : \E o \in 1..(l - 1) : s[i] = w[o]
            BY <4>1, <4>2, <5>1
          <6> QED BY <6>1
        <5>2. CASE l \in 1..m
          <6>1. PICK j \in 1..Len(s) :
                  v[l] = s[j] /\ \A i \in 1..(j - 1) : \E o \in 1..(l - 1) : s[i] = v[o]
            BY <4>3, <5>2
          <6>2. w[l] = v[l] /\ \A o \in 1..(l - 1) : w[o] = v[o]
            BY <4>1, <5>2
          <6>3. \A i \in 1..(j - 1) : \E o \in 1..(l - 1) : s[i] = w[o]
            BY <6>1, <6>2
          <6> QED BY <6>1, <6>2, <6>3
        <5> QED BY <4>1, <5>1, <5>2
      <4> QED BY <4>4 DEF FirstOccurrences, w
    <3>6. NoRepeats(Append(v, s[k]))
      <4> DEFINE w == Append(v, s[k])
                 m == Len(v)
      <4>1. m \in Nat /\ Len(w) = m + 1 /\ w[m + 1] = s[k] /\ \A i \in 1..m : w[i] = v[i]
        BY <2>1, <3>1
      <4>2. \A i \in 1..m : v[i] # s[k]
        BY <2>1, <3>1 DEF Elements
      <4> HIDE DEF w, m
      <4>3. \A i \in 1..Len(w) : i \in 1..m \/ i = m + 1
        BY <4>1
      <4>4. \A i, j \in 1..m : v[i] = v[j] => i = j
        BY <2>1 DEF NoRepeats, m
      <4>5. \A i, j \in 1..Len(w) : w[i] = w[j] => i = j
        BY <4>1, <4>2, <4>3, <4>4 DEF m
      <4> QED BY <4>5 DEF NoRepeats, w
    <3>7. Kept(k, Append(v, s[k]))
      BY <3>3, <3>4, <3>5, <3>6
    <3> HIDE DEF Kept
    <3> QED BY <3>1, <3>7
  <2> QED BY <2>5, <2>6
<1>9. Kept(n, F[n])
  <2>1. 0..n \subseteq T
    <3> HIDE DEF T, n
    <3>1. \A k \in 1..n : k - 1 \in T => k \in T
      BY <1>8
    <3> QED BY <1>1, <1>7, <3>1, InductionUpTo
  <2>2. n \in 0..n
    BY <1>1
  <2> QED BY <2>1, <2>2
<1> QED BY <1>2, <1>9 DEF Elements

LEMMA WithoutElements ==
  ASSUME NEW X, NEW T
  PROVE  \A s \in Seq(X) : Elements(Without(s, T)) = Elements(s) \ T
<1> DEFINE S == {s \in Seq(X) : Elements(Without(s, T)) = Elements(s) \ T}
<1>0. WithoutEquations(X, T)
  BY WithoutStep
<1>1. << >> \in S
  <2>1. Elements(<< >>) = {}
    BY DEF Elements
  <2> QED BY <1>0, <2>1 DEF WithoutEquations
<1>2. ASSUME NEW s \in Seq(X), s \in S, NEW x \in X PROVE Append(s, x) \in S
  <2>1. Without(s, T) \in Seq(X) /\ Elements(Without(s, T)) = Elements(s) \ T
    BY <1>0, <1>2 DEF WithoutEquations
  <2>2. /\ Without(Append(s, x), T) = IF x \in T THEN Without(s, T) ELSE Append(Without(s, T), x)
        /\ Append(s, x) \in Seq(X)
    BY <1>0 DEF WithoutEquations
  <2>3. /\ Elements(Append(s, x)) = Elements(s) \union {x}
        /\ Elements(Append(Without(s, T), x)) = Elements(Without(s, T)) \union {x}
    BY <2>1, ElementsAppend
  <2> QED BY <2>1, <2>2, <2>3
<1>3. Seq(X) \subseteq S
  <2> HIDE DEF S
  <2>1. \A s \in Seq(X) : s \in S => \A x \in X : Append(s, x) \in S
    BY <1>2
  <2> QED BY <1>1, <2>1, SequenceInduction
<1> QED BY <1>3

LEMMA NoRepeatsConcat ==
  ASSUME NEW X, NEW s \in Seq(X), NEW t \in Seq(X)
  PROVE  NoRepeats(s \o t) <=> /\ NoRepeats(s) /\ NoRepeats(t)
                               /\ Elements(s) \intersect Elements(t) = {}
<1> DEFINE n == Len(s)
           m == Len(t)
           w == s \o t
<1>1. /\ n \in Nat /\ m \in Nat /\ Len(w) = n + m
      /\ \A k \in 1..n : w[k] = s[k]
      /\ \A k \in 1..m : w[n + k] = t[k]
  BY ConcatItems
<1> HIDE DEF w
<1>2. ASSUME NoRepeats(w)
      PROVE  NoRepeats(s) /\ NoRepeats(t) /\ Elements(s) \intersect Elements(t) = {}
  <2>0. \A k, l \in 1..Len(w) : w[k] = w[l] => k = l
    BY <1>2 DEF NoRepeats
  <2>1. ASSUME NEW k \in 1..n, NEW l \in 1..n, s[k] = s[l] PROVE k = l
    <3>1. k \in 1..Len(w) /\ l \in 1..Len(w) /\ w[k] = w[l]
      BY <1>1, <2>1
    <3> QED BY <2>0, <3>1
  <2>2. ASSUME NEW k \in 1..m, NEW l \in 1..m, t[k] = t[l] PROVE k = l
    <3>1. n + k \in 1..Len(w) /\ n + l \in 1..Len(w) /\ w[n + k] = w[n + l]
      BY <1>1, <2>2
    <3>2. n + k = n + l
      BY <2>0, <3>1
    <3> QED BY <1>1, <3>2
  <2>3. ASSUME NEW k \in 1..n, NEW l \in 1..m, s[k] = t[l] PROVE FALSE
    <3>1. k \in 1..Len(w) /\ n + l \in 1..Len(w) /\ w[k] = w[n + l] /\ k # n + l
      BY <1>1, <2>3
    <3> QED BY <2>0, <3>1
  <2> QED BY <2>1, <2>2, <2>3 DEF NoRepeats, Elements
<1>3. ASSUME NoRepeats(s), NoRepeats(t), Elements(s) \intersect Elements(t) = {}
      PROVE  NoRepeats(w)
  <2>1. /\ \A k, l \in 1..n : s[k] = s[l] => k = l
        /\ \A k, l \in 1..m : t[k] = t[l] => k = l
        /\ \A k \in 1..n, l \in 1..m : s[k] # t[l]
    <3>1. /\ \A k, l \in 1..n : s[k] = s[l] => k = l
          /\ \A k, l \in 1..m : t[k] = t[l] => k = l
      BY <1>3 DEF NoRepeats
    <3>2. ASSUME NEW k \in 1..n, NEW l \in 1..m PROVE s[k] # t[l]
      <4>1. s[k] \in Elements(s) /\ t[l] \in Elements(t)
        BY DEF Elements
      <4> QED BY <4>1, <1>3
    <3> QED BY <3>1, <3>2
  <2>2. \A k \in 1..Len(w) : \/ k \in 1..n /\ w[k] = s[k]
                             \/ k - n \in 1..m /\ w[k] = t[k - n]
    <3> SUFFICES ASSUME NEW k \in 1..Len(w), ~ (k \in 1..n)
                 PROVE  k - n \in 1..m /\ w[k] = t[k - n]
      BY <1>1
    <3>1. k - n \in 1..m /\ n + (k - n) = k
      BY <1>1
    <3> QED BY <1>1, <3>1
  <2>3. \A k, l \in 1..Len(w) : w[k] = w[l] => k = l
    <3> SUFFICES ASSUME NEW k \in 1..Len(w), NEW l \in 1..Len(w), w[k] = w[l] PROVE k = l
      OBVIOUS
    <3>1. CASE k \in 1..n /\ w[k] = s[k]
      BY <2>1, <2>2, <3>1
    <3>2. CASE k - n \in 1..m /\ w[k] = t[k - n]
      <4>1. l - n \in 1..m /\ w[l] = t[l - n]
        BY <2>1, <2>2, <3>2
      <4>2. k - n = l - n
        BY <2>1, <3>2, <4>1
      <4> QED BY <1>1, <4>2
    <3> QED BY <2>2, <3>1, <3>2
  <2> QED BY <2>3 DEF NoRepeats
<1> QED BY <1>2, <1>3 DEF w

LEMMA NoRepeatsAppend ==
  ASSUME NEW X, NEW s \in Seq(X), NEW x \in X
  PROVE  NoRepeats(Append(s, x)) <=> NoRepeats(s) /\ x \notin Elements(s)
<1>1. Append(s, x) = s \o <<x>> /\ <<x>> \in Seq(X) /\ Elements(<<x>>) = {x} /\ NoRepeats(<<x>>)
  <2>1. Append(s, x) = s \o <<x>> /\ \A k \in 1..Len(<<x>>) : k = 1
    OBVIOUS
  <2> QED BY <2>1, OneItem DEF NoRepeats
<1> DEFINE t == <<x>>
<1> HIDE DEF t
<1>2. NoRepeats(s \o t) <=> NoRepeats(s) /\ NoRepeats(t) /\ Elements(s) \intersect Elements(t) = {}
  BY <1>1, NoRepeatsConcat DEF t
<1> QED BY <1>1, <1>2 DEF t

LEMMA WithoutNoRepeats ==
  ASSUME NEW X, NEW T
  PROVE  \A s \in Seq(X) : NoRepeats(s) => NoRepeats(Without(s, T))
<1> DEFINE S == {s \in Seq(X) : NoRepeats(s) => NoRepeats(Without(s, T))}
<1>0. WithoutEquations(X, T)
  BY WithoutStep
<1>1. << >> \in S
  BY <1>0 DEF WithoutEquations, NoRepeats
<1>2. ASSUME NEW s \in Seq(X), s \in S, NEW x \in X PROVE Append(s, x) \in S
  <2>1. Without(s, T) \in Seq(X) /\ (NoRepeats(s) => NoRepeats(Without(s, T)))
    BY <1>0, <1>2 DEF WithoutEquations
  <2>2. /\ Without(Append(s, x), T) = IF x \in T THEN Without(s, T) ELSE Append(Without(s, T), x)
        /\ Append(s, x) \in Seq(X)
    BY <1>0 DEF WithoutEquations
  <2>3. /\ NoRepeats(Append(s, x)) <=> NoRepeats(s) /\ x \notin Elements(s)
        /\ NoRepeats(Append(Without(s, T), x)) <=>
             NoRepeats(Without(s, T)) /\ x \notin Elements(Without(s, T))
    BY <2>1, NoRepeatsAppend
  <2>4. Elements(Without(s, T)) = Elements(s) \ T
    BY WithoutElements
  <2> QED BY <2>1, <2>2, <2>3, <2>4
<1>3. Seq(X) \subseteq S
  <2> HIDE DEF S
  <2>1. \A s \in Seq(X) : s \in S => \A x \in X : Append(s, x) \in S
    BY <1>2
  <2> QED BY <1>1, <2>1, SequenceInduction
<1> QED BY <1>3

\* A list without repeats is as long as it has members.
LEMMA NoRepeatsCardinality ==
  ASSUME NEW X
  PROVE  \A s \in Seq(X) :
           NoRepeats(s) => IsFiniteSet(Elements(s)) /\ Cardinality(Elements(s)) = Len(s)
<1> DEFINE Counts(s) == IsFiniteSet(Elements(s)) /\ Cardinality(Elements(s)) = Len(s)
           S == {s \in Seq(X) : NoRepeats(s) => Counts(s)}
<1>1. << >> \in S
  <2>1. Elements(<< >>) = {}
    BY DEF Elements
  <2> QED BY <2>1, FS_EmptySet
<1>2. ASSUME NEW s \in Seq(X), s \in S, NEW x \in X PROVE Append(s, x) \in S
  <2>1. Append(s, x) \in Seq(X) /\ Len(Append(s, x)) = Len(s) + 1
    OBVIOUS
  <2>2. Elements(Append(s, x)) = Elements(s) \union {x}
    BY ElementsAppend
  <2>3. NoRepeats(Append(s, x)) <=> NoRepeats(s) /\ x \notin Elements(s)
    BY NoRepeatsAppend
  <2>4. ASSUME NoRepeats(Append(s, x)) PROVE Counts(Append(s, x))
    <3>1. Counts(s) /\ x \notin Elements(s)
      BY <1>2, <2>3, <2>4
    <3>2. /\ IsFiniteSet(Elements(s) \union {x})
          /\ Cardinality(Elements(s) \union {x}) = Cardinality(Elements(s)) + 1
      BY <3>1, FS_AddElement
    <3> QED BY <2>1, <2>2, <3>1, <3>2
  <2> QED BY <2>1, <2>4
<1>3. Seq(X) \subseteq S
  <2> HIDE DEF S
  <2>1. \A s \in Seq(X) : s \in S => \A x \in X : Append(s, x) \in S
    BY <1>2
  <2> QED BY <1>1, <2>1, SequenceInduction
<1> QED BY <1>3
=============================================================================
