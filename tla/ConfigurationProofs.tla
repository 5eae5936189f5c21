------------------------ MODULE ConfigurationProofs -------------------------
(***************************************************************************)
(* Proofs about the lists of a configuration: how they are stored and      *)
(* fetched (ConfigSet), and what links, dependson and wholearchive, once   *)
(* fetched, do to the build (Links).                                       *)
(*                                                                         *)
(* ConfigSet: whatever a script says, in whatever order it visits the      *)
(* containers, a fetch gives what replaying the script gives.  The         *)
(* operators of ConfigSet and ListField walk sequences; each is first      *)
(* shown to be a fold (Induction), and then used through its equations.    *)
(*                                                                         *)
(* Links: whatever the scripts put in the lists, the projects on a line    *)
(* are those that the configuration asks for, each once, and they are      *)
(* built before.  A list of project.getdependencies is what it would be if *)
(* it were computed again, so what a file says is settled when it is       *)
(* written: LinksIInv keeps, for each file that is written, its lines and  *)
(* the rule that orders the build.                                         *)
(***************************************************************************)
EXTENDS ConfigSet, Links, Induction, TLAPS

-----------------------------------------------------------------------------
(* Blocks and statements                                                   *)

Block ==
  [criteria : Criteria, removes : SUBSET Pattern, list : Seq(Value), string : Value \union {Unset}]

Statement ==
  {s \in [criteria : Criteria, op : {"list", "string", "remove"},
          values : Seq(Value), patterns : SUBSET Pattern] :
     s.op = "string" => s.values # << >>}

LEMMA RemoveSelectedFacts ==
  ASSUME NEW list \in Seq(Value)
  PROVE  RemoveSelected(list, {}) = list /\ \A P : RemoveSelected(list, P) \in Seq(Value)
<1>1. RemoveSelected(list, {}) = list
  <2>1. UNION {Selects[p] : p \in {}} = {}
    OBVIOUS
  <2> QED BY <2>1, WithoutNone DEF RemoveSelected
<1>2. ASSUME NEW P PROVE RemoveSelected(list, P) \in Seq(Value)
  BY WithoutType DEF RemoveSelected
<1> QED BY <1>1, <1>2

LEMMA StoreListType ==
  ASSUME NEW list \in Seq(Value)
  PROVE  StoreList(list, << >>) = list /\ \A s \in Seq(Value) : StoreList(list, s) \in Seq(Value)
<1>1. StoreListEquations(Value, list)
  BY StoreListStep
<1> QED BY <1>1 DEF StoreListEquations

\* The equations of Matching.
MatchingEquations(X, e) ==
  /\ Matching(<< >>, e) = << >>
  /\ \A s \in Seq(X) :
       /\ Matching(s, e) \in Seq(X)
       /\ \A b \in X : Matching(Append(s, b), e) =
                         IF e \in Holds[b.criteria] THEN Append(Matching(s, e), b) ELSE Matching(s, e)
       /\ \A t \in Seq(X) : Matching(s \o t, e) = Matching(s, e) \o Matching(t, e)

LEMMA MatchingStep ==
  ASSUME NEW X, NEW e
  PROVE  MatchingEquations(X, e)
<1> DEFINE T == {b \in X : e \notin Holds[b.criteria]}
<1>1. WithoutEquations(X, T)
  BY WithoutStep
<1>2. \A s, t \in Seq(X) : Without(s \o t, T) = Without(s, T) \o Without(t, T)
  <2> HIDE DEF T
  <2> QED BY WithoutConcat
<1>3. ASSUME NEW s \in Seq(X) PROVE Matching(s, e) = Without(s, T)
  <2> DEFINE U == {b \in Elements(s) : e \notin Holds[b.criteria]}
  <2>1. Elements(s) \subseteq X
    BY DEF Elements
  <2>2. \A b \in Elements(s) : b \in U <=> b \in T
    BY <2>1
  <2>3. Without(s, U) = Without(s, T)
    <3> HIDE DEF T, U
    <3> QED BY <2>2, WithoutAgrees
  <2> QED BY <2>3 DEF Matching
<1>4. /\ << >> \in Seq(X)
      /\ \A s \in Seq(X) : /\ \A b \in X : Append(s, b) \in Seq(X)
                           /\ \A t \in Seq(X) : s \o t \in Seq(X)
  OBVIOUS
<1>5. ASSUME NEW s \in Seq(X), NEW b \in X
      PROVE  Matching(Append(s, b), e) =
               IF e \in Holds[b.criteria] THEN Append(Matching(s, e), b) ELSE Matching(s, e)
  <2>1. b \in T <=> e \notin Holds[b.criteria]
    OBVIOUS
  <2>2. Without(Append(s, b), T) = IF b \in T THEN Without(s, T) ELSE Append(Without(s, T), b)
    <3> HIDE DEF T
    <3> QED BY <1>1 DEF WithoutEquations
  <2> HIDE DEF T
  <2> QED BY <1>3, <1>4, <2>1, <2>2
<1>6. Matching(<< >>, e) = << >>
  <2> HIDE DEF T
  <2> QED BY <1>1, <1>3, <1>4 DEF WithoutEquations
<1>7. ASSUME NEW s \in Seq(X) PROVE Matching(s, e) \in Seq(X)
  <2> HIDE DEF T
  <2> QED BY <1>1, <1>3 DEF WithoutEquations
<1>8. ASSUME NEW s \in Seq(X), NEW t \in Seq(X)
      PROVE  Matching(s \o t, e) = Matching(s, e) \o Matching(t, e)
  <2> HIDE DEF T
  <2> QED BY <1>2, <1>3, <1>4
<1> QED BY <1>5, <1>6, <1>7, <1>8 DEF MatchingEquations

\* The equations of MergeBlocks.
MergeEquations(list) ==
  /\ MergeBlocks(list, << >>) = list
  /\ \A s \in Seq(Block) :
       /\ MergeBlocks(list, s) \in Seq(Value)
       /\ \A x \in Block : MergeBlocks(list, Append(s, x)) = StoreList(RemoveSelected(MergeBlocks(list, s), x.removes), x.list)

LEMMA MergeBlocksStep ==
  ASSUME NEW list \in Seq(Value)
  PROVE  MergeEquations(list)
<1> DEFINE V == Seq(Value)
           g == [p \in V \X Block |-> StoreList(RemoveSelected(p[1], p[2].removes), p[2].list)]
<1>1. list \in V /\ \A v \in V, x \in Block : (StoreList(RemoveSelected(v, x.removes), x.list)) \in V
  <2>1. \A b \in Block : b.list \in Seq(Value)
    BY DEF Block
  <2>2. \A v \in V : \A P : RemoveSelected(v, P) \in Seq(Value)
    BY RemoveSelectedFacts
  <2> QED BY <2>1, <2>2, StoreListType
<1>2. g \in [V \X Block -> V] /\ \A v \in V, x \in Block : g[<<v, x>>] = StoreList(RemoveSelected(v, x.removes), x.list)
  <2> HIDE DEF V
  <2>1. \A p \in V \X Block : p[1] \in V /\ p[2] \in Block
    OBVIOUS
  <2>2. \A p \in V \X Block : (StoreList(RemoveSelected(p[1], p[2].removes), p[2].list)) \in V
    BY <1>1, <2>1
  <2>3. \A v \in V, x \in Block : <<v, x>> \in V \X Block
    OBVIOUS
  <2> QED BY <2>2, <2>3
<1> HIDE DEF V, g
<1>3. FoldEquations(V, Block, g, list)
  BY <1>1, <1>2, FoldedStep
<1>4. ASSUME NEW s \in Seq(Block) PROVE MergeBlocks(list, s) = FoldedBy(g, list, s)
  <2> DEFINE Defines(f) == f = [i \in 0..Len(s) |->
                            IF i = 0 THEN list ELSE StoreList(RemoveSelected(f[i - 1], s[i].removes), s[i].list)]
             F == CHOOSE f : Defines(f)
  <2>1. /\ 0 \in 0..Len(s)
        /\ \A i \in 1..Len(s) : i \in 0..Len(s) /\ i # 0 /\ s[i] \in Block
        /\ \A i \in 0..Len(s) : i # 0 => i \in 1..Len(s) /\ i - 1 \in 0..Len(s)
    OBVIOUS
  <2>2. PICK f \in [0..Len(s) -> V] : Folds(f, g, list, s)
    BY <1>1, <1>2, FoldExists
  <2>3. Defines(f)
    <3>1. f = [i \in 0..Len(s) |-> IF i = 0 THEN list ELSE g[<<f[i - 1], s[i]>>]]
      BY <2>2 DEF Folds
    <3>2. \A i \in 0..Len(s) : i # 0 => g[<<f[i - 1], s[i]>>] = StoreList(RemoveSelected(f[i - 1], s[i].removes), s[i].list)
      BY <1>2, <2>1
    <3> QED BY <3>1, <3>2
  <2>4. Defines(F)
    <3> HIDE DEF Defines
    <3> QED BY <2>3
  <2>5. F[0] = list /\ \A i \in 1..Len(s) : F[i] = StoreList(RemoveSelected(F[i - 1], s[i].removes), s[i].list)
    <3>1. F = [i \in 0..Len(s) |-> IF i = 0 THEN list ELSE StoreList(RemoveSelected(F[i - 1], s[i].removes), s[i].list)]
      BY <2>4
    <3> HIDE DEF F, Defines
    <3> QED BY <2>1, <3>1
  <2>6. MergeBlocks(list, s) = F[Len(s)]
    BY DEF MergeBlocks
  <2> HIDE DEF F, Defines
  <2>7. Follows(F, V, Block, g, list, s)
    BY <1>1, <1>2, <2>1, <2>5 DEF Follows
  <2> QED BY <2>6, <2>7, FoldUnique
<1>5. << >> \in Seq(Block) /\ \A s \in Seq(Block), x \in Block : Append(s, x) \in Seq(Block)
  OBVIOUS
<1>6. ASSUME NEW s \in Seq(Block)
      PROVE  MergeBlocks(list, s) \in V /\ \A x \in Block : MergeBlocks(list, Append(s, x)) = StoreList(RemoveSelected(MergeBlocks(list, s), x.removes), x.list)
  <2>1. MergeBlocks(list, s) \in V /\ \A x \in Block : MergeBlocks(list, Append(s, x)) = g[<<MergeBlocks(list, s), x>>]
    BY <1>3, <1>4, <1>5 DEF FoldEquations
  <2>2. \A x \in Block : g[<<MergeBlocks(list, s), x>>] = StoreList(RemoveSelected(MergeBlocks(list, s), x.removes), x.list)
    BY <1>2, <2>1
  <2> QED BY <2>1, <2>2
<1>7. MergeBlocks(list, << >>) = list
  BY <1>3, <1>4, <1>5 DEF FoldEquations
<1> QED BY <1>6, <1>7 DEF V, MergeEquations

\* The equations of ReplayList.
ReplayEquations(list) ==
  /\ ReplayList(list, << >>) = list
  /\ \A s \in Seq(Statement) :
       /\ ReplayList(list, s) \in Seq(Value)
       /\ \A x \in Statement : ReplayList(list, Append(s, x)) = IF x.op = "list" THEN StoreList(ReplayList(list, s), x.values) ELSE IF x.op = "remove" THEN RemoveSelected(ReplayList(list, s), x.patterns) ELSE ReplayList(list, s)

LEMMA ReplayListStep ==
  ASSUME NEW list \in Seq(Value)
  PROVE  ReplayEquations(list)
<1> DEFINE V == Seq(Value)
           g == [p \in V \X Statement |-> IF p[2].op = "list" THEN StoreList(p[1], p[2].values) ELSE IF p[2].op = "remove" THEN RemoveSelected(p[1], p[2].patterns) ELSE p[1]]
<1>1. list \in V /\ \A v \in V, x \in Statement : (IF x.op = "list" THEN StoreList(v, x.values) ELSE IF x.op = "remove" THEN RemoveSelected(v, x.patterns) ELSE v) \in V
  <2>1. \A s \in Statement : s.values \in Seq(Value)
    BY DEF Statement
  <2>2. \A v \in V : \A P : RemoveSelected(v, P) \in V
    BY RemoveSelectedFacts
  <2>3. \A v \in V, s \in Statement : StoreList(v, s.values) \in V
    BY <2>1, StoreListType
  <2>4. list \in V
    OBVIOUS
  <2> HIDE DEF V
  <2> QED BY <2>2, <2>3, <2>4
<1>2. g \in [V \X Statement -> V] /\ \A v \in V, x \in Statement : g[<<v, x>>] = IF x.op = "list" THEN StoreList(v, x.values) ELSE IF x.op = "remove" THEN RemoveSelected(v, x.patterns) ELSE v
  <2> HIDE DEF V
  <2>1. \A p \in V \X Statement : p[1] \in V /\ p[2] \in Statement
    OBVIOUS
  <2>2. \A p \in V \X Statement : (IF p[2].op = "list" THEN StoreList(p[1], p[2].values) ELSE IF p[2].op = "remove" THEN RemoveSelected(p[1], p[2].patterns) ELSE p[1]) \in V
    BY <1>1, <2>1
  <2>3. \A v \in V, x \in Statement : <<v, x>> \in V \X Statement
    OBVIOUS
  <2> QED BY <2>2, <2>3
<1> HIDE DEF V, g
<1>3. FoldEquations(V, Statement, g, list)
  BY <1>1, <1>2, FoldedStep
<1>4. ASSUME NEW s \in Seq(Statement) PROVE ReplayList(list, s) = FoldedBy(g, list, s)
  <2> DEFINE Defines(f) == f = [i \in 0..Len(s) |->
                            IF i = 0 THEN list ELSE IF s[i].op = "list" THEN StoreList(f[i - 1], s[i].values) ELSE IF s[i].op = "remove" THEN RemoveSelected(f[i - 1], s[i].patterns) ELSE f[i - 1]]
             F == CHOOSE f : Defines(f)
  <2>1. /\ 0 \in 0..Len(s)
        /\ \A i \in 1..Len(s) : i \in 0..Len(s) /\ i # 0 /\ s[i] \in Statement
        /\ \A i \in 0..Len(s) : i # 0 => i \in 1..Len(s) /\ i - 1 \in 0..Len(s)
    OBVIOUS
  <2>2. PICK f \in [0..Len(s) -> V] : Folds(f, g, list, s)
    BY <1>1, <1>2, FoldExists
  <2>3. Defines(f)
    <3>1. f = [i \in 0..Len(s) |-> IF i = 0 THEN list ELSE g[<<f[i - 1], s[i]>>]]
      BY <2>2 DEF Folds
    <3>2. \A i \in 0..Len(s) : i # 0 => g[<<f[i - 1], s[i]>>] = IF s[i].op = "list" THEN StoreList(f[i - 1], s[i].values) ELSE IF s[i].op = "remove" THEN RemoveSelected(f[i - 1], s[i].patterns) ELSE f[i - 1]
      BY <1>2, <2>1
    <3> QED BY <3>1, <3>2
  <2>4. Defines(F)
    <3> HIDE DEF Defines
    <3> QED BY <2>3
  <2>5. F[0] = list /\ \A i \in 1..Len(s) : F[i] = IF s[i].op = "list" THEN StoreList(F[i - 1], s[i].values) ELSE IF s[i].op = "remove" THEN RemoveSelected(F[i - 1], s[i].patterns) ELSE F[i - 1]
    <3>1. F = [i \in 0..Len(s) |-> IF i = 0 THEN list ELSE IF s[i].op = "list" THEN StoreList(F[i - 1], s[i].values) ELSE IF s[i].op = "remove" THEN RemoveSelected(F[i - 1], s[i].patterns) ELSE F[i - 1]]
      BY <2>4
    <3> HIDE DEF F, Defines
    <3> QED BY <2>1, <3>1
  <2>6. ReplayList(list, s) = F[Len(s)]
    BY DEF ReplayList
  <2> HIDE DEF F, Defines
  <2>7. Follows(F, V, Statement, g, list, s)
    BY <1>1, <1>2, <2>1, <2>5 DEF Follows
  <2> QED BY <2>6, <2>7, FoldUnique
<1>5. << >> \in Seq(Statement) /\ \A s \in Seq(Statement), x \in Statement : Append(s, x) \in Seq(Statement)
  OBVIOUS
<1>6. ASSUME NEW s \in Seq(Statement)
      PROVE  ReplayList(list, s) \in V /\ \A x \in Statement : ReplayList(list, Append(s, x)) = IF x.op = "list" THEN StoreList(ReplayList(list, s), x.values) ELSE IF x.op = "remove" THEN RemoveSelected(ReplayList(list, s), x.patterns) ELSE ReplayList(list, s)
  <2>1. ReplayList(list, s) \in V /\ \A x \in Statement : ReplayList(list, Append(s, x)) = g[<<ReplayList(list, s), x>>]
    BY <1>3, <1>4, <1>5 DEF FoldEquations
  <2>2. \A x \in Statement : g[<<ReplayList(list, s), x>>] = IF x.op = "list" THEN StoreList(ReplayList(list, s), x.values) ELSE IF x.op = "remove" THEN RemoveSelected(ReplayList(list, s), x.patterns) ELSE ReplayList(list, s)
    BY <1>2, <2>1
  <2> QED BY <2>1, <2>2
<1>7. ReplayList(list, << >>) = list
  BY <1>3, <1>4, <1>5 DEF FoldEquations
<1> QED BY <1>6, <1>7 DEF V, ReplayEquations

LEMMA LastIs ==
  ASSUME NEW n \in Nat, NEW T \in SUBSET (1..n), T # {}
  PROVE  /\ Last(T) \in T /\ \A j \in T : j <= Last(T)
         /\ \A i \in T : (\A j \in T : j <= i) => Last(T) = i
<1>1. \E i \in T : \A j \in T : j <= i
  BY GreatestNat
<1>2. Last(T) \in T /\ \A j \in T : j <= Last(T)
  BY <1>1 DEF Last
<1>3. ASSUME NEW i \in T, \A j \in T : j <= i PROVE Last(T) = i
  <2>1. Last(T) <= i /\ i <= Last(T) /\ Last(T) \in 1..n /\ i \in 1..n
    BY <1>2, <1>3
  <2> QED BY <2>1
<1> QED BY <1>2, <1>3

\* The last index in a longer sequence.
LEMMA LastOfMore ==
  ASSUME NEW n \in Nat, NEW T \in SUBSET (1..n), NEW U \in SUBSET (1..(n + 1)),
         \A i \in 1..n : i \in U <=> i \in T
  PROVE  /\ n + 1 \in U => U # {} /\ Last(U) = n + 1
         /\ n + 1 \notin U => U = T
<1>1. ASSUME n + 1 \in U PROVE U # {} /\ Last(U) = n + 1
  <2>1. \A j \in U : j <= n + 1
    OBVIOUS
  <2>2. n + 1 \in Nat
    OBVIOUS
  <2> QED BY <1>1, <2>1, <2>2, LastIs
<1>2. ASSUME n + 1 \notin U PROVE U = T
  <2>1. \A i \in U : i \in 1..n
    BY <1>2
  <2> QED BY <2>1
<1> QED BY <1>1, <1>2

\* The equations of LastString.
LEMMA LastStringStep ==
  /\ LastString(<< >>) = Unset
  /\ \A s \in Seq(Block) :
       /\ LastString(s) \in Value \union {Unset}
       /\ \A b \in Block : LastString(Append(s, b)) = IF b.string # Unset THEN b.string ELSE LastString(s)
<1> DEFINE I(s) == {i \in 1..Len(s) : s[i].string # Unset}
<1>1. LastString(<< >>) = Unset
  <2>1. I(<< >>) = {}
    OBVIOUS
  <2> QED BY <2>1 DEF LastString
<1>2. ASSUME NEW s \in Seq(Block) PROVE LastString(s) \in Value \union {Unset}
  <2>1. ASSUME I(s) # {} PROVE s[Last(I(s))].string \in Value \union {Unset}
    <3>1. Len(s) \in Nat /\ I(s) \in SUBSET (1..Len(s))
      OBVIOUS
    <3>2. Last(I(s)) \in I(s)
      <4> HIDE DEF I
      <4> QED BY <2>1, <3>1, LastIs
    <3>3. s[Last(I(s))] \in Block
      BY <3>2
    <3> QED BY <3>3 DEF Block
  <2> QED BY <2>1 DEF LastString
<1>3. ASSUME NEW s \in Seq(Block), NEW b \in Block
      PROVE  LastString(Append(s, b)) = IF b.string # Unset THEN b.string ELSE LastString(s)
  <2> DEFINE t == Append(s, b)
             n == Len(s)
  <2>1. n \in Nat /\ Len(t) = n + 1 /\ t[n + 1] = b /\ \A i \in 1..n : t[i] = s[i] /\ i \in 1..(n + 1)
    OBVIOUS
  <2>2. /\ I(s) \in SUBSET (1..n) /\ I(t) \in SUBSET (1..(n + 1))
        /\ \A i \in 1..n : i \in I(t) <=> i \in I(s)
        /\ n + 1 \in I(t) <=> b.string # Unset
    <3> HIDE DEF t, n
    <3> QED BY <2>1 DEF n
  <2>3. /\ n + 1 \in I(t) => I(t) # {} /\ Last(I(t)) = n + 1
        /\ n + 1 \notin I(t) => I(t) = I(s)
    <3> HIDE DEF t, n, I
    <3> QED BY <2>1, <2>2, LastOfMore
  <2>4. /\ LastString(s) = IF I(s) = {} THEN Unset ELSE s[Last(I(s))].string
        /\ LastString(t) = IF I(t) = {} THEN Unset ELSE t[Last(I(t))].string
    BY DEF LastString
  <2>5. CASE b.string # Unset
    <3> HIDE DEF t, n, I
    <3> QED BY <2>1, <2>2, <2>3, <2>4, <2>5 DEF t
  <2>6. CASE b.string = Unset
    <3>1. I(t) = I(s)
      <4> HIDE DEF t, n, I
      <4> QED BY <2>2, <2>3, <2>6
    <3>2. CASE I(s) = {}
      <4> HIDE DEF t, n, I
      <4> QED BY <2>4, <2>6, <3>1, <3>2 DEF t
    <3>3. CASE I(s) # {}
      <4>1. Last(I(s)) \in I(s)
        <5> HIDE DEF t, n, I
        <5> QED BY <2>1, <2>2, <3>3, LastIs
      <4>2. t[Last(I(s))] = s[Last(I(s))]
        <5> HIDE DEF t, n, I
        <5> QED BY <2>1, <2>2, <4>1
      <4> HIDE DEF t, n, I
      <4> QED BY <2>4, <2>6, <3>1, <3>3, <4>2 DEF t
    <3> QED BY <3>2, <3>3
  <2> QED BY <2>5, <2>6
<1> QED BY <1>1, <1>2, <1>3

\* The equations of ReplayString.
LEMMA ReplayStringStep ==
  /\ ReplayString(<< >>) = Unset
  /\ \A s \in Seq(Statement), x \in Statement :
       ReplayString(Append(s, x)) = IF x.op = "string" THEN x.values[1] ELSE ReplayString(s)
<1> DEFINE I(s) == {i \in 1..Len(s) : s[i].op = "string"}
<1>1. ReplayString(<< >>) = Unset
  <2>1. I(<< >>) = {}
    OBVIOUS
  <2> QED BY <2>1 DEF ReplayString
<1>2. ASSUME NEW s \in Seq(Statement), NEW b \in Statement
      PROVE  ReplayString(Append(s, b)) = IF b.op = "string" THEN b.values[1] ELSE ReplayString(s)
  <2> DEFINE t == Append(s, b)
             n == Len(s)
  <2>1. n \in Nat /\ Len(t) = n + 1 /\ t[n + 1] = b /\ \A i \in 1..n : t[i] = s[i] /\ i \in 1..(n + 1)
    OBVIOUS
  <2>2. /\ I(s) \in SUBSET (1..n) /\ I(t) \in SUBSET (1..(n + 1))
        /\ \A i \in 1..n : i \in I(t) <=> i \in I(s)
        /\ n + 1 \in I(t) <=> b.op = "string"
    <3> HIDE DEF t, n
    <3> QED BY <2>1 DEF n
  <2>3. /\ n + 1 \in I(t) => I(t) # {} /\ Last(I(t)) = n + 1
        /\ n + 1 \notin I(t) => I(t) = I(s)
    <3> HIDE DEF t, n, I
    <3> QED BY <2>1, <2>2, LastOfMore
  <2>4. /\ ReplayString(s) = IF I(s) = {} THEN Unset ELSE s[Last(I(s))].values[1]
        /\ ReplayString(t) = IF I(t) = {} THEN Unset ELSE t[Last(I(t))].values[1]
    BY DEF ReplayString
  <2>5. CASE b.op = "string"
    <3> HIDE DEF t, n, I
    <3> QED BY <2>1, <2>2, <2>3, <2>4, <2>5 DEF t
  <2>6. CASE b.op # "string"
    <3>1. I(t) = I(s)
      <4> HIDE DEF t, n, I
      <4> QED BY <2>2, <2>3, <2>6
    <3>2. CASE I(s) = {}
      <4> HIDE DEF t, n, I
      <4> QED BY <2>4, <2>6, <3>1, <3>2 DEF t
    <3>3. CASE I(s) # {}
      <4>1. Last(I(s)) \in I(s)
        <5> HIDE DEF t, n, I
        <5> QED BY <2>1, <2>2, <3>3, LastIs
      <4>2. t[Last(I(s))] = s[Last(I(s))]
        <5> HIDE DEF t, n, I
        <5> QED BY <2>1, <2>2, <4>1
      <4> HIDE DEF t, n, I
      <4> QED BY <2>4, <2>6, <3>1, <3>3, <4>2 DEF t
    <3> QED BY <3>2, <3>3
  <2> QED BY <2>5, <2>6
<1> QED BY <1>1, <1>2

\* Merging a sequence of blocks and then another is merging both in a row.
LEMMA MergeBlocksConcat ==
  ASSUME NEW list \in Seq(Value), NEW s \in Seq(Block)
  PROVE  \A t \in Seq(Block) : MergeBlocks(list, s \o t) = MergeBlocks(MergeBlocks(list, s), t)
<1> DEFINE m == MergeBlocks(list, s)
           S == {t \in Seq(Block) : MergeBlocks(list, s \o t) = MergeBlocks(m, t)}
<1>1. MergeEquations(list) /\ m \in Seq(Value)
  <2>1. MergeEquations(list)
    BY MergeBlocksStep
  <2> QED BY <2>1 DEF MergeEquations
<1>2. MergeEquations(m)
  <2> HIDE DEF m
  <2> QED BY <1>1, MergeBlocksStep
<1>3. << >> \in S
  <2>1. s \o << >> = s
    OBVIOUS
  <2> QED BY <1>2, <2>1 DEF MergeEquations
<1>4. ASSUME NEW t \in Seq(Block), t \in S, NEW b \in Block PROVE Append(t, b) \in S
  <2>1. s \o t \in Seq(Block) /\ s \o Append(t, b) = Append(s \o t, b) /\ Append(t, b) \in Seq(Block)
    OBVIOUS
  <2>2. MergeBlocks(list, Append(s \o t, b))
          = StoreList(RemoveSelected(MergeBlocks(list, s \o t), b.removes), b.list)
    BY <1>1, <2>1 DEF MergeEquations
  <2>3. MergeBlocks(m, Append(t, b)) = StoreList(RemoveSelected(MergeBlocks(m, t), b.removes), b.list)
    <3> HIDE DEF m
    <3> QED BY <1>2 DEF MergeEquations
  <2> QED BY <1>4, <2>1, <2>2, <2>3
<1>5. Seq(Block) \subseteq S
  <2> HIDE DEF S
  <2>1. \A t \in Seq(Block) : t \in S => \A b \in Block : Append(t, b) \in S
    BY <1>4
  <2> QED BY <1>3, <2>1, SequenceInduction
<1> QED BY <1>5

LEMMA ReplayListConcat ==
  ASSUME NEW list \in Seq(Value), NEW s \in Seq(Statement)
  PROVE  \A t \in Seq(Statement) : ReplayList(list, s \o t) = ReplayList(ReplayList(list, s), t)
<1> DEFINE m == ReplayList(list, s)
           S == {t \in Seq(Statement) : ReplayList(list, s \o t) = ReplayList(m, t)}
<1>1. ReplayEquations(list) /\ m \in Seq(Value)
  <2>1. ReplayEquations(list)
    BY ReplayListStep
  <2> QED BY <2>1 DEF ReplayEquations
<1>2. ReplayEquations(m)
  <2> HIDE DEF m
  <2> QED BY <1>1, ReplayListStep
<1>3. << >> \in S
  <2>1. s \o << >> = s
    OBVIOUS
  <2> QED BY <1>2, <2>1 DEF ReplayEquations
<1>4. ASSUME NEW t \in Seq(Statement), t \in S, NEW x \in Statement PROVE Append(t, x) \in S
  <2> DEFINE Step(l) == IF x.op = "list" THEN StoreList(l, x.values)
                        ELSE IF x.op = "remove" THEN RemoveSelected(l, x.patterns) ELSE l
  <2>1. s \o t \in Seq(Statement) /\ s \o Append(t, x) = Append(s \o t, x) /\ Append(t, x) \in Seq(Statement)
    OBVIOUS
  <2>2. ReplayList(list, Append(s \o t, x)) = Step(ReplayList(list, s \o t))
    BY <1>1, <2>1 DEF ReplayEquations
  <2>3. ReplayList(m, Append(t, x)) = Step(ReplayList(m, t))
    <3> HIDE DEF m
    <3> QED BY <1>2 DEF ReplayEquations
  <2> HIDE DEF Step
  <2> QED BY <1>4, <2>1, <2>2, <2>3
<1>5. Seq(Statement) \subseteq S
  <2> HIDE DEF S
  <2>1. \A t \in Seq(Statement) : t \in S => \A x \in Statement : Append(t, x) \in S
    BY <1>4
  <2> QED BY <1>3, <2>1, SequenceInduction
<1> QED BY <1>5

LEMMA LastStringConcat ==
  ASSUME NEW s \in Seq(Block)
  PROVE  \A t \in Seq(Block) : LastString(s \o t) = IF LastString(t) # Unset THEN LastString(t) ELSE LastString(s)
<1> DEFINE S == {t \in Seq(Block) :
                   LastString(s \o t) = IF LastString(t) # Unset THEN LastString(t) ELSE LastString(s)}
<1>1. << >> \in S
  <2>1. s \o << >> = s
    OBVIOUS
  <2> QED BY <2>1, LastStringStep
<1>2. ASSUME NEW t \in Seq(Block), t \in S, NEW b \in Block PROVE Append(t, b) \in S
  <2>1. s \o t \in Seq(Block) /\ s \o Append(t, b) = Append(s \o t, b) /\ Append(t, b) \in Seq(Block)
    OBVIOUS
  <2>2. LastString(Append(s \o t, b)) = IF b.string # Unset THEN b.string ELSE LastString(s \o t)
    BY <2>1, LastStringStep
  <2>3. LastString(Append(t, b)) = IF b.string # Unset THEN b.string ELSE LastString(t)
    BY LastStringStep
  <2> QED BY <1>2, <2>1, <2>2, <2>3
<1>3. Seq(Block) \subseteq S
  <2> HIDE DEF S
  <2>1. \A t \in Seq(Block) : t \in S => \A b \in Block : Append(t, b) \in S
    BY <1>2
  <2> QED BY <1>1, <2>1, SequenceInduction
<1> QED BY <1>3

LEMMA ReplayStringConcat ==
  ASSUME NEW s \in Seq(Statement)
  PROVE  \A t \in Seq(Statement) : ReplayString(s \o t) = IF ReplayString(t) # Unset THEN ReplayString(t) ELSE ReplayString(s)
<1> DEFINE S == {t \in Seq(Statement) :
                   ReplayString(s \o t) = IF ReplayString(t) # Unset THEN ReplayString(t) ELSE ReplayString(s)}
<1>1. << >> \in S
  <2>1. s \o << >> = s
    OBVIOUS
  <2> QED BY <2>1, ReplayStringStep
<1>2. ASSUME NEW t \in Seq(Statement), t \in S, NEW x \in Statement PROVE Append(t, x) \in S
  <2>1. s \o t \in Seq(Statement) /\ s \o Append(t, x) = Append(s \o t, x) /\ Append(t, x) \in Seq(Statement)
    OBVIOUS
  <2>2. ReplayString(Append(s \o t, x)) = IF x.op = "string" THEN x.values[1] ELSE ReplayString(s \o t)
    BY <2>1, ReplayStringStep
  <2>3. ReplayString(Append(t, x)) = IF x.op = "string" THEN x.values[1] ELSE ReplayString(t)
    BY ReplayStringStep
  <2>4. x.op = "string" => x.values[1] # Unset
    BY ValueAssumption DEF Statement
  <2> QED BY <1>2, <2>1, <2>2, <2>3, <2>4
<1>3. Seq(Statement) \subseteq S
  <2> HIDE DEF S
  <2>1. \A t \in Seq(Statement) : t \in S => \A x \in Statement : Append(t, x) \in S
    BY <1>2
  <2> QED BY <1>1, <2>1, SequenceInduction
<1> QED BY <1>3

-----------------------------------------------------------------------------
(* Chains of containers.  The operators of ConfigSet walk the containers   *)
(* around one; these walk any sequence cs of containers, with bl for the   *)
(* blocks and lg for the log, so that their values before and after a step *)
(* can be compared.                                                        *)

FetchedList(bl, e, cs) ==
  LET Fetched[i \in 0..Len(cs)] ==
        IF i = 0 THEN << >> ELSE MergeBlocks(Fetched[i - 1], Matching(bl[cs[i]], e))
  IN  Fetched[Len(cs)]

FetchedString(bl, e, cs) ==
  LET Fetched[i \in 0..Len(cs)] ==
        IF i = 0 THEN Unset
        ELSE LET own == LastString(Matching(bl[cs[i]], e))
             IN  IF own # Unset THEN own ELSE Fetched[i - 1]
  IN  Fetched[Len(cs)]

CompiledBlocks(bl, e, cs) ==
  LET Compiled[i \in 0..Len(cs)] ==
        IF i = 0 THEN << >> ELSE Compiled[i - 1] \o Matching(bl[cs[i]], e)
  IN  Compiled[Len(cs)]

MadeStatements(lg, cs) ==
  LET Made[i \in 0..Len(cs)] ==
        IF i = 0 THEN << >> ELSE Made[i - 1] \o lg[cs[i]]
  IN  Made[Len(cs)]

\* For the containers around c they are the operators of ConfigSet.
LEMMA ChainOperators ==
  ASSUME NEW c, NEW e
  PROVE  /\ FetchMerged(c, e) = FetchedList(blocks, e, ChainOf[c])
         /\ FetchDirect(c, e) = FetchedString(blocks, e, ChainOf[c])
         /\ Compile(c, e) = CompiledBlocks(blocks, e, ChainOf[c])
         /\ Statements(c, e) = Matching(MadeStatements(log, ChainOf[c]), e)
<1>1. FetchMerged(c, e) = FetchedList(blocks, e, ChainOf[c])
  BY DEF FetchMerged, FetchedList
<1>2. FetchDirect(c, e) = FetchedString(blocks, e, ChainOf[c])
  BY DEF FetchDirect, FetchedString
<1>3. Compile(c, e) = CompiledBlocks(blocks, e, ChainOf[c])
  BY DEF Compile, CompiledBlocks
<1>4. Statements(c, e) = Matching(MadeStatements(log, ChainOf[c]), e)
  BY DEF Statements, MadeStatements
<1> QED BY <1>1, <1>2, <1>3, <1>4

\* What a container has: the blocks of each container in D, and statements.
BlocksIn(bl, D) == \A d \in D : bl[d] \in Seq(Block)
StatementsIn(lg, D) == \A d \in D : lg[d] \in Seq(Statement)

LEMMA MatchingBlocks ==
  ASSUME NEW bl, NEW D, BlocksIn(bl, D), NEW e
  PROVE  \A d \in D : Matching(bl[d], e) \in Seq(Block)
<1>1. MatchingEquations(Block, e)
  BY MatchingStep
<1> QED BY <1>1 DEF MatchingEquations, BlocksIn

\* The equations of FetchedList.
FetchedListEquations(D, bl, e) ==
  /\ FetchedList(bl, e, << >>) = << >>
  /\ \A s \in Seq(D) :
       /\ FetchedList(bl, e, s) \in Seq(Value)
       /\ \A x \in D : FetchedList(bl, e, Append(s, x)) = MergeBlocks(FetchedList(bl, e, s), Matching(bl[x], e))

LEMMA FetchedListStep ==
  ASSUME NEW D, NEW bl, NEW e, BlocksIn(bl, D)
  PROVE  FetchedListEquations(D, bl, e)
<1> DEFINE V == Seq(Value)
           g == [p \in V \X D |-> MergeBlocks(p[1], Matching(bl[p[2]], e))]
<1>1. << >> \in V /\ \A v \in V, x \in D : (MergeBlocks(v, Matching(bl[x], e))) \in V
  <2>1. \A d \in D : Matching(bl[d], e) \in Seq(Block)
    BY MatchingBlocks
  <2>2. \A v \in V : MergeEquations(v)
    BY MergeBlocksStep
  <2>3. << >> \in V
    OBVIOUS
  <2> QED BY <2>1, <2>2, <2>3 DEF MergeEquations
<1>2. g \in [V \X D -> V] /\ \A v \in V, x \in D : g[<<v, x>>] = MergeBlocks(v, Matching(bl[x], e))
  <2> HIDE DEF V
  <2>1. \A p \in V \X D : p[1] \in V /\ p[2] \in D
    OBVIOUS
  <2>2. \A p \in V \X D : (MergeBlocks(p[1], Matching(bl[p[2]], e))) \in V
    BY <1>1, <2>1
  <2>3. \A v \in V, x \in D : <<v, x>> \in V \X D
    OBVIOUS
  <2> QED BY <2>2, <2>3
<1> HIDE DEF V, g
<1>3. FoldEquations(V, D, g, << >>)
  BY <1>1, <1>2, FoldedStep
<1>4. ASSUME NEW s \in Seq(D) PROVE FetchedList(bl, e, s) = FoldedBy(g, << >>, s)
  <2> DEFINE Defines(f) == f = [i \in 0..Len(s) |->
                            IF i = 0 THEN << >> ELSE MergeBlocks(f[i - 1], Matching(bl[s[i]], e))]
             F == CHOOSE f : Defines(f)
  <2>1. /\ 0 \in 0..Len(s)
        /\ \A i \in 1..Len(s) : i \in 0..Len(s) /\ i # 0 /\ s[i] \in D
        /\ \A i \in 0..Len(s) : i # 0 => i \in 1..Len(s) /\ i - 1 \in 0..Len(s)
    OBVIOUS
  <2>2. PICK f \in [0..Len(s) -> V] : Folds(f, g, << >>, s)
    BY <1>1, <1>2, FoldExists
  <2>3. Defines(f)
    <3>1. f = [i \in 0..Len(s) |-> IF i = 0 THEN << >> ELSE g[<<f[i - 1], s[i]>>]]
      BY <2>2 DEF Folds
    <3>2. \A i \in 0..Len(s) : i # 0 => g[<<f[i - 1], s[i]>>] = MergeBlocks(f[i - 1], Matching(bl[s[i]], e))
      BY <1>2, <2>1
    <3> QED BY <3>1, <3>2
  <2>4. Defines(F)
    <3> HIDE DEF Defines
    <3> QED BY <2>3
  <2>5. F[0] = << >> /\ \A i \in 1..Len(s) : F[i] = MergeBlocks(F[i - 1], Matching(bl[s[i]], e))
    <3>1. F = [i \in 0..Len(s) |-> IF i = 0 THEN << >> ELSE MergeBlocks(F[i - 1], Matching(bl[s[i]], e))]
      BY <2>4
    <3> HIDE DEF F, Defines
    <3> QED BY <2>1, <3>1
  <2>6. FetchedList(bl, e, s) = F[Len(s)]
    BY DEF FetchedList
  <2> HIDE DEF F, Defines
  <2>7. Follows(F, V, D, g, << >>, s)
    BY <1>1, <1>2, <2>1, <2>5 DEF Follows
  <2> QED BY <2>6, <2>7, FoldUnique
<1>5. << >> \in Seq(D) /\ \A s \in Seq(D), x \in D : Append(s, x) \in Seq(D)
  OBVIOUS
<1>6. ASSUME NEW s \in Seq(D)
      PROVE  FetchedList(bl, e, s) \in V /\ \A x \in D : FetchedList(bl, e, Append(s, x)) = MergeBlocks(FetchedList(bl, e, s), Matching(bl[x], e))
  <2>1. FetchedList(bl, e, s) \in V /\ \A x \in D : FetchedList(bl, e, Append(s, x)) = g[<<FetchedList(bl, e, s), x>>]
    BY <1>3, <1>4, <1>5 DEF FoldEquations
  <2>2. \A x \in D : g[<<FetchedList(bl, e, s), x>>] = MergeBlocks(FetchedList(bl, e, s), Matching(bl[x], e))
    BY <1>2, <2>1
  <2> QED BY <2>1, <2>2
<1>7. FetchedList(bl, e, << >>) = << >>
  BY <1>3, <1>4, <1>5 DEF FoldEquations
<1> QED BY <1>6, <1>7 DEF V, FetchedListEquations

\* The equations of FetchedString.
FetchedStringEquations(D, bl, e) ==
  /\ FetchedString(bl, e, << >>) = Unset
  /\ \A s \in Seq(D) :
       /\ FetchedString(bl, e, s) \in (Value \union {Unset})
       /\ \A x \in D : FetchedString(bl, e, Append(s, x)) = IF LastString(Matching(bl[x], e)) # Unset THEN LastString(Matching(bl[x], e)) ELSE FetchedString(bl, e, s)

LEMMA FetchedStringStep ==
  ASSUME NEW D, NEW bl, NEW e, BlocksIn(bl, D)
  PROVE  FetchedStringEquations(D, bl, e)
<1> DEFINE V == (Value \union {Unset})
           g == [p \in V \X D |-> IF LastString(Matching(bl[p[2]], e)) # Unset THEN LastString(Matching(bl[p[2]], e)) ELSE p[1]]
<1>1. Unset \in V /\ \A v \in V, x \in D : (IF LastString(Matching(bl[x], e)) # Unset THEN LastString(Matching(bl[x], e)) ELSE v) \in V
  <2>1. \A d \in D : Matching(bl[d], e) \in Seq(Block)
    BY MatchingBlocks
  <2>2. \A d \in D : LastString(Matching(bl[d], e)) \in V
    BY <2>1, LastStringStep
  <2>3. Unset \in V
    OBVIOUS
  <2> HIDE DEF V
  <2> QED BY <2>2, <2>3
<1>2. g \in [V \X D -> V] /\ \A v \in V, x \in D : g[<<v, x>>] = IF LastString(Matching(bl[x], e)) # Unset THEN LastString(Matching(bl[x], e)) ELSE v
  <2> HIDE DEF V
  <2>1. \A p \in V \X D : p[1] \in V /\ p[2] \in D
    OBVIOUS
  <2>2. \A p \in V \X D : (IF LastString(Matching(bl[p[2]], e)) # Unset THEN LastString(Matching(bl[p[2]], e)) ELSE p[1]) \in V
    BY <1>1, <2>1
  <2>3. \A v \in V, x \in D : <<v, x>> \in V \X D
    OBVIOUS
  <2> QED BY <2>2, <2>3
<1> HIDE DEF V, g
<1>3. FoldEquations(V, D, g, Unset)
  BY <1>1, <1>2, FoldedStep
<1>4. ASSUME NEW s \in Seq(D) PROVE FetchedString(bl, e, s) = FoldedBy(g, Unset, s)
  <2> DEFINE Defines(f) == f = [i \in 0..Len(s) |->
                            IF i = 0 THEN Unset ELSE IF LastString(Matching(bl[s[i]], e)) # Unset THEN LastString(Matching(bl[s[i]], e)) ELSE f[i - 1]]
             F == CHOOSE f : Defines(f)
  <2>1. /\ 0 \in 0..Len(s)
        /\ \A i \in 1..Len(s) : i \in 0..Len(s) /\ i # 0 /\ s[i] \in D
        /\ \A i \in 0..Len(s) : i # 0 => i \in 1..Len(s) /\ i - 1 \in 0..Len(s)
    OBVIOUS
  <2>2. PICK f \in [0..Len(s) -> V] : Folds(f, g, Unset, s)
    BY <1>1, <1>2, FoldExists
  <2>3. Defines(f)
    <3>1. f = [i \in 0..Len(s) |-> IF i = 0 THEN Unset ELSE g[<<f[i - 1], s[i]>>]]
      BY <2>2 DEF Folds
    <3>2. \A i \in 0..Len(s) : i # 0 => g[<<f[i - 1], s[i]>>] = IF LastString(Matching(bl[s[i]], e)) # Unset THEN LastString(Matching(bl[s[i]], e)) ELSE f[i - 1]
      BY <1>2, <2>1
    <3> QED BY <3>1, <3>2
  <2>4. Defines(F)
    <3> HIDE DEF Defines
    <3> QED BY <2>3
  <2>5. F[0] = Unset /\ \A i \in 1..Len(s) : F[i] = IF LastString(Matching(bl[s[i]], e)) # Unset THEN LastString(Matching(bl[s[i]], e)) ELSE F[i - 1]
    <3>1. F = [i \in 0..Len(s) |-> IF i = 0 THEN Unset ELSE IF LastString(Matching(bl[s[i]], e)) # Unset THEN LastString(Matching(bl[s[i]], e)) ELSE F[i - 1]]
      BY <2>4
    <3> HIDE DEF F, Defines
    <3> QED BY <2>1, <3>1
  <2>6. FetchedString(bl, e, s) = F[Len(s)]
    BY DEF FetchedString
  <2> HIDE DEF F, Defines
  <2>7. Follows(F, V, D, g, Unset, s)
    BY <1>1, <1>2, <2>1, <2>5 DEF Follows
  <2> QED BY <2>6, <2>7, FoldUnique
<1>5. << >> \in Seq(D) /\ \A s \in Seq(D), x \in D : Append(s, x) \in Seq(D)
  OBVIOUS
<1>6. ASSUME NEW s \in Seq(D)
      PROVE  FetchedString(bl, e, s) \in V /\ \A x \in D : FetchedString(bl, e, Append(s, x)) = IF LastString(Matching(bl[x], e)) # Unset THEN LastString(Matching(bl[x], e)) ELSE FetchedString(bl, e, s)
  <2>1. FetchedString(bl, e, s) \in V /\ \A x \in D : FetchedString(bl, e, Append(s, x)) = g[<<FetchedString(bl, e, s), x>>]
    BY <1>3, <1>4, <1>5 DEF FoldEquations
  <2>2. \A x \in D : g[<<FetchedString(bl, e, s), x>>] = IF LastString(Matching(bl[x], e)) # Unset THEN LastString(Matching(bl[x], e)) ELSE FetchedString(bl, e, s)
    BY <1>2, <2>1
  <2> QED BY <2>1, <2>2
<1>7. FetchedString(bl, e, << >>) = Unset
  BY <1>3, <1>4, <1>5 DEF FoldEquations
<1> QED BY <1>6, <1>7 DEF V, FetchedStringEquations

\* The equations of CompiledBlocks.
CompiledEquations(D, bl, e) ==
  /\ CompiledBlocks(bl, e, << >>) = << >>
  /\ \A s \in Seq(D) :
       /\ CompiledBlocks(bl, e, s) \in Seq(Block)
       /\ \A x \in D : CompiledBlocks(bl, e, Append(s, x)) = CompiledBlocks(bl, e, s) \o Matching(bl[x], e)

LEMMA CompiledStep ==
  ASSUME NEW D, NEW bl, NEW e, BlocksIn(bl, D)
  PROVE  CompiledEquations(D, bl, e)
<1> DEFINE V == Seq(Block)
           g == [p \in V \X D |-> p[1] \o Matching(bl[p[2]], e)]
<1>1. << >> \in V /\ \A v \in V, x \in D : (v \o Matching(bl[x], e)) \in V
  <2>1. \A d \in D : Matching(bl[d], e) \in V
    BY MatchingBlocks
  <2>2. << >> \in V /\ \A v, w \in V : v \o w \in V
    OBVIOUS
  <2> HIDE DEF V
  <2> QED BY <2>1, <2>2
<1>2. g \in [V \X D -> V] /\ \A v \in V, x \in D : g[<<v, x>>] = v \o Matching(bl[x], e)
  <2> HIDE DEF V
  <2>1. \A p \in V \X D : p[1] \in V /\ p[2] \in D
    OBVIOUS
  <2>2. \A p \in V \X D : (p[1] \o Matching(bl[p[2]], e)) \in V
    BY <1>1, <2>1
  <2>3. \A v \in V, x \in D : <<v, x>> \in V \X D
    OBVIOUS
  <2> QED BY <2>2, <2>3
<1> HIDE DEF V, g
<1>3. FoldEquations(V, D, g, << >>)
  BY <1>1, <1>2, FoldedStep
<1>4. ASSUME NEW s \in Seq(D) PROVE CompiledBlocks(bl, e, s) = FoldedBy(g, << >>, s)
  <2> DEFINE Defines(f) == f = [i \in 0..Len(s) |->
                            IF i = 0 THEN << >> ELSE f[i - 1] \o Matching(bl[s[i]], e)]
             F == CHOOSE f : Defines(f)
  <2>1. /\ 0 \in 0..Len(s)
        /\ \A i \in 1..Len(s) : i \in 0..Len(s) /\ i # 0 /\ s[i] \in D
        /\ \A i \in 0..Len(s) : i # 0 => i \in 1..Len(s) /\ i - 1 \in 0..Len(s)
    OBVIOUS
  <2>2. PICK f \in [0..Len(s) -> V] : Folds(f, g, << >>, s)
    BY <1>1, <1>2, FoldExists
  <2>3. Defines(f)
    <3>1. f = [i \in 0..Len(s) |-> IF i = 0 THEN << >> ELSE g[<<f[i - 1], s[i]>>]]
      BY <2>2 DEF Folds
    <3>2. \A i \in 0..Len(s) : i # 0 => g[<<f[i - 1], s[i]>>] = f[i - 1] \o Matching(bl[s[i]], e)
      BY <1>2, <2>1
    <3> QED BY <3>1, <3>2
  <2>4. Defines(F)
    <3> HIDE DEF Defines
    <3> QED BY <2>3
  <2>5. F[0] = << >> /\ \A i \in 1..Len(s) : F[i] = F[i - 1] \o Matching(bl[s[i]], e)
    <3>1. F = [i \in 0..Len(s) |-> IF i = 0 THEN << >> ELSE F[i - 1] \o Matching(bl[s[i]], e)]
      BY <2>4
    <3> HIDE DEF F, Defines
    <3> QED BY <2>1, <3>1
  <2>6. CompiledBlocks(bl, e, s) = F[Len(s)]
    BY DEF CompiledBlocks
  <2> HIDE DEF F, Defines
  <2>7. Follows(F, V, D, g, << >>, s)
    BY <1>1, <1>2, <2>1, <2>5 DEF Follows
  <2> QED BY <2>6, <2>7, FoldUnique
<1>5. << >> \in Seq(D) /\ \A s \in Seq(D), x \in D : Append(s, x) \in Seq(D)
  OBVIOUS
<1>6. ASSUME NEW s \in Seq(D)
      PROVE  CompiledBlocks(bl, e, s) \in V /\ \A x \in D : CompiledBlocks(bl, e, Append(s, x)) = CompiledBlocks(bl, e, s) \o Matching(bl[x], e)
  <2>1. CompiledBlocks(bl, e, s) \in V /\ \A x \in D : CompiledBlocks(bl, e, Append(s, x)) = g[<<CompiledBlocks(bl, e, s), x>>]
    BY <1>3, <1>4, <1>5 DEF FoldEquations
  <2>2. \A x \in D : g[<<CompiledBlocks(bl, e, s), x>>] = CompiledBlocks(bl, e, s) \o Matching(bl[x], e)
    BY <1>2, <2>1
  <2> QED BY <2>1, <2>2
<1>7. CompiledBlocks(bl, e, << >>) = << >>
  BY <1>3, <1>4, <1>5 DEF FoldEquations
<1> QED BY <1>6, <1>7 DEF V, CompiledEquations

\* The equations of MadeStatements.
MadeEquations(D, lg) ==
  /\ MadeStatements(lg, << >>) = << >>
  /\ \A s \in Seq(D) :
       /\ MadeStatements(lg, s) \in Seq(Statement)
       /\ \A x \in D : MadeStatements(lg, Append(s, x)) = MadeStatements(lg, s) \o lg[x]

LEMMA MadeStep ==
  ASSUME NEW D, NEW lg, StatementsIn(lg, D)
  PROVE  MadeEquations(D, lg)
<1> DEFINE V == Seq(Statement)
           g == [p \in V \X D |-> p[1] \o lg[p[2]]]
<1>1. << >> \in V /\ \A v \in V, x \in D : (v \o lg[x]) \in V
  <2>1. \A d \in D : lg[d] \in V
    BY DEF StatementsIn
  <2>2. << >> \in V /\ \A v, w \in V : v \o w \in V
    OBVIOUS
  <2> HIDE DEF V
  <2> QED BY <2>1, <2>2
<1>2. g \in [V \X D -> V] /\ \A v \in V, x \in D : g[<<v, x>>] = v \o lg[x]
  <2> HIDE DEF V
  <2>1. \A p \in V \X D : p[1] \in V /\ p[2] \in D
    OBVIOUS
  <2>2. \A p \in V \X D : (p[1] \o lg[p[2]]) \in V
    BY <1>1, <2>1
  <2>3. \A v \in V, x \in D : <<v, x>> \in V \X D
    OBVIOUS
  <2> QED BY <2>2, <2>3
<1> HIDE DEF V, g
<1>3. FoldEquations(V, D, g, << >>)
  BY <1>1, <1>2, FoldedStep
<1>4. ASSUME NEW s \in Seq(D) PROVE MadeStatements(lg, s) = FoldedBy(g, << >>, s)
  <2> DEFINE Defines(f) == f = [i \in 0..Len(s) |->
                            IF i = 0 THEN << >> ELSE f[i - 1] \o lg[s[i]]]
             F == CHOOSE f : Defines(f)
  <2>1. /\ 0 \in 0..Len(s)
        /\ \A i \in 1..Len(s) : i \in 0..Len(s) /\ i # 0 /\ s[i] \in D
        /\ \A i \in 0..Len(s) : i # 0 => i \in 1..Len(s) /\ i - 1 \in 0..Len(s)
    OBVIOUS
  <2>2. PICK f \in [0..Len(s) -> V] : Folds(f, g, << >>, s)
    BY <1>1, <1>2, FoldExists
  <2>3. Defines(f)
    <3>1. f = [i \in 0..Len(s) |-> IF i = 0 THEN << >> ELSE g[<<f[i - 1], s[i]>>]]
      BY <2>2 DEF Folds
    <3>2. \A i \in 0..Len(s) : i # 0 => g[<<f[i - 1], s[i]>>] = f[i - 1] \o lg[s[i]]
      BY <1>2, <2>1
    <3> QED BY <3>1, <3>2
  <2>4. Defines(F)
    <3> HIDE DEF Defines
    <3> QED BY <2>3
  <2>5. F[0] = << >> /\ \A i \in 1..Len(s) : F[i] = F[i - 1] \o lg[s[i]]
    <3>1. F = [i \in 0..Len(s) |-> IF i = 0 THEN << >> ELSE F[i - 1] \o lg[s[i]]]
      BY <2>4
    <3> HIDE DEF F, Defines
    <3> QED BY <2>1, <3>1
  <2>6. MadeStatements(lg, s) = F[Len(s)]
    BY DEF MadeStatements
  <2> HIDE DEF F, Defines
  <2>7. Follows(F, V, D, g, << >>, s)
    BY <1>1, <1>2, <2>1, <2>5 DEF Follows
  <2> QED BY <2>6, <2>7, FoldUnique
<1>5. << >> \in Seq(D) /\ \A s \in Seq(D), x \in D : Append(s, x) \in Seq(D)
  OBVIOUS
<1>6. ASSUME NEW s \in Seq(D)
      PROVE  MadeStatements(lg, s) \in V /\ \A x \in D : MadeStatements(lg, Append(s, x)) = MadeStatements(lg, s) \o lg[x]
  <2>1. MadeStatements(lg, s) \in V /\ \A x \in D : MadeStatements(lg, Append(s, x)) = g[<<MadeStatements(lg, s), x>>]
    BY <1>3, <1>4, <1>5 DEF FoldEquations
  <2>2. \A x \in D : g[<<MadeStatements(lg, s), x>>] = MadeStatements(lg, s) \o lg[x]
    BY <1>2, <2>1
  <2> QED BY <2>1, <2>2
<1>7. MadeStatements(lg, << >>) = << >>
  BY <1>3, <1>4, <1>5 DEF FoldEquations
<1> QED BY <1>6, <1>7 DEF V, MadeEquations

\* The blocks of one set and those of another give a context the same values.
SameFor(bs, cs, e) ==
  /\ \A list \in Seq(Value) : MergeBlocks(list, Matching(bs, e)) = MergeBlocks(list, Matching(cs, e))
  /\ LastString(Matching(bs, e)) = LastString(Matching(cs, e))

\* Blocks give a context the values that the statements give it one by one.
SaysItsLog(bs, statements, e) ==
  /\ \A list \in Seq(Value) :
       MergeBlocks(list, Matching(bs, e)) = ReplayList(list, Matching(statements, e))
  /\ LastString(Matching(bs, e)) = ReplayString(Matching(statements, e))

\* The blocks of a chain collected and then merged.
LEMMA CompiledIsFetched ==
  ASSUME NEW bl, NEW D, BlocksIn(bl, D), NEW e
  PROVE  \A cs \in Seq(D) :
           /\ MergeBlocks(<< >>, CompiledBlocks(bl, e, cs)) = FetchedList(bl, e, cs)
           /\ LastString(CompiledBlocks(bl, e, cs)) = FetchedString(bl, e, cs)
<1> DEFINE S == {cs \in Seq(D) :
                   /\ MergeBlocks(<< >>, CompiledBlocks(bl, e, cs)) = FetchedList(bl, e, cs)
                   /\ LastString(CompiledBlocks(bl, e, cs)) = FetchedString(bl, e, cs)}
<1>1. FetchedListEquations(D, bl, e) /\ FetchedStringEquations(D, bl, e) /\ CompiledEquations(D, bl, e)
  BY FetchedListStep, FetchedStringStep, CompiledStep
<1>2. << >> \in Seq(Value) /\ << >> \in Seq(D)
  OBVIOUS
<1>3. << >> \in S
  <2>1. MergeEquations(<< >>)
    BY <1>2, MergeBlocksStep
  <2> QED BY <1>1, <1>2, <2>1, LastStringStep
          DEF MergeEquations, FetchedListEquations, FetchedStringEquations, CompiledEquations
<1>4. ASSUME NEW cs \in Seq(D), cs \in S, NEW d \in D PROVE Append(cs, d) \in S
  <2> DEFINE A == CompiledBlocks(bl, e, cs)
             M == Matching(bl[d], e)
  <2>1. A \in Seq(Block) /\ CompiledBlocks(bl, e, Append(cs, d)) = A \o M
    BY <1>1 DEF CompiledEquations
  <2>2. M \in Seq(Block)
    BY MatchingBlocks
  <2>3. FetchedList(bl, e, Append(cs, d)) = MergeBlocks(FetchedList(bl, e, cs), M)
    BY <1>1 DEF FetchedListEquations
  <2>4. FetchedString(bl, e, Append(cs, d)) =
          IF LastString(M) # Unset THEN LastString(M) ELSE FetchedString(bl, e, cs)
    BY <1>1 DEF FetchedStringEquations
  <2>5. Append(cs, d) \in Seq(D)
    OBVIOUS
  <2> HIDE DEF M
  <2>6. MergeBlocks(<< >>, A \o M) = MergeBlocks(MergeBlocks(<< >>, A), M)
    <3> HIDE DEF A
    <3> QED BY <1>2, <2>1, <2>2, MergeBlocksConcat
  <2>7. LastString(A \o M) = IF LastString(M) # Unset THEN LastString(M) ELSE LastString(A)
    <3> HIDE DEF A
    <3> QED BY <2>1, <2>2, LastStringConcat
  <2>8. MergeBlocks(<< >>, A) = FetchedList(bl, e, cs) /\ LastString(A) = FetchedString(bl, e, cs)
    BY <1>4
  <2> HIDE DEF A
  <2>9. MergeBlocks(<< >>, CompiledBlocks(bl, e, Append(cs, d))) = FetchedList(bl, e, Append(cs, d))
    BY <2>1, <2>3, <2>6, <2>8
  <2>10. LastString(CompiledBlocks(bl, e, Append(cs, d))) = FetchedString(bl, e, Append(cs, d))
    BY <2>1, <2>4, <2>7, <2>8
  <2> QED BY <2>5, <2>9, <2>10
<1>5. Seq(D) \subseteq S
  <2> HIDE DEF S
  <2>1. \A cs \in Seq(D) : cs \in S => \A d \in D : Append(cs, d) \in S
    BY <1>4
  <2> QED BY <1>3, <2>1, SequenceInduction
<1> QED BY <1>5

\* A chain of containers that each say what their log says does so too.
LEMMA FetchedIsReplayed ==
  ASSUME NEW bl, NEW lg, NEW D, BlocksIn(bl, D), StatementsIn(lg, D), NEW e,
         \A d \in D : SaysItsLog(bl[d], lg[d], e)
  PROVE  \A cs \in Seq(D) :
           /\ FetchedList(bl, e, cs) = ReplayList(<< >>, Matching(MadeStatements(lg, cs), e))
           /\ FetchedString(bl, e, cs) = ReplayString(Matching(MadeStatements(lg, cs), e))
<1> DEFINE S == {cs \in Seq(D) :
                   /\ FetchedList(bl, e, cs) = ReplayList(<< >>, Matching(MadeStatements(lg, cs), e))
                   /\ FetchedString(bl, e, cs) = ReplayString(Matching(MadeStatements(lg, cs), e))}
<1>1. FetchedListEquations(D, bl, e) /\ FetchedStringEquations(D, bl, e) /\ MadeEquations(D, lg)
  BY FetchedListStep, FetchedStringStep, MadeStep
<1>2. << >> \in Seq(Value) /\ << >> \in Seq(D)
  OBVIOUS
<1>3. MatchingEquations(Statement, e)
  BY MatchingStep
<1>4. << >> \in S
  <2>1. ReplayEquations(<< >>)
    BY <1>2, ReplayListStep
  <2> QED BY <1>1, <1>2, <1>3, <2>1, ReplayStringStep
          DEF ReplayEquations, FetchedListEquations, FetchedStringEquations, MadeEquations, MatchingEquations
<1>5. ASSUME NEW cs \in Seq(D), cs \in S, NEW d \in D PROVE Append(cs, d) \in S
  <2> DEFINE A == MadeStatements(lg, cs)
             M == Matching(bl[d], e)
             N == Matching(lg[d], e)
             R == Matching(A, e)
  <2>1. A \in Seq(Statement) /\ MadeStatements(lg, Append(cs, d)) = A \o lg[d]
    BY <1>1 DEF MadeEquations
  <2>2. lg[d] \in Seq(Statement)
    BY DEF StatementsIn
  <2>3. R \in Seq(Statement) /\ N \in Seq(Statement) /\ Matching(A \o lg[d], e) = R \o N
    <3> HIDE DEF A
    <3> QED BY <1>3, <2>1, <2>2 DEF MatchingEquations
  <2>4. FetchedList(bl, e, cs) \in Seq(Value)
        /\ FetchedList(bl, e, Append(cs, d)) = MergeBlocks(FetchedList(bl, e, cs), M)
    BY <1>1 DEF FetchedListEquations
  <2>5. FetchedString(bl, e, Append(cs, d)) =
          IF LastString(M) # Unset THEN LastString(M) ELSE FetchedString(bl, e, cs)
    BY <1>1 DEF FetchedStringEquations
  <2>6. Append(cs, d) \in Seq(D)
    OBVIOUS
  <2>7. SaysItsLog(bl[d], lg[d], e)
    OBVIOUS
  <2>8. /\ MergeBlocks(FetchedList(bl, e, cs), M) = ReplayList(FetchedList(bl, e, cs), N)
        /\ LastString(M) = ReplayString(N)
    BY <2>4, <2>7 DEF SaysItsLog
  <2>9. FetchedList(bl, e, cs) = ReplayList(<< >>, R) /\ FetchedString(bl, e, cs) = ReplayString(R)
    BY <1>5
  <2> HIDE DEF M, N, R
  <2>10. ReplayList(<< >>, R \o N) = ReplayList(ReplayList(<< >>, R), N)
    BY <1>2, <2>3, ReplayListConcat
  <2>11. ReplayString(R \o N) = IF ReplayString(N) # Unset THEN ReplayString(N) ELSE ReplayString(R)
    BY <2>3, ReplayStringConcat
  <2> HIDE DEF A
  <2> QED BY <2>1, <2>3, <2>4, <2>5, <2>6, <2>8, <2>9, <2>10, <2>11
<1>6. Seq(D) \subseteq S
  <2> HIDE DEF S
  <2>1. \A cs \in Seq(D) : cs \in S => \A d \in D : Append(cs, d) \in S
    BY <1>5
  <2> QED BY <1>4, <2>1, SequenceInduction
<1> QED BY <1>6

\* Chains whose containers give the same values do so too.
LEMMA FetchedUnchanged ==
  ASSUME NEW bl, NEW bm, NEW D, BlocksIn(bl, D), BlocksIn(bm, D), NEW e,
         \A d \in D : SameFor(bl[d], bm[d], e)
  PROVE  \A cs \in Seq(D) : /\ FetchedList(bl, e, cs) = FetchedList(bm, e, cs)
                            /\ FetchedString(bl, e, cs) = FetchedString(bm, e, cs)
<1> DEFINE S == {cs \in Seq(D) : /\ FetchedList(bl, e, cs) = FetchedList(bm, e, cs)
                                 /\ FetchedString(bl, e, cs) = FetchedString(bm, e, cs)}
<1>1. /\ FetchedListEquations(D, bl, e) /\ FetchedStringEquations(D, bl, e)
      /\ FetchedListEquations(D, bm, e) /\ FetchedStringEquations(D, bm, e)
  BY FetchedListStep, FetchedStringStep
<1>2. << >> \in S
  <2>1. << >> \in Seq(D)
    OBVIOUS
  <2> QED BY <1>1, <2>1 DEF FetchedListEquations, FetchedStringEquations
<1>3. ASSUME NEW cs \in Seq(D), cs \in S, NEW d \in D PROVE Append(cs, d) \in S
  <2> DEFINE M == Matching(bl[d], e)
             N == Matching(bm[d], e)
             A == FetchedList(bl, e, cs)
  <2>1. /\ A \in Seq(Value)
        /\ FetchedList(bl, e, Append(cs, d)) = MergeBlocks(A, M)
        /\ FetchedList(bm, e, Append(cs, d)) = MergeBlocks(FetchedList(bm, e, cs), N)
    BY <1>1 DEF FetchedListEquations
  <2>2. /\ FetchedString(bl, e, Append(cs, d)) =
             IF LastString(M) # Unset THEN LastString(M) ELSE FetchedString(bl, e, cs)
        /\ FetchedString(bm, e, Append(cs, d)) =
             IF LastString(N) # Unset THEN LastString(N) ELSE FetchedString(bm, e, cs)
    BY <1>1 DEF FetchedStringEquations
  <2>3. MergeBlocks(A, M) = MergeBlocks(A, N) /\ LastString(M) = LastString(N)
    BY <2>1 DEF SameFor
  <2>4. Append(cs, d) \in Seq(D)
    OBVIOUS
  <2>5. FetchedList(bm, e, cs) = A /\ FetchedString(bm, e, cs) = FetchedString(bl, e, cs)
    BY <1>3
  <2> HIDE DEF A, M, N
  <2> QED BY <2>1, <2>2, <2>3, <2>4, <2>5
<1>4. Seq(D) \subseteq S
  <2> HIDE DEF S
  <2>1. \A cs \in Seq(D) : cs \in S => \A d \in D : Append(cs, d) \in S
    BY <1>3
  <2> QED BY <1>2, <2>1, SequenceInduction
<1> QED BY <1>4

-----------------------------------------------------------------------------
(* What the statements of a script do to the blocks of a container         *)

\* A statement applied to a list.
Applied(st, list) ==
  IF st.op = "list" THEN StoreList(list, st.values)
  ELSE IF st.op = "remove" THEN RemoveSelected(list, st.patterns) ELSE list

\* With blocks cs instead of bs, contexts that match statement st see it, last
\* of all, and others see no difference.
Effect(bs, st, cs, e) ==
  IF e \in Holds[st.criteria]
  THEN /\ \A list \in Seq(Value) :
            MergeBlocks(list, Matching(cs, e)) = Applied(st, MergeBlocks(list, Matching(bs, e)))
       /\ LastString(Matching(cs, e)) =
            IF st.op = "string" THEN st.values[1] ELSE LastString(Matching(bs, e))
  ELSE SameFor(bs, cs, e)

\* Such blocks say what the log and the statement say.
LEMMA EffectLogged ==
  ASSUME NEW bs, NEW cs, NEW statements \in Seq(Statement), NEW st \in Statement, NEW e,
         SaysItsLog(bs, statements, e), Effect(bs, st, cs, e)
  PROVE  SaysItsLog(cs, Append(statements, st), e)
<1> DEFINE N == Matching(statements, e)
<1>1. /\ N \in Seq(Statement)
      /\ Matching(Append(statements, st), e) = IF e \in Holds[st.criteria] THEN Append(N, st) ELSE N
  <2>1. MatchingEquations(Statement, e)
    BY MatchingStep
  <2> QED BY <2>1 DEF MatchingEquations
<1>2. CASE e \notin Holds[st.criteria]
  BY <1>1, <1>2 DEF SaysItsLog, Effect, SameFor
<1>3. CASE e \in Holds[st.criteria]
  <2>1. Matching(Append(statements, st), e) = Append(N, st)
    BY <1>1, <1>3
  <2>2. ASSUME NEW list \in Seq(Value)
        PROVE  MergeBlocks(list, Matching(cs, e)) = ReplayList(list, Append(N, st))
    <3>1. MergeBlocks(list, Matching(cs, e)) = Applied(st, MergeBlocks(list, Matching(bs, e)))
      BY <1>3 DEF Effect
    <3>2. MergeBlocks(list, Matching(bs, e)) = ReplayList(list, N)
      BY DEF SaysItsLog
    <3>3. ReplayEquations(list)
      BY ReplayListStep
    <3>4. ReplayList(list, Append(N, st)) = Applied(st, ReplayList(list, N))
      <4> HIDE DEF N
      <4> QED BY <1>1, <3>3 DEF ReplayEquations, Applied
    <3> QED BY <3>1, <3>2, <3>4
  <2>3. LastString(Matching(cs, e)) = ReplayString(Append(N, st))
    <3>1. LastString(Matching(cs, e)) = IF st.op = "string" THEN st.values[1] ELSE LastString(Matching(bs, e))
      BY <1>3 DEF Effect
    <3>2. LastString(Matching(bs, e)) = ReplayString(N)
      BY DEF SaysItsLog
    <3>3. ReplayString(Append(N, st)) = IF st.op = "string" THEN st.values[1] ELSE ReplayString(N)
      <4> HIDE DEF N
      <4> QED BY <1>1, ReplayStringStep
    <3> QED BY <3>1, <3>2, <3>3
  <2> QED BY <2>1, <2>2, <2>3 DEF SaysItsLog
<1> QED BY <1>2, <1>3

\* What a further block does to the values.
LEMMA OneMoreBlock ==
  ASSUME NEW bs \in Seq(Block), NEW b \in Block, NEW e, e \in Holds[b.criteria]
  PROVE  /\ \A list \in Seq(Value) :
              /\ MergeBlocks(list, Matching(bs, e)) \in Seq(Value)
              /\ MergeBlocks(list, Matching(Append(bs, b), e)) =
                   StoreList(RemoveSelected(MergeBlocks(list, Matching(bs, e)), b.removes), b.list)
         /\ LastString(Matching(Append(bs, b), e)) =
              IF b.string # Unset THEN b.string ELSE LastString(Matching(bs, e))
<1> DEFINE M == Matching(bs, e)
<1>1. M \in Seq(Block) /\ Matching(Append(bs, b), e) = Append(M, b)
  <2>1. MatchingEquations(Block, e)
    BY MatchingStep
  <2> QED BY <2>1 DEF MatchingEquations
<1>2. ASSUME NEW list \in Seq(Value)
      PROVE  /\ MergeBlocks(list, M) \in Seq(Value)
             /\ MergeBlocks(list, Append(M, b)) =
                  StoreList(RemoveSelected(MergeBlocks(list, M), b.removes), b.list)
  <2>1. MergeEquations(list)
    BY MergeBlocksStep
  <2> HIDE DEF M
  <2> QED BY <1>1, <2>1 DEF MergeEquations
<1>3. LastString(Append(M, b)) = IF b.string # Unset THEN b.string ELSE LastString(M)
  <2> HIDE DEF M
  <2> QED BY <1>1, LastStringStep
<1> QED BY <1>1, <1>2, <1>3

LEMMA NoMatchNoBlock ==
  ASSUME NEW bs \in Seq(Block), NEW b \in Block, NEW e, e \notin Holds[b.criteria]
  PROVE  Matching(Append(bs, b), e) = Matching(bs, e)
<1>1. MatchingEquations(Block, e)
  BY MatchingStep
<1> QED BY <1>1 DEF MatchingEquations

\* An empty block changes nothing for anyone.
LEMMA EmptyBlock ==
  ASSUME NEW bs \in Seq(Block), NEW t \in Criteria
  PROVE  NewBlock(t) \in Block /\ \A e : SameFor(bs, Append(bs, NewBlock(t)), e)
<1> DEFINE b == NewBlock(t)
<1>1. b \in Block /\ b.criteria = t /\ b.removes = {} /\ b.list = << >> /\ b.string = Unset
  BY DEF NewBlock, Block
<1> HIDE DEF b
<1>2. ASSUME NEW e PROVE SameFor(bs, Append(bs, b), e)
  <2>1. CASE e \notin Holds[b.criteria]
    <3>1. Matching(Append(bs, b), e) = Matching(bs, e)
      BY <1>1, <2>1, NoMatchNoBlock
    <3> QED BY <3>1 DEF SameFor
  <2>2. CASE e \in Holds[b.criteria]
    <3>1. ASSUME NEW list \in Seq(Value)
          PROVE  MergeBlocks(list, Matching(Append(bs, b), e)) = MergeBlocks(list, Matching(bs, e))
      <4> DEFINE m == MergeBlocks(list, Matching(bs, e))
      <4>1. m \in Seq(Value)
            /\ MergeBlocks(list, Matching(Append(bs, b), e)) = StoreList(RemoveSelected(m, b.removes), b.list)
        BY <1>1, <2>2, OneMoreBlock
      <4>2. StoreList(RemoveSelected(m, {}), << >>) = m
        <5> HIDE DEF m
        <5> QED BY <4>1, RemoveSelectedFacts, StoreListType
      <4> QED BY <1>1, <4>1, <4>2
    <3>2. LastString(Matching(Append(bs, b), e)) = LastString(Matching(bs, e))
      BY <1>1, <2>2, OneMoreBlock
    <3> QED BY <3>1, <3>2 DEF SameFor
  <2> QED BY <2>1, <2>2
<1> QED BY <1>1, <1>2 DEF b

\* A statement that changes the last block, b, to c.
LEMMA LastBlockChanged ==
  ASSUME NEW bs \in Seq(Block), NEW b \in Block, NEW c \in Block, NEW st \in Statement,
         b.criteria = st.criteria, c.criteria = st.criteria, c.removes = b.removes,
         \/ /\ st.op = "list" /\ c.list = StoreList(b.list, st.values) /\ c.string = b.string
         \/ /\ st.op = "string" /\ c.list = b.list /\ c.string = st.values[1]
  PROVE  \A e : Effect(Append(bs, b), st, Append(bs, c), e)
<1> SUFFICES ASSUME NEW e PROVE Effect(Append(bs, b), st, Append(bs, c), e)
  OBVIOUS
<1>1. CASE e \notin Holds[st.criteria]
  <2>1. Matching(Append(bs, b), e) = Matching(Append(bs, c), e)
    BY <1>1, NoMatchNoBlock
  <2> QED BY <1>1, <2>1 DEF Effect, SameFor
<1>2. CASE e \in Holds[st.criteria]
  <2>0. st.values \in Seq(Value) /\ b.list \in Seq(Value)
    BY DEF Statement, Block
  <2>1. ASSUME NEW list \in Seq(Value)
        PROVE  MergeBlocks(list, Matching(Append(bs, c), e))
                 = Applied(st, MergeBlocks(list, Matching(Append(bs, b), e)))
    <3> DEFINE m == RemoveSelected(MergeBlocks(list, Matching(bs, e)), b.removes)
    <3>1. MergeBlocks(list, Matching(Append(bs, c), e)) = StoreList(m, c.list)
      BY <1>2, OneMoreBlock
    <3>2. MergeBlocks(list, Matching(Append(bs, b), e)) = StoreList(m, b.list)
      BY <1>2, OneMoreBlock
    <3>3. m \in Seq(Value)
      <4>1. MergeBlocks(list, Matching(bs, e)) \in Seq(Value)
        BY <1>2, OneMoreBlock
      <4> QED BY <4>1, RemoveSelectedFacts
    <3> HIDE DEF m
    <3>4. CASE st.op = "list"
      <4>1. StoreList(m, StoreList(b.list, st.values)) = StoreList(StoreList(m, b.list), st.values)
        BY <2>0, <3>3, StoreListMerges
      <4> QED BY <3>1, <3>2, <3>4, <4>1 DEF Applied
    <3>5. CASE st.op = "string"
      BY <3>1, <3>2, <3>5 DEF Applied
    <3> QED BY <3>4, <3>5
  <2>2. LastString(Matching(Append(bs, c), e)) =
          IF st.op = "string" THEN st.values[1] ELSE LastString(Matching(Append(bs, b), e))
    <3>1. LastString(Matching(Append(bs, c), e)) =
            IF c.string # Unset THEN c.string ELSE LastString(Matching(bs, e))
      BY <1>2, OneMoreBlock
    <3>2. LastString(Matching(Append(bs, b), e)) =
            IF b.string # Unset THEN b.string ELSE LastString(Matching(bs, e))
      BY <1>2, OneMoreBlock
    <3>3. st.op = "string" => st.values[1] # Unset
      BY ValueAssumption DEF Statement
    <3> QED BY <3>1, <3>2, <3>3
  <2> QED BY <1>2, <2>1, <2>2 DEF Effect
<1> QED BY <1>1, <1>2

\* A statement that opens a block for its removes.
LEMMA RemovesBlock ==
  ASSUME NEW bs \in Seq(Block), NEW c \in Block, NEW st \in Statement,
         st.op = "remove", c.criteria = st.criteria, c.removes = st.patterns,
         c.list = << >>, c.string = Unset
  PROVE  \A e : Effect(bs, st, Append(bs, c), e)
<1> SUFFICES ASSUME NEW e PROVE Effect(bs, st, Append(bs, c), e)
  OBVIOUS
<1>1. CASE e \notin Holds[st.criteria]
  <2>1. Matching(bs, e) = Matching(Append(bs, c), e)
    BY <1>1, NoMatchNoBlock
  <2> QED BY <1>1, <2>1 DEF Effect, SameFor
<1>2. CASE e \in Holds[st.criteria]
  <2>1. ASSUME NEW list \in Seq(Value)
        PROVE  MergeBlocks(list, Matching(Append(bs, c), e)) = Applied(st, MergeBlocks(list, Matching(bs, e)))
    <3> DEFINE m == MergeBlocks(list, Matching(bs, e))
    <3>1. m \in Seq(Value)
          /\ MergeBlocks(list, Matching(Append(bs, c), e)) = StoreList(RemoveSelected(m, c.removes), c.list)
      BY <1>2, OneMoreBlock
    <3> HIDE DEF m
    <3>2. StoreList(RemoveSelected(m, c.removes), << >>) = RemoveSelected(m, c.removes)
      BY <3>1, RemoveSelectedFacts, StoreListType
    <3> QED BY <3>1, <3>2 DEF Applied, m
  <2>2. LastString(Matching(Append(bs, c), e)) = LastString(Matching(bs, e))
    BY <1>2, OneMoreBlock
  <2> QED BY <1>2, <2>1, <2>2 DEF Effect
<1> QED BY <1>1, <1>2

-----------------------------------------------------------------------------
(* The invariant                                                           *)

TypeOK ==
  /\ scope \in Container /\ active \in Criteria
  /\ blocks \in [Container -> Seq(Block)]
  /\ log \in [Container -> Seq(Statement)]

\* The container in scope has a current block, with the criteria of the filter
\* that the script is under.
CurrentBlock ==
  /\ blocks[scope] # << >>
  /\ blocks[scope][Len(blocks[scope])].criteria = active

\* The blocks of every container say what the statements made in it say.
BlocksSayTheLog == \A c \in Container, e \in Env : SaysItsLog(blocks[c], log[c], e)

IInv == TypeOK /\ CurrentBlock /\ BlocksSayTheLog

\* A step that opens a block: no context sees a difference.
Opens ==
  /\ log' = log
  /\ \A c \in Container, e \in Env : SameFor(blocks[c], blocks'[c], e)

\* A step that makes a statement in the container in scope, under the filter
\* that the script is under.
Says(st) ==
  /\ st.criteria = active
  /\ log' = [log EXCEPT ![scope] = Append(@, st)]
  /\ \A c \in Container : c # scope => blocks'[c] = blocks[c]
  /\ \A e \in Env : Effect(blocks[scope], st, blocks'[scope], e)

LEMMA SameForItself == \A bs, e : SameFor(bs, bs, e)
BY DEF SameFor

\* The blocks of container c become those with a new, empty one.
LEMMA BlockOpened ==
  ASSUME TypeOK, NEW c \in Container, NEW t \in Criteria,
         blocks' = [blocks EXCEPT ![c] = Append(blocks[c], NewBlock(t))],
         scope' = c, active' = t, log' = log
  PROVE  TypeOK' /\ CurrentBlock' /\ Opens
<1>1. blocks[c] \in Seq(Block) /\ NewBlock(t) \in Block /\ NewBlock(t).criteria = t
  BY EmptyBlock DEF TypeOK, NewBlock
<1>2. blocks'[c] = Append(blocks[c], NewBlock(t)) /\ \A d \in Container : d # c => blocks'[d] = blocks[d]
  BY DEF TypeOK
<1>3. /\ Append(blocks[c], NewBlock(t)) \in Seq(Block)
      /\ Append(blocks[c], NewBlock(t)) # << >>
      /\ Append(blocks[c], NewBlock(t))[Len(Append(blocks[c], NewBlock(t)))] = NewBlock(t)
  BY <1>1
<1>4. TypeOK'
  BY <1>3 DEF TypeOK
<1>5. CurrentBlock'
  BY <1>1, <1>2, <1>3 DEF CurrentBlock
<1>6. Opens
  <2>1. \A e \in Env : SameFor(blocks[c], blocks'[c], e)
    BY <1>1, <1>2, EmptyBlock
  <2>2. \A d \in Container, e \in Env : d # c => SameFor(blocks[d], blocks'[d], e)
    BY <1>2, SameForItself
  <2> QED BY <2>1, <2>2 DEF Opens
<1> QED BY <1>4, <1>5, <1>6

\* Statement st is made, and the blocks of the container in scope become bs.
LEMMA StatementMade ==
  ASSUME TypeOK, CurrentBlock, NEW st \in Statement, NEW bs \in Seq(Block),
         st.criteria = active, bs # << >>, bs[Len(bs)].criteria = active,
         \A e : Effect(blocks[scope], st, bs, e),
         blocks' = [blocks EXCEPT ![scope] = bs],
         log' = [log EXCEPT ![scope] = Append(@, st)],
         scope' = scope, active' = active
  PROVE  TypeOK' /\ CurrentBlock' /\ Says(st)
<1>1. blocks'[scope] = bs /\ \A c \in Container : c # scope => blocks'[c] = blocks[c]
  BY DEF TypeOK
<1>2. Append(log[scope], st) \in Seq(Statement)
  BY DEF TypeOK
<1>3. TypeOK'
  BY <1>2 DEF TypeOK
<1>4. CurrentBlock'
  BY <1>1 DEF CurrentBlock
<1>5. Says(st)
  BY <1>1 DEF Says
<1> QED BY <1>3, <1>4, <1>5

LEMMA StoreFieldSays ==
  ASSUME TypeOK, CurrentBlock, NEW field \in {"list", "string"}, NEW values \in Seq(Value),
         field = "string" => values # << >>, StoreField(field, values)
  PROVE  TypeOK' /\ CurrentBlock' /\ \E st \in Statement : Says(st)
<1> DEFINE n == Len(blocks[scope])
           front == SubSeq(blocks[scope], 1, n - 1)
           b == blocks[scope][n]
           c == IF field = "list" THEN [b EXCEPT !.list = StoreList(b.list, values)]
                ELSE [b EXCEPT !.string = values[1]]
           st == [criteria |-> active, op |-> field, values |-> values, patterns |-> {}]
<1>1. blocks[scope] \in Seq(Block) /\ blocks[scope] # << >> /\ active \in Criteria /\ b.criteria = active
  BY DEF TypeOK, CurrentBlock
<1>2. n \in Nat /\ n > 0 /\ front \in Seq(Block) /\ b \in Block /\ blocks[scope] = Append(front, b)
  BY <1>1
<1>3. StoreIn(blocks[scope], field, values) = Append(front, c)
  <2>1. StoreIn(blocks[scope], field, values) = [blocks[scope] EXCEPT ![n] = c]
    BY DEF StoreIn
  <2> HIDE DEF c
  <2>2. [blocks[scope] EXCEPT ![n] = c] = Append(front, c)
    BY <1>1, <1>2
  <2> QED BY <2>1, <2>2
<1>4. st \in Statement /\ st.criteria = active /\ st.op = field /\ st.values = values
  BY <1>1 DEF Statement
<1>5. c \in Block /\ c.criteria = active /\ c.removes = b.removes
      /\ (field = "list" => c.list = StoreList(b.list, values) /\ c.string = b.string)
      /\ (field = "string" => c.list = b.list /\ c.string = values[1])
  <2>1. b.list \in Seq(Value)
    BY <1>2 DEF Block
  <2>2. StoreList(b.list, values) \in Seq(Value)
    <3> HIDE DEF b
    <3> QED BY <2>1, StoreListType
  <2>3. field = "string" => values[1] \in Value
    OBVIOUS
  <2>4. CASE field = "list"
    <3>1. c = [b EXCEPT !.list = StoreList(b.list, values)]
      BY <2>4
    <3> HIDE DEF b, c
    <3> QED BY <1>1, <1>2, <2>2, <2>4, <3>1 DEF Block
  <2>5. CASE field = "string"
    <3>1. c = [b EXCEPT !.string = values[1]]
      BY <2>5
    <3> HIDE DEF b, c
    <3> QED BY <1>1, <1>2, <2>3, <2>5, <3>1 DEF Block
  <2> QED BY <2>4, <2>5
<1>6. /\ blocks' = [blocks EXCEPT ![scope] = StoreIn(blocks[scope], field, values)]
      /\ log' = [log EXCEPT ![scope] = Append(@, st)] /\ scope' = scope /\ active' = active
  BY DEF StoreField, Recorded
<1> HIDE DEF front, b, c, st, n
<1>7. \A e : Effect(Append(front, b), st, Append(front, c), e)
  BY <1>1, <1>2, <1>4, <1>5, LastBlockChanged
<1>8. /\ Append(front, c) \in Seq(Block) /\ Append(front, c) # << >>
      /\ Append(front, c)[Len(Append(front, c))] = c
  BY <1>2, <1>5
<1>9. TypeOK' /\ CurrentBlock' /\ Says(st)
  <2> DEFINE bs == Append(front, c)
  <2>1. /\ bs \in Seq(Block) /\ bs # << >> /\ bs[Len(bs)].criteria = active
        /\ \A e : Effect(blocks[scope], st, bs, e)
        /\ blocks' = [blocks EXCEPT ![scope] = bs]
    BY <1>2, <1>3, <1>5, <1>6, <1>7, <1>8
  <2> HIDE DEF bs
  <2> QED BY <1>4, <1>6, <2>1, StatementMade
<1> QED BY <1>4, <1>9

LEMMA RemoveSays ==
  ASSUME TypeOK, CurrentBlock, NEW patterns \in SUBSET Pattern, Remove(patterns)
  PROVE  TypeOK' /\ CurrentBlock' /\ \E st \in Statement : Says(st)
<1> DEFINE c == [NewBlock(active) EXCEPT !.removes = patterns]
           st == [criteria |-> active, op |-> "remove", values |-> << >>, patterns |-> patterns]
           bs == Append(blocks[scope], c)
<1>1. blocks[scope] \in Seq(Block) /\ active \in Criteria /\ scope \in Container
  BY DEF TypeOK
<1>2. st \in Statement /\ st.criteria = active /\ st.op = "remove" /\ st.patterns = patterns
  BY <1>1 DEF Statement
<1>3. c \in Block /\ c.criteria = active /\ c.removes = patterns /\ c.list = << >> /\ c.string = Unset
  <2>1. c = [criteria |-> active, removes |-> patterns, list |-> << >>, string |-> Unset]
    BY DEF NewBlock
  <2> HIDE DEF c
  <2> QED BY <1>1, <2>1 DEF Block
<1>4. /\ blocks' = [blocks EXCEPT ![scope] = bs]
      /\ log' = [log EXCEPT ![scope] = Append(@, st)] /\ scope' = scope /\ active' = active
  BY <1>1 DEF Remove, Recorded, CurrentBlock, TypeOK
<1> HIDE DEF c, st
<1>5. bs \in Seq(Block) /\ bs # << >> /\ bs[Len(bs)] = c
  BY <1>1, <1>3
<1>6. \A e : Effect(blocks[scope], st, bs, e)
  BY <1>1, <1>2, <1>3, RemovesBlock
<1> HIDE DEF bs
<1>7. TypeOK' /\ CurrentBlock' /\ Says(st)
  BY <1>2, <1>3, <1>4, <1>5, <1>6, StatementMade
<1> QED BY <1>2, <1>7

\* Every step opens a block or makes a statement.
LEMMA OpensOrSays ==
  ASSUME IInv, [Next]_vars
  PROVE  TypeOK' /\ CurrentBlock' /\ (Opens \/ \E st \in Statement : Says(st))
<1> USE DEF IInv
<1>1. CASE UNCHANGED vars
  <2>1. Opens
    BY <1>1, SameForItself DEF Opens, vars
  <2> QED BY <1>1, <2>1 DEF vars, TypeOK, CurrentBlock
<1>2. ASSUME NEW c \in Container, NewContainer(c)
      PROVE  TypeOK' /\ CurrentBlock' /\ Opens
  <2>1. blocks[c] = << >> /\ Append(<< >>, NewBlock(Always)) = <<NewBlock(Always)>>
    BY <1>2 DEF NewContainer, Created
  <2>2. /\ blocks' = [blocks EXCEPT ![c] = Append(blocks[c], NewBlock(Always))]
        /\ scope' = c /\ active' = Always /\ log' = log
    BY <1>2, <2>1 DEF NewContainer
  <2> QED BY <2>2, BlockOpened, CriteriaAssumption
<1>3. ASSUME NEW c \in Container, SetContainer(c)
      PROVE  TypeOK' /\ CurrentBlock' /\ Opens
  <2>1. /\ blocks' = [blocks EXCEPT ![c] = Append(blocks[c], NewBlock(Always))]
        /\ scope' = c /\ active' = Always /\ log' = log
    BY <1>3 DEF SetContainer, TypeOK
  <2> QED BY <2>1, BlockOpened, CriteriaAssumption
<1>4. ASSUME NEW t \in Criteria, Filter(t)
      PROVE  TypeOK' /\ CurrentBlock' /\ Opens
  <2>1. /\ blocks' = [blocks EXCEPT ![scope] = Append(blocks[scope], NewBlock(t))]
        /\ scope' = scope /\ active' = t /\ log' = log /\ scope \in Container
    BY <1>4 DEF Filter, TypeOK
  <2> QED BY <2>1, BlockOpened
<1>5. ASSUME NEW values \in Listed, StoreField("list", values)
      PROVE  TypeOK' /\ CurrentBlock' /\ \E st \in Statement : Says(st)
  BY <1>5, StoreFieldSays, ValueAssumption
<1>6. ASSUME NEW v \in Value, StoreField("string", <<v>>)
      PROVE  TypeOK' /\ CurrentBlock' /\ \E st \in Statement : Says(st)
  <2>1. <<v>> \in Seq(Value) /\ <<v>> # << >>
    OBVIOUS
  <2> QED BY <1>6, <2>1, StoreFieldSays
<1>7. ASSUME NEW p \in Pattern, Remove({p})
      PROVE  TypeOK' /\ CurrentBlock' /\ \E st \in Statement : Says(st)
  <2>1. {p} \in SUBSET Pattern
    OBVIOUS
  <2> QED BY <1>7, <2>1, RemoveSays
<1> QED BY <1>1, <1>2, <1>3, <1>4, <1>5, <1>6, <1>7 DEF Next

-----------------------------------------------------------------------------
(* Theorems                                                                *)

LEMMA InitInvariant == Init => IInv
<1> SUFFICES ASSUME Init PROVE IInv
  OBVIOUS
<1>1. Always \in Criteria /\ Global \in Container
  BY CriteriaAssumption, ContainerAssumption
<1> DEFINE b == NewBlock(Always)
<1>2. << >> \in Seq(Block) /\ Append(<< >>, b) = <<b>> /\ << >> \in Seq(Statement)
  OBVIOUS
<1>3. b \in Block /\ b.criteria = Always /\ \A e : SameFor(<< >>, <<b>>, e)
  <2>1. b \in Block /\ \A e : SameFor(<< >>, Append(<< >>, b), e)
    BY <1>1, <1>2, EmptyBlock
  <2> QED BY <1>2, <2>1 DEF NewBlock
<1> HIDE DEF b
<1>4. <<b>> \in Seq(Block) /\ <<b>> # << >> /\ <<b>>[Len(<<b>>)] = b
  BY <1>3
<1>5. blocks = [c \in Container |-> IF c = Global THEN <<b>> ELSE << >>]
  BY DEF Init, b
<1>6. TypeOK
  BY <1>1, <1>2, <1>4, <1>5 DEF Init, TypeOK
<1>7. CurrentBlock
  BY <1>1, <1>3, <1>4, <1>5 DEF Init, CurrentBlock
<1>8. ASSUME NEW e PROVE SaysItsLog(<< >>, << >>, e) /\ SaysItsLog(<<b>>, << >>, e)
  <2>1. Matching(<< >>, e) = << >>
    BY MatchingStep DEF MatchingEquations
  <2>2. ASSUME NEW list \in Seq(Value)
        PROVE  MergeBlocks(list, << >>) = list /\ ReplayList(list, << >>) = list
    <3>1. MergeEquations(list) /\ ReplayEquations(list)
      BY MergeBlocksStep, ReplayListStep
    <3> QED BY <3>1 DEF MergeEquations, ReplayEquations
  <2>3. SaysItsLog(<< >>, << >>, e)
    BY <2>1, <2>2, LastStringStep, ReplayStringStep DEF SaysItsLog
  <2> QED BY <1>3, <2>3 DEF SaysItsLog, SameFor
<1>9. BlocksSayTheLog
  <2>1. ASSUME NEW c \in Container, NEW e \in Env PROVE SaysItsLog(blocks[c], log[c], e)
    <3>1. log[c] = << >> /\ (blocks[c] = << >> \/ blocks[c] = <<b>>)
      BY <1>5 DEF Init
    <3> QED BY <1>8, <3>1
  <2> QED BY <2>1 DEF BlocksSayTheLog
<1> QED BY <1>6, <1>7, <1>9 DEF IInv

LEMMA NextInvariant == IInv /\ [Next]_vars => IInv'
<1> SUFFICES ASSUME IInv, [Next]_vars PROVE BlocksSayTheLog'
  BY OpensOrSays DEF IInv
<1>1. ASSUME NEW c \in Container, NEW e \in Env PROVE SaysItsLog(blocks'[c], log'[c], e)
  <2>1. SaysItsLog(blocks[c], log[c], e)
    BY DEF IInv, BlocksSayTheLog
  <2>2. CASE Opens
    <3>1. log'[c] = log[c] /\ SameFor(blocks[c], blocks'[c], e)
      BY <2>2 DEF Opens
    <3> QED BY <2>1, <3>1 DEF SaysItsLog, SameFor
  <2>3. ASSUME NEW st \in Statement, Says(st) PROVE SaysItsLog(blocks'[c], log'[c], e)
    <3>1. CASE c # scope
      <4>1. blocks'[c] = blocks[c] /\ log'[c] = log[c]
        BY <2>3, <3>1 DEF Says, IInv, TypeOK
      <4> QED BY <2>1, <4>1
    <3>2. CASE c = scope
      <4>1. log'[c] = Append(log[c], st) /\ log[c] \in Seq(Statement)
        BY <2>3, <3>2 DEF Says, IInv, TypeOK
      <4>2. Effect(blocks[c], st, blocks'[c], e)
        BY <2>3, <3>2 DEF Says
      <4> QED BY <2>1, <4>1, <4>2, EffectLogged
    <3> QED BY <3>1, <3>2
  <2> QED BY <2>2, <2>3, OpensOrSays
<1> QED BY <1>1 DEF BlocksSayTheLog

THEOREM Invariance == Spec => []IInv
<1>1. Init => IInv
  BY InitInvariant
<1>2. IInv /\ [Next]_vars => IInv'
  BY NextInvariant
<1> QED BY <1>1, <1>2, PTL DEF Spec

\* The containers around c.
LEMMA ChainIsEnclosing ==
  ASSUME NEW c \in Container
  PROVE  ChainOf[c] \in Seq(Enclosing(c)) /\ Enclosing(c) \subseteq Container
<1> DEFINE n == Len(ChainOf[c])
<1>1. ChainOf[c] \in Seq(Container) /\ ChainOf[c] # << >> /\ ChainOf[c][n] = c
  BY ContainerAssumption
<1>2. n \in Nat /\ \A i \in 1..n : ChainOf[c][i] \in Container /\ (i = n \/ i \in 1..(n - 1))
  BY <1>1
<1>3. \A i \in 1..n : ChainOf[c][i] \in Enclosing(c)
  BY <1>1, <1>2 DEF Enclosing, Parents
<1>4. \A d \in Enclosing(c) : d \in Container
  BY <1>1, <1>2 DEF Enclosing, Parents
<1>5. ChainOf[c] \in Seq(Enclosing(c))
  BY <1>1, <1>3
<1> QED BY <1>4, <1>5

LEMMA FetchesAgree == IInv => FetchIsReplay /\ CompiledAgrees
<1> SUFFICES ASSUME IInv, NEW c \in Container, NEW e \in Env
             PROVE  /\ FetchMerged(c, e) = ReplayList(<< >>, Statements(c, e))
                    /\ FetchDirect(c, e) = ReplayString(Statements(c, e))
                    /\ MergeBlocks(<< >>, Compile(c, e)) = FetchMerged(c, e)
                    /\ LastString(Compile(c, e)) = FetchDirect(c, e)
  BY DEF FetchIsReplay, CompiledAgrees
<1> DEFINE D == Enclosing(c)
           cs == ChainOf[c]
<1>1. cs \in Seq(D) /\ D \subseteq Container
  BY ChainIsEnclosing
<1> HIDE DEF D, cs
<1>2. BlocksIn(blocks, D) /\ StatementsIn(log, D) /\ \A d \in D : SaysItsLog(blocks[d], log[d], e)
  BY <1>1 DEF IInv, TypeOK, BlocksSayTheLog, BlocksIn, StatementsIn
<1>3. /\ FetchedList(blocks, e, cs) = ReplayList(<< >>, Matching(MadeStatements(log, cs), e))
      /\ FetchedString(blocks, e, cs) = ReplayString(Matching(MadeStatements(log, cs), e))
  BY <1>1, <1>2, FetchedIsReplayed
<1>4. /\ MergeBlocks(<< >>, CompiledBlocks(blocks, e, cs)) = FetchedList(blocks, e, cs)
      /\ LastString(CompiledBlocks(blocks, e, cs)) = FetchedString(blocks, e, cs)
  BY <1>1, <1>2, CompiledIsFetched
<1> QED BY <1>3, <1>4, ChainOperators DEF cs

\* A fetch returns what the script says, however long the script and in
\* whatever order it visits the containers: gathering values per block, with
\* the removes of a block before its values, loses nothing.
THEOREM ReplaySafety == Spec => []FetchIsReplay
<1>1. IInv => FetchIsReplay
  BY FetchesAgree
<1> QED BY <1>1, Invariance, PTL

\* Fetching from a compiled set gives what fetching from the set and its
\* parents gives.
THEOREM CompiledSafety == Spec => []CompiledAgrees
<1>1. IInv => CompiledAgrees
  BY FetchesAgree
<1> QED BY <1>1, Invariance, PTL

LEMMA FetchesUnchanged ==
  ASSUME IInv, [Next]_vars, NEW c \in Container, NEW e \in Env,
         scope \notin Enclosing(c) \/ e \notin Holds[active]
  PROVE  FetchMerged(c, e)' = FetchMerged(c, e) /\ FetchDirect(c, e)' = FetchDirect(c, e)
<1> DEFINE D == Enclosing(c)
           cs == ChainOf[c]
<1>1. cs \in Seq(D) /\ D \subseteq Container
  BY ChainIsEnclosing
<1>2. ASSUME NEW d \in D PROVE SameFor(blocks[d], blocks'[d], e)
  <2>1. CASE Opens
    BY <1>1, <2>1 DEF Opens
  <2>2. ASSUME NEW st \in Statement, Says(st) PROVE SameFor(blocks[d], blocks'[d], e)
    <3>1. CASE d # scope
      BY <1>1, <2>2, <3>1, SameForItself DEF Says
    <3>2. CASE d = scope
      <4>1. e \notin Holds[st.criteria]
        BY <2>2, <3>2 DEF Says
      <4> QED BY <2>2, <3>2, <4>1 DEF Says, Effect
    <3> QED BY <3>1, <3>2
  <2> QED BY <2>1, <2>2, OpensOrSays
<1> HIDE DEF D
<1>3. BlocksIn(blocks, D) /\ BlocksIn(blocks', D)
  BY <1>1, OpensOrSays DEF IInv, TypeOK, BlocksIn
<1>4. /\ FetchedList(blocks, e, cs) = FetchedList(blocks', e, cs)
      /\ FetchedString(blocks, e, cs) = FetchedString(blocks', e, cs)
  <2> HIDE DEF cs
  <2> QED BY <1>1, <1>2, <1>3, FetchedUnchanged
<1>5. FetchMerged(c, e) = FetchedList(blocks, e, cs) /\ FetchDirect(c, e) = FetchedString(blocks, e, cs)
  BY ChainOperators
<1>6. FetchMerged(c, e)' = FetchedList(blocks', e, cs)
  BY DEF FetchMerged, FetchedList
<1>7. FetchDirect(c, e)' = FetchedString(blocks', e, cs)
  BY DEF FetchDirect, FetchedString
<1> QED BY <1>4, <1>5, <1>6, <1>7

\* A statement concerns only the container in scope and those inside it, and
\* only the contexts that the filter it was made under matches.
THEOREM ScopedSafety == Spec => StatementsAreScoped
<1> DEFINE A == \A c \in Container, e \in Env :
                  (scope \notin Enclosing(c) \/ e \notin Holds[active]) =>
                    FetchMerged(c, e)' = FetchMerged(c, e) /\ FetchDirect(c, e)' = FetchDirect(c, e)
<1>1. IInv /\ [Next]_vars => A
  BY FetchesUnchanged
<1>2. IInv /\ [Next]_vars => [A]_vars
  BY <1>1
<1> QED BY <1>2, Invariance, PTL DEF Spec, StatementsAreScoped

-----------------------------------------------------------------------------
(* Links: names and lists                                                  *)

LEMMA FindProjectFacts ==
  ASSUME NEW l
  PROVE  /\ FindProject(l) \in Project \union {None}
         /\ \A p \in Project : Lower[NameOf[p]] = Lower[l] => FindProject(l) = p
<1> DEFINE found == {p \in Project : Lower[NameOf[p]] = Lower[l]}
<1>1. FindProject(l) = IF found = {} THEN None ELSE CHOOSE p \in found : TRUE
  BY DEF FindProject
<1>2. \A p \in found : FindProject(l) = p
  BY <1>1, NameAssumption
<1> QED BY <1>1, <1>2

LEMMA NamedFound ==
  ASSUME NEW p \in Project
  PROVE  FindProject(NameOf[p]) = p
BY FindProjectFacts

\* What a workspace holds for a project.
LEMMA WorkspaceFacts ==
  ASSUME wks \in Workspace, NEW p \in Project
  PROVE  /\ wks.configs[p] \in Seq(Config)
         /\ \A c : HasConfig(p, c) => c \in Config
         /\ \A c \in Config :
              /\ wks.links[p][c] \in Seq(Link) /\ wks.dependson[p][c] \in Seq(Link)
              /\ wks.wholearchive[p][c] \in Seq(Link) /\ NoRepeats(wks.wholearchive[p][c])
<1>1. wks.configs[p] \in Seq(Config)
  BY WorkspaceAssumption
<1>2. \A c : HasConfig(p, c) => c \in Config
  BY <1>1, ElementsType DEF HasConfig
<1>3. ASSUME NEW c \in Config, NEW field \in {wks.links, wks.dependson, wks.wholearchive}
      PROVE  field[p][c] \in Seq(Link) /\ NoRepeats(field[p][c])
  BY WorkspaceAssumption
<1> QED BY <1>1, <1>2, <1>3

LEMMA DistinctFacts ==
  ASSUME NEW X, NEW s \in Seq(X)
  PROVE  /\ Distinct(s) \in Seq(X) /\ NoRepeats(Distinct(s))
         /\ Elements(Distinct(s)) = Elements(s) \ {None}
<1> DEFINE w == Without(s, {None})
<1>1. w \in Seq(X) /\ Elements(w) = Elements(s) \ {None}
  BY WithoutType, WithoutElements
<1> HIDE DEF w
<1>2. Unique(w) \in Seq(X) /\ Elements(Unique(w)) = Elements(w) /\ NoRepeats(Unique(w))
  BY <1>1, UniqueList
<1> QED BY <1>1, <1>2 DEF Distinct, w

-----------------------------------------------------------------------------
(* What is linked                                                          *)

Thing == Project \union Link \union {None}

LEMMA ItemsFacts ==
  ASSUME NEW p, NEW c, NEW kind, NEW links \in Seq(Link)
  PROVE  /\ Items(p, c, kind, links) \in Seq(Thing) /\ NoRepeats(Items(p, c, kind, links))
         /\ Elements(Items(p, c, kind, links)) = {Item(p, c, kind, l) : l \in Elements(links)} \ {None}
<1> DEFINE all == [k \in 1..Len(links) |-> Item(p, c, kind, links[k])]
<1>1. \A l \in Link : Item(p, c, kind, l) \in Thing
  BY FindProjectFacts DEF Item, Sibling, Thing
<1>2. all \in Seq(Thing) /\ Len(all) = Len(links) /\ \A k \in 1..Len(links) : all[k] = Item(p, c, kind, links[k])
  BY <1>1
<1>3. Items(p, c, kind, links) = Distinct(all)
  BY DEF Items
<1> HIDE DEF all
<1>4. Elements(all) = {Item(p, c, kind, l) : l \in Elements(links)}
  BY <1>2 DEF Elements
<1> QED BY <1>2, <1>3, <1>4, DistinctFacts

\* A list of the links that are not dropped.
LEMMA GetLinksFacts ==
  ASSUME wks \in Workspace, NEW p \in Project, NEW c \in Config,
         NEW kind \in {"siblings", "system", "dependencies"}, NEW drop \in BOOLEAN
  PROVE  LET dropped == IF drop /\ kind # "dependencies" THEN LinkedWhole(p, c) ELSE {}
             links   == GetLinks(p, c, kind, drop)
         IN  /\ links \in Seq(Thing) /\ NoRepeats(links)
             /\ Elements(links) = {Item(p, c, kind, l) : l \in LinksOf(p, c) \ dropped} \ {None}
<1> DEFINE dropped == IF drop /\ kind # "dependencies" THEN LinkedWhole(p, c) ELSE {}
           links == Without(wks.links[p][c], dropped)
<1>1. links \in Seq(Link) /\ Elements(links) = LinksOf(p, c) \ dropped
  <2> HIDE DEF dropped
  <2>1. wks.links[p][c] \in Seq(Link)
    BY WorkspaceFacts
  <2> QED BY <2>1, WithoutType, WithoutElements DEF LinksOf
<1>2. GetLinks(p, c, kind, drop) = Items(p, c, kind, links)
  BY DEF GetLinks
<1> HIDE DEF links
<1> QED BY <1>1, <1>2, ItemsFacts

\* The projects that are linked one by one
LEMMA SiblingsLinked ==
  ASSUME wks \in Workspace, NEW p \in Project, NEW c \in Config
  PROVE  LET links == GetLinks(p, c, "siblings", TRUE) IN
         /\ links \in Seq(Thing) /\ NoRepeats(links)
         /\ Elements(links) =
              {q \in Project : /\ \E l \in LinksOf(p, c) \ LinkedWhole(p, c) : Sibling(l) = q
                               /\ HasConfig(q, c) /\ CanLink(p, q)}
<1> DEFINE links == GetLinks(p, c, "siblings", TRUE)
<1>1. /\ links \in Seq(Thing) /\ NoRepeats(links)
      /\ Elements(links) = {Item(p, c, "siblings", l) : l \in LinksOf(p, c) \ LinkedWhole(p, c)} \ {None}
  BY GetLinksFacts
<1>2. \A l : Item(p, c, "siblings", l) =
               IF Sibling(l) # None /\ HasConfig(Sibling(l), c) /\ CanLink(p, Sibling(l))
               THEN Sibling(l) ELSE None
  BY DEF Item
<1>3. \A l : Sibling(l) # None => Sibling(l) \in Project
  BY FindProjectFacts DEF Sibling
<1> HIDE DEF links
<1>4. ASSUME NEW q \in Elements(links)
      PROVE  /\ q \in Project /\ HasConfig(q, c) /\ CanLink(p, q)
             /\ \E l \in LinksOf(p, c) \ LinkedWhole(p, c) : Sibling(l) = q
  BY <1>1, <1>2, <1>3
<1>5. ASSUME NEW l \in LinksOf(p, c) \ LinkedWhole(p, c), Sibling(l) \in Project,
             HasConfig(Sibling(l), c), CanLink(p, Sibling(l))
      PROVE  Sibling(l) \in Elements(links)
  <2>1. Item(p, c, "siblings", l) = Sibling(l) /\ Sibling(l) # None
    BY <1>2, <1>5, NameAssumption
  <2> QED BY <1>1, <2>1
<1> QED BY <1>1, <1>4, <1>5 DEF links

\* The libraries that are not projects
LEMMA SystemLinked ==
  ASSUME wks \in Workspace, NEW p \in Project, NEW c \in Config, NEW drop \in BOOLEAN
  PROVE  LET links == GetLinks(p, c, "system", drop) IN
         /\ links \in Seq(Thing) /\ NoRepeats(links)
         /\ Elements(links) \subseteq Link
         /\ drop => Elements(links) \subseteq Link \ LinkedWhole(p, c)
<1> DEFINE links == GetLinks(p, c, "system", drop)
           dropped == IF drop THEN LinkedWhole(p, c) ELSE {}
<1>1. /\ links \in Seq(Thing) /\ NoRepeats(links)
      /\ Elements(links) = {Item(p, c, "system", l) : l \in LinksOf(p, c) \ dropped} \ {None}
  BY GetLinksFacts
<1>2. \A l : Item(p, c, "system", l) \in {l, None}
  BY DEF Item
<1>3. LinksOf(p, c) \subseteq Link
  BY WorkspaceFacts, ElementsType DEF LinksOf
<1> HIDE DEF links
<1> QED BY <1>1, <1>2, <1>3 DEF links

\* The projects that the configuration depends on, linked or not
LEMMA DependenciesLinked ==
  ASSUME wks \in Workspace, NEW p \in Project, NEW c \in Config
  PROVE  LET links == GetLinks(p, c, "dependencies", FALSE) IN
         /\ links \in Seq(Thing) /\ NoRepeats(links)
         /\ Elements(links) =
              {q \in Project : (\E l \in LinksOf(p, c) : Sibling(l) = q) /\ HasConfig(q, c)}
<1> DEFINE links == GetLinks(p, c, "dependencies", FALSE)
<1>1. /\ links \in Seq(Thing) /\ NoRepeats(links)
      /\ Elements(links) = {Item(p, c, "dependencies", l) : l \in LinksOf(p, c)} \ {None}
  <2>1. /\ links \in Seq(Thing) /\ NoRepeats(links)
        /\ Elements(links) = {Item(p, c, "dependencies", l) : l \in LinksOf(p, c) \ {}} \ {None}
    BY GetLinksFacts
  <2>2. LinksOf(p, c) \ {} = LinksOf(p, c)
    OBVIOUS
  <2> HIDE DEF links
  <2> QED BY <2>1, <2>2
<1>2. \A l : Item(p, c, "dependencies", l) =
               IF Sibling(l) # None /\ HasConfig(Sibling(l), c) THEN Sibling(l) ELSE None
  BY DEF Item
<1>3. \A l : Sibling(l) # None => Sibling(l) \in Project
  BY FindProjectFacts DEF Sibling
<1> HIDE DEF links
<1>4. ASSUME NEW q \in Elements(links)
      PROVE  q \in Project /\ HasConfig(q, c) /\ \E l \in LinksOf(p, c) : Sibling(l) = q
  BY <1>1, <1>2, <1>3
<1>5. ASSUME NEW l \in LinksOf(p, c), Sibling(l) \in Project, HasConfig(Sibling(l), c)
      PROVE  Sibling(l) \in Elements(links)
  <2>1. Item(p, c, "dependencies", l) = Sibling(l) /\ Sibling(l) # None
    BY <1>2, <1>5, NameAssumption
  <2> QED BY <1>1, <2>1
<1> QED BY <1>1, <1>4, <1>5 DEF links

-----------------------------------------------------------------------------
(* What a project depends on                                               *)

LEMMA NamesFacts ==
  ASSUME wks \in Workspace, NEW p \in Project, NEW c \in Config, NEW mode
  PROVE  /\ Names(p, c, mode) \in Seq(Link)
         /\ mode # "dependOnly" => LinksOf(p, c) \ {NameOf[p]} \subseteq Elements(Names(p, c, mode))
<1> DEFINE links == IF mode = "dependOnly" THEN << >> ELSE Without(wks.links[p][c], {NameOf[p]})
           depends == IF mode = "linkOnly" THEN << >> ELSE wks.dependson[p][c]
<1>1. wks.links[p][c] \in Seq(Link) /\ depends \in Seq(Link)
  BY WorkspaceFacts
<1>2. Without(wks.links[p][c], {NameOf[p]}) \in Seq(Link)
  BY <1>1, WithoutType
<1>3. /\ links \in Seq(Link)
      /\ mode # "dependOnly" => Elements(links) = LinksOf(p, c) \ {NameOf[p]}
  BY <1>1, <1>2, WithoutElements DEF LinksOf
<1>4. Names(p, c, mode) = links \o depends
  BY DEF Names
<1> HIDE DEF links, depends
<1>5. Elements(links \o depends) = Elements(links) \union Elements(depends)
  BY <1>1, <1>3, ElementsConcat
<1> QED BY <1>1, <1>3, <1>4, <1>5

\* The links among them are those of the configuration.
LEMMA NamesLinked ==
  ASSUME wks \in Workspace, NEW p \in Project, NEW c \in Config
  PROVE  Elements(Names(p, c, "linkOnly")) \subseteq LinksOf(p, c)
<1> DEFINE links == Without(wks.links[p][c], {NameOf[p]})
<1>1. links \in Seq(Link) /\ Elements(links) = LinksOf(p, c) \ {NameOf[p]}
  <2>1. wks.links[p][c] \in Seq(Link)
    BY WorkspaceFacts
  <2> QED BY <2>1, WithoutType, WithoutElements DEF LinksOf
<1>2. Names(p, c, "linkOnly") = links \o << >>
  BY DEF Names
<1> HIDE DEF links
<1>3. links \o << >> = links
  BY <1>1
<1> QED BY <1>1, <1>2, <1>3

\* A project depends on those that any of its configurations names.
LEMMA DependsFacts ==
  ASSUME wks \in Workspace, NEW p \in Project, NEW mode
  PROVE  /\ Depends(p, mode) \in Seq(Project \union {None}) /\ NoRepeats(Depends(p, mode))
         /\ Elements(Depends(p, mode)) \subseteq Project
         /\ \A c \in Elements(wks.configs[p]) : \A l \in Elements(Names(p, c, mode)) :
              FindProject(l) # None => FindProject(l) \in Elements(Depends(p, mode))
         /\ \A q \in Elements(Depends(p, mode)) :
              \E c \in Elements(wks.configs[p]) : \E l \in Elements(Names(p, c, mode)) : q = FindProject(l)
<1> DEFINE configs == wks.configs[p]
           lists   == [k \in 1..Len(configs) |-> Names(p, configs[k], mode)]
           names   == Concat(lists)
           found   == [k \in 1..Len(names) |-> FindProject(names[k])]
<1>1. configs \in Seq(Config) /\ Elements(configs) \subseteq Config
  BY WorkspaceFacts, ElementsType
<1>2. lists \in Seq(Seq(Link)) /\ Len(lists) = Len(configs)
      /\ \A k \in 1..Len(configs) : lists[k] = Names(p, configs[k], mode)
  <2>1. \A k \in 1..Len(configs) : Names(p, configs[k], mode) \in Seq(Link)
    <3>1. \A k \in 1..Len(configs) : configs[k] \in Config
      BY <1>1
    <3> HIDE DEF configs
    <3> QED BY <3>1, NamesFacts
  <2> HIDE DEF configs
  <2> QED BY <1>1, <2>1
<1> HIDE DEF lists
<1>3. names \in Seq(Link) /\ \A k \in 1..Len(lists) : Elements(lists[k]) \subseteq Elements(names)
  BY <1>2, ConcatElements
<1>4. Depends(p, mode) = Distinct(found)
  BY DEF Depends, lists
<1> HIDE DEF names
<1>5. /\ found \in Seq(Project \union {None}) /\ Len(found) = Len(names)
      /\ \A k \in 1..Len(names) : found[k] = FindProject(names[k])
  BY <1>3, FindProjectFacts
<1> HIDE DEF found
<1>6. Elements(found) = {FindProject(l) : l \in Elements(names)}
  BY <1>5 DEF Elements
<1>7. /\ Depends(p, mode) \in Seq(Project \union {None}) /\ NoRepeats(Depends(p, mode))
      /\ Elements(Depends(p, mode)) = Elements(found) \ {None}
  BY <1>4, <1>5, DistinctFacts
<1>8. Elements(Depends(p, mode)) \subseteq Project
  BY <1>6, <1>7, FindProjectFacts
<1>9. ASSUME NEW c \in Elements(configs) PROVE Elements(Names(p, c, mode)) \subseteq Elements(names)
  <2>1. PICK k \in 1..Len(configs) : c = configs[k]
    BY DEF Elements
  <2> HIDE DEF configs
  <2> QED BY <1>2, <1>3, <2>1
<1>10. ASSUME NEW l \in Elements(names)
       PROVE  \E c \in Elements(configs) : l \in Elements(Names(p, c, mode))
  <2>1. PICK k \in 1..Len(lists) : l \in Elements(lists[k])
    BY <1>2, ConcatSources DEF names
  <2>2. k \in 1..Len(configs) /\ l \in Elements(Names(p, configs[k], mode))
    BY <1>2, <2>1
  <2> QED BY <2>2 DEF Elements
<1> QED BY <1>6, <1>7, <1>8, <1>9, <1>10

-----------------------------------------------------------------------------
(* Lines                                                                   *)

\* What is linked whole: each library, or the project that it names
LEMMA WholeFacts ==
  ASSUME wks \in Workspace, NEW p \in Project, NEW c \in Config
  PROVE  LET libs  == wks.wholearchive[p][c]
             whole == GetWholeArchive(p, c)
         IN  /\ whole \in Seq(Thing) /\ Len(whole) = Len(libs)
             /\ \A k \in 1..Len(libs) :
                  whole[k] = IF FindProject(libs[k]) # None /\ CanLink(p, FindProject(libs[k]))
                             THEN FindProject(libs[k]) ELSE libs[k]
<1> DEFINE libs == wks.wholearchive[p][c]
<1>1. libs \in Seq(Link)
  BY WorkspaceFacts
<1>2. GetWholeArchive(p, c) =
        [k \in 1..Len(libs) |->
           IF FindProject(libs[k]) # None /\ CanLink(p, FindProject(libs[k]))
           THEN FindProject(libs[k]) ELSE libs[k]]
  BY DEF GetWholeArchive
<1> HIDE DEF libs
<1> QED BY <1>1, <1>2, FindProjectFacts DEF Thing, libs

\* A project that is linked whole is meant, one that is dropped is linked whole.
LEMMA ArchivesAreMeant ==
  ASSUME wks \in Workspace, NEW p \in Project, NEW c, HasConfig(p, c),
         ArchivesLinked(p), ~ Fails(p, c)
  PROVE  LET whole == Elements(GetWholeArchive(p, c)) IN
         /\ whole \intersect Project \subseteq Meant(p, c)
         /\ \A l \in LinksOf(p, c) :
              /\ Sibling(l) \in whole => l \in LinkedWhole(p, c)
              /\ l \in LinkedWhole(p, c) /\ Sibling(l) # None => Sibling(l) \in whole
<1> DEFINE libs  == wks.wholearchive[p][c]
           whole == GetWholeArchive(p, c)
<1>0. c \in Config
  BY WorkspaceFacts
<1>1. /\ libs \in Seq(Link) /\ whole \in Seq(Thing) /\ Len(whole) = Len(libs)
      /\ \A k \in 1..Len(libs) :
           whole[k] = IF FindProject(libs[k]) # None /\ CanLink(p, FindProject(libs[k]))
                      THEN FindProject(libs[k]) ELSE libs[k]
  <2>1. libs \in Seq(Link)
    BY <1>0, WorkspaceFacts
  <2> QED BY <1>0, <2>1, WholeFacts
<1>2. LinksOf(p, c) \subseteq Link
  BY <1>0, WorkspaceFacts, ElementsType DEF LinksOf
<1>3. ASSUME NEW w \in Elements(libs), FindProject(w) # None \/ Sibling(w) # None
      PROVE  /\ \E l \in LinksOf(p, c) : w = Bare[l]
             /\ Bare[w] = w /\ Sibling(w) = FindProject(w) /\ FindProject(w) \in Project
             /\ CanLink(p, FindProject(w)) /\ HasConfig(FindProject(w), c)
             /\ \A l \in LinksOf(p, c) : Sibling(l) = FindProject(w) => Bare[l] = w
  <2>1. /\ w \in {Bare[l] : l \in LinksOf(p, c)} /\ CanLink(p, FindProject(w))
        /\ \A l \in LinksOf(p, c) : Sibling(l) = FindProject(w) => Bare[l] = w
    BY <1>3 DEF ArchivesLinked, HasConfig
  <2>2. PICK l \in LinksOf(p, c) : w = Bare[l]
    BY <2>1
  <2>3. Bare[w] = w
    BY <1>2, <2>2, NameAssumption
  <2>4. Sibling(w) = FindProject(w) /\ FindProject(w) \in Project
    BY <1>3, <2>3, FindProjectFacts DEF Sibling
  <2>5. HasConfig(FindProject(w), c)
    BY <1>3, <2>4, NameAssumption DEF Fails
  <2> QED BY <2>1, <2>2, <2>3, <2>4, <2>5
<1> HIDE DEF libs, whole
<1>4. ASSUME NEW q \in Elements(whole), q \in Project
      PROVE  \E w \in Elements(libs) : FindProject(w) = q
  <2>1. PICK k \in 1..Len(libs) : q = whole[k]
    BY <1>1 DEF Elements
  <2>2. libs[k] \in Link /\ libs[k] \in Elements(libs)
    BY <1>1 DEF Elements
  <2>3. libs[k] # q
    BY <1>4, <2>2, NameAssumption
  <2> QED BY <1>1, <2>1, <2>2, <2>3
<1>5. ASSUME NEW w \in Elements(libs), FindProject(w) # None
      PROVE  FindProject(w) \in Elements(whole)
  <2>1. PICK k \in 1..Len(libs) : w = libs[k]
    BY DEF Elements
  <2>2. whole[k] = FindProject(w)
    BY <1>1, <1>3, <1>5, <2>1
  <2> QED BY <1>1, <2>1, <2>2 DEF Elements
<1>6. ASSUME NEW q \in Elements(whole), q \in Project
      PROVE  q \in Meant(p, c) /\ \A l \in LinksOf(p, c) : Sibling(l) = q => l \in LinkedWhole(p, c)
  <2>1. PICK w \in Elements(libs) : FindProject(w) = q /\ FindProject(w) # None
    BY <1>4, <1>6, NameAssumption
  <2>2. PICK l \in LinksOf(p, c) : w = Bare[l]
    BY <1>3, <2>1
  <2>3. Sibling(l) = q /\ HasConfig(q, c) /\ CanLink(p, q)
    BY <1>3, <2>1, <2>2 DEF Sibling
  <2>4. \A m \in LinksOf(p, c) : Sibling(m) = q => Bare[m] = w
    BY <1>3, <2>1
  <2> QED BY <1>2, <1>6, <2>1, <2>3, <2>4 DEF Meant, LinkedWhole, libs
<1>7. ASSUME NEW l \in LinksOf(p, c), l \in LinkedWhole(p, c), Sibling(l) # None
      PROVE  Sibling(l) \in Elements(whole)
  <2>1. PICK w \in Elements(libs) : w = Bare[l] \/ w = l
    BY <1>7 DEF LinkedWhole, libs
  <2>2. FindProject(w) # None \/ Sibling(w) # None
    BY <1>7, <2>1 DEF Sibling
  <2>3. Sibling(l) = FindProject(w)
    BY <1>3, <2>1, <2>2 DEF Sibling
  <2> QED BY <1>5, <1>7, <2>3
<1>8. ASSUME NEW l \in LinksOf(p, c), Sibling(l) \in Elements(whole)
      PROVE  l \in LinkedWhole(p, c)
  <2>1. Sibling(l) \in Project \union {None} /\ None \notin Elements(whole)
    <3>1. \A k \in 1..Len(libs) : libs[k] # None
      BY <1>1, NameAssumption
    <3>2. \A k \in 1..Len(libs) : whole[k] # None
      BY <1>1, <3>1
    <3> QED BY <1>1, <3>2, FindProjectFacts DEF Sibling, Elements
  <2> QED BY <1>6, <1>8, <2>1
<1> QED BY <1>6, <1>7, <1>8 DEF whole

\* Named one by one or linked whole, the projects are those that are meant.
LEMMA NamedAreMeant ==
  ASSUME wks \in Workspace, NEW p \in Project, NEW c, HasConfig(p, c),
         ArchivesLinked(p), ~ Fails(p, c)
  PROVE  (Elements(GetLinks(p, c, "siblings", TRUE)) \union Elements(GetWholeArchive(p, c)))
           \intersect Project = Meant(p, c)
<1> DEFINE links == Elements(GetLinks(p, c, "siblings", TRUE))
           whole == Elements(GetWholeArchive(p, c))
<1>1. c \in Config
  BY WorkspaceFacts
<1>2. links = {q \in Project : /\ \E l \in LinksOf(p, c) \ LinkedWhole(p, c) : Sibling(l) = q
                               /\ HasConfig(q, c) /\ CanLink(p, q)}
  BY <1>1, SiblingsLinked
<1>3. /\ whole \intersect Project \subseteq Meant(p, c)
      /\ \A l \in LinksOf(p, c) :
           l \in LinkedWhole(p, c) /\ Sibling(l) # None => Sibling(l) \in whole
  BY ArchivesAreMeant
<1> HIDE DEF links, whole
<1>4. links \subseteq Meant(p, c)
  BY <1>2 DEF Meant
<1>5. ASSUME NEW q \in Meant(p, c) PROVE q \in links \union whole
  <2>1. q \in Project /\ HasConfig(q, c) /\ CanLink(p, q)
    BY DEF Meant
  <2>2. PICK l \in LinksOf(p, c) : Sibling(l) = q
    BY DEF Meant
  <2>3. CASE l \in LinkedWhole(p, c)
    BY <1>3, <2>1, <2>2, <2>3, NameAssumption
  <2>4. CASE l \notin LinkedWhole(p, c)
    BY <1>2, <2>1, <2>2, <2>4
  <2> QED BY <2>3, <2>4
<1>6. Meant(p, c) \subseteq Project
  BY DEF Meant
<1> QED BY <1>3, <1>4, <1>5, <1>6 DEF links, whole

\* A link to another project, without decorator, is among the names that
\* getdependencies reads.
LEMMA LinksAreRead ==
  ASSUME wks \in Workspace, NEW p \in Project, NEW c, HasConfig(p, c),
         NotItself(p), Undecorated(p), NEW l \in LinksOf(p, c), Sibling(l) # None
  PROVE  l # NameOf[p] /\ FindProject(l) = Sibling(l)
<1>1. Bare[l] = l
  BY DEF Undecorated, HasConfig
<1>2. FindProject(l) = Sibling(l) /\ Sibling(l) # p
  BY <1>1 DEF Sibling, NotItself, HasConfig
<1> QED BY <1>2, NamedFound

\* If all configurations together depend on as many projects as this one, then
\* on the same.
LEMMA ReferencesAreMeant ==
  ASSUME wks \in Workspace, NEW p \in Project, NEW c, HasConfig(p, c),
         NotItself(p), Undecorated(p),
         Len(Depends(p, "linkOnly")) = Len(GetLinks(p, c, "dependencies", FALSE))
  PROVE  LET references == Without(Depends(p, "linkOnly"),
                                   {q \in Project : ~ (HasConfig(q, c) /\ CanLink(p, q))})
         IN  Elements(references) = Meant(p, c)
<1> DEFINE depends == Depends(p, "linkOnly")
           links   == GetLinks(p, c, "dependencies", FALSE)
           dropped == {q \in Project : ~ (HasConfig(q, c) /\ CanLink(p, q))}
<1>1. c \in Config
  BY WorkspaceFacts
<1>2. /\ depends \in Seq(Project \union {None}) /\ NoRepeats(depends) /\ Elements(depends) \subseteq Project
      /\ \A l \in Elements(Names(p, c, "linkOnly")) : FindProject(l) # None => FindProject(l) \in Elements(depends)
  BY DependsFacts DEF HasConfig
<1>3. /\ links \in Seq(Thing) /\ NoRepeats(links)
      /\ Elements(links) = {q \in Project : (\E l \in LinksOf(p, c) : Sibling(l) = q) /\ HasConfig(q, c)}
  BY <1>1, DependenciesLinked
<1>4. LinksOf(p, c) \ {NameOf[p]} \subseteq Elements(Names(p, c, "linkOnly"))
  BY <1>1, NamesFacts
<1>5. Len(depends) = Len(links)
  OBVIOUS
<1> HIDE DEF depends, links
<1>6. Elements(links) \subseteq Elements(depends)
  <2> SUFFICES ASSUME NEW l \in LinksOf(p, c), Sibling(l) \in Project
               PROVE  Sibling(l) \in Elements(depends)
    BY <1>3
  <2>1. l # NameOf[p] /\ FindProject(l) = Sibling(l) /\ Sibling(l) # None
    BY LinksAreRead, NameAssumption
  <2> QED BY <1>2, <1>4, <2>1
<1>7. Elements(links) = Elements(depends)
  <2>1. IsFiniteSet(Elements(depends)) /\ Cardinality(Elements(depends)) = Len(depends)
    BY <1>2, NoRepeatsCardinality
  <2>2. Cardinality(Elements(links)) = Len(links)
    BY <1>3, NoRepeatsCardinality
  <2>3. Cardinality(Elements(links)) = Cardinality(Elements(depends))
    BY <1>5, <2>1, <2>2
  <2> QED BY <1>6, <2>1, <2>3, FS_Subset
<1>8. Elements(Without(depends, dropped)) = Elements(depends) \ dropped
  <2> HIDE DEF dropped
  <2> QED BY <1>2, WithoutElements
<1>9. Elements(depends) \ dropped = Meant(p, c)
  BY <1>3, <1>7 DEF Meant
<1> QED BY <1>8, <1>9 DEF depends

\* Nothing is twice on a makefile's line.
LEMMA LineHasNoRepeats ==
  ASSUME wks \in Workspace, NEW p \in Project, NEW c, HasConfig(p, c),
         ArchivesLinked(p), ~ Fails(p, c)
  PROVE  NoRepeats((GetLinks(p, c, "siblings", TRUE) \o GetLinks(p, c, "system", TRUE))
                     \o GetWholeArchive(p, c))
<1> DEFINE siblings == GetLinks(p, c, "siblings", TRUE)
           system   == GetLinks(p, c, "system", TRUE)
           whole    == GetWholeArchive(p, c)
           libs     == wks.wholearchive[p][c]
<1>1. c \in Config
  BY WorkspaceFacts
<1>2. /\ siblings \in Seq(Thing) /\ NoRepeats(siblings)
      /\ \A q \in Elements(siblings) :
           q \in Project /\ \E l \in LinksOf(p, c) \ LinkedWhole(p, c) : Sibling(l) = q
  <2>1. /\ siblings \in Seq(Thing) /\ NoRepeats(siblings)
        /\ Elements(siblings) =
             {q \in Project : /\ \E l \in LinksOf(p, c) \ LinkedWhole(p, c) : Sibling(l) = q
                              /\ HasConfig(q, c) /\ CanLink(p, q)}
    BY <1>1, SiblingsLinked
  <2> HIDE DEF siblings
  <2> QED BY <2>1
<1>3. /\ system \in Seq(Thing) /\ NoRepeats(system)
      /\ Elements(system) \subseteq Link \ LinkedWhole(p, c)
  BY <1>1, SystemLinked
<1>4. \A l \in LinksOf(p, c) : Sibling(l) \in Elements(whole) => l \in LinkedWhole(p, c)
  BY ArchivesAreMeant
<1>5. /\ libs \in Seq(Link) /\ NoRepeats(libs)
      /\ whole \in Seq(Thing) /\ Len(whole) = Len(libs)
      /\ \A k \in 1..Len(libs) :
           whole[k] = IF FindProject(libs[k]) # None /\ CanLink(p, FindProject(libs[k]))
                      THEN FindProject(libs[k]) ELSE libs[k]
  <2>1. libs \in Seq(Link) /\ NoRepeats(libs)
    BY <1>1, WorkspaceFacts
  <2> QED BY <1>1, <2>1, WholeFacts
<1>6. ASSUME NEW v \in Elements(libs), NEW w \in Elements(libs),
             FindProject(v) # None, FindProject(v) = FindProject(w)
      PROVE  v = w
  <2>1. /\ v \in {Bare[l] : l \in LinksOf(p, c)}
        /\ \A l \in LinksOf(p, c) : Sibling(l) = FindProject(v) => Bare[l] = v
        /\ \A l \in LinksOf(p, c) : Sibling(l) = FindProject(w) => Bare[l] = w
    BY <1>6 DEF ArchivesLinked, HasConfig
  <2>2. PICK l \in LinksOf(p, c) : v = Bare[l]
    BY <2>1
  <2> QED BY <1>6, <2>1, <2>2 DEF Sibling
<1>7. \A l \in Elements(libs) : l \in LinkedWhole(p, c)
  <2>1. Elements(libs) \subseteq Link
    BY <1>5, ElementsType
  <2> QED BY <2>1 DEF LinkedWhole
<1> HIDE DEF siblings, system, whole, libs
<1>8. \A k \in 1..Len(libs) : libs[k] \in Link /\ libs[k] \in Elements(libs) /\ libs[k] \notin Project
  <2>1. \A k \in 1..Len(libs) : libs[k] \in Link
    BY <1>5
  <2> QED BY <2>1, NameAssumption DEF Elements
<1>9. \A k \in 1..Len(libs) : \/ whole[k] = libs[k]
                              \/ /\ whole[k] = FindProject(libs[k]) /\ FindProject(libs[k]) # None
                                 /\ FindProject(libs[k]) \in Project
  BY <1>5, FindProjectFacts
<1>10. NoRepeats(whole)
  <2> SUFFICES ASSUME NEW k \in 1..Len(libs), NEW m \in 1..Len(libs), whole[k] = whole[m]
               PROVE  libs[k] = libs[m]
    BY <1>5 DEF NoRepeats
  <2> QED BY <1>6, <1>8, <1>9
<1>11. ASSUME NEW x \in Elements(whole) PROVE x \notin Elements(system) /\ x \notin Elements(siblings)
  <2>1. PICK k \in 1..Len(libs) : x = whole[k]
    BY <1>5 DEF Elements
  <2>2. x \notin Elements(system)
    BY <1>3, <1>7, <1>8, <1>9, <2>1, NameAssumption
  <2>3. x \notin Elements(siblings)
    BY <1>2, <1>4
  <2> QED BY <2>2, <2>3
<1>12. NoRepeats(siblings \o system) /\ siblings \o system \in Seq(Thing)
       /\ Elements(siblings \o system) = Elements(siblings) \union Elements(system)
  <2>1. Elements(siblings) \intersect Elements(system) = {}
    BY <1>2, <1>3, NameAssumption
  <2>2. siblings \o system \in Seq(Thing)
    BY <1>2, <1>3
  <2> QED BY <1>2, <1>3, <2>1, <2>2, NoRepeatsConcat, ElementsConcat
<1> DEFINE plain == siblings \o system
<1>13. plain \in Seq(Thing) /\ NoRepeats(plain) /\ Elements(plain) \intersect Elements(whole) = {}
  BY <1>11, <1>12
<1> HIDE DEF plain
<1>14. NoRepeats(plain \o whole)
  BY <1>5, <1>10, <1>13, NoRepeatsConcat
<1> QED BY <1>14 DEF plain, siblings, system, whole

-----------------------------------------------------------------------------
(* The inductive invariant                                                 *)

\* What the file of p says to the linker
NetLine(p) == IF exporter = "gmake" THEN NetMakefileLine(p) ELSE NetProjectLine(p)

LineOf(p) ==
  IF Net(p) THEN NetLine(p)
  ELSE IF exporter = "gmake" THEN MakefileLine(p) ELSE ProjectLine(p)

\* The lists that are kept are those that would be computed.
Cache ==
  /\ dependencies \in [Project -> [Mode -> Seq(Project \union {None}) \union {None}]]
  /\ \A p \in Project, m \in Mode : dependencies[p][m] \in {None, Depends(p, m)}

\* The rule of p names all that its configurations link.
Ordered(p) ==
  \A c \in Elements(wks.configs[p]) : \A l \in LinksOf(p, c) \ {NameOf[p]} :
    FindProject(l) # None => FindProject(l) \in rule[p]

\* The file of p is written.
Written(p) ==
  /\ line[p] = LineOf(p) /\ Ordered(p) /\ ~ Stops(p)

LinksIInv ==
  /\ wks \in Workspace /\ exporter \in {"gmake", "vstudio"} /\ todo \in Seq(Project)
  /\ Cache
  /\ rule \in [Project -> SUBSET Project]
  /\ DOMAIN line = Project /\ line \in [Project -> {line[p] : p \in Project}]
  /\ \A p \in Project \ Elements(todo) : Written(p)
  /\ phase = "workspace" => Elements(todo) = Project
  /\ (exporter = "gmake" /\ phase # "workspace") => \A p \in Project : Ordered(p)
  /\ phase = "build" => todo = << >>

\* Kept or not, the list of dependencies is the same.
LEMMA CachedIsComputed ==
  ASSUME Cache, NEW p \in Project, NEW m \in Mode
  PROVE  GetDependencies(p, m) = Depends(p, m)
BY DEF Cache, GetDependencies

\* What is read of the workspace does not change.
LEMMA SteadyReads ==
  ASSUME UNCHANGED wks
  PROVE  /\ \A p, m : Depends(p, m)' = Depends(p, m)
         /\ \A p, c : HasConfig(p, c)' = HasConfig(p, c)
         /\ \A p, q : CanLink(p, q)' = CanLink(p, q)
         /\ \A p, c, kind : GetLinks(p, c, kind, TRUE)' = GetLinks(p, c, kind, TRUE)
         /\ \A p, c, kind : GetLinks(p, c, kind, FALSE)' = GetLinks(p, c, kind, FALSE)
         /\ \A p, c : GetWholeArchive(p, c)' = GetWholeArchive(p, c)
         /\ \A p : Net(p)' = Net(p) /\ Stops(p)' = Stops(p)
         /\ \A p, c : LinksOf(p, c)' = LinksOf(p, c)
<1>1. \A p, c : HasConfig(p, c)' = HasConfig(p, c)
  BY DEF HasConfig
<1>2. \A p, q : CanLink(p, q)' = CanLink(p, q)
  BY DEF CanLink, Mixed, Managed, Net
<1>3. \A p, l : CanLinkSystem(p, l)' = CanLinkSystem(p, l)
  BY DEF CanLinkSystem, Net
<1>4. \A p, c, kind, l : Item(p, c, kind, l)' = Item(p, c, kind, l)
  BY <1>1, <1>2, <1>3 DEF Item
<1>5. \A p, c : LinkedWhole(p, c)' = LinkedWhole(p, c)
  BY DEF LinkedWhole
<1>6. \A p, c, kind : GetLinks(p, c, kind, TRUE)' = GetLinks(p, c, kind, TRUE)
  BY <1>4, <1>5 DEF GetLinks, Items
<1>7. \A p, c, kind : GetLinks(p, c, kind, FALSE)' = GetLinks(p, c, kind, FALSE)
  BY <1>4, <1>5 DEF GetLinks, Items
<1>8. \A p, c : GetWholeArchive(p, c)' = GetWholeArchive(p, c)
  BY <1>2 DEF GetWholeArchive
<1>9. \A p, c, m : Names(p, c, m)' = Names(p, c, m)
  BY DEF Names
<1>10. \A p, m : Depends(p, m)' = Depends(p, m)
  BY <1>9 DEF Depends
<1>11. \A p : Net(p)' = Net(p) /\ Stops(p)' = Stops(p)
  <2>1. \A p, c : Fails(p, c)' = Fails(p, c)
    BY <1>1 DEF Fails
  <2> QED BY <2>1 DEF Net, Stops
<1>12. \A p, c : LinksOf(p, c)' = LinksOf(p, c)
  BY DEF LinksOf
<1> QED BY <1>1, <1>2, <1>6, <1>7, <1>8, <1>10, <1>11, <1>12

LEMMA SteadyLines ==
  ASSUME UNCHANGED <<wks, exporter>>, Cache, Cache', NEW p \in Project
  PROVE  LineOf(p)' = LineOf(p)
<1> DEFINE Deps == GetDependencies(p, "linkOnly")
<1>1. Deps' = Deps
  <2>1. "linkOnly" \in Mode
    BY DEF Mode
  <2>2. Deps = Depends(p, "linkOnly")
    BY <2>1, CachedIsComputed
  <2>3. Deps' = Depends(p, "linkOnly")'
    <3>1. dependencies'[p]["linkOnly"] \in {None, Depends(p, "linkOnly")'}
      BY <2>1 DEF Cache
    <3> QED BY <3>1 DEF GetDependencies
  <2> QED BY <2>2, <2>3, SteadyReads
<1>2. MakefileLine(p)' = MakefileLine(p)
  BY SteadyReads DEF MakefileLine
<1>3. \A c : NeedsExplicitLink(p, c)' = NeedsExplicitLink(p, c)
  BY <1>1, SteadyReads DEF NeedsExplicitLink
<1>4. \A c : LinkedReferences(p, c)' = LinkedReferences(p, c)
  BY <1>1, SteadyReads DEF LinkedReferences
<1>5. ProjectLine(p)' = ProjectLine(p)
  BY <1>3, <1>4, SteadyReads DEF ProjectLine
<1>6. NetLine(p)' = NetLine(p)
  <2>1. NetMakefileLine(p)' = NetMakefileLine(p)
    BY SteadyReads DEF NetMakefileLine
  <2>2. NetProjectLine(p)' = NetProjectLine(p)
    BY <1>4, SteadyReads DEF NetProjectLine
  <2> QED BY <2>1, <2>2 DEF NetLine
<1>7. Net(p)' = Net(p)
  BY SteadyReads
<1> QED BY <1>2, <1>5, <1>6, <1>7 DEF LineOf

\* A list that is computed and kept keeps the cache true.
LEMMA CacheKept ==
  ASSUME LinksIInv, UNCHANGED wks, NEW m \in Mode,
         \/ dependencies' = [p \in Project |-> [dependencies[p] EXCEPT ![m] = GetDependencies(p, m)]]
         \/ \E p \in Project : dependencies' = Cached(p, m)
         \/ UNCHANGED dependencies
  PROVE  Cache'
<1> DEFINE Lists == Seq(Project \union {None}) \union {None}
<1>1. /\ dependencies \in [Project -> [Mode -> Lists]]
      /\ \A p \in Project, n \in Mode : dependencies[p][n] \in {None, Depends(p, n)}
  BY DEF LinksIInv, Cache
<1>2. \A p \in Project, n \in Mode : GetDependencies(p, n) = Depends(p, n) /\ Depends(p, n) \in Lists
  BY CachedIsComputed, DependsFacts DEF LinksIInv
<1> HIDE DEF Lists
<1>3. /\ dependencies' \in [Project -> [Mode -> Lists]]
      /\ \A p \in Project, n \in Mode : dependencies'[p][n] \in {dependencies[p][n], Depends(p, n)}
  <2>1. CASE dependencies' = [p \in Project |-> [dependencies[p] EXCEPT ![m] = GetDependencies(p, m)]]
    BY <1>1, <1>2, <2>1
  <2>2. CASE \E p \in Project : dependencies' = Cached(p, m)
    BY <1>1, <1>2, <2>2 DEF Cached
  <2>3. CASE UNCHANGED dependencies
    BY <1>1, <2>3
  <2> QED BY <2>1, <2>2, <2>3
<1>4. \A p \in Project, n \in Mode : Depends(p, n)' = Depends(p, n)
  BY SteadyReads
<1>5. \A p \in Project, n \in Mode : dependencies'[p][n] \in {None, Depends(p, n)'}
  BY <1>1, <1>3, <1>4
<1> QED BY <1>3, <1>5 DEF Cache, Lists

\* A rule that has all the dependencies names all links.
LEMMA RuleOrders ==
  ASSUME wks \in Workspace, NEW p \in Project, NEW m \in {"all", "linkOnly"},
         UNCHANGED wks, Elements(Depends(p, m)) \subseteq rule'[p]
  PROVE  Ordered(p)'
<1>1. ASSUME NEW c \in Elements(wks.configs[p]), NEW l \in LinksOf(p, c) \ {NameOf[p]},
             FindProject(l) # None
      PROVE  FindProject(l) \in rule'[p]
  <2>1. c \in Config
    BY WorkspaceFacts DEF HasConfig
  <2>2. l \in Elements(Names(p, c, m))
    BY <2>1, NamesFacts
  <2> QED BY <1>1, <2>2, DependsFacts
<1>2. \A c : LinksOf(p, c)' = LinksOf(p, c)
  BY SteadyReads
<1> QED BY <1>1, <1>2 DEF Ordered

\* What was written stays so as long as line and rule do not lose anything.
LEMMA WrittenStays ==
  ASSUME LinksIInv, UNCHANGED <<wks, exporter>>, Cache', NEW p \in Project, Written(p),
         line'[p] = line[p], rule[p] \subseteq rule'[p]
  PROVE  Written(p)'
<1>1. LineOf(p)' = LineOf(p)
  BY SteadyLines DEF LinksIInv
<1>2. Ordered(p)'
  BY SteadyReads DEF Written, Ordered
<1>3. Stops(p)' = Stops(p)
  BY SteadyReads
<1> QED BY <1>1, <1>2, <1>3 DEF Written

LEMMA OrderedStays ==
  ASSUME UNCHANGED wks, NEW p, Ordered(p), rule[p] \subseteq rule'[p]
  PROVE  Ordered(p)'
BY SteadyReads DEF Ordered

\* The file at the head of the list is written: what changes and what stays
LEMMA FileWritten ==
  ASSUME LinksIInv, todo # << >>, NEW h, h = Head(todo),
         UNCHANGED <<wks, exporter>>, todo' = Tail(todo), Cache',
         rule' \in [Project -> SUBSET Project], \A p \in Project : rule[p] \subseteq rule'[p],
         line' = [line EXCEPT ![h] = LineOf(h)], Ordered(h)',
         ~ Stops(h)
  PROVE  /\ todo' \in Seq(Project)
         /\ DOMAIN line' = Project /\ line' \in [Project -> {line'[p] : p \in Project}]
         /\ \A p \in Project \ Elements(todo') : Written(p)'
<1>1. /\ h \in Project /\ Tail(todo) \in Seq(Project)
      /\ Elements(todo) = {h} \union Elements(Tail(todo))
  BY ElementsHeadTail DEF LinksIInv
<1>2. DOMAIN line = Project /\ line \in [Project -> {line[p] : p \in Project}]
  BY DEF LinksIInv
<1>4. line' = [p \in Project |-> line'[p]] /\ line'[h] = LineOf(h)
      /\ \A p \in Project \ {h} : line'[p] = line[p]
  BY <1>1, <1>2
<1>5. DOMAIN line' = Project /\ line' \in [Project -> {line'[p] : p \in Project}]
  BY <1>4
<1>6. ASSUME NEW p \in Project \ Elements(todo') PROVE Written(p)'
  <2>1. CASE p = h
    <3>1. LineOf(p)' = LineOf(p)
      BY <1>1, <2>1, SteadyLines DEF LinksIInv
    <3>2. Stops(p)' = Stops(p)
      BY SteadyReads
    <3> QED BY <1>4, <2>1, <3>1, <3>2 DEF Written
  <2>2. CASE p # h
    <3>1. Written(p) /\ line'[p] = line[p]
      BY <1>1, <1>4, <2>2 DEF LinksIInv
    <3> QED BY <3>1, WrittenStays
  <2> QED BY <2>1, <2>2
<1> QED BY <1>1, <1>5, <1>6

THEOREM LinksInvariance == LinksSpec => []LinksIInv
<1>1. LinksInit => LinksIInv
  <2> SUFFICES ASSUME LinksInit PROVE LinksIInv
    OBVIOUS
  <2>1. Projects \in Seq(Project) /\ Elements(Projects) = Project
    BY NameAssumption DEF Elements, Project
  <2>2. Cache
    BY DEF LinksInit, Cache
  <2> QED BY <2>1, <2>2 DEF LinksInit, LinksIInv
<1>2. LinksIInv /\ [LinksNext]_linksVars => LinksIInv'
  <2> SUFFICES ASSUME LinksIInv, [LinksNext]_linksVars PROVE LinksIInv'
    OBVIOUS
  <2>0. /\ wks \in Workspace /\ exporter \in {"gmake", "vstudio"} /\ todo \in Seq(Project)
        /\ rule \in [Project -> SUBSET Project]
        /\ DOMAIN line = Project /\ line \in [Project -> {line[p] : p \in Project}]
        /\ "all" \in Mode /\ "linkOnly" \in Mode /\ "dependOnly" \in Mode
    BY DEF LinksIInv, Mode
  <2>1. \A p \in Project, m \in Mode : GetDependencies(p, m) = Depends(p, m)
    BY CachedIsComputed DEF LinksIInv
  <2>2. \A p \in Project, m \in Mode : Elements(Depends(p, m)) \subseteq Project
    BY <2>0, DependsFacts
  <2>3. CASE WorkspaceMakefile
    <3>1. UNCHANGED <<wks, exporter, todo, line>> /\ exporter = "gmake" /\ phase' = "projects"
      BY <2>3 DEF WorkspaceMakefile
    <3>2. Cache'
      BY <2>0, <2>3, CacheKept DEF WorkspaceMakefile
    <3>3. /\ rule' = [p \in Project |-> Elements(Depends(p, "all"))]
          /\ rule' \in [Project -> SUBSET Project]
      BY <2>0, <2>1, <2>2, <2>3 DEF WorkspaceMakefile
    <3>4. \A p \in Project : Ordered(p)'
      BY <2>0, <3>1, <3>3, RuleOrders
    <3>5. Elements(todo) = Project
      BY <2>3 DEF WorkspaceMakefile, LinksIInv
    <3> QED BY <2>0, <3>1, <3>2, <3>3, <3>4, <3>5 DEF LinksIInv
  <2>4. CASE SolutionFile
    <3>1. UNCHANGED <<wks, exporter, todo, line>> /\ exporter = "vstudio" /\ phase' = "projects"
      BY <2>4 DEF SolutionFile
    <3>2. Cache'
      BY <2>0, <2>4, CacheKept DEF SolutionFile
    <3>3. rule' \in [Project -> SUBSET Project]
      BY <2>0, <2>1, <2>2, <2>4 DEF SolutionFile
    <3>4. Elements(todo) = Project
      BY <2>4 DEF SolutionFile, LinksIInv
    <3> QED BY <2>0, <3>1, <3>2, <3>3, <3>4 DEF LinksIInv
  <2>5. CASE ProjectMakefile
    <3> DEFINE h == Head(todo)
    <3>1. /\ UNCHANGED <<wks, exporter, phase, dependencies, rule>> /\ todo # << >> /\ todo' = Tail(todo)
          /\ exporter = "gmake" /\ phase = "projects"
          /\ ~ Stops(h)
          /\ line' = [line EXCEPT ![h] = LineOf(h)]
      BY <2>5 DEF ProjectMakefile, LineOf, NetLine
    <3>2. PICK g : g = h
      OBVIOUS
    <3>3. g \in Project
      BY <2>0, <3>1, <3>2, ElementsHeadTail
    <3>4. Cache'
      BY <2>0, <3>1, CacheKept
    <3>5. \A p \in Project : Ordered(p)'
      BY <3>1, OrderedStays DEF LinksIInv
    <3>6. /\ todo' \in Seq(Project)
          /\ DOMAIN line' = Project /\ line' \in [Project -> {line'[p] : p \in Project}]
          /\ \A p \in Project \ Elements(todo') : Written(p)'
      BY <2>0, <3>1, <3>2, <3>3, <3>4, <3>5, FileWritten
    <3> QED BY <2>0, <3>1, <3>4, <3>5, <3>6 DEF LinksIInv
  <2>6. CASE ProjectFile
    <3> DEFINE h == Head(todo)
    <3>1. /\ UNCHANGED <<wks, exporter, phase>> /\ todo # << >> /\ todo' = Tail(todo)
          /\ exporter = "vstudio" /\ phase = "projects"
          /\ ~ Stops(h)
          /\ line' = [line EXCEPT ![h] = LineOf(h)]
          /\ dependencies' = Cached(h, "linkOnly")
          /\ rule' = [rule EXCEPT ![h] = @ \union Elements(GetDependencies(h, "linkOnly"))]
      BY <2>6 DEF ProjectFile, LineOf, NetLine
    <3>2. PICK g : g = h
      OBVIOUS
    <3>3. g \in Project
      BY <2>0, <3>1, <3>2, ElementsHeadTail
    <3>4. Cache'
      BY <2>0, <3>1, <3>2, <3>3, CacheKept
    <3>5. rule' = [rule EXCEPT ![g] = @ \union Elements(Depends(g, "linkOnly"))]
      BY <2>0, <2>1, <3>1, <3>2, <3>3
    <3>6. /\ rule' \in [Project -> SUBSET Project]
          /\ Elements(Depends(g, "linkOnly")) \subseteq rule'[g]
          /\ \A p \in Project : rule[p] \subseteq rule'[p]
      BY <2>0, <2>2, <3>3, <3>5
    <3>7. Ordered(g)'
      BY <2>0, <3>1, <3>3, <3>6, RuleOrders
    <3>8. /\ todo' \in Seq(Project)
          /\ DOMAIN line' = Project /\ line' \in [Project -> {line'[p] : p \in Project}]
          /\ \A p \in Project \ Elements(todo') : Written(p)'
      BY <2>0, <3>1, <3>2, <3>4, <3>6, <3>7, FileWritten
    <3> QED BY <2>0, <3>1, <3>4, <3>6, <3>8 DEF LinksIInv
  <2>7. CASE UNCHANGED <<wks, exporter, todo, dependencies, rule, line>>
             /\ (phase' = "workspace" => phase = "workspace")
             /\ (phase = "workspace" => phase' = "workspace")
             /\ (phase' = "build" => todo = << >>)
    <3>1. Cache'
      BY <2>0, <2>7, CacheKept
    <3>2. \A p \in Project \ Elements(todo') : Written(p)'
      BY <2>7, <3>1, WrittenStays DEF LinksIInv
    <3>3. (exporter = "gmake" /\ phase # "workspace") => \A p \in Project : Ordered(p)'
      BY <2>7, OrderedStays DEF LinksIInv
    <3> QED BY <2>0, <2>7, <3>1, <3>2, <3>3 DEF LinksIInv
  <2>8. CASE FailProject
    BY <2>7, <2>8 DEF FailProject
  <2>9. CASE \E c \in Config : StartBuild(c)
    BY <2>7, <2>9 DEF StartBuild
  <2>10. CASE \E p \in Project : BuildProject(p)
    BY <2>7, <2>10 DEF BuildProject, LinksIInv
  <2>11. CASE UNCHANGED linksVars
    BY <2>7, <2>11 DEF linksVars, LinksIInv
  <2> QED BY <2>3, <2>4, <2>5, <2>6, <2>8, <2>9, <2>10, <2>11 DEF LinksNext
<1> QED BY <1>1, <1>2, PTL DEF LinksSpec

-----------------------------------------------------------------------------
(* What the lines say                                                      *)

\* The line of p for c: these libraries, then those of the system
HasLine(p, c, links, system) == line[p][c].plain = links \o system

\* The libraries are those that are linked one by one or by reference, and
\* those linked whole: system libraries are not projects.
LEMMA LibrariesOfLine ==
  ASSUME LinksIInv, NEW p \in Project, NEW c, HasConfig(p, c),
         NEW links \in Seq(Thing), NEW system \in Seq(Thing), Elements(system) \subseteq Link,
         HasLine(p, c, links, system)
  PROVE  Libraries(p, c) = (Elements(links) \union Elements(line[p][c].whole)) \intersect Project
<1>1. Elements(links \o system) = Elements(links) \union Elements(system)
  BY ElementsConcat
<1> QED BY <1>1, NameAssumption DEF Libraries, HasLine

LEMMA LineMeansLinks ==
  ASSUME LinksIInv, NEW p \in Project \ Elements(todo), NEW c \in Elements(wks.configs[p]),
         ~ Net(p), ArchivesLinked(p),
         exporter = "vstudio" => /\ NotItself(p) /\ Undecorated(p)
                                 /\ NeedsExplicitLink(p, c) \/ wks.type[p].kind # "StaticLib"
  PROVE  Libraries(p, c) = Meant(p, c)
<1> DEFINE siblings == GetLinks(p, c, "siblings", TRUE)
           system == GetLinks(p, c, "system", TRUE)
           whole == GetWholeArchive(p, c)
           depends == Depends(p, "linkOnly")
           dropped == {q \in Project : ~ (HasConfig(q, c) /\ CanLink(p, q))}
           references == Without(depends, dropped)
<1>1. /\ wks \in Workspace /\ HasConfig(p, c) /\ ~ Fails(p, c) /\ line[p] = LineOf(p)
      /\ exporter \in {"gmake", "vstudio"}
  BY DEF LinksIInv, Written, HasConfig, Stops
<1>2. c \in Config
  BY <1>1, WorkspaceFacts
<1>3. siblings \in Seq(Thing) /\ system \in Seq(Thing) /\ Elements(system) \subseteq Link
  BY <1>1, <1>2, SiblingsLinked, SystemLinked
<1>4. (Elements(siblings) \union Elements(whole)) \intersect Project = Meant(p, c)
  BY <1>1, NamedAreMeant
<1>5. CASE line[p][c] = [plain |-> siblings \o system, whole |-> whole]
  <2>0. line[p][c].plain = siblings \o system /\ line[p][c].whole = whole
    <3> HIDE DEF siblings, whole, system
    <3> QED BY <1>5
  <2>1. p \in Project /\ HasLine(p, c, siblings, system)
    BY <2>0 DEF HasLine
  <2> HIDE DEF siblings, whole, system, references, depends
  <2>2. Libraries(p, c) = (Elements(siblings) \union Elements(line[p][c].whole)) \intersect Project
    BY <1>1, <1>3, <2>1, LibrariesOfLine
  <2> QED BY <1>4, <2>0, <2>2
<1>6. CASE /\ line[p][c] = [plain |-> references \o system, whole |-> whole]
           /\ Len(depends) = Len(GetLinks(p, c, "dependencies", FALSE))
           /\ NotItself(p) /\ Undecorated(p)
  <2>1. Elements(references) = Meant(p, c)
    BY <1>1, <1>6, ReferencesAreMeant
  <2>2. Elements(whole) \intersect Project \subseteq Meant(p, c)
    BY <1>1, ArchivesAreMeant
  <2>3. references \in Seq(Thing)
    <3>1. depends \in Seq(Project \union {None})
      BY <1>1, DependsFacts
    <3>2. depends \in Seq(Thing)
      <4> HIDE DEF depends
      <4> QED BY <3>1 DEF Thing
    <3> HIDE DEF depends, dropped
    <3> QED BY <3>2, WithoutType
  <2> HIDE DEF references, whole
  <2>4. line[p][c].plain = references \o system /\ line[p][c].whole = whole
    <3> HIDE DEF system
    <3> QED BY <1>6
  <2>5. p \in Project /\ HasLine(p, c, references, system)
    BY <2>4 DEF HasLine
  <2> HIDE DEF siblings, whole, system, depends
  <2>6. Libraries(p, c) = (Elements(references) \union Elements(line[p][c].whole)) \intersect Project
    BY <1>1, <1>3, <2>3, <2>5, LibrariesOfLine
  <2> QED BY <2>1, <2>2, <2>4, <2>6 DEF Meant
<1>7. CASE exporter = "gmake"
  <2>1. line[p][c] = [plain |-> siblings \o system, whole |-> whole]
    BY <1>1, <1>7 DEF LineOf, MakefileLine
  <2> QED BY <1>5, <2>1
<1>8. CASE exporter = "vstudio"
  <2>1. GetDependencies(p, "linkOnly") = depends
    <3>1. "linkOnly" \in Mode
      BY DEF Mode
    <3> QED BY <3>1, CachedIsComputed DEF LinksIInv
  <2>2. NeedsExplicitLink(p, c) <=> Len(depends) # Len(GetLinks(p, c, "dependencies", FALSE))
    BY <2>1 DEF NeedsExplicitLink
  <2>3. wks.type[p].kind # "StaticLib" => LinkedReferences(p, c) = references
    BY <2>1 DEF LinkedReferences
  <2>4. line[p][c] = [plain |-> (IF NeedsExplicitLink(p, c) THEN siblings ELSE references) \o system,
                      whole |-> whole]
    <3> HIDE DEF references
    <3>1. NeedsExplicitLink(p, c) \/ wks.type[p].kind # "StaticLib"
      BY <1>8
    <3>2. line[p] = ProjectLine(p)
      BY <1>1, <1>8 DEF LineOf
    <3> QED BY <2>3, <3>1, <3>2 DEF ProjectLine
  <2> HIDE DEF references, siblings, system, whole, depends
  <2>5. CASE NeedsExplicitLink(p, c)
    BY <1>5, <2>4, <2>5
  <2>6. CASE ~ NeedsExplicitLink(p, c)
    BY <1>6, <1>8, <2>2, <2>4, <2>6
  <2> QED BY <2>5, <2>6
<1> QED BY <1>1, <1>7, <1>8

\* The line of a .NET project: the projects it depends on, then other libraries.
IsNetLine(p, c, links, system) ==
  /\ HasLine(p, c, links, system) /\ line[p][c].whole = << >>
  /\ links \in Seq(Thing) /\ system \in Seq(Thing) /\ NoRepeats(system)
  /\ Elements(links) \subseteq Project /\ Elements(system) \subseteq Link
  /\ exporter = "gmake" => /\ NoRepeats(links)
                           /\ \A q \in Elements(links) : \E l \in LinksOf(p, c) : Sibling(l) = q
  /\ exporter = "vstudio" => Elements(links) \subseteq Elements(Depends(p, "linkOnly"))

LEMMA NetLineFacts ==
  ASSUME LinksIInv, NEW p \in Project \ Elements(todo), NEW c \in Elements(wks.configs[p]), Net(p)
  PROVE  \E links, system : IsNetLine(p, c, links, system)
<1>1. /\ wks \in Workspace /\ line[p] = NetLine(p) /\ exporter \in {"gmake", "vstudio"}
      /\ p \in Project /\ c \in Config
  BY WorkspaceFacts DEF LinksIInv, Written, LineOf, HasConfig
<1>2. CASE exporter = "gmake"
  <2> DEFINE first  == Head(wks.configs[p])
             links  == GetLinks(p, c, "dependencies", FALSE)
             system == GetLinks(p, first, "system", FALSE)
  <2>1. first \in Config
    <3>1. wks.configs[p] \in Seq(Config) /\ wks.configs[p] # << >>
      BY <1>1, WorkspaceFacts DEF Elements
    <3> QED BY <3>1
  <2>2. /\ links \in Seq(Thing) /\ NoRepeats(links) /\ Elements(links) \subseteq Project
        /\ \A q \in Elements(links) : \E l \in LinksOf(p, c) : Sibling(l) = q
    <3>1. /\ links \in Seq(Thing) /\ NoRepeats(links)
          /\ Elements(links) = {q \in Project : (\E l \in LinksOf(p, c) : Sibling(l) = q) /\ HasConfig(q, c)}
      BY <1>1, DependenciesLinked
    <3> HIDE DEF links
    <3> QED BY <3>1
  <2>3. system \in Seq(Thing) /\ NoRepeats(system) /\ Elements(system) \subseteq Link
    BY <1>1, <2>1, SystemLinked
  <2>4. line[p][c] = [plain |-> links \o system, whole |-> << >>]
    BY <1>1, <1>2 DEF NetLine, NetMakefileLine
  <2> HIDE DEF links, system
  <2>5. HasLine(p, c, links, system) /\ line[p][c].whole = << >>
    BY <2>4 DEF HasLine
  <2> QED BY <1>2, <2>2, <2>3, <2>5 DEF IsNetLine
<1>3. CASE exporter = "vstudio"
  <2> DEFINE depends == Depends(p, "linkOnly")
             dropped == {q \in Project : ~ (HasConfig(q, c) /\ CanLink(p, q))}
             links   == LinkedReferences(p, c)
             system  == GetLinks(p, c, "system", FALSE)
  <2>1. GetDependencies(p, "linkOnly") = depends
    <3>1. "linkOnly" \in Mode
      BY DEF Mode
    <3> QED BY <1>1, <3>1, CachedIsComputed DEF LinksIInv
  <2>2. links = << >> \/ links = Without(depends, dropped)
    BY <2>1 DEF LinkedReferences
  <2>3. depends \in Seq(Thing) /\ Elements(depends) \subseteq Project
    <3>1. depends \in Seq(Project \union {None}) /\ Elements(depends) \subseteq Project
      BY <1>1, DependsFacts
    <3> HIDE DEF depends
    <3> QED BY <3>1 DEF Thing
  <2>4. system \in Seq(Thing) /\ NoRepeats(system) /\ Elements(system) \subseteq Link
    BY <1>1, SystemLinked
  <2>5. line[p][c] = [plain |-> links \o system, whole |-> << >>]
    BY <1>1, <1>3 DEF NetLine, NetProjectLine
  <2> HIDE DEF links, system, depends, dropped
  <2>6. links \in Seq(Thing) /\ Elements(links) \subseteq Elements(depends)
    <3>1. CASE links = << >>
      BY <3>1 DEF Elements
    <3>2. CASE links = Without(depends, dropped)
      BY <2>3, <3>2, WithoutType, WithoutElements
    <3> QED BY <2>2, <3>1, <3>2
  <2>7. HasLine(p, c, links, system) /\ line[p][c].whole = << >>
    BY <2>5 DEF HasLine
  <2> QED BY <1>3, <2>3, <2>4, <2>6, <2>7 DEF IsNetLine, depends
<1> QED BY <1>1, <1>2, <1>3

\* The projects on a line are those that the configuration asks for, whether
\* the file names them or leaves them to references.
THEOREM LineSafety == LinksSpec => []LinesMeanLinks
<1>1. LinksIInv => LinesMeanLinks
  <2> SUFFICES ASSUME LinksIInv, phase = "build", NEW p \in Project,
                      NEW c \in Elements(wks.configs[p]),
                      ~ Net(p), NotItself(p), ArchivesLinked(p),
                      exporter = "vstudio" => Undecorated(p) /\ wks.type[p].kind # "StaticLib"
               PROVE  Libraries(p, c) = Meant(p, c)
    BY DEF LinesMeanLinks
  <2>1. p \notin Elements(todo)
    BY DEF LinksIInv, Elements
  <2> QED BY <2>1, LineMeansLinks
<1> QED BY <1>1, LinksInvariance, PTL

\* Nothing is on a makefile's line twice, also when it is linked whole.
THEOREM OnceSafety == LinksSpec => []LinkedOnce
<1>1. LinksIInv => LinkedOnce
  <2> SUFFICES ASSUME LinksIInv, phase = "build", exporter = "gmake", NEW p \in Project,
                      NEW c \in Elements(wks.configs[p]), ArchivesLinked(p)
               PROVE  NoRepeats(line[p][c].plain \o line[p][c].whole)
    BY DEF LinkedOnce
  <2>1. p \notin Elements(todo)
    BY DEF LinksIInv, Elements
  <2>2. CASE Net(p)
    <3>1. PICK links, system : IsNetLine(p, c, links, system)
      BY <2>1, <2>2, NetLineFacts
    <3>2. /\ links \in Seq(Thing) /\ system \in Seq(Thing) /\ NoRepeats(links) /\ NoRepeats(system)
          /\ Elements(links) \intersect Elements(system) = {}
          /\ line[p][c].plain = links \o system /\ line[p][c].whole = << >>
      BY <3>1, NameAssumption DEF IsNetLine, HasLine
    <3>3. NoRepeats(links \o system) /\ (links \o system) \o << >> = links \o system
      BY <3>2, NoRepeatsConcat
    <3> QED BY <3>2, <3>3
  <2>3. CASE ~ Net(p)
    <3>1. wks \in Workspace /\ HasConfig(p, c) /\ ~ Fails(p, c) /\ line[p] = MakefileLine(p)
      BY <2>1, <2>3 DEF LinksIInv, Written, HasConfig, LineOf, Stops
    <3>2. /\ line[p][c].plain = GetLinks(p, c, "siblings", TRUE) \o GetLinks(p, c, "system", TRUE)
          /\ line[p][c].whole = GetWholeArchive(p, c)
      <4> DEFINE plain == GetLinks(p, c, "siblings", TRUE) \o GetLinks(p, c, "system", TRUE)
                 whole == GetWholeArchive(p, c)
      <4>1. line[p][c] = [plain |-> plain, whole |-> whole]
        BY <3>1 DEF MakefileLine
      <4> HIDE DEF plain, whole
      <4>2. line[p][c].plain = plain /\ line[p][c].whole = whole
        BY <4>1
      <4> QED BY <4>2 DEF plain, whole
    <3> QED BY <3>1, <3>2, LineHasNoRepeats
  <2> QED BY <2>2, <2>3
<1> QED BY <1>1, LinksInvariance, PTL

\* Without cycles no project is built before those in its rule.
LEMMA RuleIsBuilt ==
  ASSUME LinksIInv, Acyclic, NEW p \in Project, BuildProject(p)
  PROVE  rule[p] \ {p} \subseteq built
<1>1. p \notin built /\ (Ready(p) \/ \A q \in Project \ built : ~ Ready(q))
  BY DEF BuildProject
<1>2. rule \in [Project -> SUBSET Project]
  BY DEF LinksIInv
<1>3. CASE Ready(p)
  BY <1>3 DEF Ready
<1>4. CASE \A q \in Project \ built : ~ Ready(q)
  <2> DEFINE left == Project \ built
  <2>1. left \in (SUBSET Project) \ {{}}
    <3>1. p \in left /\ left \subseteq Project
      BY <1>1
    <3> HIDE DEF left
    <3> QED BY <3>1
  <2>2. PICK q \in left : (rule[q] \ {q}) \intersect left = {}
    BY <2>1 DEF Acyclic
  <2>3. Ready(q)
    BY <1>2, <2>2 DEF Ready
  <2> QED BY <1>4, <2>3
<1> QED BY <1>1, <1>3, <1>4

\* The rule of a project names the projects on its lines, but not itself.
LEMMA LibrariesInRule ==
  ASSUME LinksIInv, NEW p \in Project \ Elements(todo), NEW c \in Elements(wks.configs[p]),
         NotItself(p), Undecorated(p), ArchivesLinked(p)
  PROVE  Libraries(p, c) \subseteq rule[p] \ {p}
<1>1. wks \in Workspace /\ p \in Project /\ HasConfig(p, c) /\ Ordered(p) /\ line[p] = LineOf(p)
      /\ exporter \in {"gmake", "vstudio"} /\ ~ Stops(p)
  BY DEF LinksIInv, Written, HasConfig
<1>2. c \in Config
  BY <1>1, WorkspaceFacts
<1>3. ASSUME NEW d \in Elements(wks.configs[p]), NEW l \in LinksOf(p, d), NEW q \in Project,
             Sibling(l) = q
      PROVE  q \in rule[p] \ {p}
  <2>1. q # None /\ q # p
    BY <1>3, NameAssumption DEF NotItself
  <2>2. l # NameOf[p] /\ FindProject(l) = q
    BY <1>1, <1>3, <2>1, LinksAreRead DEF HasConfig
  <2> QED BY <1>1, <2>1, <2>2 DEF Ordered
<1>4. ASSUME NEW q \in Elements(Depends(p, "linkOnly")) PROVE q \in rule[p] \ {p}
  <2>1. q \in Project /\ q # None
    BY <1>1, DependsFacts, NameAssumption
  <2>2. PICK d \in Elements(wks.configs[p]) : \E l \in Elements(Names(p, d, "linkOnly")) : q = FindProject(l)
    BY <1>1, DependsFacts
  <2>3. PICK l \in Elements(Names(p, d, "linkOnly")) : q = FindProject(l)
    BY <2>2
  <2>4. l \in LinksOf(p, d)
    BY <1>1, NamesLinked, WorkspaceFacts DEF HasConfig
  <2>5. Sibling(l) = q
    BY <2>1, <2>3, <2>4 DEF Undecorated, Sibling
  <2> QED BY <1>3, <2>1, <2>4, <2>5
<1>5. CASE Net(p)
  <2>1. PICK links, system : IsNetLine(p, c, links, system)
    BY <1>5, NetLineFacts
  <2>2. Elements(links) \subseteq rule[p] \ {p}
    <3>1. CASE exporter = "gmake"
      BY <1>3, <2>1, <3>1 DEF IsNetLine
    <3>2. CASE exporter = "vstudio"
      BY <1>4, <2>1, <3>2 DEF IsNetLine
    <3> QED BY <1>1, <3>1, <3>2
  <2>3. Libraries(p, c) = (Elements(links) \union Elements(line[p][c].whole)) \intersect Project
    BY <1>1, <2>1, LibrariesOfLine DEF IsNetLine
  <2>4. Elements(line[p][c].whole) = {}
    BY <2>1 DEF IsNetLine, Elements
  <2> QED BY <2>2, <2>3, <2>4
<1>6. CASE /\ ~ Net(p)
           /\ exporter = "gmake" \/ NeedsExplicitLink(p, c) \/ wks.type[p].kind # "StaticLib"
  <2>1. Libraries(p, c) = Meant(p, c)
    BY <1>6, LineMeansLinks
  <2> QED BY <1>3, <2>1 DEF Meant
<1>7. CASE ~ Net(p) /\ exporter = "vstudio" /\ ~ NeedsExplicitLink(p, c) /\ wks.type[p].kind = "StaticLib"
  <2> DEFINE system == GetLinks(p, c, "system", TRUE)
             whole  == GetWholeArchive(p, c)
  <2>1. system \in Seq(Thing) /\ Elements(system) \subseteq Link
    BY <1>1, <1>2, SystemLinked
  <2>2. Elements(whole) \intersect Project \subseteq Meant(p, c)
    BY <1>1, <1>7, ArchivesAreMeant DEF Stops, HasConfig
  <2>3. line[p][c] = [plain |-> << >> \o system, whole |-> whole]
    BY <1>1, <1>7 DEF LineOf, ProjectLine, LinkedReferences
  <2> HIDE DEF system, whole
  <2>4. HasLine(p, c, << >>, system) /\ line[p][c].whole = whole
    BY <2>3 DEF HasLine
  <2>5. << >> \in Seq(Thing) /\ Elements(<< >>) = {}
    BY DEF Elements
  <2>6. Libraries(p, c) = (Elements(<< >>) \union Elements(line[p][c].whole)) \intersect Project
    BY <1>1, <2>1, <2>4, <2>5, LibrariesOfLine
  <2>7. Libraries(p, c) \subseteq Meant(p, c)
    BY <2>2, <2>4, <2>5, <2>6
  <2> QED BY <1>3, <2>7 DEF Meant
<1> QED BY <1>1, <1>5, <1>6, <1>7

\* What a project links is built before it, unless rules go round in a circle.
THEOREM OrderOfBuild == LinksSpec => LibrariesAreBuilt
<1>1. ASSUME LinksIInv, [LinksNext]_linksVars
      PROVE  [\A p \in built' \ built :
                (Acyclic /\ NotItself(p) /\ Undecorated(p) /\ ArchivesLinked(p)) =>
                  Libraries(p, goal) \subseteq built]_linksVars
  <2> SUFFICES ASSUME LinksNext, NEW p \in built' \ built,
                      Acyclic, NotItself(p), Undecorated(p), ArchivesLinked(p)
               PROVE  Libraries(p, goal) \subseteq built
    BY <1>1 DEF linksVars
  <2>1. p \in Project /\ BuildProject(p)
    BY DEF LinksNext, WorkspaceMakefile, SolutionFile, ProjectMakefile, ProjectFile, FailProject,
           StartBuild, BuildProject
  <2>2. p \notin Elements(todo)
    BY <1>1, <2>1 DEF LinksIInv, BuildProject, Elements
  <2>4. CASE ~ HasConfig(p, goal)
    BY <2>4 DEF Libraries
  <2>5. CASE HasConfig(p, goal)
    <3>1. PICK c \in Elements(wks.configs[p]) : c = goal
      BY <2>5 DEF HasConfig
    <3>2. Libraries(p, c) \subseteq rule[p] \ {p}
      BY <1>1, <2>1, <2>2, LibrariesInRule
    <3>3. rule[p] \ {p} \subseteq built
      BY <1>1, <2>1, RuleIsBuilt
    <3> QED BY <3>1, <3>2, <3>3
  <2> QED BY <2>4, <2>5
<1> QED BY <1>1, LinksInvariance, PTL DEF LinksSpec, LibrariesAreBuilt
=============================================================================
