---------------------------- MODULE UsagesProofs ----------------------------
(***************************************************************************)
(* Proofs about Usages: whatever usages a script defines and whatever uses *)
(* what, a configuration receives all that can be reached, dependencies    *)
(* first, and the recursive descent fails on cycles only.                  *)
(***************************************************************************)
EXTENDS Usages, Induction, TLAPS

-----------------------------------------------------------------------------
(* What can be reached                                                     *)

\* S holds us, and what the function used gives for its members.
Closed(S, us, used) == us \subseteq S /\ \A u \in S : used[u] \subseteq S

\* The closure in a finite set is closed, and included in whatever is.
THEOREM ClosureFacts ==
  ASSUME NEW D, IsFiniteSet(D), NEW used \in [D -> SUBSET D], NEW us \in SUBSET D
  PROVE  /\ Closure(us, used) \subseteq D
         /\ Closed(Closure(us, used), us, used)
         /\ \A S \in SUBSET D : Closed(S, us, used) => Closure(us, used) \subseteq S
<1> DEFINE n == Cardinality(D)
           More(W) == W \union UNION {used[u] : u \in W}
           V == SUBSET D
           g == [p \in (1..n) \X V |-> More(p[2])]
           Defines(f) == f = [k \in 0..Cardinality(DOMAIN used) |->
                                IF k = 0 THEN us
                                ELSE LET near == f[k - 1]
                                     IN  near \union UNION {used[u] : u \in near}]
           F == CHOOSE f : Defines(f)
<1>1. n \in Nat /\ Cardinality(DOMAIN used) = n
  BY FS_CardinalityType
<1>2. \A W \in V : More(W) \in V
  OBVIOUS
<1>3. Closure(us, used) = F[n]
  BY <1>1 DEF Closure
<1>4. g \in [(1..n) \X V -> V] /\ \A k \in 1..n, W \in V : g[<<k, W>>] = More(W)
  <2> HIDE DEF V, More, n
  <2>1. \A p \in (1..n) \X V : p[2] \in V
    OBVIOUS
  <2>2. \A k \in 1..n, W \in V : <<k, W>> \in (1..n) \X V
    OBVIOUS
  <2> QED BY <1>2, <2>1, <2>2
<1>5. PICK f : Recurses(f, n, V, us, g)
  <2>1. us \in V
    OBVIOUS
  <2> HIDE DEF g, n, V
  <2> QED BY <1>1, <1>4, <2>1, RecursionExists
<1>6. f \in [0..n -> V] /\ f[0] = us /\ \A k \in 1..n : f[k] = More(f[k - 1])
  <2> HIDE DEF g, V, More, n
  <2>1. f \in [0..n -> V] /\ f[0] = us /\ \A k \in 1..n : f[k] = g[<<k, f[k - 1]>>]
    BY <1>5 DEF Recurses
  <2>2. \A k \in 1..n : f[k - 1] \in V
    BY <1>1, <2>1
  <2> QED BY <1>4, <2>1, <2>2
<1>7. Defines(f)
  <2> HIDE DEF n, V
  <2>1. f = [k \in 0..n |-> IF k = 0 THEN us ELSE More(f[k - 1])]
    <3> HIDE DEF More
    <3>1. \A k \in 0..n : k = 0 \/ k \in 1..n
      BY <1>1
    <3> QED BY <1>6, <3>1
  <2> QED BY <1>1, <2>1
<1>8. F[0] = us /\ \A k \in 1..n : F[k] = More(F[k - 1])
  <2>1. Defines(F)
    <3> HIDE DEF Defines
    <3> QED BY <1>7
  <2>2. F = [k \in 0..n |-> IF k = 0 THEN us ELSE More(F[k - 1])]
    <3> HIDE DEF F, n
    <3> QED BY <1>1, <2>1
  <2> HIDE DEF F, More, n, Defines
  <2>3. 0 \in 0..n /\ \A k \in 1..n : k \in 0..n /\ k # 0
    BY <1>1
  <2> QED BY <2>2, <2>3
<1> HIDE DEF F, Defines, g
<1>9. \A k \in 0..n : F[k] \in V
  <2> DEFINE T == {k \in 0..n : F[k] \in V}
  <2>1. 0 \in T
    BY <1>1, <1>8
  <2>2. ASSUME NEW k \in 1..n, k - 1 \in T PROVE k \in T
    <3>1. F[k] = More(F[k - 1]) /\ F[k - 1] \in V
      BY <1>8, <2>2
    <3> HIDE DEF V, More
    <3> QED BY <1>1, <1>2, <3>1
  <2>3. 0..n \subseteq T
    <3> HIDE DEF T, n
    <3>1. \A k \in 1..n : k - 1 \in T => k \in T
      BY <2>2
    <3> QED BY <1>1, <2>1, <3>1, InductionUpTo
  <2> QED BY <2>3
<1>10. \A k \in 0..n : us \subseteq F[k]
  <2> DEFINE T == {k \in 0..n : us \subseteq F[k]}
  <2>1. 0 \in T
    BY <1>1, <1>8
  <2>2. ASSUME NEW k \in 1..n, k - 1 \in T PROVE k \in T
    <3>1. F[k] = More(F[k - 1]) /\ us \subseteq F[k - 1]
      BY <1>8, <2>2
    <3> QED BY <1>1, <3>1
  <2>3. 0..n \subseteq T
    <3> HIDE DEF T, n
    <3>1. \A k \in 1..n : k - 1 \in T => k \in T
      BY <2>2
    <3> QED BY <1>1, <2>1, <3>1, InductionUpTo
  <2> QED BY <2>3
<1>11. ASSUME NEW S \in SUBSET D, Closed(S, us, used) PROVE F[n] \subseteq S
  <2> DEFINE T == {k \in 0..n : F[k] \subseteq S}
  <2>1. 0 \in T
    BY <1>1, <1>8, <1>11 DEF Closed
  <2>2. ASSUME NEW k \in 1..n, k - 1 \in T PROVE k \in T
    <3>1. F[k] = More(F[k - 1]) /\ F[k - 1] \subseteq S
      BY <1>8, <2>2
    <3> QED BY <1>1, <1>11, <3>1 DEF Closed
  <2>3. 0..n \subseteq T
    <3> HIDE DEF T, n
    <3>1. \A k \in 1..n : k - 1 \in T => k \in T
      BY <2>2
    <3> QED BY <1>1, <2>1, <3>1, InductionUpTo
  <2> QED BY <1>1, <2>3
\* As long as something is added the set grows, and there is no more than D.
<1>12. More(F[n]) = F[n]
  <2> DEFINE T == {k \in 0..n : More(F[k]) = F[k] \/ Cardinality(F[k]) >= k}
  <2>1. 0 \in T
    <3>1. Cardinality(F[0]) \in Nat
      BY <1>1, <1>9, FS_Subset, FS_CardinalityType
    <3> QED BY <1>1, <3>1
  <2>2. ASSUME NEW k \in 1..n, k - 1 \in T PROVE k \in T
    <3>1. F[k] = More(F[k - 1]) /\ k \in 0..n /\ k - 1 \in 0..n
      BY <1>1, <1>8
    <3>2. CASE More(F[k - 1]) = F[k - 1]
      BY <3>1, <3>2
    <3>3. CASE More(F[k - 1]) # F[k - 1] /\ Cardinality(F[k - 1]) >= k - 1
      <4>1. F[k - 1] \in SUBSET F[k] /\ F[k - 1] # F[k]
        BY <3>1, <3>3
      <4>2. IsFiniteSet(F[k]) /\ IsFiniteSet(F[k - 1])
        BY <1>9, <3>1, FS_Subset
      <4>3. /\ Cardinality(F[k]) \in Nat /\ Cardinality(F[k - 1]) \in Nat
            /\ Cardinality(F[k - 1]) <= Cardinality(F[k])
            /\ Cardinality(F[k - 1]) # Cardinality(F[k])
        BY <4>1, <4>2, FS_Subset, FS_CardinalityType
      <4>4. Cardinality(F[k]) >= k
        BY <1>1, <3>3, <4>3
      <4> QED BY <3>1, <4>4
    <3> QED BY <2>2, <3>2, <3>3
  <2>3. 0..n \subseteq T
    <3> HIDE DEF T, n
    <3>1. \A k \in 1..n : k - 1 \in T => k \in T
      BY <2>2
    <3> QED BY <1>1, <2>1, <3>1, InductionUpTo
  <2>4. n \in T
    BY <1>1, <2>3
  <2>5. CASE Cardinality(F[n]) >= n
    <3>1. F[n] \in SUBSET D
      BY <1>1, <1>9
    <3>2. Cardinality(F[n]) <= n /\ Cardinality(F[n]) \in Nat
      BY <3>1, FS_Subset, FS_CardinalityType
    <3>3. Cardinality(F[n]) = n
      BY <1>1, <2>5, <3>2
    <3>4. F[n] = D
      BY <3>1, <3>3, FS_Subset
    <3> QED BY <3>4
  <2> QED BY <2>4, <2>5
<1>13. Closed(F[n], us, used)
  BY <1>1, <1>10, <1>12 DEF Closed
<1> QED BY <1>1, <1>3, <1>9, <1>11, <1>13

-----------------------------------------------------------------------------
(* What a script defines                                                   *)

Us == Usages(script)

LEMMA FirstIsMember ==
  ASSUME NEW T \in SUBSET Nat, T # {}
  PROVE  First(T) \in T
BY LeastNat DEF First

LEMMA ScriptFacts ==
  ASSUME script \in Script
  PROVE  /\ \E i \in 1..Len(script.workspaces) : script.workspaces[i] # << >>
         /\ script.workspaces \in Seq(Seq(Project))
         /\ script.usages \subseteq Project \X UsageName
         /\ \A p \in Project : /\ script.cfgs[p] \in Seq(Buildcfg) /\ script.cfgs[p] # << >>
         /\ IsFiniteSet(Us) /\ Cardinality(Us) \in Nat /\ Cardinality(Us) < MaxDepth
         /\ script.uses \in [Config -> Seq(UsageName)]
         /\ script.usageUses \in [Us -> Seq(UsageName)]
         /\ script.own \in [Config -> [list : Seq(Value), string : Value \union {Nil}]]
         /\ script.gives \in [Us -> Seq(Given)]
<1>1. IsFiniteSet(Us) /\ Cardinality(Us) \in Nat
  BY ScriptAssumption, FS_CardinalityType DEF Us
<1> QED BY <1>1, ScriptAssumption DEF Us

\* The usages that a name stands for are defined, and PRIVATE only if it is
\* named so.
Means(found, name) ==
  /\ found \in Seq(script.usages)
  /\ \A i \in 1..Len(found) : name # Private => found[i][2] # Private

LEMMA DefinedType ==
  ASSUME NEW p, NEW u
  PROVE  /\ Defined(p, u) \in Seq(script.usages)
         /\ \A i \in 1..Len(Defined(p, u)) : Defined(p, u)[i][2] = u
<1>1. CASE <<p, u>> \in script.usages
  <2> DEFINE m == <<p, u>>
  <2>1. m[2] = u /\ m \in script.usages
    BY <1>1
  <2> HIDE DEF m
  <2>2. <<m>> \in Seq(script.usages) /\ \A i \in 1..Len(<<m>>) : <<m>>[i] = m
    BY <2>1, OneItem
  <2>4. Defined(p, u) = <<m>>
    BY <1>1 DEF Defined, m
  <2> QED BY <2>1, <2>2, <2>4
<1>2. CASE <<p, u>> \notin script.usages
  BY <1>2 DEF Defined
<1> QED BY <1>1, <1>2

LEMMA FindInWorkspaceType ==
  ASSUME NEW projects \in Seq(Project), NEW name, FindInWorkspace(projects, name) # Nil
  PROVE  Means(FindInWorkspace(projects, name), name)
<1> DEFINE named    == {i \in 1..Len(projects) : script.name[projects[i]] = name}
           defining == {i \in 1..Len(projects) : <<projects[i], name>> \in script.usages}
           found    == FindInWorkspace(projects, name)
<1>1. CASE named # {}
  <2> DEFINE p == projects[First(named)]
             s == Defined(p, Public)
             t == Defined(p, Interface)
  <2>1. found = s \o t
    BY <1>1 DEF FindInWorkspace
  <2>2. /\ s \in Seq(script.usages) /\ \A i \in 1..Len(s) : s[i][2] = Public
        /\ t \in Seq(script.usages) /\ \A i \in 1..Len(t) : t[i][2] = Interface
    BY DefinedType
  <2> HIDE DEF s, t, found
  <2>3. found \in Seq(script.usages)
    BY <2>1, <2>2
  <2>4. ASSUME NEW i \in 1..Len(found) PROVE found[i][2] \in {Public, Interface}
    <3>1. Len(s) \in Nat /\ Len(t) \in Nat /\ Len(found) = Len(s) + Len(t)
      BY <2>1, <2>2
    <3>2. found[i] = IF i <= Len(s) THEN s[i] ELSE t[i - Len(s)]
      BY <2>1, <2>2
    <3>3. CASE i <= Len(s)
      <4>1. i \in 1..Len(s)
        BY <3>1, <3>3
      <4> QED BY <2>2, <3>2, <3>3, <4>1
    <3>4. CASE ~ (i <= Len(s))
      <4>1. i - Len(s) \in 1..Len(t)
        BY <3>1, <3>4
      <4> QED BY <2>2, <3>2, <3>4, <4>1
    <3> QED BY <3>3, <3>4
  <2> QED BY <2>3, <2>4, NameAssumption DEF Means, found
<1>2. CASE named = {} /\ defining # {}
  <2> DEFINE m == <<projects[First(defining)], name>>
  <2>1. defining \in SUBSET Nat
    OBVIOUS
  <2>2. First(defining) \in defining
    <3> HIDE DEF defining
    <3> QED BY <1>2, <2>1, FirstIsMember
  <2>3. m \in script.usages /\ m[2] = name
    BY <2>2
  <2>4. found = <<m>>
    BY <1>2 DEF FindInWorkspace
  <2> HIDE DEF m, found
  <2>5. <<m>> \in Seq(script.usages) /\ \A i \in 1..Len(<<m>>) : <<m>>[i] = m
    BY <2>3, OneItem
  <2> QED BY <2>3, <2>4, <2>5 DEF Means, found
<1>3. CASE named = {} /\ defining = {}
  BY <1>3 DEF FindInWorkspace
<1> QED BY <1>1, <1>2, <1>3

LEMMA FindGlobalType ==
  ASSUME script \in Script, NEW name
  PROVE  Means(FindGlobal(name), name)
<1> DEFINE Found == {i \in 1..Len(script.workspaces) :
                       FindInWorkspace(script.workspaces[i], name) # Nil}
<1>1. CASE Found = {}
  BY <1>1 DEF FindGlobal, Means
<1>2. CASE Found # {}
  <2>1. Found \in SUBSET Nat
    OBVIOUS
  <2>2. First(Found) \in Found
    <3> HIDE DEF Found
    <3> QED BY <1>2, <2>1, FirstIsMember
  <2>3. script.workspaces[First(Found)] \in Seq(Project)
    <3>1. First(Found) \in 1..Len(script.workspaces)
      BY <2>2
    <3>2. script.workspaces \in Seq(Seq(Project))
      BY ScriptFacts
    <3> HIDE DEF Found
    <3> QED BY <3>1, <3>2
  <2>4. FindGlobal(name) = FindInWorkspace(script.workspaces[First(Found)], name)
    BY <1>2 DEF FindGlobal
  <2> QED BY <2>2, <2>3, <2>4, FindInWorkspaceType
<1> QED BY <1>1, <1>2

\* A usage is found with the project and name asked for.
LEMMA ClosestType ==
  ASSUME script \in Script, NEW m \in script.usages, NEW b
  PROVE  /\ Closest(m[1], m[2], b) \in Us \union {Nil}
         /\ Closest(m[1], m[2], b) # Nil =>
              Closest(m[1], m[2], b)[1] = m[1] /\ Closest(m[1], m[2], b)[2] = m[2]
<1> DEFINE cfgs == script.cfgs[m[1]]
           d == IF b \in Elements(cfgs) THEN b ELSE cfgs[1]
           u == <<m[1], m[2], d>>
<1>1. m[1] \in Project /\ m[2] \in UsageName /\ m = <<m[1], m[2]>>
  BY ScriptFacts
<1>2. cfgs \in Seq(Buildcfg) /\ cfgs # << >>
  BY <1>1, ScriptFacts
<1>3. d \in Elements(cfgs) /\ d \in Buildcfg
  <2>1. cfgs[1] \in Elements(cfgs) /\ Elements(cfgs) \subseteq Buildcfg
    <3> HIDE DEF cfgs
    <3>1. 1 \in 1..Len(cfgs)
      BY <1>2
    <3> QED BY <1>2, <3>1, ElementsType DEF Elements
  <2> HIDE DEF cfgs
  <2> QED BY <2>1
<1>4. u \in Us /\ u[1] = m[1] /\ u[2] = m[2]
  <2> HIDE DEF d
  <2> QED BY <1>1, <1>3 DEF Us, Usages, UsageConfig
<1>5. Closest(m[1], m[2], b) = IF u \in script.unbaked THEN Nil ELSE u
  BY DEF Closest
<1> HIDE DEF u
<1> QED BY <1>4, <1>5

LEMMA UsFacts ==
  /\ Us \subseteq UsageConfig /\ Nil \notin Us
  /\ \A u \in UsageConfig : u \notin Config
  /\ \A u \in Us : u[3] \in Buildcfg /\ u \notin Config
<1>1. ASSUME NEW u \in UsageConfig, u \in Config PROVE FALSE
  <2>1. PICK p \in Project, n \in UsageName, b \in Buildcfg : u = <<p, n, b>>
    BY DEF UsageConfig
  <2>2. PICK q \in Project, d \in Buildcfg : u = <<q, d>>
    BY <1>1 DEF Config
  <2>3. Len(u) = 3 /\ Len(u) = 2
    BY <2>1, <2>2
  <2> QED BY <2>3
<1>2. Us \subseteq UsageConfig /\ \A u \in UsageConfig : u[3] \in Buildcfg
  BY DEF Us, Usages, UsageConfig
<1> QED BY <1>1, <1>2, NilAssumption

-----------------------------------------------------------------------------
(* What names stand for                                                    *)

\* The matches that LookUpName finds.
MatchesOf(name, b) ==
  [i \in 1..Len(FindGlobal(name)) |-> Closest(FindGlobal(name)[i][1], FindGlobal(name)[i][2], b)]

LEMMA MatchesType ==
  ASSUME script \in Script, NEW name, NEW b
  PROVE  /\ MatchesOf(name, b) \in Seq(Us \union {Nil})
         /\ name # Private => \A u \in Elements(MatchesOf(name, b)) \ {Nil} : u[2] # Private
<1> DEFINE found == FindGlobal(name)
           w == MatchesOf(name, b)
<1>1. /\ found \in Seq(script.usages) /\ Len(found) \in Nat
      /\ \A i \in 1..Len(found) : found[i] \in script.usages /\ (name # Private => found[i][2] # Private)
  <2>1. Means(found, name)
    BY FindGlobalType
  <2> HIDE DEF found
  <2> QED BY <2>1 DEF Means
<1>2. w = [i \in 1..Len(found) |-> Closest(found[i][1], found[i][2], b)]
  BY DEF MatchesOf
<1> HIDE DEF found, w
<1>3. \A i \in 1..Len(found) : /\ w[i] = Closest(found[i][1], found[i][2], b)
                               /\ w[i] \in Us \union {Nil}
                               /\ w[i] # Nil => w[i][2] = found[i][2]
  BY <1>1, <1>2, ClosestType
<1>4. w \in Seq(Us \union {Nil}) /\ Len(w) = Len(found)
  BY <1>1, <1>2, <1>3
<1>5. ASSUME name # Private, NEW u \in Elements(w) \ {Nil} PROVE u[2] # Private
  BY <1>1, <1>3, <1>4, <1>5 DEF Elements
<1> QED BY <1>4, <1>5 DEF w

LEMMA UsesAreMatches ==
  ASSUME script \in Script, NEW names, NEW b
  PROVE  \A v : v \in Uses(names, b) <=>
           v # Nil /\ \E i \in 1..Len(names) : v \in Elements(MatchesOf(names[i], b))
<1> DEFINE C(m) == Closest(m[1], m[2], b)
           E(name) == Elements(FindGlobal(name))
           M(name) == Elements(MatchesOf(name, b))
<1>1. ASSUME NEW name PROVE M(name) = {C(m) : m \in E(name)}
  <2> DEFINE found == FindGlobal(name)
             w == MatchesOf(name, b)
  <2>1. Len(found) \in Nat
    <3>1. Means(found, name)
      BY FindGlobalType
    <3> HIDE DEF found
    <3> QED BY <3>1 DEF Means
  <2>2. w = [i \in 1..Len(found) |-> C(found[i])]
    BY DEF MatchesOf
  <2> HIDE DEF found, w, C
  <2>3. Len(w) = Len(found) /\ \A i \in 1..Len(found) : w[i] = C(found[i])
    BY <2>1, <2>2
  <2>4. Elements(w) = {C(m) : m \in Elements(found)}
    BY <2>3 DEF Elements
  <2> QED BY <2>4 DEF found, w
<1>2. Uses(names, b) = {C(m) : m \in UNION {E(names[i]) : i \in 1..Len(names)}} \ {Nil}
  BY DEF Uses
<1> HIDE DEF C, E, M
<1>3. \A v : v \in Uses(names, b) <=> v # Nil /\ \E i \in 1..Len(names) : v \in M(names[i])
  BY <1>1, <1>2
<1> QED BY <1>3 DEF M

LEMMA UsesType ==
  ASSUME script \in Script, NEW names, NEW b
  PROVE  Uses(names, b) \subseteq Us
<1>1. \A name : Elements(MatchesOf(name, b)) \subseteq Us \union {Nil}
  <2>1. \A name : MatchesOf(name, b) \in Seq(Us \union {Nil})
    BY MatchesType
  <2> QED BY <2>1, ElementsType
<1> QED BY <1>1, UsesAreMatches

\* What names stand for, name by name.
LEMMA UsesSplit ==
  ASSUME script \in Script, NEW b
  PROVE  /\ Uses(<< >>, b) = {}
         /\ \A names \in Seq(UsageName) :
              /\ \A name \in Elements(names) : Elements(MatchesOf(name, b)) \subseteq Uses(names, b) \union {Nil}
              /\ names # << >> =>
                   Uses(names, b) \subseteq Elements(MatchesOf(Head(names), b)) \union Uses(Tail(names), b)
<1>1. Uses(<< >>, b) = {}
  <2>1. 1..Len(<< >>) = {}
    OBVIOUS
  <2> QED BY <2>1, UsesAreMatches
<1>2. ASSUME NEW names \in Seq(UsageName), NEW name \in Elements(names)
      PROVE  Elements(MatchesOf(name, b)) \subseteq Uses(names, b) \union {Nil}
  <2>1. PICK i \in 1..Len(names) : names[i] = name
    BY DEF Elements
  <2> QED BY <2>1, UsesAreMatches
<1>3. ASSUME NEW names \in Seq(UsageName), names # << >>
      PROVE  Uses(names, b) \subseteq Elements(MatchesOf(Head(names), b)) \union Uses(Tail(names), b)
  <2>1. ASSUME NEW i \in 1..Len(names)
        PROVE  names[i] = Head(names) \/ \E j \in 1..Len(Tail(names)) : names[i] = Tail(names)[j]
    <3>1. CASE i = 1
      BY <1>3, <3>1
    <3>2. CASE i # 1
      <4>1. i - 1 \in 1..Len(Tail(names)) /\ names[i] = Tail(names)[i - 1]
        BY <1>3, <3>2
      <4> QED BY <4>1
    <3> QED BY <3>1, <3>2
  <2>2. ASSUME NEW v \in Uses(names, b)
        PROVE  v \in Elements(MatchesOf(Head(names), b)) \/ v \in Uses(Tail(names), b)
    <3>1. v # Nil /\ \E i \in 1..Len(names) : v \in Elements(MatchesOf(names[i], b))
      BY UsesAreMatches
    <3>2. (v # Nil /\ \E i \in 1..Len(Tail(names)) : v \in Elements(MatchesOf(Tail(names)[i], b)))
             => v \in Uses(Tail(names), b)
      BY UsesAreMatches
    <3> QED BY <2>1, <3>1, <3>2
  <2> QED BY <2>2
<1> QED BY <1>1, <1>2, <1>3

-----------------------------------------------------------------------------
(* What usages use                                                         *)

LEMMA UsesOfType ==
  ASSUME script \in Script
  PROVE  [u \in Us |-> UsesOf(u)] \in [Us -> SUBSET Us] /\ \A u \in Us : UsesOf(u) \in SUBSET Us
BY UsesType DEF UsesOf

\* What can be reached is closed under use, and no more than has to be.
LEMMA ReachFacts ==
  ASSUME script \in Script, NEW us \in SUBSET Us
  PROVE  /\ us \subseteq Reach(us) /\ Reach(us) \subseteq Us
         /\ \A u \in Reach(us) : UsesOf(u) \subseteq Reach(us)
         /\ \A S \in SUBSET Us : us \subseteq S /\ (\A u \in S : UsesOf(u) \subseteq S) => Reach(us) \subseteq S
<1> DEFINE used == [u \in Us |-> UsesOf(u)]
<1>1. used \in [Us -> SUBSET Us] /\ \A u \in Us : used[u] = UsesOf(u)
  BY UsesOfType
<1>2. IsFiniteSet(Us)
  BY ScriptFacts
<1>3. Reach(us) = Closure(us, used)
  BY DEF Reach, Us
<1> HIDE DEF used
<1>4. /\ Closure(us, used) \subseteq Us /\ Closed(Closure(us, used), us, used)
      /\ \A S \in SUBSET Us : Closed(S, us, used) => Closure(us, used) \subseteq S
  BY <1>1, <1>2, ClosureFacts
<1> QED BY <1>1, <1>3, <1>4 DEF Closed

LEMMA ReachMonotone ==
  ASSUME script \in Script, NEW us \in SUBSET Us, NEW vs \in SUBSET Us, vs \subseteq Reach(us)
  PROVE  Reach(vs) \subseteq Reach(us)
BY ReachFacts

LEMMA OwnUsagesFacts ==
  ASSUME script \in Script, NEW c \in Config
  PROVE  /\ OwnUsages(c) \subseteq Us /\ \A u \in OwnUsages(c) : u[1] = c[1]
         /\ Consumed(c) \subseteq Us
         /\ Uses(script.uses[c], c[2]) \union OwnUsages(c) \subseteq Consumed(c)
         /\ \A u \in Consumed(c) : UsesOf(u) \subseteq Consumed(c)
<1>1. ASSUME NEW u \in OwnUsages(c) PROVE u \in Us /\ u[1] = c[1]
  <2>1. PICK s \in {Public, Private} : <<c[1], s>> \in script.usages /\ u = Closest(c[1], s, c[2]) /\ u # Nil
    BY DEF OwnUsages
  <2> DEFINE m == <<c[1], s>>
  <2>2. m \in script.usages /\ m[1] = c[1] /\ m[2] = s
    BY <2>1
  <2> HIDE DEF m
  <2> QED BY <2>1, <2>2, ClosestType
<1>2. Uses(script.uses[c], c[2]) \union OwnUsages(c) \in SUBSET Us
  BY <1>1, UsesType
<1> QED BY <1>1, <1>2, ReachFacts DEF Consumed

-----------------------------------------------------------------------------
(* The invariant                                                           *)

\* No special usage is named.
Clean(names) == Elements(names) \intersect Special = {}

\* A list of usages in which what a usage uses comes before it, and in which
\* none names a special usage.
Sound(s) ==
  \A j \in 1..Len(s) :
    /\ Clean(script.usageUses[s[j]])
    /\ \A u \in UsesOf(s[j]) : \E i \in 1..(j - 1) : s[i] = u

\* The subject of a call, a configuration or a usage: the names that are looked
\* up for it, for which build configuration, and what they stand for.
NamesOf(x)    == IF x \in Config THEN script.uses[x] ELSE script.usageUses[x]
BuildcfgOf(x) == IF x \in Config THEN x[2] ELSE x[3]
UsedBy(x)     == Uses(NamesOf(x), BuildcfgOf(x))

\* A call has all that its subject uses, apart from what is left to be done, and
\* nothing but what can be reached.
CallInv(f, x) ==
  /\ f \in Frame /\ f.uses \in Seq(Us) /\ f.matches \in Seq(Us \union {Nil})
  /\ f.buildcfg = BuildcfgOf(x)
  /\ Elements(f.names) \subseteq Elements(NamesOf(x))
  /\ Elements(NamesOf(x)) \intersect Special \subseteq Elements(f.names)
  /\ UsedBy(x) \subseteq Elements(f.uses) \union Elements(f.matches) \union Uses(f.names, f.buildcfg)
  /\ Elements(f.matches) \subseteq UsedBy(x) \union {Nil}
  /\ Elements(f.uses) \subseteq Reach(UsedBy(x))
  /\ \A u \in (Elements(f.uses) \union Elements(f.matches)) \ {Nil} : u[2] # Private
  /\ Sound(f.uses)

\* The subject of call k: the call before it is at it.
Subject(calls, rs, k) == IF k = 1 THEN Head(rs) ELSE Head(calls[k - 1].matches)

\* The calls that run for configuration c: each is at the subject of the next,
\* which the subjects of all calls before it reach.
StackInv(calls, rs, c) ==
  /\ calls \in Seq(Frame) /\ Len(calls) <= MaxDepth
  /\ \A k \in 1..Len(calls) :
       /\ Subject(calls, rs, k) \in {c} \union Consumed(c)
       /\ CallInv(calls[k], Subject(calls, rs, k))
       /\ \A i \in 1..(k - 1) : Subject(calls, rs, k) \in Reach(UsedBy(Subject(calls, rs, i)))
  /\ \A k \in 1..(Len(calls) - 1) : calls[k].matches # << >> /\ Head(calls[k].matches) # Nil

\* The usages that configuration c receives are at home there.
AtHome(s, c) == \A u \in Elements(s) : u[2] = Private => u[1] = c[1]

\* What was collected for configuration c, with the calls rs left to be made.
WalkInv(c, rs, s) ==
  /\ rs \in Seq({c} \union OwnUsages(c))
  /\ s \in Seq(Us) /\ Sound(s) /\ AtHome(s, c)
  /\ Elements(s) \subseteq Consumed(c)
  /\ OwnUsages(c) \subseteq Elements(s) \union Elements(rs)
  /\ c \notin Elements(rs) => UsedBy(c) \subseteq Elements(s) /\ Clean(NamesOf(c))

\* What a configuration received.
Received(c, s) ==
  /\ s \in Seq(Us) /\ Sound(s) /\ AtHome(s, c) /\ NoRepeats(s)
  /\ Elements(s) = Consumed(c)
  /\ Clean(NamesOf(c))

IInv ==
  /\ script \in Script
  /\ phase \in {"collect", "done", "error"}
  /\ todo \in Seq(Config) /\ Elements(todo) \subseteq Elements(Listed)
  /\ applied \in [Config -> Seq(UsageConfig) \union {Nil}]
  /\ \A c \in Config : applied[c] # Nil => Received(c, applied[c])
  /\ \A c \in Elements(Listed) : applied[c] # Nil \/ c \in Elements(todo)
  /\ phase = "collect" =>
       /\ todo # << >>
       /\ WalkInv(Head(todo), roots, toconsume)
       /\ StackInv(stack, roots, Head(todo)) /\ (stack # << >> => roots # << >>)
  /\ phase = "done" => todo = << >>
  /\ phase = "error" => Cyclic \/ NamesSpecial

\* All this is about the script, which never changes.
LEMMA ScriptOnly ==
  ASSUME script' = script
  PROVE  /\ Us' = Us /\ Listed' = Listed
         /\ (Cyclic \/ NamesSpecial)' = (Cyclic \/ NamesSpecial)
         /\ \A c, rs, s : WalkInv(c, rs, s)' = WalkInv(c, rs, s)
         /\ \A c, s : Received(c, s)' = Received(c, s)
         /\ \A calls, rs, c : StackInv(calls, rs, c)' = StackInv(calls, rs, c)
<1>1. Us' = Us
  BY DEF Us, Usages
<1>2. Listed' = Listed
  BY DEF Listed
<1>3. \A p, u, b : Closest(p, u, b)' = Closest(p, u, b)
  BY DEF Closest
<1>4. \A projects, name : FindInWorkspace(projects, name)' = FindInWorkspace(projects, name)
  BY DEF FindInWorkspace, Defined
<1>5. \A name : FindGlobal(name)' = FindGlobal(name)
  BY <1>4 DEF FindGlobal
<1>6. \A names, b : Uses(names, b)' = Uses(names, b)
  BY <1>3, <1>5 DEF Uses
<1>7. \A u : UsesOf(u)' = UsesOf(u)
  BY <1>6 DEF UsesOf
<1>8. \A us : Reach(us)' = Reach(us)
  BY <1>1, <1>7 DEF Reach, Us
<1>9. \A c : OwnUsages(c)' = OwnUsages(c)
  BY <1>3 DEF OwnUsages
<1>10. \A c : Consumed(c)' = Consumed(c)
  BY <1>6, <1>8, <1>9 DEF Consumed
<1>11. \A x : NamesOf(x)' = NamesOf(x)
  BY DEF NamesOf
<1>12. \A x : UsedBy(x)' = UsedBy(x)
  BY <1>6, <1>11 DEF UsedBy
<1>13. \A s : Sound(s)' = Sound(s)
  BY <1>7 DEF Sound
<1>14. \A f, x : CallInv(f, x)' = CallInv(f, x)
  BY <1>1, <1>6, <1>8, <1>11, <1>12, <1>13 DEF CallInv
<1>15. \A calls, rs, c : StackInv(calls, rs, c)' = StackInv(calls, rs, c)
  BY <1>8, <1>10, <1>12, <1>14 DEF StackInv
<1>16. \A c, rs, s : WalkInv(c, rs, s)' = WalkInv(c, rs, s)
  BY <1>1, <1>9, <1>10, <1>11, <1>12, <1>13 DEF WalkInv
<1>17. \A c, s : Received(c, s)' = Received(c, s)
  BY <1>1, <1>10, <1>11, <1>13 DEF Received
<1>18. (Cyclic \/ NamesSpecial)' = (Cyclic \/ NamesSpecial)
  <2>1. AllConsumed' = AllConsumed
    BY <1>2, <1>10 DEF AllConsumed
  <2>2. Cyclic' = Cyclic
    BY <1>7, <1>8, <2>1 DEF Cyclic
  <2>3. NamesSpecial' = NamesSpecial
    BY <1>2, <2>1 DEF NamesSpecial
  <2> QED BY <2>2, <2>3
<1> QED BY <1>1, <1>2, <1>15, <1>16, <1>17, <1>18

-----------------------------------------------------------------------------
(* Lists of usages                                                         *)

LEMMA SoundConcat ==
  ASSUME NEW X, NEW s \in Seq(X), NEW t \in Seq(X), Sound(s), Sound(t)
  PROVE  Sound(s \o t)
<1> DEFINE n == Len(s)
           w == s \o t
<1>1. /\ n \in Nat /\ Len(t) \in Nat /\ Len(w) = n + Len(t)
      /\ \A i \in 1..n : w[i] = s[i]
      /\ \A i \in 1..Len(t) : w[n + i] = t[i]
  BY ConcatItems
<1> HIDE DEF w
<1>2. SUFFICES ASSUME NEW j \in 1..Len(w)
               PROVE  /\ Clean(script.usageUses[w[j]])
                      /\ \A u \in UsesOf(w[j]) : \E i \in 1..(j - 1) : w[i] = u
  BY DEF Sound, w
<1>3. CASE j \in 1..n
  <2>1. w[j] = s[j]
    BY <1>1, <1>3
  <2>2. \A i \in 1..(j - 1) : w[i] = s[i]
    BY <1>1, <1>3
  <2>3. /\ Clean(script.usageUses[s[j]])
        /\ \A u \in UsesOf(s[j]) : \E i \in 1..(j - 1) : s[i] = u
    BY <1>3 DEF Sound
  <2> QED BY <2>1, <2>2, <2>3
<1>4. CASE j \notin 1..n
  <2> DEFINE k == j - n
  <2>1. k \in 1..Len(t) /\ j = n + k
    BY <1>1, <1>4
  <2>2. w[j] = t[k]
    BY <1>1, <2>1
  <2>3. \A i \in 1..(k - 1) : n + i \in 1..(j - 1) /\ w[n + i] = t[i]
    BY <1>1, <2>1
  <2> HIDE DEF k
  <2>4. /\ Clean(script.usageUses[t[k]])
        /\ \A u \in UsesOf(t[k]) : \E i \in 1..(k - 1) : t[i] = u
    BY <2>1 DEF Sound
  <2> QED BY <2>2, <2>3, <2>4
<1> QED BY <1>3, <1>4

LEMMA SoundAppend ==
  ASSUME NEW X, NEW s \in Seq(X), NEW u \in X, Sound(s),
         Clean(script.usageUses[u]), UsesOf(u) \subseteq Elements(s)
  PROVE  Sound(Append(s, u))
<1> DEFINE w == Append(s, u)
<1>1. /\ Len(s) \in Nat /\ Len(w) = Len(s) + 1 /\ w[Len(s) + 1] = u
      /\ \A i \in 1..Len(s) : w[i] = s[i]
  OBVIOUS
<1> HIDE DEF w
<1>2. ASSUME NEW j \in 1..Len(w)
      PROVE  /\ Clean(script.usageUses[w[j]])
             /\ \A v \in UsesOf(w[j]) : \E i \in 1..(j - 1) : w[i] = v
  <2>1. CASE j \in 1..Len(s)
    <3>1. \A i \in 1..(j - 1) : w[i] = s[i]
      BY <1>1, <2>1
    <3> QED BY <1>1, <2>1, <3>1 DEF Sound
  <2>2. CASE j = Len(s) + 1
    <3>1. \A v \in UsesOf(u) : \E i \in 1..Len(s) : s[i] = v
      BY DEF Elements
    <3>2. j - 1 = Len(s)
      BY <1>1, <2>2
    <3> QED BY <1>1, <2>2, <3>1, <3>2
  <2> QED BY <1>1, <2>1, <2>2
<1> QED BY <1>2 DEF Sound, w

LEMMA SoundEmpty == Sound(<< >>)
BY DEF Sound

\* Nothing gets lost when later copies are removed, and the order stays sound.
LEMMA UniqueFacts ==
  ASSUME NEW X, NEW s \in Seq(X), Sound(s)
  PROVE  /\ Unique(s) \in Seq(X) /\ Elements(Unique(s)) = Elements(s)
         /\ NoRepeats(Unique(s)) /\ Sound(Unique(s))
<1> DEFINE u == Unique(s)
<1>1. u \in Seq(X) /\ Elements(u) = Elements(s) /\ NoRepeats(u) /\ FirstOccurrences(u, s)
  BY UniqueList
<1> HIDE DEF u
<1>2. ASSUME NEW k \in 1..Len(u)
      PROVE  UsesOf(u[k]) \subseteq {u[m] : m \in 1..(k - 1)} /\ Clean(script.usageUses[u[k]])
  <2>1. PICK j \in 1..Len(s) :
          u[k] = s[j] /\ \A i \in 1..(j - 1) : \E m \in 1..(k - 1) : s[i] = u[m]
    BY <1>1 DEF FirstOccurrences
  <2>2. UsesOf(s[j]) \subseteq {s[i] : i \in 1..(j - 1)} /\ Clean(script.usageUses[s[j]])
    BY DEF Sound
  <2> QED BY <2>1, <2>2
<1> QED BY <1>1, <1>2 DEF Sound, u

-----------------------------------------------------------------------------
(* Sequences put together                                                  *)

\* There are configurations to walk.
LEMMA ListedType ==
  ASSUME script \in Script
  PROVE  Listed \in Seq(Config) /\ Listed # << >>
<1> DEFINE projects == Concat(script.workspaces)
           Configs(p) == [i \in 1..Len(script.cfgs[p]) |-> <<p, script.cfgs[p][i]>>]
           all == [i \in 1..Len(projects) |-> Configs(projects[i])]
<1>1. /\ script.workspaces \in Seq(Seq(Project))
      /\ \A p \in Project : script.cfgs[p] \in Seq(Buildcfg) /\ script.cfgs[p] # << >>
  BY ScriptFacts
<1>2. projects \in Seq(Project) /\ \E i \in 1..Len(projects) : TRUE
  <2>1. PICK i \in 1..Len(script.workspaces) : script.workspaces[i] # << >>
    BY ScriptFacts
  <2>2. projects \in Seq(Project) /\ Elements(script.workspaces[i]) \subseteq Elements(projects)
    BY <1>1, ConcatElements
  <2>3. script.workspaces[i] \in Seq(Project)
    BY <1>1
  <2>4. Elements(script.workspaces[i]) # {}
    <3> DEFINE w == script.workspaces[i]
    <3>1. 1 \in 1..Len(w)
      BY <2>1, <2>3
    <3> HIDE DEF w
    <3>2. w[1] \in Elements(w)
      BY <3>1 DEF Elements
    <3> QED BY <3>2 DEF w
  <2> HIDE DEF projects
  <2> QED BY <2>2, <2>4 DEF Elements
<1>3. ASSUME NEW p \in Project PROVE Configs(p) \in Seq(Config) /\ Elements(Configs(p)) # {}
  <2> DEFINE s == script.cfgs[p]
             t == [i \in 1..Len(s) |-> <<p, s[i]>>]
  <2>1. s \in Seq(Buildcfg) /\ Len(s) \in Nat /\ 1 \in 1..Len(s)
    BY <1>1
  <2> HIDE DEF s
  <2>2. \A i \in 1..Len(s) : <<p, s[i]>> \in Config
    BY <2>1 DEF Config
  <2>3. t \in Seq(Config) /\ Len(t) = Len(s)
    BY <2>1, <2>2
  <2> HIDE DEF t
  <2>4. t[1] \in Elements(t)
    BY <2>1, <2>3 DEF Elements
  <2> QED BY <2>3, <2>4 DEF s, t
<1> HIDE DEF Configs, projects
<1>4. all \in Seq(Seq(Config)) /\ Len(all) = Len(projects)
      /\ \A i \in 1..Len(projects) : all[i] = Configs(projects[i]) /\ projects[i] \in Project
  BY <1>2, <1>3
<1>5. Concat(all) \in Seq(Config) /\ Concat(all) # << >>
  <2> HIDE DEF all
  <2>1. PICK i \in 1..Len(all) : Elements(all[i]) # {}
    BY <1>2, <1>3, <1>4
  <2>2. Concat(all) \in Seq(Config) /\ Elements(all[i]) \subseteq Elements(Concat(all))
    BY <1>4, ConcatElements
  <2>3. Elements(<< >>) = {}
    BY DEF Elements
  <2> QED BY <2>1, <2>2, <2>3
<1> QED BY <1>5 DEF Listed, projects, Configs

-----------------------------------------------------------------------------
(* Calls                                                                   *)

\* What is known of the subjects of the calls that are made for c.
LEMMA SubjectFacts ==
  ASSUME script \in Script, NEW c \in Config, NEW x \in {c} \union Us
  PROVE  /\ NamesOf(x) \in Seq(UsageName) /\ BuildcfgOf(x) \in Buildcfg
         /\ UsedBy(x) \in SUBSET Us
         /\ x = c => NamesOf(x) = script.uses[c] /\ BuildcfgOf(x) = c[2]
         /\ x # c => /\ x \in Us /\ NamesOf(x) = script.usageUses[x] /\ BuildcfgOf(x) = x[3]
                     /\ UsedBy(x) = UsesOf(x)
         /\ x \in {c} \union Consumed(c) => UsedBy(x) \subseteq Consumed(c)
<1>1. c \notin Us /\ c[2] \in Buildcfg
  BY UsFacts DEF Config
<1>2. CASE x = c
  <2>1. NamesOf(x) = script.uses[c] /\ BuildcfgOf(x) = c[2]
    BY <1>2 DEF NamesOf, BuildcfgOf
  <2>2. UsedBy(x) = Uses(script.uses[c], c[2])
    BY <2>1 DEF UsedBy
  <2>3. UsedBy(x) \subseteq Consumed(c) /\ UsedBy(x) \in SUBSET Us
    BY <2>2, OwnUsagesFacts, UsesType
  <2> QED BY <1>1, <1>2, <2>1, <2>3, ScriptFacts
<1>3. CASE x \in Us
  <2>1. NamesOf(x) = script.usageUses[x] /\ BuildcfgOf(x) = x[3] /\ x[3] \in Buildcfg /\ x # c
    BY <1>1, <1>3, UsFacts DEF NamesOf, BuildcfgOf
  <2>2. UsedBy(x) = UsesOf(x)
    BY <2>1 DEF UsedBy, UsesOf
  <2>3. UsedBy(x) \in SUBSET Us /\ (x \in Consumed(c) => UsedBy(x) \subseteq Consumed(c))
    BY <1>3, <2>2, UsesOfType, OwnUsagesFacts
  <2> QED BY <1>3, <2>1, <2>2, <2>3, ScriptFacts
<1> QED BY <1>2, <1>3

\* A call starts with all its names to look up.
LEMMA Starts ==
  ASSUME script \in Script, NEW c \in Config, NEW x \in {c} \union Us, NEW f,
         f = [buildcfg |-> BuildcfgOf(x), names |-> NamesOf(x), matches |-> << >>, uses |-> << >>]
  PROVE  CallInv(f, x)
<1>1. NamesOf(x) \in Seq(UsageName) /\ BuildcfgOf(x) \in Buildcfg
  BY SubjectFacts
<1>2. /\ f.buildcfg = BuildcfgOf(x) /\ f.names = NamesOf(x) /\ f.matches = << >> /\ f.uses = << >>
      /\ f \in Frame
  BY <1>1 DEF Frame
<1>3. Elements(<< >>) = {}
  BY DEF Elements
<1>4. << >> \in Seq(Us) /\ << >> \in Seq(Us \union {Nil})
  OBVIOUS
<1> QED BY <1>2, <1>3, <1>4, SoundEmpty DEF CallInv, UsedBy

LEMMA CallStarts ==
  ASSUME script \in Script, NEW c \in Config
  PROVE  /\ CallInv(CallFor(c), c)
         /\ \A u \in Us : CallInv(CallForUsage(u), u)
<1>1. c # c => FALSE
  OBVIOUS
<1>2. CallInv(CallFor(c), c)
  <2>1. NamesOf(c) = script.uses[c] /\ BuildcfgOf(c) = c[2]
    BY SubjectFacts
  <2> QED BY <2>1, Starts DEF CallFor
<1>3. ASSUME NEW u \in Us PROVE CallInv(CallForUsage(u), u)
  <2>1. NamesOf(u) = script.usageUses[u] /\ BuildcfgOf(u) = u[3]
    BY UsFacts, SubjectFacts
  <2> QED BY <2>1, Starts DEF CallForUsage
<1> QED BY <1>2, <1>3

\* The call that runs may change, as long as what is known of it holds.
LEMMA Replaced ==
  ASSUME NEW calls, NEW rs, NEW c, StackInv(calls, rs, c), calls # << >>,
         NEW f, CallInv(f, Subject(calls, rs, Len(calls)))
  PROVE  StackInv([calls EXCEPT ![Len(calls)] = f], rs, c)
<1> DEFINE n == Len(calls)
           w == [calls EXCEPT ![n] = f]
<1>1. calls \in Seq(Frame) /\ n <= MaxDepth /\ f \in Frame
  BY DEF StackInv, CallInv
<1>2. /\ n \in Nat /\ n >= 1 /\ w \in Seq(Frame) /\ Len(w) = n /\ w[n] = f
      /\ \A k \in 1..n : k # n => w[k] = calls[k]
  BY <1>1
<1> HIDE DEF w
<1>3. \A k \in 1..n : Subject(w, rs, k) = Subject(calls, rs, k)
  <2>1. \A k \in 1..n : k # 1 => k - 1 \in 1..n /\ k - 1 # n
    BY <1>2
  <2> QED BY <1>2, <2>1 DEF Subject
<1>4. ASSUME NEW k \in 1..n
      PROVE  /\ Subject(w, rs, k) \in {c} \union Consumed(c)
             /\ CallInv(w[k], Subject(w, rs, k))
             /\ \A i \in 1..(k - 1) : Subject(w, rs, k) \in Reach(UsedBy(Subject(w, rs, i)))
  <2>1. /\ Subject(calls, rs, k) \in {c} \union Consumed(c)
        /\ CallInv(calls[k], Subject(calls, rs, k))
        /\ \A i \in 1..(k - 1) : Subject(calls, rs, k) \in Reach(UsedBy(Subject(calls, rs, i)))
    BY DEF StackInv
  <2>2. \A i \in 1..(k - 1) : i \in 1..n
    BY <1>2
  <2>3. CallInv(w[k], Subject(w, rs, k))
    <3>1. CASE k = n
      BY <1>2, <1>3, <3>1
    <3>2. CASE k # n
      BY <1>2, <1>3, <2>1, <3>2
    <3> QED BY <3>1, <3>2
  <2> QED BY <1>3, <2>1, <2>2, <2>3
<1>5. \A k \in 1..(n - 1) : w[k].matches # << >> /\ Head(w[k].matches) # Nil
  <2>1. \A k \in 1..(n - 1) : k \in 1..n /\ k # n
    BY <1>2
  <2> QED BY <1>2, <2>1 DEF StackInv
<1> QED BY <1>1, <1>2, <1>4, <1>5 DEF StackInv, w

\* The calls below the one that runs.
LEMMA Dropped ==
  ASSUME NEW calls, NEW rs, NEW c, StackInv(calls, rs, c), Len(calls) > 1
  PROVE  /\ StackInv(SubSeq(calls, 1, Len(calls) - 1), rs, c)
         /\ SubSeq(calls, 1, Len(calls) - 1) # << >>
         /\ Len(SubSeq(calls, 1, Len(calls) - 1)) = Len(calls) - 1
         /\ SubSeq(calls, 1, Len(calls) - 1)[Len(calls) - 1] = calls[Len(calls) - 1]
         /\ Subject(SubSeq(calls, 1, Len(calls) - 1), rs, Len(calls) - 1)
              = Subject(calls, rs, Len(calls) - 1)
<1> DEFINE n == Len(calls)
           m == n - 1
           w == SubSeq(calls, 1, m)
<1>1. calls \in Seq(Frame) /\ n \in Nat /\ n <= MaxDepth /\ MaxDepth \in Nat
  BY DepthAssumption DEF StackInv
<1>2. /\ w \in Seq(Frame) /\ Len(w) = m /\ m \in Nat /\ m >= 1 /\ w # << >> /\ m <= MaxDepth
      /\ \A k \in 1..m : w[k] = calls[k]
  <2>1. m \in Nat /\ m >= 1 /\ m <= MaxDepth /\ \A k \in 1..m : k \in 1..n
    BY <1>1
  <2>2. w \in Seq(Frame) /\ Len(w) = m
    BY <1>1, <2>1
  <2>3. \A k \in 1..m : w[k] = calls[k]
    BY <1>1, <2>1
  <2>4. w # << >>
    <3> HIDE DEF w, m
    <3> QED BY <2>1, <2>2
  <2> QED BY <2>1, <2>2, <2>3, <2>4
<1> HIDE DEF w
<1>3. \A k \in 1..m : Subject(w, rs, k) = Subject(calls, rs, k)
  <2>1. \A k \in 1..m : k # 1 => k - 1 \in 1..m
    BY <1>2
  <2> QED BY <1>2, <2>1 DEF Subject
<1>4. \A k \in 1..m : k \in 1..n /\ \A i \in 1..(k - 1) : i \in 1..m
  BY <1>1, <1>2
<1>5. StackInv(w, rs, c)
  <2>1. ASSUME NEW k \in 1..m
        PROVE  /\ Subject(w, rs, k) \in {c} \union Consumed(c)
               /\ CallInv(w[k], Subject(w, rs, k))
               /\ \A i \in 1..(k - 1) : Subject(w, rs, k) \in Reach(UsedBy(Subject(w, rs, i)))
    <3>1. /\ Subject(calls, rs, k) \in {c} \union Consumed(c)
          /\ CallInv(calls[k], Subject(calls, rs, k))
          /\ \A i \in 1..(k - 1) : Subject(calls, rs, k) \in Reach(UsedBy(Subject(calls, rs, i)))
      BY <1>4 DEF StackInv
    <3> QED BY <1>2, <1>3, <1>4, <3>1
  <2>2. \A k \in 1..(m - 1) : w[k].matches # << >> /\ Head(w[k].matches) # Nil
    <3>1. \A k \in 1..(m - 1) : k \in 1..(n - 1) /\ k \in 1..m
      BY <1>1, <1>2
    <3> QED BY <1>2, <3>1 DEF StackInv
  <2> QED BY <1>2, <2>1, <2>2 DEF StackInv
<1> QED BY <1>2, <1>3, <1>5 DEF w

\* The usage that the call that runs is at can be reached from the subjects of
\* all calls.
LEMMA AtUsage ==
  ASSUME script \in Script, NEW c \in Config,
         NEW calls, NEW rs, StackInv(calls, rs, c), calls # << >>,
         calls[Len(calls)].matches # << >>, Head(calls[Len(calls)].matches) # Nil
  PROVE  /\ Head(calls[Len(calls)].matches) \in Consumed(c)
         /\ Head(calls[Len(calls)].matches) \in UsedBy(Subject(calls, rs, Len(calls)))
         /\ \A i \in 1..Len(calls) :
              Head(calls[Len(calls)].matches) \in Reach(UsedBy(Subject(calls, rs, i)))
<1> DEFINE n == Len(calls)
           u == Head(calls[n].matches)
           x == Subject(calls, rs, n)
<1>1. calls \in Seq(Frame) /\ n \in Nat /\ n >= 1 /\ n \in 1..n
  BY DEF StackInv
<1>2. x \in {c} \union Consumed(c) /\ CallInv(calls[n], x)
      /\ \A i \in 1..(n - 1) : x \in Reach(UsedBy(Subject(calls, rs, i)))
  BY <1>1 DEF StackInv
<1>3. x \in {c} \union Us /\ Consumed(c) \subseteq Us
  BY <1>2, OwnUsagesFacts
<1>4. UsedBy(x) \in SUBSET Us /\ UsedBy(x) \subseteq Consumed(c)
  <2> HIDE DEF x
  <2> QED BY <1>2, <1>3, SubjectFacts
<1>5. u \in UsedBy(x)
  <2>1. /\ calls[n].matches \in Seq(Us \union {Nil})
        /\ Elements(calls[n].matches) \subseteq UsedBy(x) \union {Nil}
    BY <1>2 DEF CallInv
  <2>2. u \in Elements(calls[n].matches)
    BY <2>1, ElementsHeadTail
  <2> QED BY <2>1, <2>2
<1>6. ASSUME NEW i \in 1..n PROVE u \in Reach(UsedBy(Subject(calls, rs, i)))
  <2>1. CASE i = n
    BY <1>4, <1>5, <2>1, ReachFacts
  <2>2. CASE i # n
    <3> DEFINE y == Subject(calls, rs, i)
    <3>1. y \in {c} \union Consumed(c) /\ i \in 1..(n - 1)
      BY <1>1, <2>2 DEF StackInv
    <3>2. y \in {c} \union Us /\ x \in Reach(UsedBy(y))
      BY <1>2, <1>3, <3>1
    <3> HIDE DEF x, y, u
    <3>3. UsedBy(y) \in SUBSET Us
      BY <3>2, SubjectFacts
    <3>4. UsesOf(x) \subseteq Reach(UsedBy(y)) /\ x \in Us
      BY <3>2, <3>3, ReachFacts
    <3>5. UsedBy(x) = UsesOf(x)
      BY <3>4, UsFacts, SubjectFacts
    <3> QED BY <1>5, <3>4, <3>5 DEF y
  <2> QED BY <2>1, <2>2
<1> QED BY <1>4, <1>5, <1>6

\* A call is made for a usage that the call that runs is at.
LEMMA Entered ==
  ASSUME script \in Script, NEW c \in Config,
         NEW calls, NEW rs, StackInv(calls, rs, c), calls # << >>, Len(calls) < MaxDepth,
         calls[Len(calls)].matches # << >>, Head(calls[Len(calls)].matches) # Nil,
         NEW f, CallInv(f, Head(calls[Len(calls)].matches))
  PROVE  StackInv(Append(calls, f), rs, c)
<1> DEFINE n == Len(calls)
           u == Head(calls[n].matches)
           w == Append(calls, f)
<1>1. calls \in Seq(Frame) /\ n \in Nat /\ n >= 1 /\ f \in Frame /\ MaxDepth \in Nat
  BY DepthAssumption DEF StackInv, CallInv
<1>2. /\ w \in Seq(Frame) /\ Len(w) = n + 1 /\ n + 1 <= MaxDepth /\ w[n + 1] = f
      /\ \A k \in 1..n : w[k] = calls[k]
  <2>1. n + 1 <= MaxDepth
    BY <1>1
  <2>2. w \in Seq(Frame) /\ Len(w) = n + 1 /\ w[n + 1] = f
    BY <1>1
  <2>3. \A k \in 1..n : w[k] = calls[k]
    BY <1>1
  <2> QED BY <2>1, <2>2, <2>3
<1> HIDE DEF w
<1>3. \A k \in 1..n : Subject(w, rs, k) = Subject(calls, rs, k)
  <2>1. \A k \in 1..n : k # 1 => k - 1 \in 1..n
    BY <1>1
  <2> QED BY <1>2, <2>1 DEF Subject
<1>4. Subject(w, rs, n + 1) = u
  BY <1>1, <1>2 DEF Subject
<1>5. /\ \A k \in 1..(n + 1) : k \in 1..n \/ k = n + 1
      /\ n \in 1..n /\ \A k \in 1..n : \A i \in 1..(k - 1) : i \in 1..n
      /\ \A i \in 1..((n + 1) - 1) : i \in 1..n
  BY <1>1
<1>6. u \in Consumed(c) /\ \A i \in 1..n : u \in Reach(UsedBy(Subject(calls, rs, i)))
  BY AtUsage
<1> HIDE DEF u
<1>7. ASSUME NEW k \in 1..Len(w)
       PROVE  /\ Subject(w, rs, k) \in {c} \union Consumed(c)
              /\ CallInv(w[k], Subject(w, rs, k))
              /\ \A i \in 1..(k - 1) : Subject(w, rs, k) \in Reach(UsedBy(Subject(w, rs, i)))
  <2>1. CASE k \in 1..n
    <3>1. /\ Subject(calls, rs, k) \in {c} \union Consumed(c)
          /\ CallInv(calls[k], Subject(calls, rs, k))
          /\ \A i \in 1..(k - 1) : Subject(calls, rs, k) \in Reach(UsedBy(Subject(calls, rs, i)))
      BY <2>1 DEF StackInv
    <3> QED BY <1>2, <1>3, <1>5, <2>1, <3>1
  <2>2. CASE k = n + 1
    BY <1>2, <1>3, <1>4, <1>5, <1>6, <2>2 DEF u
  <2> QED BY <1>2, <1>5, <2>1, <2>2
<1>8. \A k \in 1..(Len(w) - 1) : w[k].matches # << >> /\ Head(w[k].matches) # Nil
  <2>1. ASSUME NEW k \in 1..n PROVE calls[k].matches # << >> /\ Head(calls[k].matches) # Nil
    <3>1. CASE k = n
      BY <3>1
    <3>2. CASE k # n
      <4>1. k \in 1..(n - 1)
        BY <1>1, <3>2
      <4> QED BY <4>1 DEF StackInv
    <3> QED BY <3>1, <3>2
  <2> QED BY <1>2, <1>5, <2>1
<1> QED BY <1>2, <1>7, <1>8 DEF StackInv, w

-----------------------------------------------------------------------------
(* Steps                                                                   *)

LEMMA ConfigFacts ==
  ASSUME IInv, phase = "collect"
  PROVE  /\ script \in Script /\ Head(todo) \in Config /\ Head(todo) \in Elements(Listed)
         /\ todo \in Seq(Config) /\ todo # << >> /\ Tail(todo) \in Seq(Config)
         /\ Elements(todo) = {Head(todo)} \union Elements(Tail(todo))
         /\ Consumed(Head(todo)) \subseteq Us
         /\ WalkInv(Head(todo), roots, toconsume) /\ StackInv(stack, roots, Head(todo))
<1>1. /\ script \in Script /\ todo \in Seq(Config) /\ todo # << >>
      /\ Elements(todo) \subseteq Elements(Listed)
      /\ WalkInv(Head(todo), roots, toconsume) /\ StackInv(stack, roots, Head(todo))
  BY DEF IInv
<1>2. /\ Head(todo) \in Config /\ Tail(todo) \in Seq(Config)
      /\ Elements(todo) = {Head(todo)} \union Elements(Tail(todo))
  BY <1>1, ElementsHeadTail
<1> QED BY <1>1, <1>2, OwnUsagesFacts

\* The call that runs and its subject.
TopInv(x) ==
  /\ x \in {Head(todo)} \union Consumed(Head(todo)) /\ x \in {Head(todo)} \union Us
  /\ CallInv(Top, x)

LEMMA TopFacts ==
  ASSUME IInv, Running
  PROVE  TopInv(Subject(stack, roots, Len(stack)))
<1>1. phase = "collect" /\ stack # << >>
  BY DEF Running
<1>2. /\ StackInv(stack, roots, Head(todo)) /\ Consumed(Head(todo)) \subseteq Us
  BY <1>1, ConfigFacts
<1>3. Len(stack) \in 1..Len(stack)
  BY <1>1, <1>2 DEF StackInv
<1> QED BY <1>2, <1>3 DEF StackInv, TopInv, Top

\* Only the calls change.
LEMMA StackStep ==
  ASSUME IInv, phase = "collect", UNCHANGED <<script, todo, roots, toconsume, applied, phase>>,
         NEW calls, stack' = calls, StackInv(calls, roots, Head(todo)), roots # << >>
  PROVE  IInv'
<1>1. WalkInv(Head(todo), roots, toconsume)' /\ StackInv(stack, roots, Head(todo))'
  BY ConfigFacts, ScriptOnly
<1>2. (\A c \in Config : applied[c] # Nil => Received(c, applied[c]))'
  BY ScriptOnly DEF IInv
<1> QED BY <1>1, <1>2, ScriptOnly DEF IInv

\* Nothing but the phase changes, and that for a reason.
LEMMA ErrorStep ==
  ASSUME IInv, phase' = "error", UNCHANGED <<script, todo, roots, stack, toconsume, applied>>,
         Cyclic \/ NamesSpecial
  PROVE  IInv'
<1>1. (\A c \in Config : applied[c] # Nil => Received(c, applied[c]))'
  BY ScriptOnly DEF IInv
<1>2. (Cyclic \/ NamesSpecial)'
  BY ScriptOnly
<1> QED BY <1>1, <1>2, ScriptOnly DEF IInv

LEMMA LookUpNameInv ==
  ASSUME IInv, LookUpName
  PROVE  IInv'
<1> DEFINE c == Head(todo)
           x == Subject(stack, roots, Len(stack))
           name == Head(Top.names)
           m == MatchesOf(name, Top.buildcfg)
           f == [Top EXCEPT !.names = Tail(@), !.matches = m]
<1>1. Running /\ phase = "collect" /\ stack # << >> /\ Top.matches = << >> /\ Top.names # << >>
      /\ name \notin Special
  BY DEF LookUpName, Running
<1>2. /\ script \in Script /\ c \in Config /\ StackInv(stack, roots, c) /\ TopInv(x) /\ roots # << >>
  BY <1>1, ConfigFacts, TopFacts DEF IInv
<1>3. stack' = [stack EXCEPT ![Len(stack)] = f]
  BY DEF LookUpName, MatchesOf, Top
<1>4. /\ CallInv(Top, x) /\ x \in {c} \union Us
  BY <1>2 DEF TopInv
<1> HIDE DEF x, c
<1>5. NamesOf(x) \in Seq(UsageName) /\ BuildcfgOf(x) \in Buildcfg /\ UsedBy(x) \in SUBSET Us
  BY <1>2, <1>4, SubjectFacts
<1>6. /\ Top \in Frame /\ Top.names \in Seq(UsageName) /\ Top.buildcfg = BuildcfgOf(x)
      /\ Elements(Top.names) \subseteq Elements(NamesOf(x))
  BY <1>4 DEF CallInv, Frame
<1>7. /\ name \in Elements(Top.names) /\ Tail(Top.names) \in Seq(UsageName)
      /\ Elements(Top.names) = {name} \union Elements(Tail(Top.names))
  BY <1>1, <1>6, ElementsHeadTail
<1>8. /\ m \in Seq(Us \union {Nil})
      /\ \A u \in Elements(m) \ {Nil} : u[2] # Private
  <2>1. name # Private
    BY <1>1 DEF Special
  <2> QED BY <1>2, <2>1, MatchesType
<1>9. Elements(m) \subseteq UsedBy(x) \union {Nil}
  <2>1. name \in Elements(NamesOf(x))
    BY <1>6, <1>7
  <2> QED BY <1>2, <1>5, <1>6, <2>1, UsesSplit DEF UsedBy
<1>10. Uses(Top.names, Top.buildcfg) \subseteq Elements(m) \union Uses(Tail(Top.names), Top.buildcfg)
  BY <1>1, <1>2, <1>6, UsesSplit
<1> HIDE DEF m, name
<1>11. /\ f \in Frame /\ f.names = Tail(Top.names) /\ f.matches = m
       /\ f.uses = Top.uses /\ f.buildcfg = Top.buildcfg
  <2>1. Us \union {Nil} \subseteq UsageConfig \union {Nil}
    BY UsFacts
  <2>2. m \in Seq(UsageConfig \union {Nil})
    BY <1>8, <2>1
  <2> QED BY <1>6, <1>7, <2>2 DEF Frame
<1> HIDE DEF f
<1>12. CallInv(f, x)
  <2>1. UsedBy(x) \subseteq Elements(f.uses) \union Elements(f.matches) \union Uses(f.names, f.buildcfg)
    <3>1. Elements(<< >>) = {}
      BY DEF Elements
    <3>2. UsedBy(x) \subseteq Elements(Top.uses) \union Uses(Top.names, Top.buildcfg)
      BY <1>1, <1>4, <3>1 DEF CallInv
    <3> QED BY <1>10, <1>11, <3>2
  <2>2. Elements(NamesOf(x)) \intersect Special \subseteq Elements(f.names)
    BY <1>1, <1>4, <1>7, <1>11 DEF CallInv
  <2>3. Elements(f.names) \subseteq Elements(NamesOf(x))
    BY <1>6, <1>7, <1>11
  <2>4. \A u \in (Elements(f.uses) \union Elements(f.matches)) \ {Nil} : u[2] # Private
    BY <1>4, <1>8, <1>11 DEF CallInv
  <2>5. /\ f.uses \in Seq(Us) /\ Sound(f.uses) /\ Elements(f.uses) \subseteq Reach(UsedBy(x))
        /\ f.buildcfg = BuildcfgOf(x)
    BY <1>4, <1>11 DEF CallInv
  <2> QED BY <1>8, <1>9, <1>11, <2>1, <2>2, <2>3, <2>4, <2>5 DEF CallInv
<1>13. StackInv([stack EXCEPT ![Len(stack)] = f], roots, c)
  BY <1>1, <1>2, <1>12, Replaced DEF x
<1> QED BY <1>1, <1>2, <1>3, <1>13, StackStep DEF LookUpName, c

LEMMA MissUsageInv ==
  ASSUME IInv, MissUsage
  PROVE  IInv'
<1> DEFINE c == Head(todo)
           x == Subject(stack, roots, Len(stack))
           f == [Top EXCEPT !.matches = Tail(@)]
<1>1. /\ Running /\ phase = "collect" /\ stack # << >>
      /\ Top.matches # << >> /\ Head(Top.matches) = Nil
  BY DEF MissUsage, Running
<1>2. /\ script \in Script /\ c \in Config /\ StackInv(stack, roots, c) /\ TopInv(x) /\ roots # << >>
  BY <1>1, ConfigFacts, TopFacts DEF IInv
<1>3. stack' = [stack EXCEPT ![Len(stack)] = f]
  BY DEF MissUsage
<1>4. CallInv(Top, x) /\ x \in {c} \union Us
  BY <1>2 DEF TopInv
<1> HIDE DEF x, c
<1>5. Nil \notin UsedBy(x)
  BY <1>2, <1>4, SubjectFacts, UsFacts
<1>6. /\ Top \in Frame /\ Top.matches \in Seq(Us \union {Nil})
  BY <1>4 DEF CallInv
<1>7. /\ Tail(Top.matches) \in Seq(Us \union {Nil})
      /\ Elements(Top.matches) = {Nil} \union Elements(Tail(Top.matches))
  BY <1>1, <1>6, ElementsHeadTail
<1>8. /\ f \in Frame /\ f.names = Top.names /\ f.matches = Tail(Top.matches)
      /\ f.uses = Top.uses /\ f.buildcfg = Top.buildcfg
  <2>1. Us \union {Nil} \subseteq UsageConfig \union {Nil}
    BY UsFacts
  <2>2. Tail(Top.matches) \in Seq(UsageConfig \union {Nil})
    BY <1>7, <2>1
  <2> QED BY <1>6, <2>2 DEF Frame
<1> HIDE DEF f
<1>9. CallInv(f, x)
  BY <1>4, <1>5, <1>7, <1>8 DEF CallInv
<1>10. StackInv([stack EXCEPT ![Len(stack)] = f], roots, c)
  BY <1>1, <1>2, <1>9, Replaced DEF x
<1> QED BY <1>1, <1>2, <1>3, <1>10, StackStep DEF MissUsage, c

LEMMA EnterUsageInv ==
  ASSUME IInv, EnterUsage
  PROVE  IInv'
<1> DEFINE c == Head(todo)
           u == Head(Top.matches)
           f == CallForUsage(u)
<1>1. /\ Running /\ phase = "collect" /\ stack # << >>
      /\ Top.matches # << >> /\ u # Nil /\ Len(stack) < MaxDepth
      /\ stack' = Append(stack, f)
  BY DEF EnterUsage, Running
<1>2. /\ script \in Script /\ c \in Config /\ StackInv(stack, roots, c) /\ roots # << >>
      /\ Consumed(c) \subseteq Us
  BY <1>1, ConfigFacts DEF IInv
<1> HIDE DEF c
<1>3. u \in Us
  BY <1>1, <1>2, AtUsage DEF Top
<1>4. CallInv(f, u)
  BY <1>2, <1>3, CallStarts
<1> HIDE DEF f
<1>5. StackInv(Append(stack, f), roots, c)
  BY <1>1, <1>2, <1>4, Entered DEF Top
<1> QED BY <1>1, <1>2, <1>5, StackStep DEF EnterUsage, c

\* There are more calls than usages, so that some usage is at work twice.
LEMMA OverflowInv ==
  ASSUME IInv, Overflow
  PROVE  IInv'
<1> DEFINE c == Head(todo)
           n == Len(stack)
           h == [k \in 1..n |-> Head(stack[k].matches)]
<1>1. /\ Running /\ phase = "collect" /\ stack # << >>
      /\ Top.matches # << >> /\ Head(Top.matches) # Nil /\ n = MaxDepth
  BY DEF Overflow, Running
<1>2. /\ script \in Script /\ c \in Config /\ StackInv(stack, roots, c)
      /\ Consumed(c) \subseteq Us /\ c \in Elements(Listed)
  BY <1>1, ConfigFacts
<1>3. n \in Nat /\ n >= 1
  BY <1>1, DepthAssumption
<1> HIDE DEF c
<1>4. h[n] \in Consumed(c) /\ \A i \in 1..n : h[n] \in Reach(UsedBy(Subject(stack, roots, i)))
  <2>1. h[n] = Head(stack[n].matches)
    BY <1>3
  <2> HIDE DEF h
  <2> QED BY <1>1, <1>2, <2>1, AtUsage DEF Top
<1>5. ASSUME NEW k \in 1..(n - 1)
      PROVE  /\ h[k] = Subject(stack, roots, k + 1)
             /\ h[k] \in {c} \union Consumed(c)
             /\ \A i \in 1..k : h[k] \in Reach(UsedBy(Subject(stack, roots, i)))
  <2>1. k + 1 \in 1..n /\ (k + 1) - 1 = k /\ k + 1 # 1 /\ k \in 1..n
    BY <1>3
  <2>2. h[k] = Subject(stack, roots, k + 1)
    BY <2>1 DEF Subject
  <2>3. \A i \in 1..((k + 1) - 1) : i \in 1..k
    BY <2>1
  <2>4. /\ Subject(stack, roots, k + 1) \in {c} \union Consumed(c)
        /\ \A i \in 1..((k + 1) - 1) : Subject(stack, roots, k + 1) \in Reach(UsedBy(Subject(stack, roots, i)))
    BY <1>2, <2>1 DEF StackInv
  <2> HIDE DEF h
  <2> QED BY <2>1, <2>2, <2>4
<1>6. ASSUME NEW k \in 1..n PROVE h[k] \in Consumed(c)
  <2>1. CASE k = n
    BY <1>4, <2>1
  <2>2. CASE k # n
    <3>1. k \in 1..(n - 1) /\ 1 \in 1..k /\ 1 \in 1..n
      BY <1>3, <2>2
    <3> DEFINE y == Subject(stack, roots, 1)
    <3>2. y \in {c} \union Consumed(c)
      BY <1>2, <3>1 DEF StackInv
    <3>3. h[k] \in Reach(UsedBy(y))
      BY <1>5, <3>1
    <3> HIDE DEF y, h
    <3>4. UsedBy(y) \subseteq Consumed(c) /\ UsedBy(y) \in SUBSET Us
      BY <1>2, <3>2, SubjectFacts
    <3>5. Consumed(c) \in SUBSET Us /\ \A v \in Consumed(c) : UsesOf(v) \subseteq Consumed(c)
      BY <1>2, OwnUsagesFacts
    <3>6. Reach(UsedBy(y)) \subseteq Consumed(c)
      BY <1>2, <3>4, <3>5, ReachFacts
    <3> QED BY <3>3, <3>6
  <2> QED BY <2>1, <2>2
<1>7. \A i, j \in 1..n : i < j => h[j] \in Reach(UsedBy(h[i]))
  <2> SUFFICES ASSUME NEW i \in 1..n, NEW j \in 1..n, i < j
               PROVE  h[j] \in Reach(UsedBy(h[i]))
    OBVIOUS
  <2>1. i \in 1..(n - 1) /\ i + 1 \in 1..j /\ i + 1 \in 1..n
    BY <1>3
  <2>2. h[i] = Subject(stack, roots, i + 1)
    BY <1>5, <2>1
  <2>3. j = n \/ j \in 1..(n - 1)
    BY <1>3
  <2> HIDE DEF h
  <2> QED BY <1>4, <1>5, <2>1, <2>2, <2>3
<1>8. PICK i \in 1..n, j \in 1..n : i # j /\ h[i] = h[j]
  <2>1. h \in [1..n -> Us]
    BY <1>2, <1>6
  <2>2. IsFiniteSet(Us) /\ Cardinality(Us) < n
    BY <1>1, <1>2, ScriptFacts
  <2>3. IsFiniteSet(1..n) /\ Cardinality(1..n) = n
    BY <1>3, FS_Interval
  <2> HIDE DEF h, n
  <2> QED BY <2>1, <2>2, <2>3, FS_PigeonHole
<1> HIDE DEF h
<1>9. h[i] \in Consumed(c) /\ h[i] \in Us /\ h[i] \in Reach(UsedBy(h[i]))
  <2>1. i < j \/ j < i
    BY <1>3, <1>8
  <2> QED BY <1>2, <1>6, <1>7, <1>8, <2>1
<1>10. UsedBy(h[i]) = UsesOf(h[i])
  BY <1>2, <1>9, UsFacts, SubjectFacts
<1>11. Cyclic
  BY <1>2, <1>9, <1>10 DEF Cyclic, AllConsumed
<1> QED BY <1>11, ErrorStep DEF Overflow

LEMMA RejectNameInv ==
  ASSUME IInv, RejectName
  PROVE  IInv'
<1> DEFINE c == Head(todo)
           x == Subject(stack, roots, Len(stack))
           name == Head(Top.names)
<1>1. Running /\ phase = "collect" /\ Top.names # << >> /\ name \in Special
  BY DEF RejectName, Running
<1>2. /\ script \in Script /\ c \in Config /\ TopInv(x) /\ c \in Elements(Listed)
      /\ Consumed(c) \subseteq Us
  BY <1>1, ConfigFacts, TopFacts
<1>3. CallInv(Top, x) /\ x \in {c} \union Us /\ x \in {c} \union Consumed(c)
  BY <1>2 DEF TopInv
<1> HIDE DEF x, c
<1>4. Top.names \in Seq(UsageName) /\ Elements(Top.names) \subseteq Elements(NamesOf(x))
  BY <1>3 DEF CallInv, Frame
<1>5. name \in Elements(Top.names)
  BY <1>1, <1>4, ElementsHeadTail
<1>6. name \in Elements(NamesOf(x)) \intersect Special
  BY <1>1, <1>4, <1>5
<1> HIDE DEF name
<1>7. NamesSpecial
  <2>1. CASE x = c
    <3>1. NamesOf(x) = script.uses[c]
      BY <1>2, <2>1, SubjectFacts
    <3> QED BY <1>2, <1>6, <3>1 DEF NamesSpecial
  <2>2. CASE x # c
    <3>1. NamesOf(x) = script.usageUses[x] /\ x \in AllConsumed
      BY <1>2, <1>3, <2>2, SubjectFacts DEF AllConsumed
    <3> QED BY <1>6, <3>1 DEF NamesSpecial
  <2> QED BY <2>1, <2>2
<1> QED BY <1>7, ErrorStep DEF RejectName

\* A call that has nothing left has all that its subject uses, and its subject
\* names no special usage.
LEMMA Completed ==
  ASSUME script \in Script, NEW f, NEW x, CallInv(f, x), f.matches = << >>, f.names = << >>
  PROVE  /\ f.uses \in Seq(Us) /\ Sound(f.uses) /\ Clean(NamesOf(x))
         /\ UsedBy(x) \subseteq Elements(f.uses) /\ Elements(f.uses) \subseteq Reach(UsedBy(x))
         /\ \A u \in Elements(f.uses) : u[2] # Private
<1>1. Elements(<< >>) = {} /\ Uses(<< >>, f.buildcfg) = {}
  BY UsesSplit DEF Elements
<1>2. Elements(f.uses) \subseteq Us
  BY ElementsType DEF CallInv
<1> QED BY <1>1, <1>2, UsFacts DEF CallInv, Clean

LEMMA LeaveUsageInv ==
  ASSUME IInv, LeaveUsage
  PROVE  IInv'
<1> DEFINE c == Head(todo)
           n == Len(stack)
           below == SubSeq(stack, 1, n - 1)
           caller == stack[n - 1]
           u == Head(caller.matches)
           x == Subject(stack, roots, n - 1)
           s == Append(caller.uses \o Top.uses, u)
           f == [caller EXCEPT !.matches = Tail(@), !.uses = s]
<1>1. /\ Running /\ phase = "collect" /\ stack # << >>
      /\ Top.matches = << >> /\ Top.names = << >> /\ n > 1
  BY DEF LeaveUsage, Running
<1>2. /\ script \in Script /\ c \in Config /\ StackInv(stack, roots, c) /\ roots # << >>
      /\ Consumed(c) \subseteq Us
  BY <1>1, ConfigFacts DEF IInv
<1>3. stack' = [below EXCEPT ![n - 1] = f]
  BY DEF LeaveUsage
<1>4. /\ StackInv(below, roots, c) /\ below # << >> /\ Len(below) = n - 1
      /\ below[n - 1] = caller /\ Subject(below, roots, n - 1) = x
  BY <1>1, <1>2, Dropped
<1>5. n \in Nat /\ n - 1 \in 1..n /\ n \in 1..n /\ n - 1 \in 1..(n - 1) /\ n # 1
  <2>1. n \in Nat
    BY <1>2 DEF StackInv
  <2> HIDE DEF n
  <2> QED BY <1>1, <2>1
<1>6. /\ caller.matches # << >> /\ u # Nil /\ Subject(stack, roots, n) = u
      /\ CallInv(caller, x) /\ x \in {c} \union Consumed(c)
      /\ CallInv(Top, u) /\ u \in {c} \union Consumed(c)
  <2>1. Subject(stack, roots, n) = u
    BY <1>5 DEF Subject
  <2> HIDE DEF x, c
  <2> QED BY <1>2, <1>5, <2>1 DEF StackInv, Top, x
<1> HIDE DEF below, x, c, n
<1>7. x \in {c} \union Us /\ u \in UsedBy(x) /\ UsedBy(x) \in SUBSET Us /\ u \in Us /\ u[2] # Private
  <2>1. x \in {c} \union Us /\ UsedBy(x) \in SUBSET Us
    BY <1>2, <1>6, SubjectFacts
  <2>2. caller.matches \in Seq(Us \union {Nil})
        /\ Elements(caller.matches) \subseteq UsedBy(x) \union {Nil}
        /\ \A v \in Elements(caller.matches) \ {Nil} : v[2] # Private
    BY <1>6 DEF CallInv
  <2> HIDE DEF caller
  <2>3. u \in Elements(caller.matches)
    BY <1>6, <2>2, ElementsHeadTail
  <2> HIDE DEF u
  <2> QED BY <1>6, <2>1, <2>2, <2>3
<1>8. /\ caller.matches \in Seq(Us \union {Nil}) /\ caller.uses \in Seq(Us) /\ caller \in Frame
      /\ Sound(caller.uses) /\ Elements(caller.uses) \subseteq Reach(UsedBy(x))
  BY <1>6 DEF CallInv
<1>9. /\ Tail(caller.matches) \in Seq(Us \union {Nil})
      /\ Elements(caller.matches) = {u} \union Elements(Tail(caller.matches))
  <2> HIDE DEF caller
  <2> QED BY <1>6, <1>8, ElementsHeadTail
<1> HIDE DEF caller, u
<1>10. NamesOf(u) = script.usageUses[u] /\ UsedBy(u) = UsesOf(u)
  BY <1>2, <1>7, UsFacts, SubjectFacts
<1>11. /\ Top.uses \in Seq(Us) /\ Sound(Top.uses) /\ Clean(NamesOf(u))
       /\ UsedBy(u) \subseteq Elements(Top.uses) /\ Elements(Top.uses) \subseteq Reach(UsedBy(u))
       /\ \A v \in Elements(Top.uses) : v[2] # Private
  BY <1>1, <1>2, <1>6, Completed
<1>12. /\ s \in Seq(Us) /\ Sound(s)
       /\ Elements(s) = Elements(caller.uses) \union Elements(Top.uses) \union {u}
  <2> DEFINE t == caller.uses \o Top.uses
  <2>1. t \in Seq(Us) /\ Sound(t) /\ Elements(t) = Elements(caller.uses) \union Elements(Top.uses)
    BY <1>8, <1>11, SoundConcat, ElementsConcat
  <2> HIDE DEF t
  <2>2. Append(t, u) \in Seq(Us) /\ Elements(Append(t, u)) = Elements(t) \union {u}
    BY <1>7, <2>1, ElementsAppend
  <2>3. Sound(Append(t, u))
    BY <1>7, <1>10, <1>11, <2>1, SoundAppend
  <2> QED BY <2>1, <2>2, <2>3 DEF t
<1> HIDE DEF s
<1>13. /\ f \in Frame /\ f.names = caller.names /\ f.matches = Tail(caller.matches)
       /\ f.uses = s /\ f.buildcfg = caller.buildcfg
  <2>1. Us \union {Nil} \subseteq UsageConfig \union {Nil} /\ Us \subseteq UsageConfig
    BY UsFacts
  <2>2. Tail(caller.matches) \in Seq(UsageConfig \union {Nil}) /\ s \in Seq(UsageConfig)
    BY <1>9, <1>12, <2>1
  <2> QED BY <1>8, <2>2 DEF Frame
<1> HIDE DEF f
<1>14. CallInv(f, x)
  <2>1. Reach(UsedBy(u)) \subseteq Reach(UsedBy(x)) /\ u \in Reach(UsedBy(x))
    <3>1. u \in Reach(UsedBy(x)) /\ UsesOf(u) \subseteq Reach(UsedBy(x))
      BY <1>2, <1>7, ReachFacts
    <3>2. UsesOf(u) \in SUBSET Us
      BY <1>2, <1>7, UsesOfType
    <3> QED BY <1>2, <1>7, <1>10, <3>1, <3>2, ReachMonotone
  <2>2. Elements(f.uses) \subseteq Reach(UsedBy(x))
    BY <1>8, <1>11, <1>12, <1>13, <2>1
  <2>3. UsedBy(x) \subseteq Elements(f.uses) \union Elements(f.matches) \union Uses(f.names, f.buildcfg)
    BY <1>6, <1>9, <1>12, <1>13 DEF CallInv
  <2>4. \A v \in (Elements(f.uses) \union Elements(f.matches)) \ {Nil} : v[2] # Private
    BY <1>6, <1>7, <1>9, <1>11, <1>12, <1>13 DEF CallInv
  <2>5. Elements(f.matches) \subseteq UsedBy(x) \union {Nil}
    BY <1>6, <1>9, <1>13 DEF CallInv
  <2>6. /\ f.buildcfg = BuildcfgOf(x)
        /\ Elements(f.names) \subseteq Elements(NamesOf(x))
        /\ Elements(NamesOf(x)) \intersect Special \subseteq Elements(f.names)
    BY <1>6, <1>13 DEF CallInv
  <2> QED BY <1>9, <1>12, <1>13, <2>2, <2>3, <2>4, <2>5, <2>6 DEF CallInv
<1>15. StackInv([below EXCEPT ![n - 1] = f], roots, c)
  BY <1>4, <1>14, Replaced
<1> QED BY <1>1, <1>2, <1>3, <1>15, StackStep DEF LeaveUsage, c

-----------------------------------------------------------------------------
(* Steps of the loop over the configurations                               *)

\* One call runs, for the root at hand.
LEMMA OneCall ==
  ASSUME NEW c, NEW rs, NEW f, CallInv(f, Head(rs)), Head(rs) \in {c} \union Consumed(c)
  PROVE  StackInv(<<f>>, rs, c)
<1> DEFINE calls == <<f>>
<1>1. f \in Frame
  BY DEF CallInv
<1>2. calls \in Seq(Frame) /\ Len(calls) = 1 /\ calls[1] = f
  BY <1>1, OneItem
<1>3. /\ \A k \in 1..1 : k = 1
      /\ \A i \in 1..(1 - 1) : FALSE /\ \A k \in 1..(1 - 1) : FALSE
  OBVIOUS
<1> HIDE DEF calls
<1>4. Subject(calls, rs, 1) = Head(rs) /\ 1 <= MaxDepth
  BY DepthAssumption DEF Subject
<1>5. ASSUME NEW k \in 1..Len(calls)
      PROVE  /\ Subject(calls, rs, k) \in {c} \union Consumed(c)
             /\ CallInv(calls[k], Subject(calls, rs, k))
             /\ \A i \in 1..(k - 1) : Subject(calls, rs, k) \in Reach(UsedBy(Subject(calls, rs, i)))
  BY <1>2, <1>3, <1>4
<1>6. \A k \in 1..(Len(calls) - 1) : calls[k].matches # << >> /\ Head(calls[k].matches) # Nil
  BY <1>2
<1> QED BY <1>2, <1>4, <1>5, <1>6 DEF StackInv, calls

LEMMA RootFacts ==
  ASSUME script \in Script, NEW c \in Config, NEW rs, NEW s, WalkInv(c, rs, s), rs # << >>
  PROVE  /\ Head(rs) \in {c} \union OwnUsages(c) /\ Tail(rs) \in Seq({c} \union OwnUsages(c))
         /\ Elements(rs) = {Head(rs)} \union Elements(Tail(rs))
         /\ Head(rs) \in {c} \union Us /\ Head(rs) \in {c} \union Consumed(c)
         /\ Head(rs) # c => Head(rs) \in Us /\ Head(rs) \in OwnUsages(c)
<1>1. rs \in Seq({c} \union OwnUsages(c))
  BY DEF WalkInv
<1>2. OwnUsages(c) \subseteq Us /\ OwnUsages(c) \subseteq Consumed(c)
  BY OwnUsagesFacts
<1>3. /\ Head(rs) \in {c} \union OwnUsages(c) /\ Tail(rs) \in Seq({c} \union OwnUsages(c))
      /\ Elements(rs) = {Head(rs)} \union Elements(Tail(rs))
  BY <1>1, ElementsHeadTail
<1> QED BY <1>2, <1>3

LEMMA CallKeeps ==
  ASSUME IInv, Call
  PROVE  IInv'
<1> DEFINE c == Head(todo)
           r == Head(roots)
           f == IF r = c THEN CallFor(r) ELSE CallForUsage(r)
<1>1. phase = "collect" /\ roots # << >> /\ stack' = <<f>>
  BY DEF Call
<1>2. /\ script \in Script /\ c \in Config /\ WalkInv(c, roots, toconsume)
  BY <1>1, ConfigFacts
<1> HIDE DEF c
<1>3. r \in {c} \union Consumed(c) /\ (r # c => r \in Us)
  BY <1>1, <1>2, RootFacts
<1>4. CallInv(f, r)
  BY <1>2, <1>3, CallStarts
<1> HIDE DEF f
<1>5. StackInv(<<f>>, roots, c)
  BY <1>3, <1>4, OneCall
<1> QED BY <1>1, <1>5, StackStep DEF Call, c

\* No call runs.
LEMMA NoCall == ASSUME NEW rs, NEW c PROVE StackInv(<< >>, rs, c)
<1>1. /\ << >> \in Seq(Frame) /\ Len(<< >>) = 0
      /\ \A k \in 1..0 : FALSE /\ \A i \in 1..(0 - 1) : FALSE
  OBVIOUS
<1>2. 0 <= MaxDepth
  BY DepthAssumption
<1> QED BY <1>1, <1>2 DEF StackInv

LEMMA ReturnInv ==
  ASSUME IInv, Return
  PROVE  IInv'
<1> DEFINE c == Head(todo)
           r == Head(roots)
           t == toconsume \o Top.uses
           s == IF r = c THEN t ELSE Append(t, r)
           rs == Tail(roots)
<1>1. /\ Running /\ phase = "collect" /\ stack # << >> /\ Len(stack) = 1
      /\ Top.matches = << >> /\ Top.names = << >>
      /\ stack' = << >> /\ roots' = rs
      /\ UNCHANGED <<script, todo, applied, phase>>
  BY DEF Return, Running
<1>2. /\ script \in Script /\ c \in Config /\ WalkInv(c, roots, toconsume)
      /\ Consumed(c) \in SUBSET Us /\ roots # << >> /\ TopInv(Subject(stack, roots, Len(stack)))
      /\ todo # << >>
  BY <1>1, ConfigFacts, TopFacts DEF IInv
<1>3. CallInv(Top, r)
  <2>1. Subject(stack, roots, Len(stack)) = r
    BY <1>1 DEF Subject
  <2> QED BY <1>2, <2>1 DEF TopInv
<1> HIDE DEF c
<1>4. /\ r \in {c} \union OwnUsages(c) /\ rs \in Seq({c} \union OwnUsages(c))
      /\ Elements(roots) = {r} \union Elements(rs)
      /\ r \in {c} \union Us /\ r \in {c} \union Consumed(c)
      /\ r # c => r \in Us /\ r \in OwnUsages(c)
  BY <1>2, RootFacts
<1>5. /\ Top.uses \in Seq(Us) /\ Sound(Top.uses) /\ Clean(NamesOf(r))
      /\ UsedBy(r) \subseteq Elements(Top.uses) /\ Elements(Top.uses) \subseteq Reach(UsedBy(r))
      /\ \A u \in Elements(Top.uses) : u[2] # Private
  BY <1>1, <1>2, <1>3, Completed
<1>6. /\ toconsume \in Seq(Us) /\ Sound(toconsume) /\ AtHome(toconsume, c)
      /\ Elements(toconsume) \subseteq Consumed(c)
  BY <1>2 DEF WalkInv
<1> HIDE DEF r, rs
<1>7. t \in Seq(Us) /\ Sound(t) /\ Elements(t) = Elements(toconsume) \union Elements(Top.uses)
  BY <1>5, <1>6, SoundConcat, ElementsConcat
<1> HIDE DEF t
<1>8. /\ s \in Seq(Us) /\ Sound(s)
      /\ Elements(s) = Elements(t) \union (IF r = c THEN {} ELSE {r})
  <2>1. CASE r = c
    BY <1>7, <2>1
  <2>2. CASE r # c
    <3>1. r \in Us /\ NamesOf(r) = script.usageUses[r] /\ UsedBy(r) = UsesOf(r)
      BY <1>2, <1>4, <2>2, SubjectFacts
    <3>2. Append(t, r) \in Seq(Us) /\ Elements(Append(t, r)) = Elements(t) \union {r}
      BY <1>7, <3>1, ElementsAppend
    <3>3. Sound(Append(t, r))
      BY <1>5, <1>7, <3>1, SoundAppend
    <3> QED BY <2>2, <3>2, <3>3
  <2> QED BY <2>1, <2>2
<1>9. toconsume' = s
  <2>1. CASE r = c
    <3>1. t \o << >> = t
      BY <1>7
    <3>2. toconsume' = t \o << >>
      BY <2>1 DEF Return, t, r, c
    <3> QED BY <2>1, <3>1, <3>2
  <2>2. CASE r # c
    <3>1. t \o <<r>> = Append(t, r)
      BY <1>7
    <3>2. toconsume' = t \o <<r>>
      BY <2>2 DEF Return, t, r, c
    <3> QED BY <2>2, <3>1, <3>2
  <2> QED BY <2>1, <2>2
<1> HIDE DEF s
<1>10. WalkInv(c, rs, s)
  <2>1. Elements(s) \subseteq Consumed(c)
    <3>1. UsedBy(r) \subseteq Consumed(c) /\ UsedBy(r) \in SUBSET Us
      BY <1>2, <1>4, SubjectFacts
    <3>2. \A u \in Consumed(c) : UsesOf(u) \subseteq Consumed(c)
      BY <1>2, OwnUsagesFacts
    <3>3. Reach(UsedBy(r)) \subseteq Consumed(c)
      BY <1>2, <3>1, <3>2, ReachFacts
    <3> QED BY <1>4, <1>5, <1>6, <1>7, <1>8, <3>3
  <2>2. AtHome(s, c)
    <3>1. \A u \in OwnUsages(c) : u[1] = c[1]
      BY <1>2, OwnUsagesFacts
    <3> QED BY <1>4, <1>5, <1>6, <1>7, <1>8, <3>1 DEF AtHome
  <2>3. OwnUsages(c) \subseteq Elements(s) \union Elements(rs)
    <3>1. OwnUsages(c) \subseteq Elements(toconsume) \union Elements(roots)
      BY <1>2 DEF WalkInv
    <3>2. c \notin OwnUsages(c)
      BY <1>2, OwnUsagesFacts, UsFacts
    <3> QED BY <1>4, <1>7, <1>8, <3>1, <3>2
  <2>4. c \notin Elements(rs) => UsedBy(c) \subseteq Elements(s) /\ Clean(NamesOf(c))
    <3>1. CASE r = c
      BY <1>5, <1>7, <1>8, <3>1
    <3>2. CASE r # c
      <4>1. c \notin Elements(roots) => UsedBy(c) \subseteq Elements(toconsume) /\ Clean(NamesOf(c))
        BY <1>2 DEF WalkInv
      <4> QED BY <1>4, <1>7, <1>8, <3>2, <4>1
    <3> QED BY <3>1, <3>2
  <2> QED BY <1>4, <1>8, <2>1, <2>2, <2>3, <2>4 DEF WalkInv
<1>11. WalkInv(Head(todo), roots, toconsume)' /\ StackInv(stack, roots, Head(todo))'
  BY <1>1, <1>9, <1>10, NoCall, ScriptOnly DEF c
<1>12. (\A k \in Config : applied[k] # Nil => Received(k, applied[k]))'
  BY <1>1, ScriptOnly DEF IInv
<1> QED BY <1>1, <1>2, <1>11, <1>12, ScriptOnly DEF IInv

LEMMA SpecialOfFacts ==
  ASSUME script \in Script, NEW c \in Config, NEW u \in {Public, Private}
  PROVE  /\ SpecialOf(c, u) \in Seq(OwnUsages(c))
         /\ <<c[1], u>> \in script.usages /\ Closest(c[1], u, c[2]) # Nil =>
              Closest(c[1], u, c[2]) \in Elements(SpecialOf(c, u))
<1> DEFINE closest == Closest(c[1], u, c[2])
<1>1. CASE <<c[1], u>> \in script.usages /\ closest # Nil
  <2>1. closest \in OwnUsages(c)
    BY <1>1 DEF OwnUsages
  <2>2. SpecialOf(c, u) = <<closest>>
    BY <1>1 DEF SpecialOf
  <2> HIDE DEF closest
  <2>3. <<closest>> \in Seq(OwnUsages(c)) /\ Elements(<<closest>>) = {closest}
    BY <2>1, OneItem
  <2> QED BY <2>2, <2>3 DEF closest
<1>2. CASE ~ (<<c[1], u>> \in script.usages /\ closest # Nil)
  <2>1. SpecialOf(c, u) = << >>
    BY <1>2 DEF SpecialOf
  <2> QED BY <1>2, <2>1
<1> QED BY <1>1, <1>2

\* The walk of a configuration starts with the calls for it and its own usages.
LEMMA WalkStarts ==
  ASSUME script \in Script, NEW c \in Config
  PROVE  WalkInv(c, RootsOf(c), << >>)
<1> DEFINE X == {c} \union OwnUsages(c)
           public == SpecialOf(c, Public)
           private == SpecialOf(c, Private)
           rs == (<<c>> \o public) \o private
<1>1. public \in Seq(OwnUsages(c)) /\ private \in Seq(OwnUsages(c))
  BY SpecialOfFacts
<1>2. <<c>> \in Seq(X) /\ Elements(<<c>>) = {c}
  BY OneItem
<1>3. public \in Seq(X) /\ private \in Seq(X)
  BY <1>1
<1>4. ASSUME NEW v \in OwnUsages(c) PROVE v \in Elements(public) \union Elements(private)
  <2>1. PICK u \in {Public, Private} :
          <<c[1], u>> \in script.usages /\ v = Closest(c[1], u, c[2]) /\ v # Nil
    BY DEF OwnUsages
  <2> QED BY <2>1, SpecialOfFacts
<1>5. rs = RootsOf(c)
  BY DEF RootsOf
<1> HIDE DEF public, private, X
<1> DEFINE own == <<c>> \o public
<1>6. /\ own \in Seq(X) /\ rs \in Seq(X)
      /\ Elements(own) = {c} \union Elements(public)
  <2> DEFINE one == <<c>>
  <2>1. one \in Seq(X) /\ Elements(one) = {c}
    BY <1>2
  <2> HIDE DEF one
  <2>2. one \o public \in Seq(X)
    BY <1>3, <2>1
  <2>3. (one \o public) \o private \in Seq(X)
    BY <1>3, <2>2
  <2>4. Elements(one \o public) = Elements(one) \union Elements(public)
    BY <1>3, <2>1, ElementsConcat
  <2> QED BY <2>1, <2>2, <2>3, <2>4 DEF one
<1>7. Elements(rs) = {c} \union Elements(public) \union Elements(private)
  <2> HIDE DEF own
  <2>1. Elements(own \o private) = Elements(own) \union Elements(private)
    BY <1>3, <1>6, ElementsConcat
  <2> QED BY <1>6, <2>1 DEF own
<1>8. << >> \in Seq(Us) /\ Elements(<< >>) = {}
  BY DEF Elements
<1> HIDE DEF rs
<1>9. WalkInv(c, rs, << >>)
  BY <1>4, <1>6, <1>7, <1>8, SoundEmpty DEF WalkInv, AtHome, X
<1> QED BY <1>5, <1>9

\* It ends with all that can be reached.
LEMMA WalkEnds ==
  ASSUME script \in Script, NEW c \in Config, NEW s, WalkInv(c, << >>, s)
  PROVE  Received(c, Unique(s))
<1>1. /\ s \in Seq(Us) /\ Sound(s) /\ AtHome(s, c) /\ Elements(s) \subseteq Consumed(c)
      /\ OwnUsages(c) \subseteq Elements(s)
      /\ UsedBy(c) \subseteq Elements(s) /\ Clean(NamesOf(c))
  <2>1. Elements(<< >>) = {}
    BY DEF Elements
  <2> QED BY <2>1 DEF WalkInv
<1>2. /\ Unique(s) \in Seq(Us) /\ Elements(Unique(s)) = Elements(s)
      /\ NoRepeats(Unique(s)) /\ Sound(Unique(s))
  BY <1>1, UniqueFacts
<1>3. Consumed(c) \subseteq Elements(s)
  <2> DEFINE us == Uses(script.uses[c], c[2]) \union OwnUsages(c)
  <2>1. UsedBy(c) = Uses(script.uses[c], c[2])
    <3>1. NamesOf(c) = script.uses[c] /\ BuildcfgOf(c) = c[2]
      BY SubjectFacts
    <3> QED BY <3>1 DEF UsedBy
  <2>2. us \subseteq Elements(s) /\ Elements(s) \in SUBSET Us /\ us \in SUBSET Us
    BY <1>1, <2>1, ElementsType
  <2>3. \A u \in Elements(s) : UsesOf(u) \subseteq Elements(s)
    <3>1. \A j \in 1..Len(s) : \A i \in 1..(j - 1) : i \in 1..Len(s)
      BY <1>1
    <3>2. \A j \in 1..Len(s) : \A u \in UsesOf(s[j]) : \E i \in 1..(j - 1) : s[i] = u
      BY <1>1 DEF Sound
    <3> QED BY <3>1, <3>2 DEF Elements
  <2>4. Consumed(c) = Reach(us)
    BY DEF Consumed
  <2> HIDE DEF us
  <2> QED BY <2>2, <2>3, <2>4, ReachFacts
<1> QED BY <1>1, <1>2, <1>3 DEF Received, AtHome

LEMMA ApplyInv ==
  ASSUME IInv, Apply
  PROVE  IInv'
<1> DEFINE c == Head(todo)
           s == Unique(toconsume)
<1>1. /\ phase = "collect" /\ stack = << >> /\ roots = << >>
      /\ applied' = [applied EXCEPT ![c] = s] /\ todo' = Tail(todo) /\ toconsume' = << >>
      /\ script' = script /\ stack' = stack
      /\ IF todo' = << >> THEN phase' = "done" ELSE roots' = RootsOf(Head(todo')) /\ phase' = phase
  BY DEF Apply
<1>2. /\ script \in Script /\ c \in Config /\ WalkInv(c, roots, toconsume)
      /\ todo \in Seq(Config) /\ Tail(todo) \in Seq(Config) /\ Elements(todo) = {c} \union Elements(Tail(todo))
  BY <1>1, ConfigFacts
<1>3. Received(c, s)
  BY <1>1, <1>2, WalkEnds
<1>4. s \in Seq(UsageConfig) /\ s # Nil
  <2>1. s \in Seq(Us) /\ Us \subseteq UsageConfig
    BY <1>3, UsFacts DEF Received
  <2> HIDE DEF s
  <2>2. s \in Seq(UsageConfig)
    BY <2>1
  <2> QED BY <2>2, NilAssumption
<1> HIDE DEF c, s
<1>5. /\ applied \in [Config -> Seq(UsageConfig) \union {Nil}]
      /\ \A k \in Config : applied[k] # Nil => Received(k, applied[k])
      /\ Elements(todo) \subseteq Elements(Listed)
      /\ \A k \in Elements(Listed) : applied[k] # Nil \/ k \in Elements(todo)
      /\ Elements(Listed) \subseteq Config
  <2>1. Elements(Listed) \subseteq Config
    BY <1>2, ListedType, ElementsType
  <2> QED BY <2>1 DEF IInv
<1>6. /\ applied' \in [Config -> Seq(UsageConfig) \union {Nil}]
      /\ \A k \in Config : applied'[k] = IF k = c THEN s ELSE applied[k]
  BY <1>1, <1>2, <1>4, <1>5
<1>7. (\A k \in Config : applied[k] # Nil => Received(k, applied[k]))'
  <2>1. \A k \in Config : applied'[k] # Nil => Received(k, applied'[k])
    BY <1>3, <1>5, <1>6
  <2> QED BY <1>1, <2>1, ScriptOnly
<1>8. (\A k \in Elements(Listed) : applied[k] # Nil \/ k \in Elements(todo))'
  <2>1. \A k \in Elements(Listed) : applied'[k] # Nil \/ k \in Elements(todo')
    BY <1>1, <1>2, <1>4, <1>5, <1>6
  <2>2. Elements(Listed)' = Elements(Listed) /\ Elements(todo)' = Elements(todo')
    BY <1>1, ScriptOnly DEF Elements
  <2> QED BY <2>1, <2>2
<1>9. (todo \in Seq(Config) /\ Elements(todo) \subseteq Elements(Listed))'
  <2>1. todo' \in Seq(Config) /\ Elements(todo') \subseteq Elements(Listed)
    BY <1>1, <1>2, <1>5
  <2>2. Elements(Listed)' = Elements(Listed) /\ Elements(todo)' = Elements(todo')
    BY <1>1, ScriptOnly DEF Elements
  <2> QED BY <2>1, <2>2
<1>10. CASE todo' = << >>
  <2>1. phase' = "done"
    BY <1>1, <1>10
  <2> QED BY <1>1, <1>2, <1>6, <1>7, <1>8, <1>9, <1>10, <2>1 DEF IInv
<1>11. CASE todo' # << >>
  <2>1. phase' = "collect" /\ roots' = RootsOf(Head(todo'))
    BY <1>1, <1>11
  <2>2. Head(todo') \in Config
    BY <1>1, <1>2, <1>11, ElementsHeadTail
  <2>3. WalkInv(Head(todo'), RootsOf(Head(todo')), << >>) /\ StackInv(<< >>, RootsOf(Head(todo')), Head(todo'))
    BY <1>2, <2>2, WalkStarts, NoCall
  <2>4. (WalkInv(Head(todo), roots, toconsume) /\ StackInv(stack, roots, Head(todo)))'
    BY <1>1, <2>1, <2>3, ScriptOnly
  <2> QED BY <1>1, <1>2, <1>6, <1>7, <1>8, <1>9, <1>11, <2>1, <2>4 DEF IInv
<1> QED BY <1>10, <1>11

LEMMA InitInv == Init => IInv
<1> SUFFICES ASSUME Init PROVE IInv
  OBVIOUS
<1>1. /\ script \in Script /\ todo = Listed /\ roots = RootsOf(Head(Listed)) /\ stack = << >>
      /\ toconsume = << >> /\ applied = [c \in Config |-> Nil] /\ phase = "collect"
  BY DEF Init
<1>2. Listed \in Seq(Config) /\ Listed # << >> /\ Elements(Listed) \subseteq Config
  BY <1>1, ListedType, ElementsType
<1>3. Head(Listed) \in Config
  BY <1>2
<1>4. WalkInv(Head(todo), roots, toconsume) /\ StackInv(stack, roots, Head(todo))
  BY <1>1, <1>3, WalkStarts, NoCall
<1>5. \A c \in Config : applied[c] = Nil
  BY <1>1
<1>6. applied \in [Config -> Seq(UsageConfig) \union {Nil}]
  BY <1>1
<1> QED BY <1>1, <1>2, <1>4, <1>5, <1>6 DEF IInv

LEMMA StutterInv ==
  ASSUME IInv, UNCHANGED vars
  PROVE  IInv'
<1>1. UNCHANGED <<script, todo, roots, stack, toconsume, applied, phase>>
  BY DEF vars
<1>2. (\A c \in Config : applied[c] # Nil => Received(c, applied[c]))'
  BY <1>1, ScriptOnly DEF IInv
<1>3. phase = "collect" => (WalkInv(Head(todo), roots, toconsume) /\ StackInv(stack, roots, Head(todo)))'
  BY <1>1, ScriptOnly DEF IInv
<1> QED BY <1>1, <1>2, <1>3, ScriptOnly DEF IInv

\* The inductive invariant holds throughout.
THEOREM Invariance == Spec => []IInv
<1>1. IInv /\ [Next]_vars => IInv'
  <2> SUFFICES ASSUME IInv, [Next]_vars PROVE IInv'
    OBVIOUS
  <2> QED BY CallKeeps, LookUpNameInv, RejectNameInv, MissUsageInv, EnterUsageInv, OverflowInv,
             LeaveUsageInv, ReturnInv, ApplyInv, StutterInv DEF Next
<1> QED BY <1>1, InitInv, PTL DEF Spec

-----------------------------------------------------------------------------
(* What follows                                                            *)

\* A finished configuration received all that can be reached from it, and
\* nothing twice.
THEOREM ReachableSafety == Spec => []ConsumesReachable
<1>1. IInv => ConsumesReachable
  BY DEF IInv, ConsumesReachable, Finished, Walked, Received
<1> QED BY <1>1, Invariance, PTL

\* A PRIVATE usage is applied to its own project only.
THEOREM PrivateSafety == Spec => []PrivateStaysHome
<1>1. IInv => PrivateStaysHome
  <2> SUFFICES ASSUME IInv, NEW c \in Walked, NEW i \in 1..Len(applied[c]), applied[c][i][2] = Private
               PROVE  applied[c][i][1] = c[1]
    BY DEF PrivateStaysHome
  <2>1. AtHome(applied[c], c)
    BY DEF IInv, Walked, Received
  <2>2. applied[c][i] \in Elements(applied[c])
    BY DEF Elements
  <2> QED BY <2>1, <2>2 DEF AtHome
<1> QED BY <1>1, Invariance, PTL

\* In a list without repetitions a sound place is the only place.
LEMMA UsedIsBefore ==
  ASSUME NEW s, Len(s) \in Nat, Sound(s), NoRepeats(s),
         NEW i \in 1..Len(s), NEW j \in 1..Len(s), s[i] \in UsesOf(s[j])
  PROVE  i < j
<1>1. PICK k \in 1..(j - 1) : s[k] = s[i]
  BY DEF Sound
<1>2. k \in 1..Len(s) /\ k < j
  OBVIOUS
<1>3. k = i
  BY <1>1, <1>2 DEF NoRepeats
<1> QED BY <1>2, <1>3

\* A usage comes after those it uses.
THEOREM OrderSafety == Spec => []DependenciesFirst
<1>1. IInv => DependenciesFirst
  <2> SUFFICES ASSUME IInv, NEW c \in Walked, NEW i \in 1..Len(applied[c]), NEW j \in 1..Len(applied[c]),
                      applied[c][i] \in UsesOf(applied[c][j])
               PROVE  i < j
    BY DEF DependenciesFirst
  <2>1. applied[c] \in Seq(Us) /\ Sound(applied[c]) /\ NoRepeats(applied[c])
    BY DEF IInv, Walked, Received
  <2>2. Len(applied[c]) \in Nat
    BY <2>1
  <2> QED BY <2>1, <2>2, UsedIsBefore
<1> QED BY <1>1, Invariance, PTL

\* Of a sound list nothing reaches itself: what comes before an item is closed.
LEMMA SoundIsAcyclic ==
  ASSUME script \in Script, NEW s \in Seq(Us), Sound(s), NoRepeats(s), NEW j \in 1..Len(s)
  PROVE  s[j] \notin Reach(UsesOf(s[j]))
<1> DEFINE S == {s[i] : i \in 1..(j - 1)}
<1>1. /\ \A i \in 1..(j - 1) : i \in 1..Len(s) /\ s[i] \in Us /\ i # j
      /\ \A i \in 1..(j - 1) : \A k \in 1..(i - 1) : k \in 1..(j - 1)
      /\ s[j] \in Us
  OBVIOUS
<1>2. S \in SUBSET Us /\ s[j] \notin S
  BY <1>1 DEF NoRepeats
<1>3. UsesOf(s[j]) \subseteq S
  BY DEF Sound
<1>4. \A u \in S : UsesOf(u) \subseteq S
  BY <1>1 DEF Sound
<1>5. UsesOf(s[j]) \in SUBSET Us
  BY <1>1, UsesOfType
<1>6. Reach(UsesOf(s[j])) \subseteq S
  <2> HIDE DEF S
  <2> QED BY <1>2, <1>3, <1>4, <1>5, ReachFacts
<1> QED BY <1>2, <1>6

\* Baking fails on usages that use each other, and on special names, only.
THEOREM FailureSafety == Spec => []FailsOnCyclesOnly
<1>1. IInv => FailsOnCyclesOnly
  <2> SUFFICES ASSUME IInv, phase = "done" PROVE ~ Cyclic /\ ~ NamesSpecial
    BY DEF IInv, FailsOnCyclesOnly
  <2>1. script \in Script /\ todo = << >>
    BY DEF IInv
  <2>2. \A c \in Elements(Listed) : c \in Config /\ Received(c, applied[c])
    <3>1. Elements(Listed) \subseteq Config
      BY <2>1, ListedType, ElementsType
    <3>2. Elements(todo) = {}
      BY <2>1 DEF Elements
    <3> QED BY <3>1, <3>2 DEF IInv
  <2>3. ASSUME NEW u \in AllConsumed
        PROVE  Clean(script.usageUses[u]) /\ u \notin Reach(UsesOf(u))
    <3>1. PICK c \in Elements(Listed) : u \in Consumed(c)
      BY DEF AllConsumed
    <3>2. /\ applied[c] \in Seq(Us) /\ Sound(applied[c]) /\ NoRepeats(applied[c])
          /\ Elements(applied[c]) = Consumed(c)
      BY <2>2 DEF Received
    <3>3. PICK j \in 1..Len(applied[c]) : applied[c][j] = u
      BY <3>1, <3>2 DEF Elements
    <3>4. Clean(script.usageUses[u])
      BY <3>2, <3>3 DEF Sound
    <3> QED BY <2>1, <3>2, <3>3, <3>4, SoundIsAcyclic
  <2>4. ~ NamesSpecial
    <3>1. ASSUME NEW c \in Elements(Listed) PROVE Elements(script.uses[c]) \intersect Special = {}
      <4>1. NamesOf(c) = script.uses[c]
        BY <2>2 DEF NamesOf
      <4> QED BY <2>2, <4>1 DEF Received, Clean
    <3> QED BY <2>3, <3>1 DEF NamesSpecial, Clean
  <2> QED BY <2>3, <2>4 DEF Cyclic
<1> QED BY <1>1, Invariance, PTL

-----------------------------------------------------------------------------
(* What is applied                                                         *)

LEMMA StoreListTyped == \A v, s \in Seq(Value) : StoreList(v, s) \in Seq(Value) /\ << >> \in Seq(Value)
<1> SUFFICES ASSUME NEW v \in Seq(Value), NEW s \in Seq(Value) PROVE StoreList(v, s) \in Seq(Value)
  OBVIOUS
<1>1. StoreListEquations(Value, v)
  BY StoreListStep
<1> QED BY <1>1 DEF StoreListEquations

\* The equations of StoreAll, field by field.
StoredListEquations(X) ==
  /\ StoreAll(<< >>).list = << >>
  /\ \A s \in Seq(X) :
       /\ StoreAll(s).list \in Seq(Value)
       /\ \A x \in X : StoreAll(Append(s, x)).list = StoreList(StoreAll(s).list, x.list)

LEMMA StoredListStep ==
  ASSUME NEW X, \A x \in X : x.list \in Seq(Value)
  PROVE  StoredListEquations(X)
<1> DEFINE V == Seq(Value)
           g == [p \in V \X X |-> StoreList(p[1], p[2].list)]
<1>1. << >> \in V /\ \A v \in V, x \in X : (StoreList(v, x.list)) \in V
  <2>1. << >> \in Seq(Value)
    OBVIOUS
  <2> QED BY <2>1, StoreListTyped
<1>2. g \in [V \X X -> V] /\ \A v \in V, x \in X : g[<<v, x>>] = StoreList(v, x.list)
  <2> HIDE DEF V
  <2>1. \A p \in V \X X : p[1] \in V /\ p[2] \in X
    OBVIOUS
  <2>2. \A p \in V \X X : (StoreList(p[1], p[2].list)) \in V
    BY <1>1, <2>1
  <2>3. \A v \in V, x \in X : <<v, x>> \in V \X X
    OBVIOUS
  <2> QED BY <2>2, <2>3
<1> HIDE DEF V, g
<1>3. FoldEquations(V, X, g, << >>)
  BY <1>1, <1>2, FoldedStep
<1>4. ASSUME NEW s \in Seq(X) PROVE StoreAll(s).list = FoldedBy(g, << >>, s)
  <2> DEFINE Defines(f) == f = [i \in 0..Len(s) |->
                            IF i = 0 THEN << >> ELSE StoreList(f[i - 1], s[i].list)]
             F == CHOOSE f : Defines(f)
  <2>1. /\ 0 \in 0..Len(s)
        /\ \A i \in 1..Len(s) : i \in 0..Len(s) /\ i # 0 /\ s[i] \in X
        /\ \A i \in 0..Len(s) : i # 0 => i \in 1..Len(s) /\ i - 1 \in 0..Len(s)
    OBVIOUS
  <2>2. PICK f \in [0..Len(s) -> V] : Folds(f, g, << >>, s)
    BY <1>1, <1>2, FoldExists
  <2>3. Defines(f)
    <3>1. f = [i \in 0..Len(s) |-> IF i = 0 THEN << >> ELSE g[<<f[i - 1], s[i]>>]]
      BY <2>2 DEF Folds
    <3>2. \A i \in 0..Len(s) : i # 0 => g[<<f[i - 1], s[i]>>] = StoreList(f[i - 1], s[i].list)
      BY <1>2, <2>1
    <3> QED BY <3>1, <3>2
  <2>4. Defines(F)
    <3> HIDE DEF Defines
    <3> QED BY <2>3
  <2>5. F[0] = << >> /\ \A i \in 1..Len(s) : F[i] = StoreList(F[i - 1], s[i].list)
    <3>1. F = [i \in 0..Len(s) |-> IF i = 0 THEN << >> ELSE StoreList(F[i - 1], s[i].list)]
      BY <2>4
    <3> HIDE DEF F, Defines
    <3> QED BY <2>1, <3>1
  <2>6. StoreAll(s).list = F[Len(s)]
    BY DEF StoreAll
  <2> HIDE DEF F, Defines
  <2>7. Follows(F, V, X, g, << >>, s)
    BY <1>1, <1>2, <2>1, <2>5 DEF Follows
  <2> QED BY <2>6, <2>7, FoldUnique
<1>5. << >> \in Seq(X) /\ \A s \in Seq(X), x \in X : Append(s, x) \in Seq(X)
  OBVIOUS
<1>6. ASSUME NEW s \in Seq(X)
      PROVE  StoreAll(s).list \in V /\ \A x \in X : StoreAll(Append(s, x)).list = StoreList(StoreAll(s).list, x.list)
  <2>1. StoreAll(s).list \in V /\ \A x \in X : StoreAll(Append(s, x)).list = g[<<StoreAll(s).list, x>>]
    BY <1>3, <1>4, <1>5 DEF FoldEquations
  <2>2. \A x \in X : g[<<StoreAll(s).list, x>>] = StoreList(StoreAll(s).list, x.list)
    BY <1>2, <2>1
  <2> QED BY <2>1, <2>2
<1>7. StoreAll(<< >>).list = << >>
  BY <1>3, <1>4, <1>5 DEF FoldEquations
<1> QED BY <1>6, <1>7 DEF V, StoredListEquations

StoredStringEquations(X) ==
  /\ StoreAll(<< >>).string = Nil
  /\ \A s \in Seq(X) :
       /\ StoreAll(s).string \in Value \union {Nil}
       /\ \A x \in X : StoreAll(Append(s, x)).string = IF x.string = Nil THEN StoreAll(s).string ELSE x.string

LEMMA StoredStringStep ==
  ASSUME NEW X, \A x \in X : x.string \in Value \union {Nil}
  PROVE  StoredStringEquations(X)
<1> DEFINE V == Value \union {Nil}
           g == [p \in V \X X |-> IF p[2].string = Nil THEN p[1] ELSE p[2].string]
<1>1. Nil \in V /\ \A v \in V, x \in X : (IF x.string = Nil THEN v ELSE x.string) \in V
  OBVIOUS
<1>2. g \in [V \X X -> V] /\ \A v \in V, x \in X : g[<<v, x>>] = IF x.string = Nil THEN v ELSE x.string
  <2> HIDE DEF V
  <2>1. \A p \in V \X X : p[1] \in V /\ p[2] \in X
    OBVIOUS
  <2>2. \A p \in V \X X : (IF p[2].string = Nil THEN p[1] ELSE p[2].string) \in V
    BY <1>1, <2>1
  <2>3. \A v \in V, x \in X : <<v, x>> \in V \X X
    OBVIOUS
  <2> QED BY <2>2, <2>3
<1> HIDE DEF V, g
<1>3. FoldEquations(V, X, g, Nil)
  BY <1>1, <1>2, FoldedStep
<1>4. ASSUME NEW s \in Seq(X) PROVE StoreAll(s).string = FoldedBy(g, Nil, s)
  <2> DEFINE Defines(f) == f = [i \in 0..Len(s) |->
                            IF i = 0 THEN Nil ELSE IF s[i].string = Nil THEN f[i - 1] ELSE s[i].string]
             F == CHOOSE f : Defines(f)
  <2>1. /\ 0 \in 0..Len(s)
        /\ \A i \in 1..Len(s) : i \in 0..Len(s) /\ i # 0 /\ s[i] \in X
        /\ \A i \in 0..Len(s) : i # 0 => i \in 1..Len(s) /\ i - 1 \in 0..Len(s)
    OBVIOUS
  <2>2. PICK f \in [0..Len(s) -> V] : Folds(f, g, Nil, s)
    BY <1>1, <1>2, FoldExists
  <2>3. Defines(f)
    <3>1. f = [i \in 0..Len(s) |-> IF i = 0 THEN Nil ELSE g[<<f[i - 1], s[i]>>]]
      BY <2>2 DEF Folds
    <3>2. \A i \in 0..Len(s) : i # 0 => g[<<f[i - 1], s[i]>>] = IF s[i].string = Nil THEN f[i - 1] ELSE s[i].string
      BY <1>2, <2>1
    <3> QED BY <3>1, <3>2
  <2>4. Defines(F)
    <3> HIDE DEF Defines
    <3> QED BY <2>3
  <2>5. F[0] = Nil /\ \A i \in 1..Len(s) : F[i] = IF s[i].string = Nil THEN F[i - 1] ELSE s[i].string
    <3>1. F = [i \in 0..Len(s) |-> IF i = 0 THEN Nil ELSE IF s[i].string = Nil THEN F[i - 1] ELSE s[i].string]
      BY <2>4
    <3> HIDE DEF F, Defines
    <3> QED BY <2>1, <3>1
  <2>6. StoreAll(s).string = F[Len(s)]
    BY DEF StoreAll
  <2> HIDE DEF F, Defines
  <2>7. Follows(F, V, X, g, Nil, s)
    BY <1>1, <1>2, <2>1, <2>5 DEF Follows
  <2> QED BY <2>6, <2>7, FoldUnique
<1>5. << >> \in Seq(X) /\ \A s \in Seq(X), x \in X : Append(s, x) \in Seq(X)
  OBVIOUS
<1>6. ASSUME NEW s \in Seq(X)
      PROVE  StoreAll(s).string \in V /\ \A x \in X : StoreAll(Append(s, x)).string = IF x.string = Nil THEN StoreAll(s).string ELSE x.string
  <2>1. StoreAll(s).string \in V /\ \A x \in X : StoreAll(Append(s, x)).string = g[<<StoreAll(s).string, x>>]
    BY <1>3, <1>4, <1>5 DEF FoldEquations
  <2>2. \A x \in X : g[<<StoreAll(s).string, x>>] = IF x.string = Nil THEN StoreAll(s).string ELSE x.string
    BY <1>2, <2>1
  <2> QED BY <2>1, <2>2
<1>7. StoreAll(<< >>).string = Nil
  BY <1>3, <1>4, <1>5 DEF FoldEquations
<1> QED BY <1>6, <1>7 DEF V, StoredStringEquations

\* The equations of LastGiven.
LastGivenEquations(X, d) ==
  /\ LastGiven(<< >>, d) = d
  /\ \A s \in Seq(X), x \in X :
       LastGiven(Append(s, x), d) = IF x.string = Nil THEN LastGiven(s, d) ELSE x.string

LEMMA LastGivenStep ==
  ASSUME NEW X, NEW d
  PROVE  LastGivenEquations(X, d)
<1>1. LastGiven(<< >>, d) = d
  BY DEF LastGiven
<1>2. ASSUME NEW s \in Seq(X), NEW x \in X
      PROVE  LastGiven(Append(s, x), d) = IF x.string = Nil THEN LastGiven(s, d) ELSE x.string
  <2> DEFINE n == Len(s)
             t == Append(s, x)
             Set(b) == {i \in 1..Len(b) : b[i].string # Nil}
             LastOf(T) == CHOOSE i \in T : \A j \in T : j <= i
  <2>1. n \in Nat /\ Len(t) = n + 1 /\ t[n + 1] = x /\ \A i \in 1..n : t[i] = s[i]
    OBVIOUS
  <2>2. /\ LastGiven(s, d) = IF Set(s) = {} THEN d ELSE s[LastOf(Set(s))].string
        /\ LastGiven(t, d) = IF Set(t) = {} THEN d ELSE t[LastOf(Set(t))].string
    BY DEF LastGiven
  <2> HIDE DEF t
  <2>3. \A i \in 1..(n + 1) : i \in 1..n \/ i = n + 1
    BY <2>1
  <2>4. CASE x.string = Nil
    <3>1. Set(t) = Set(s)
      BY <2>1, <2>3, <2>4
    <3>2. CASE Set(s) = {}
      <4> HIDE DEF Set, LastOf
      <4> QED BY <2>2, <2>4, <3>1, <3>2 DEF t
    <3>3. CASE Set(s) # {}
      <4> DEFINE T == Set(s)
      <4>1. T \in SUBSET (1..n)
        OBVIOUS
      <4> HIDE DEF T
      <4>2. \E i \in T : \A j \in T : j <= i
        BY <2>1, <3>3, <4>1, GreatestNat DEF T
      <4>3. LastOf(T) \in T
        BY <4>2
      <4> HIDE DEF LastOf
      <4>4. t[LastOf(T)] = s[LastOf(T)]
        BY <2>1, <4>1, <4>3
      <4> HIDE DEF Set
      <4> QED BY <2>2, <2>4, <3>1, <3>3, <4>4 DEF T, t
    <3> QED BY <3>2, <3>3
  <2>5. CASE x.string # Nil
    <3>1. n + 1 \in Set(t)
      BY <2>1, <2>5
    <3>2. \A i \in Set(t) : i \in Nat /\ i <= n + 1
      BY <2>1
    <3> DEFINE T == Set(t)
    <3> HIDE DEF T
    <3>3. LastOf(T) = n + 1
      <4>1. LastOf(T) \in T /\ \A j \in T : j <= LastOf(T)
        BY <3>1, <3>2 DEF T
      <4> HIDE DEF LastOf
      <4>2. n + 1 <= LastOf(T) /\ LastOf(T) <= n + 1 /\ LastOf(T) \in Nat
        BY <3>1, <3>2, <4>1 DEF T
      <4> QED BY <2>1, <4>2
    <3> HIDE DEF Set, LastOf
    <3>4. LastGiven(t, d) = t[n + 1].string
      BY <2>2, <3>1, <3>3 DEF T
    <3> QED BY <2>1, <2>5, <3>4 DEF t
  <2> QED BY <2>4, <2>5
<1> QED BY <1>1, <1>2 DEF LastGivenEquations

\* What a function makes of the items of a sequence.
Mapped(s, h) == [i \in 1..Len(s) |-> h[s[i]]]

MappedEquations(X, Y, h) ==
  /\ Mapped(<< >>, h) = << >>
  /\ \A s \in Seq(X) :
       /\ Mapped(s, h) \in Seq(Y)
       /\ \A x \in X : Mapped(Append(s, x), h) = Append(Mapped(s, h), h[x])

LEMMA MappedStep ==
  ASSUME NEW X, NEW Y, NEW h \in [X -> Y]
  PROVE  MappedEquations(X, Y, h)
<1>1. Mapped(<< >>, h) = << >>
  <2>1. Len(<< >>) = 0
    OBVIOUS
  <2> QED BY <2>1 DEF Mapped
<1>2. ASSUME NEW s \in Seq(X) PROVE Mapped(s, h) \in Seq(Y)
  BY DEF Mapped
<1>3. ASSUME NEW s \in Seq(X), NEW x \in X
      PROVE  Mapped(Append(s, x), h) = Append(Mapped(s, h), h[x])
  <2> DEFINE n == Len(s)
             t == Append(s, x)
             v == Mapped(s, h)
             w == Mapped(t, h)
  <2>1. n \in Nat /\ Len(t) = n + 1 /\ t[n + 1] = x /\ \A i \in 1..n : t[i] = s[i]
    OBVIOUS
  <2>2. v \in Seq(Y) /\ Len(v) = n /\ \A i \in 1..n : v[i] = h[s[i]]
    BY <1>2, <2>1 DEF Mapped
  <2> HIDE DEF t, v
  <2>3. w = [i \in 1..(n + 1) |-> h[t[i]]]
    BY <2>1 DEF Mapped
  <2>4. /\ Append(v, h[x]) = [i \in 1..(n + 1) |-> IF i = n + 1 THEN h[x] ELSE v[i]]
    BY <2>1, <2>2
  <2>5. \A i \in 1..(n + 1) : h[t[i]] = IF i = n + 1 THEN h[x] ELSE v[i]
    <3>1. \A i \in 1..(n + 1) : i = n + 1 \/ i \in 1..n
      BY <2>1
    <3> QED BY <2>1, <2>2, <3>1
  <2> QED BY <2>3, <2>4, <2>5 DEF t, v
<1> QED BY <1>1, <1>2, <1>3 DEF MappedEquations

\* The lists given, in a row.
ListOfGiven == [g \in Given |-> g.list]
AllLists(gs) == Concat(Mapped(gs, ListOfGiven))

AllListsEquations ==
  /\ AllLists(<< >>) = << >>
  /\ \A gs \in Seq(Given) :
       /\ AllLists(gs) \in Seq(Value)
       /\ \A g \in Given : AllLists(Append(gs, g)) = AllLists(gs) \o g.list

LEMMA AllListsStep == AllListsEquations
<1> DEFINE h == ListOfGiven
<1>1. h \in [Given -> Seq(Value)] /\ \A g \in Given : h[g] = g.list
  BY DEF ListOfGiven, Given
<1> HIDE DEF h
<1>2. /\ Mapped(<< >>, h) = << >>
      /\ \A gs \in Seq(Given) :
           /\ Mapped(gs, h) \in Seq(Seq(Value))
           /\ \A g \in Given : Mapped(Append(gs, g), h) = Append(Mapped(gs, h), g.list)
  <2>1. MappedEquations(Given, Seq(Value), h)
    BY <1>1, MappedStep
  <2> QED BY <1>1, <2>1 DEF MappedEquations
<1>3. ConcatEquations(Value)
  BY ConcatStep
<1>4. \A g \in Given : g.list \in Seq(Value)
  BY DEF Given
<1> QED BY <1>2, <1>3, <1>4 DEF AllListsEquations, AllLists, ConcatEquations, h

LEMMA AllListsConcat ==
  ASSUME NEW gs \in Seq(Given)
  PROVE  \A hs \in Seq(Given) : AllLists(gs \o hs) = AllLists(gs) \o AllLists(hs)
<1> DEFINE S == {hs \in Seq(Given) : AllLists(gs \o hs) = AllLists(gs) \o AllLists(hs)}
<1>1. AllLists(gs) \in Seq(Value) /\ AllLists(<< >>) = << >>
  BY AllListsStep DEF AllListsEquations
<1>2. << >> \in S
  <2>1. gs \o << >> = gs /\ AllLists(gs) \o << >> = AllLists(gs)
    BY <1>1
  <2> QED BY <1>1, <2>1
<1>3. ASSUME NEW hs \in Seq(Given), hs \in S, NEW g \in Given PROVE Append(hs, g) \in S
  <2>1. gs \o hs \in Seq(Given) /\ gs \o Append(hs, g) = Append(gs \o hs, g) /\ Append(hs, g) \in Seq(Given)
    OBVIOUS
  <2>2. /\ AllLists(Append(gs \o hs, g)) = AllLists(gs \o hs) \o g.list
        /\ AllLists(Append(hs, g)) = AllLists(hs) \o g.list
        /\ AllLists(hs) \in Seq(Value)
    BY <2>1, AllListsStep DEF AllListsEquations
  <2>3. g.list \in Seq(Value)
    BY DEF Given
  <2> DEFINE A == AllLists(gs)
             B == AllLists(hs)
             C == g.list
  <2>4. A \in Seq(Value) /\ B \in Seq(Value) /\ C \in Seq(Value)
    BY <1>1, <2>2, <2>3
  <2> HIDE DEF A, B, C
  <2>5. (A \o B) \o C = A \o (B \o C)
    BY <2>4
  <2> QED BY <1>3, <2>1, <2>2, <2>5 DEF A, B, C
<1>4. Seq(Given) \subseteq S
  <2> HIDE DEF S
  <2>1. \A hs \in Seq(Given) : hs \in S => \A g \in Given : Append(hs, g) \in S
    BY <1>3
  <2> QED BY <1>2, <2>1, SequenceInduction
<1> QED BY <1>4

\* Blocks stored one after the other hold the values of all, in a row.
LEMMA StoredIsInRow ==
  \A gs \in Seq(Given) : /\ StoreAll(gs).list = StoreList(<< >>, AllLists(gs))
                         /\ StoreAll(gs).list \in Seq(Value)
<1> DEFINE S == {gs \in Seq(Given) : StoreAll(gs).list = StoreList(<< >>, AllLists(gs))}
<1>1. \A g \in Given : g.list \in Seq(Value)
  BY DEF Given
<1>2. StoredListEquations(Given)
  BY <1>1, StoredListStep
<1>3. << >> \in Seq(Value)
  OBVIOUS
<1>4. StoreListEquations(Value, << >>)
  BY <1>3, StoreListStep
<1>5. << >> \in S
  BY <1>2, <1>4, AllListsStep DEF StoredListEquations, StoreListEquations, AllListsEquations
<1>6. ASSUME NEW gs \in Seq(Given), gs \in S, NEW g \in Given PROVE Append(gs, g) \in S
  <2>1. StoreAll(Append(gs, g)).list = StoreList(StoreAll(gs).list, g.list)
    BY <1>2 DEF StoredListEquations
  <2>2. AllLists(Append(gs, g)) = AllLists(gs) \o g.list /\ AllLists(gs) \in Seq(Value)
    BY AllListsStep DEF AllListsEquations
  <2> DEFINE A == AllLists(gs)
             C == g.list
  <2>3. StoreList(<< >>, A \o C) = StoreList(StoreList(<< >>, A), C)
    <3>1. A \in Seq(Value) /\ C \in Seq(Value)
      BY <1>1, <2>2
    <3> DEFINE none == << >>
    <3>2. none \in Seq(Value)
      OBVIOUS
    <3> HIDE DEF A, C, none
    <3>3. StoreList(none, A \o C) = StoreList(StoreList(none, A), C)
      BY <3>1, <3>2, StoreListConcat
    <3> QED BY <3>3 DEF none
  <2>4. Append(gs, g) \in Seq(Given)
    OBVIOUS
  <2> QED BY <1>6, <2>1, <2>2, <2>3, <2>4
<1>7. Seq(Given) \subseteq S
  <2> HIDE DEF S
  <2>1. \A gs \in Seq(Given) : gs \in S => \A g \in Given : Append(gs, g) \in S
    BY <1>6
  <2> QED BY <1>5, <2>1, SequenceInduction
<1> QED BY <1>2, <1>7 DEF StoredListEquations

\* The string of blocks stored one after the other is the last one given.
LEMMA StoredIsLast ==
  ASSUME NEW d
  PROVE  \A gs \in Seq(Given) :
           /\ LastGiven(gs, d) = IF StoreAll(gs).string = Nil THEN d ELSE StoreAll(gs).string
           /\ StoreAll(gs).string \in Value \union {Nil}
<1> DEFINE S == {gs \in Seq(Given) : LastGiven(gs, d) = IF StoreAll(gs).string = Nil THEN d
                                                       ELSE StoreAll(gs).string}
<1>1. \A g \in Given : g.string \in Value \union {Nil}
  BY DEF Given
<1>2. StoredStringEquations(Given) /\ LastGivenEquations(Given, d)
  BY <1>1, StoredStringStep, LastGivenStep
<1>3. << >> \in S
  BY <1>2 DEF StoredStringEquations, LastGivenEquations
<1>4. ASSUME NEW gs \in Seq(Given), gs \in S, NEW g \in Given PROVE Append(gs, g) \in S
  <2>1. Append(gs, g) \in Seq(Given)
    OBVIOUS
  <2>2. /\ StoreAll(Append(gs, g)).string = IF g.string = Nil THEN StoreAll(gs).string ELSE g.string
        /\ LastGiven(Append(gs, g), d) = IF g.string = Nil THEN LastGiven(gs, d) ELSE g.string
    BY <1>2 DEF StoredStringEquations, LastGivenEquations
  <2> QED BY <1>4, <2>1, <2>2
<1>5. Seq(Given) \subseteq S
  <2> HIDE DEF S
  <2>1. \A gs \in Seq(Given) : gs \in S => \A g \in Given : Append(gs, g) \in S
    BY <1>4
  <2> QED BY <1>3, <2>1, SequenceInduction
<1> QED BY <1>2, <1>5 DEF StoredStringEquations

LEMMA LastGivenConcat ==
  ASSUME NEW d, NEW gs \in Seq(Given)
  PROVE  \A hs \in Seq(Given) : LastGiven(gs \o hs, d) = LastGiven(hs, LastGiven(gs, d))
<1> DEFINE e == LastGiven(gs, d)
           S == {hs \in Seq(Given) : LastGiven(gs \o hs, d) = LastGiven(hs, e)}
<1>1. LastGivenEquations(Given, d) /\ LastGivenEquations(Given, e)
  BY LastGivenStep
<1>2. << >> \in S
  <2>1. gs \o << >> = gs
    OBVIOUS
  <2> QED BY <1>1, <2>1 DEF LastGivenEquations
<1>3. ASSUME NEW hs \in Seq(Given), hs \in S, NEW g \in Given PROVE Append(hs, g) \in S
  <2>1. gs \o hs \in Seq(Given) /\ gs \o Append(hs, g) = Append(gs \o hs, g) /\ Append(hs, g) \in Seq(Given)
    OBVIOUS
  <2>2. LastGiven(Append(gs \o hs, g), d) = IF g.string = Nil THEN LastGiven(gs \o hs, d) ELSE g.string
    BY <1>1, <2>1 DEF LastGivenEquations
  <2>3. LastGiven(Append(hs, g), e) = IF g.string = Nil THEN LastGiven(hs, e) ELSE g.string
    <3> HIDE DEF e
    <3> QED BY <1>1 DEF LastGivenEquations
  <2> QED BY <1>3, <2>1, <2>2, <2>3
<1>4. Seq(Given) \subseteq S
  <2> HIDE DEF S
  <2>1. \A hs \in Seq(Given) : hs \in S => \A g \in Given : Append(hs, g) \in S
    BY <1>3
  <2> QED BY <1>2, <2>1, SequenceInduction
<1> QED BY <1>4

\* Merged usage by usage and then across usages, values have the effect of the
\* blocks as they were written, for a list and a string to begin with.
LEMMA MergedAsWritten ==
  ASSUME script \in Script, NEW own \in Seq(Value), NEW d
  PROVE  \A us \in Seq(Us) :
           LET written == Concat([i \in 1..Len(us) |-> script.gives[us[i]]])
               block   == StoreAll([i \in 1..Len(us) |-> Properties(us[i])])
           IN  /\ written \in Seq(Given)
               /\ StoreList(own, block.list) = StoreList(own, AllLists(written))
               /\ LastGiven(written, d) = IF block.string = Nil THEN d ELSE block.string
<1> DEFINE gives == script.gives
           P == [u \in Us |-> Properties(u)]
           Y == [list : Seq(Value), string : Value \union {Nil}]
           W(us) == Concat(Mapped(us, gives))
           B(us) == StoreAll(Mapped(us, P))
           Agree(us) == /\ StoreList(own, B(us).list) = StoreList(own, AllLists(W(us)))
                        /\ LastGiven(W(us), d) = IF B(us).string = Nil THEN d ELSE B(us).string
           S == {us \in Seq(Us) : Agree(us)}
<1>1. gives \in [Us -> Seq(Given)]
  BY ScriptFacts
<1>2. \A u \in Us : P[u] = StoreAll(gives[u])
  BY DEF Properties
<1>3. P \in [Us -> Y]
  <2>1. ASSUME NEW u \in Us PROVE Properties(u) \in Y
    <3>1. gives[u] \in Seq(Given)
      BY <1>1
    <3>2. StoreAll(gives[u]).list \in Seq(Value) /\ StoreAll(gives[u]).string \in Value \union {Nil}
      BY <3>1, StoredIsInRow, StoredIsLast
    <3>3. \E l, v : StoreAll(gives[u]) = [list |-> l, string |-> v]
      BY DEF StoreAll
    <3> HIDE DEF gives
    <3> QED BY <3>2, <3>3 DEF Properties, gives
  <2> QED BY <2>1
<1> HIDE DEF gives, P
<1>4. /\ Mapped(<< >>, gives) = << >>
      /\ \A us \in Seq(Us) :
           /\ Mapped(us, gives) \in Seq(Seq(Given))
           /\ \A u \in Us : Mapped(Append(us, u), gives) = Append(Mapped(us, gives), gives[u])
  <2>1. MappedEquations(Us, Seq(Given), gives)
    BY <1>1, MappedStep
  <2> QED BY <2>1 DEF MappedEquations
<1>5. /\ Mapped(<< >>, P) = << >>
      /\ \A us \in Seq(Us) :
           /\ Mapped(us, P) \in Seq(Y)
           /\ \A u \in Us : Mapped(Append(us, u), P) = Append(Mapped(us, P), P[u])
  <2> HIDE DEF Y
  <2>1. MappedEquations(Us, Y, P)
    BY <1>3, MappedStep
  <2> QED BY <2>1 DEF MappedEquations
<1>6. ConcatEquations(Given)
  BY ConcatStep
<1>7. StoredListEquations(Y) /\ StoredStringEquations(Y)
  <2>1. \A y \in Y : y.list \in Seq(Value) /\ y.string \in Value \union {Nil}
    OBVIOUS
  <2> HIDE DEF Y
  <2> QED BY <2>1, StoredListStep, StoredStringStep
<1> HIDE DEF Y
<1>8. W(<< >>) = << >> /\ B(<< >>).list = << >> /\ B(<< >>).string = Nil
  BY <1>4, <1>5, <1>6, <1>7 DEF ConcatEquations, StoredListEquations, StoredStringEquations
<1>9. ASSUME NEW us \in Seq(Us)
      PROVE  /\ W(us) \in Seq(Given) /\ B(us).list \in Seq(Value)
             /\ \A u \in Us :
                  /\ W(Append(us, u)) = W(us) \o gives[u]
                  /\ B(Append(us, u)).list = StoreList(B(us).list, P[u].list)
                  /\ B(Append(us, u)).string = IF P[u].string = Nil THEN B(us).string ELSE P[u].string
  <2>1. Mapped(us, gives) \in Seq(Seq(Given)) /\ Mapped(us, P) \in Seq(Y)
    BY <1>4, <1>5
  <2>2. W(us) \in Seq(Given)
    BY <1>6, <2>1 DEF ConcatEquations
  <2>3. B(us).list \in Seq(Value)
    BY <1>7, <2>1 DEF StoredListEquations
  <2>4. ASSUME NEW u \in Us
        PROVE  /\ W(Append(us, u)) = W(us) \o gives[u]
               /\ B(Append(us, u)).list = StoreList(B(us).list, P[u].list)
               /\ B(Append(us, u)).string = IF P[u].string = Nil THEN B(us).string ELSE P[u].string
    <3>1. gives[u] \in Seq(Given) /\ P[u] \in Y
      BY <1>1, <1>3
    <3>2. /\ Mapped(Append(us, u), gives) = Append(Mapped(us, gives), gives[u])
          /\ Mapped(Append(us, u), P) = Append(Mapped(us, P), P[u])
      BY <1>4, <1>5
    <3>3. Concat(Append(Mapped(us, gives), gives[u])) = Concat(Mapped(us, gives)) \o gives[u]
      BY <1>6, <2>1, <3>1 DEF ConcatEquations
    <3>4. StoreAll(Append(Mapped(us, P), P[u])).list = StoreList(StoreAll(Mapped(us, P)).list, P[u].list)
      BY <1>7, <2>1, <3>1 DEF StoredListEquations
    <3>5. StoreAll(Append(Mapped(us, P), P[u])).string =
            IF P[u].string = Nil THEN StoreAll(Mapped(us, P)).string ELSE P[u].string
      BY <1>7, <2>1, <3>1 DEF StoredStringEquations
    <3> QED BY <3>2, <3>3, <3>4, <3>5
  <2> QED BY <2>2, <2>3, <2>4
<1> HIDE DEF W, B
<1>10. << >> \in S
  <2>1. AllLists(<< >>) = << >> /\ LastGiven(<< >>, d) = d
    BY AllListsStep, LastGivenStep DEF AllListsEquations, LastGivenEquations
  <2> QED BY <1>8, <2>1
<1>11. ASSUME NEW us \in Seq(Us), us \in S, NEW u \in Us PROVE Append(us, u) \in S
  <2> DEFINE gs == gives[u]
             w == W(us)
             b == B(us).list
             p == P[u]
             row == AllLists(w)
             new == AllLists(gs)
  <2>1. gs \in Seq(Given) /\ w \in Seq(Given) /\ b \in Seq(Value)
    BY <1>1, <1>9
  <2>2. /\ W(Append(us, u)) = w \o gs
        /\ B(Append(us, u)).list = StoreList(b, p.list)
        /\ B(Append(us, u)).string = IF p.string = Nil THEN B(us).string ELSE p.string
    BY <1>9
  <2>3. /\ StoreList(own, b) = StoreList(own, row)
        /\ LastGiven(w, d) = IF B(us).string = Nil THEN d ELSE B(us).string
    BY <1>11
  <2>4. p = StoreAll(gs)
    BY <1>2
  <2> HIDE DEF gs, w, b, p
  <2>5. /\ p.list = StoreList(<< >>, new) /\ p.list \in Seq(Value) /\ new \in Seq(Value) /\ row \in Seq(Value)
        /\ AllLists(w \o gs) = row \o new
    BY <2>1, <2>4, StoredIsInRow, AllListsStep, AllListsConcat DEF AllListsEquations
  <2> HIDE DEF row, new
  <2>6. StoreList(own, StoreList(b, p.list)) = StoreList(own, row \o new)
    <3> DEFINE z == StoreList(own, row)
    <3>1. StoreList(own, StoreList(b, p.list)) = StoreList(z, p.list)
      BY <2>1, <2>3, <2>5, StoreListMerges
    <3>2. z \in Seq(Value) /\ << >> \in Seq(Value)
      BY <2>5, StoreListTyped
    <3>3. StoreList(own, row \o new) = StoreList(z, new)
      BY <2>5, StoreListConcat
    <3> HIDE DEF z
    <3>4. StoreListEquations(Value, z)
      BY <3>2, StoreListStep
    <3> DEFINE none == << >>
    <3>5. StoreList(z, StoreList(none, new)) = StoreList(StoreList(z, none), new)
      <4>1. none \in Seq(Value)
        OBVIOUS
      <4> HIDE DEF none
      <4> QED BY <2>5, <3>2, <4>1, StoreListMerges
    <3> QED BY <2>5, <3>1, <3>3, <3>4, <3>5 DEF StoreListEquations
  <2>7. LastGiven(w \o gs, d) =
          IF B(Append(us, u)).string = Nil THEN d ELSE B(Append(us, u)).string
    <3>1. LastGiven(w \o gs, d) = LastGiven(gs, LastGiven(w, d))
      BY <2>1, LastGivenConcat
    <3>2. LastGiven(gs, LastGiven(w, d)) = IF p.string = Nil THEN LastGiven(w, d) ELSE p.string
      BY <2>1, <2>4, StoredIsLast
    <3> QED BY <2>2, <2>3, <3>1, <3>2
  <2>8. Append(us, u) \in Seq(Us)
    OBVIOUS
  <2> QED BY <2>2, <2>5, <2>6, <2>7, <2>8
<1>12. Seq(Us) \subseteq S
  <2> HIDE DEF S
  <2>1. \A us \in Seq(Us) : us \in S => \A u \in Us : Append(us, u) \in S
    BY <1>11
  <2> QED BY <1>10, <2>1, SequenceInduction
<1>13. ASSUME NEW us \in Seq(Us)
       PROVE  LET written == Concat([i \in 1..Len(us) |-> script.gives[us[i]]])
                  block   == StoreAll([i \in 1..Len(us) |-> Properties(us[i])])
              IN  /\ written \in Seq(Given)
                  /\ StoreList(own, block.list) = StoreList(own, AllLists(written))
                  /\ LastGiven(written, d) = IF block.string = Nil THEN d ELSE block.string
  <2>1. /\ W(us) \in Seq(Given)
        /\ StoreList(own, B(us).list) = StoreList(own, AllLists(W(us)))
        /\ LastGiven(W(us), d) = IF B(us).string = Nil THEN d ELSE B(us).string
    BY <1>9, <1>12
  <2>2. [i \in 1..Len(us) |-> script.gives[us[i]]] = Mapped(us, gives)
    BY DEF Mapped, gives
  <2>3. [i \in 1..Len(us) |-> Properties(us[i])] = Mapped(us, P)
    <3>1. \A i \in 1..Len(us) : us[i] \in Us
      OBVIOUS
    <3> QED BY <3>1 DEF Mapped, P
  <2> QED BY <2>1, <2>2, <2>3 DEF W, B
<1> QED BY <1>13

\* What a configuration reports is what its statements and those of the usages
\* it received, written in a row, say.
THEOREM WrittenSafety == Spec => []AppliedAsWritten
<1>1. IInv => AppliedAsWritten
  <2> SUFFICES ASSUME IInv, NEW c \in Config, Finished(c)
               PROVE  /\ ListOf(c) = StoreList(script.own[c].list,
                                        Concat([i \in 1..Len(Written(c)) |-> Written(c)[i].list]))
                      /\ c \notin script.read => StringOf(c) = LastGiven(Written(c), script.own[c].string)
    BY DEF AppliedAsWritten
  <2> DEFINE s == applied[c]
             own == script.own[c]
  <2>1. script \in Script /\ s \in Seq(Us) /\ s # Nil
    BY DEF IInv, Finished, Walked, Received
  <2>2. own.list \in Seq(Value)
    BY <2>1, ScriptFacts
  <2>3. /\ Written(c) = Concat([i \in 1..Len(s) |-> script.gives[s[i]]])
        /\ Block(c) = StoreAll([i \in 1..Len(s) |-> Properties(s[i])])
    BY DEF Written, Block
  <2> HIDE DEF s
  <2>4. /\ Written(c) \in Seq(Given)
        /\ StoreList(own.list, Block(c).list) = StoreList(own.list, AllLists(Written(c)))
        /\ LastGiven(Written(c), own.string) = IF Block(c).string = Nil THEN own.string ELSE Block(c).string
    <3> HIDE DEF own
    <3> QED BY <2>1, <2>2, <2>3, MergedAsWritten
  <2>5. [i \in 1..Len(Written(c)) |-> Written(c)[i].list] = Mapped(Written(c), ListOfGiven)
    <3>1. \A i \in 1..Len(Written(c)) : Written(c)[i] \in Given
      BY <2>4
    <3> QED BY <3>1 DEF Mapped, ListOfGiven
  <2>6. ListOf(c) = StoreList(own.list, Block(c).list)
    BY <2>1 DEF ListOf, s
  <2>7. c \notin script.read => StringOf(c) = IF Block(c).string = Nil THEN own.string ELSE Block(c).string
    BY <2>1 DEF StringOf, s
  <2> QED BY <2>4, <2>5, <2>6, <2>7 DEF AllLists
<1> QED BY <1>1, Invariance, PTL

=============================================================================
