--------------------------- MODULE ObjDirsProofs ---------------------------
(***************************************************************************)
(* Proofs about ObjDirs: for every workspace, what oven.bakeObjDirs gives  *)
(* to a configuration that has a directory of its own is shared by no      *)
(* other, and does not depend on the order of the second pass.             *)
(*                                                                         *)
(* The argument: at any time the table counts holds exactly the candidate  *)
(* directories of the configurations counted so far, and a count of one    *)
(* means that a single one of them has the directory as a candidate.       *)
(***************************************************************************)
EXTENDS ObjDirs, SequenceTheorems, TLAPS

\* counts describes the configurations in counted.
Counts ==
  /\ DOMAIN counts = UNION {Candidates(c) : c \in counted}
  /\ \A c, e \in counted : \A d \in Candidates(c) :
       (counts[d] = 1 /\ d \in Candidates(e)) => c = e
  /\ \A d \in DOMAIN counts : counts[d] # 1 =>
       \E c, e \in counted : c # e /\ d \in Candidates(c) /\ d \in Candidates(e)

\* The configurations are counted in order, each once, the marked ones never.
Progress ==
  /\ NoRepeats(listed)
  /\ counted \subseteq {listed[i] : i \in 1..Len(listed)}
  /\ phase = "count" =>
       \A i \in 1..Len(listed) : i >= n => listed[i] \notin counted
  /\ counted \cap marked = {}
  /\ phase = "done" => todo = {}

Untouched(c) == objdir[c] = IF c \in explicit THEN raw[c] ELSE None

\* The outcome for a configuration the second pass has reached.
Settled(c) ==
  \/ \E i \in Choice(c) :
       /\ OwnCandidate(c, i) /\ objdir[c] = Candidate(c, i)
       /\ \A j \in Choice(c) : j < i => ~ OwnCandidate(c, j)
  \/ ~ HasOwn(c) /\ Untouched(c)

Outcome ==
  /\ phase = "count" => \A c \in Config \ marked : Untouched(c)
  /\ phase # "count" =>
       \A c \in counted : IF c \in todo THEN Untouched(c) ELSE Settled(c)

IInv == TypeOK /\ Counts /\ Progress /\ Outcome

-----------------------------------------------------------------------------
(* Facts about the operators                                               *)

\* A configuration's candidates are directories.
LEMMA CandidateType ==
  ASSUME TypeOK, NEW c \in Config
  PROVE  /\ Suffix(c) \in Seq(Name) /\ Len(Suffix(c)) \in {2, 3}
         /\ Choice(c) \subseteq Nat /\ 0 \in Choice(c)
         /\ \A i \in Choice(c) : Candidate(c, i) \in Path
         /\ Candidates(c) \subseteq Path
<1>1. /\ project[c] \in Name /\ buildcfg[c] \in Name
      /\ platform[c] # None => platform[c] \in Name
      /\ raw[c] \in Seq(Name)
  BY DEF TypeOK, Path
<1>2. Suffix(c) \in Seq(Name) /\ Len(Suffix(c)) \in {2, 3}
  <2>1. CASE platform[c] = None
    BY <1>1, <2>1 DEF Suffix
  <2>2. CASE platform[c] # None
    BY <1>1, <2>2 DEF Suffix
  <2> QED
    BY <2>1, <2>2
<1>3. Choice(c) \subseteq Nat /\ 0 \in Choice(c)
  BY <1>2 DEF Choice
<1>4. ASSUME NEW i \in Choice(c)
      PROVE  Candidate(c, i) \in Path
  <2>1. SubSeq(Suffix(c), 1, i) \in Seq(Name)
    BY <1>2, <1>3 DEF Choice
  <2> QED
    BY <1>1, <2>1 DEF Candidate, Path
<1> QED
  BY <1>2, <1>3, <1>4 DEF Candidates

\* The first candidate is the directory the configuration names itself.
LEMMA FirstCandidate ==
  ASSUME TypeOK, NEW c \in Config
  PROVE  Candidate(c, 0) = raw[c] /\ raw[c] \in Candidates(c)
<1>1. raw[c] \in Seq(Name) /\ Suffix(c) \in Seq(Name) /\ 0 \in Choice(c)
  BY CandidateType DEF TypeOK, Path
<1>2. SubSeq(Suffix(c), 1, 0) = << >>
  BY <1>1
<1>3. Candidate(c, 0) = raw[c]
  BY <1>1, <1>2 DEF Candidate
<1> QED
  BY <1>1, <1>3 DEF Candidates

\* The candidates depend on the inputs alone.
LEMMA SameCandidates ==
  ASSUME UNCHANGED inputs
  PROVE  /\ \A c : Choice(c)' = Choice(c) /\ Candidates(c)' = Candidates(c)
         /\ \A c, i : Candidate(c, i)' = Candidate(c, i)
BY DEF inputs, Choice, Candidates, Candidate, Suffix

\* A candidate that was counted once is the configuration's own.
LEMMA UniqueIsOwn ==
  ASSUME TypeOK, Counts, NEW c \in counted, NEW i \in Choice(c)
  PROVE  UniqueChoice(c, i) <=> OwnCandidate(c, i)
<1> DEFINE d == Candidate(c, i)
<1>1. d \in Candidates(c) /\ d \in DOMAIN counts
  BY DEF Counts, Candidates
<1>2. ASSUME counts[d] = 1
      PROVE  OwnCandidate(c, i)
  BY <1>1, <1>2 DEF Counts, OwnCandidate
<1>3. ASSUME counts[d] # 1
      PROVE  ~ OwnCandidate(c, i)
  <2>1. PICK e1, e2 \in counted :
          e1 # e2 /\ d \in Candidates(e1) /\ d \in Candidates(e2)
    BY <1>1, <1>3 DEF Counts
  <2> QED
    BY <2>1 DEF OwnCandidate
<1> QED
  BY <1>2, <1>3 DEF UniqueChoice

-----------------------------------------------------------------------------
(* Type correctness                                                        *)

LEMMA InitType == Init => TypeOK /\ NoRepeats(listed)
<1> SUFFICES ASSUME Init
             PROVE  TypeOK /\ NoRepeats(listed)
  OBVIOUS
<1>1. PICK w \in Workspace :
        /\ project = w.project /\ buildcfg = w.buildcfg /\ platform = w.platform
        /\ raw = w.raw /\ explicit = w.explicit /\ marked = w.marked
        /\ listed = w.listed
  BY DEF Init, Inputs
<1>2. /\ project \in [Config -> Name] /\ buildcfg \in [Config -> Name]
      /\ platform \in [Config -> Name \union {None}]
      /\ raw \in [Config -> Path]
      /\ explicit \subseteq Config /\ marked \subseteq Config
      /\ listed \in Seq(Config) /\ NoRepeats(listed)
  BY <1>1, WorkspaceAssumption
<1>3. objdir \in [Config -> Path \union {None}]
  BY <1>2 DEF Init
<1>4. DOMAIN counts = {}
  BY DEF Init
<1> QED
  BY <1>2, <1>3, <1>4 DEF Init, TypeOK

LEMMA TypeNext == TypeOK /\ [Next]_vars => TypeOK'
<1> SUFFICES ASSUME TypeOK, [Next]_vars
             PROVE  TypeOK'
  OBVIOUS
<1> USE DEF TypeOK, inputs
<1>0. n \in Nat \ {0} /\ n + 1 \in Nat \ {0}
  OBVIOUS
<1>1. CASE DontTouch
  <2>1. listed[n] \in Config
    BY <1>1 DEF DontTouch
  <2>2. objdir' \in [Config -> Path \union {None}]
    BY <1>1, <2>1 DEF DontTouch
  <2> QED
    BY <1>1, <2>2, <1>0 DEF DontTouch
<1>2. CASE CountDirs
  <2>1. listed[n] \in Config
    BY <1>2 DEF CountDirs
  <2>2. Candidates(listed[n]) \subseteq Path
    BY <2>1, CandidateType
  <2>3. DOMAIN counts' = DOMAIN counts \union Candidates(listed[n])
    BY <1>2 DEF CountDirs
  <2>4. ASSUME NEW d \in DOMAIN counts'
        PROVE  counts'[d] \in Nat \ {0}
    BY <1>2, <2>3 DEF CountDirs
  <2> QED
    BY <1>2, <2>1, <2>2, <2>3, <2>4, <1>0 DEF CountDirs
<1>3. CASE EndCounting
  BY <1>3 DEF EndCounting
<1>4. ASSUME NEW c \in todo, AssignDir(c)
      PROVE  TypeOK'
  <2>1. c \in Config
    OBVIOUS
  <2>2. \A i \in Choice(c) : Candidate(c, i) \in Path
    BY <2>1, CandidateType
  <2>3. objdir' \in [Config -> Path \union {None}]
    BY <1>4, <2>1, <2>2 DEF AssignDir
  <2> QED
    BY <1>4, <2>3 DEF AssignDir
<1>5. ASSUME NEW c \in todo, KeepDir(c)
      PROVE  TypeOK'
  BY <1>5 DEF KeepDir
<1>6. CASE EndAssigning
  BY <1>6 DEF EndAssigning
<1>7. CASE UNCHANGED vars
  BY <1>7 DEF vars
<1> QED
  BY <1>1, <1>2, <1>3, <1>4, <1>5, <1>6, <1>7 DEF Next

\* Every reachable state of the two passes has its types: every count is at
\* least one, and an object directory is a directory or not set.
THEOREM TypeCorrect == Spec => []TypeOK
<1>1. Init => TypeOK
  BY InitType
<1> QED
  BY <1>1, TypeNext, PTL DEF Spec

-----------------------------------------------------------------------------
(* The inductive invariant                                                 *)

LEMMA InitIInv == Init => IInv
<1> SUFFICES ASSUME Init
             PROVE  IInv
  OBVIOUS
<1>1. TypeOK /\ NoRepeats(listed)
  BY InitType
<1>2. Counts
  BY DEF Init, Counts
<1>3. Progress
  BY <1>1 DEF Init, Progress
<1>4. Outcome
  BY DEF Init, Outcome, Untouched
<1> QED
  BY <1>1, <1>2, <1>3, <1>4 DEF IInv

\* A step that leaves the table alone leaves what it says alone.
LEMMA SameCounts ==
  ASSUME Counts, UNCHANGED <<inputs, counts, counted>>
  PROVE  Counts'
<1>1. \A c : Candidates(c)' = Candidates(c)
  BY SameCandidates
<1> QED
  BY <1>1 DEF Counts

\* Counting the next configuration keeps the table right.
LEMMA CountsNext ==
  ASSUME TypeOK, Counts, Progress, CountDirs
  PROVE  Counts'
<1> DEFINE new == listed[n]
           cand == Candidates(new)
<1>1. /\ new \notin counted /\ counted' = counted \union {new}
      /\ \A c : Candidates(c)' = Candidates(c)
  <2>1. n \in 1..Len(listed) /\ phase = "count"
    BY DEF CountDirs, TypeOK
  <2> QED
    BY <2>1, SameCandidates DEF CountDirs, Progress
<1>2. /\ DOMAIN counts' = DOMAIN counts \union cand
      /\ \A d \in DOMAIN counts \union cand :
           counts'[d] = IF d \notin DOMAIN counts THEN 1
                        ELSE IF d \in cand THEN counts[d] + 1 ELSE counts[d]
  BY DEF CountDirs
<1>3. DOMAIN counts = UNION {Candidates(c) : c \in counted}
  BY DEF Counts
<1> HIDE DEF new, cand
<1>4. DOMAIN counts' = UNION {Candidates(c)' : c \in counted'}
  BY <1>1, <1>2, <1>3 DEF cand
<1>5. ASSUME NEW c \in counted', NEW e \in counted', NEW d \in Candidates(c),
             counts'[d] = 1, d \in Candidates(e)
      PROVE  c = e
  <2>1. CASE d \in DOMAIN counts
    <3>1. counts[d] \in Nat \ {0}
      BY <2>1 DEF TypeOK
    <3>2. d \notin cand /\ counts[d] = 1
      BY <1>2, <1>5, <2>1, <3>1
    <3>3. c \in counted /\ e \in counted
      BY <1>1, <1>5, <3>2 DEF cand
    <3> QED
      BY <1>5, <3>2, <3>3 DEF Counts
  <2>2. CASE d \notin DOMAIN counts
    BY <1>1, <1>3, <1>5, <2>2
  <2> QED
    BY <2>1, <2>2
<1>6. ASSUME NEW d \in DOMAIN counts', counts'[d] # 1
      PROVE  \E c, e \in counted' : c # e /\ d \in Candidates(c) /\ d \in Candidates(e)
  <2>1. d \in DOMAIN counts
    BY <1>2, <1>6
  <2>2. PICK c \in counted : d \in Candidates(c)
    BY <1>3, <2>1
  <2>3. CASE d \in cand
    BY <1>1, <2>2, <2>3 DEF cand
  <2>4. CASE d \notin cand
    <3>1. counts[d] # 1
      BY <1>2, <1>6, <2>1, <2>4
    <3>2. PICK c1, e1 \in counted :
            c1 # e1 /\ d \in Candidates(c1) /\ d \in Candidates(e1)
      BY <2>1, <3>1 DEF Counts
    <3> QED
      BY <1>1, <3>2
  <2> QED
    BY <2>3, <2>4
<1> QED
  BY <1>1, <1>4, <1>5, <1>6 DEF Counts

LEMMA ProgressNext ==
  ASSUME TypeOK, Progress, [Next]_vars
  PROVE  Progress'
<1> USE DEF Progress, inputs
<1>1. CASE DontTouch
  BY <1>1 DEF DontTouch, TypeOK
<1>2. CASE CountDirs
  <2>1. /\ n \in 1..Len(listed) /\ Len(listed) \in Nat
        /\ counted' = counted \union {listed[n]} /\ n' = n + 1
        /\ UNCHANGED <<listed, marked, phase, todo>> /\ phase = "count"
        /\ listed[n] \notin marked
    BY <1>2 DEF CountDirs, TypeOK
  <2>2. \A i \in 1..Len(listed) : i > n => listed[i] # listed[n]
    BY <2>1 DEF NoRepeats
  <2>3. \A i \in 1..Len(listed) : i >= n + 1 => listed[i] \notin counted'
    BY <2>1, <2>2
  <2>4. NoRepeats(listed)'
    BY <2>1 DEF NoRepeats
  <2> QED
    BY <2>1, <2>3, <2>4
<1>3. CASE EndCounting
  BY <1>3 DEF EndCounting, NoRepeats
<1>4. ASSUME NEW c \in todo, AssignDir(c) \/ KeepDir(c)
      PROVE  Progress'
  BY <1>4 DEF AssignDir, KeepDir, NoRepeats
<1>5. CASE EndAssigning
  BY <1>5 DEF EndAssigning, NoRepeats
<1>6. CASE UNCHANGED vars
  BY <1>6 DEF vars, NoRepeats
<1> QED
  BY <1>1, <1>2, <1>3, <1>4, <1>5, <1>6 DEF Next

\* A step of the second pass settles one configuration and no other.
LEMMA SettleOne ==
  ASSUME IInv, NEW c \in todo, AssignDir(c) \/ KeepDir(c)
  PROVE  Outcome'
<1>1. /\ TypeOK /\ Counts /\ phase = "assign" /\ phase' = phase
      /\ UNCHANGED <<inputs, counted>> /\ todo' = todo \ {c}
      /\ c \in counted /\ counted \subseteq Config
  BY DEF IInv, TypeOK, AssignDir, KeepDir
<1>2. /\ \A e : Choice(e)' = Choice(e) /\ Candidates(e)' = Candidates(e)
      /\ \A e, i : Candidate(e, i)' = Candidate(e, i)
  BY <1>1, SameCandidates
<1>3. \A e, i : OwnCandidate(e, i)' <=> OwnCandidate(e, i)
  BY <1>1, <1>2 DEF OwnCandidate
<1>4. \A e : HasOwn(e)' <=> HasOwn(e)
  BY <1>2, <1>3 DEF HasOwn
<1>5. \A e \in Config : e # c => objdir'[e] = objdir[e]
  BY <1>1 DEF AssignDir, KeepDir, TypeOK
<1>6. ASSUME NEW e \in counted, e # c
      PROVE  IF e \in todo' THEN Untouched(e)' ELSE Settled(e)'
  <2>1. IF e \in todo THEN Untouched(e) ELSE Settled(e)
    BY <1>1 DEF IInv, Outcome
  <2>2. objdir'[e] = objdir[e] /\ (Untouched(e)' <=> Untouched(e))
    BY <1>1, <1>5, <1>6 DEF Untouched, inputs
  <2>3. Settled(e)' <=> Settled(e)
    BY <1>2, <1>3, <1>4, <2>2 DEF Settled
  <2> QED
    BY <1>1, <1>6, <2>1, <2>2, <2>3
<1>7. \A i \in Choice(c) : UniqueChoice(c, i) <=> OwnCandidate(c, i)
  BY <1>1, UniqueIsOwn
<1>8. Settled(c)'
  <2>1. CASE AssignDir(c)
    <3>1. PICK i \in Choice(c) :
            /\ UniqueChoice(c, i)
            /\ \A j \in Choice(c) : j < i => ~ UniqueChoice(c, j)
            /\ objdir' = [objdir EXCEPT ![c] = Candidate(c, i)]
      BY <2>1 DEF AssignDir
    <3>2. objdir'[c] = Candidate(c, i)
      BY <1>1, <3>1 DEF TypeOK
    <3> QED
      BY <1>2, <1>3, <1>7, <3>1, <3>2 DEF Settled
  <2>2. CASE KeepDir(c)
    <3>1. ~ HasOwn(c) /\ objdir' = objdir
      BY <1>7, <2>2 DEF KeepDir, HasOwn
    <3>2. Untouched(c)
      BY <1>1 DEF IInv, Outcome
    <3> QED
      BY <1>1, <1>4, <3>1, <3>2 DEF Settled, Untouched, inputs
  <2> QED
    BY <2>1, <2>2
<1> QED
  BY <1>1, <1>6, <1>8 DEF Outcome

LEMMA OutcomeNext ==
  ASSUME IInv, [Next]_vars
  PROVE  Outcome'
<1>0. /\ TypeOK /\ Counts /\ Progress /\ Outcome
      /\ counted \cap marked = {} /\ counted \subseteq Config
  BY DEF IInv, Progress, TypeOK
<1>1. CASE DontTouch
  <2>1. /\ listed[n] \in marked /\ phase = "count" /\ phase' = phase
        /\ UNCHANGED inputs
        /\ \A c \in Config \ marked : objdir'[c] = objdir[c]
    BY <1>0, <1>1 DEF DontTouch, TypeOK
  <2> QED
    BY <1>0, <2>1 DEF Outcome, Untouched, inputs
<1>2. CASE CountDirs
  BY <1>0, <1>2 DEF CountDirs, Outcome, Untouched, inputs
<1>3. CASE EndCounting
  BY <1>0, <1>3 DEF EndCounting, Outcome, Untouched, inputs
<1>4. ASSUME NEW c \in todo, AssignDir(c) \/ KeepDir(c)
      PROVE  Outcome'
  BY <1>4, SettleOne
<1>5. ASSUME UNCHANGED <<inputs, counted, todo, objdir>>,
             (phase = "count") <=> (phase = "count")'
      PROVE  Outcome'
  <2>1. /\ \A c : Choice(c)' = Choice(c) /\ Candidates(c)' = Candidates(c)
        /\ \A c, i : Candidate(c, i)' = Candidate(c, i)
    BY <1>5, SameCandidates
  <2>2. \A c, i : OwnCandidate(c, i)' <=> OwnCandidate(c, i)
    BY <1>5, <2>1 DEF OwnCandidate
  <2>3. \A c : /\ HasOwn(c)' <=> HasOwn(c)
               /\ Untouched(c)' <=> Untouched(c)
    BY <1>5, <2>1, <2>2 DEF HasOwn, Untouched, inputs
  <2>4. \A c : Settled(c)' <=> Settled(c)
    BY <1>5, <2>1, <2>2, <2>3 DEF Settled
  <2> QED
    BY <1>0, <1>5, <2>3, <2>4 DEF Outcome, inputs
<1>6. CASE EndAssigning
  BY <1>5, <1>6 DEF EndAssigning
<1>7. CASE UNCHANGED vars
  BY <1>5, <1>7 DEF vars
<1> QED
  BY <1>1, <1>2, <1>3, <1>4, <1>6, <1>7 DEF Next

LEMMA NextIInv == IInv /\ [Next]_vars => IInv'
<1> SUFFICES ASSUME IInv, [Next]_vars
             PROVE  IInv'
  OBVIOUS
<1>1. TypeOK' /\ Progress' /\ Outcome'
  BY TypeNext, ProgressNext, OutcomeNext DEF IInv
<1>2. ASSUME CountDirs
      PROVE  Counts'
  BY <1>2, CountsNext DEF IInv
<1>3. ASSUME ~ CountDirs
      PROVE  Counts'
  <2>1. UNCHANGED <<inputs, counts, counted>>
    BY <1>3 DEF Next, DontTouch, EndCounting, AssignDir, KeepDir, EndAssigning,
              vars
  <2> QED
    BY <2>1, SameCounts DEF IInv
<1> QED
  BY <1>1, <1>2, <1>3 DEF IInv

-----------------------------------------------------------------------------
(* The theorems                                                            *)

LEMMA Invariance == Spec => []IInv
BY InitIInv, NextIInv, PTL DEF Spec

\* Whatever order pairs() takes, every configuration ends with the first of
\* its candidates that it shares with nobody, or with what it had.
THEOREM DirsIndependentOfOrder == Spec => []OrderIndependent
<1>1. IInv => OrderIndependent
  BY DEF IInv, Progress, Outcome, OrderIndependent, Settled, Untouched
<1> QED
  BY <1>1, Invariance, PTL

\* No configuration shares the directory of one that has a candidate to
\* itself, for any number of projects, configurations and objdir settings.
THEOREM DirsDistinct == Spec => []ObjDirsDistinct
<1>1. IInv => ObjDirsDistinct
  <2> SUFFICES ASSUME IInv, phase = "done", NEW c \in counted, NEW d \in counted,
                      HasOwn(c)
               PROVE  objdir[c] # None /\ (c # d => objdir[c] # objdir[d])
    BY DEF ObjDirsDistinct
  <2>1. Settled(c) /\ Settled(d) /\ c \in Config /\ d \in Config /\ TypeOK
    BY DEF IInv, Progress, Outcome, TypeOK
  <2>2. PICK i \in Choice(c) : OwnCandidate(c, i) /\ objdir[c] = Candidate(c, i)
    BY <2>1 DEF Settled
  <2>3. objdir[c] \in Path /\ objdir[c] # None
    BY <2>1, <2>2, CandidateType, NoneAssumption
  <2>4. objdir[d] = None \/ objdir[d] \in Candidates(d)
    <3>1. CASE \E j \in Choice(d) : objdir[d] = Candidate(d, j)
      BY <3>1 DEF Candidates
    <3>2. CASE Untouched(d)
      BY <2>1, <3>2, FirstCandidate DEF Untouched
    <3> QED
      BY <2>1, <3>1, <3>2 DEF Settled
  <2> QED
    BY <2>2, <2>3, <2>4 DEF OwnCandidate
<1> QED
  BY <1>1, Invariance, PTL

-----------------------------------------------------------------------------
(* Regular workspaces                                                      *)

\* Two ways to cut a sequence in two are the same if neither first part is a
\* proper prefix of the other.
LEMMA SameCut ==
  ASSUME NEW S
  PROVE  \A p, q, s, t \in Seq(S) :
           p \o s = q \o t /\ ~ ProperPrefix(p, q) /\ ~ ProperPrefix(q, p)
             => p = q /\ s = t
<1> SUFFICES ASSUME NEW p \in Seq(S), NEW q \in Seq(S), NEW s \in Seq(S), NEW t \in Seq(S),
                    p \o s = q \o t, ~ ProperPrefix(p, q), ~ ProperPrefix(q, p)
             PROVE  p = q /\ s = t
  OBVIOUS
<1>1. /\ Len(p) \in Nat /\ Len(q) \in Nat /\ Len(s) \in Nat /\ Len(t) \in Nat
      /\ Len(p) + Len(s) = Len(q) + Len(t)
  <2>1. Len(p \o s) = Len(p) + Len(s) /\ Len(q \o t) = Len(q) + Len(t)
    OBVIOUS
  <2> QED
    BY <2>1
<1>2. /\ \A k \in 1..Len(p) : (p \o s)[k] = p[k]
      /\ \A k \in 1..Len(q) : (q \o t)[k] = q[k]
  OBVIOUS
<1>3. ~ (Len(p) < Len(q))
  <2> SUFFICES ASSUME Len(p) < Len(q)
               PROVE  FALSE
    OBVIOUS
  <2>1. SubSeq(q, 1, Len(p)) \in Seq(S) /\ Len(SubSeq(q, 1, Len(p))) = Len(p)
    BY <1>1
  <2>2. \A k \in 1..Len(p) : SubSeq(q, 1, Len(p))[k] = p[k]
    BY <1>1, <1>2
  <2>3. SubSeq(q, 1, Len(p)) = p
    BY <2>1, <2>2, SeqEqual, Zenon
  <2> QED
    BY <2>3 DEF ProperPrefix
<1>4. ~ (Len(q) < Len(p))
  <2> SUFFICES ASSUME Len(q) < Len(p)
               PROVE  FALSE
    OBVIOUS
  <2>1. SubSeq(p, 1, Len(q)) \in Seq(S) /\ Len(SubSeq(p, 1, Len(q))) = Len(q)
    BY <1>1
  <2>2. \A k \in 1..Len(q) : SubSeq(p, 1, Len(q))[k] = q[k]
    BY <1>1, <1>2
  <2>3. SubSeq(p, 1, Len(q)) = q
    BY <2>1, <2>2, SeqEqual, Zenon
  <2> QED
    BY <2>3 DEF ProperPrefix
<1>5. Len(p) = Len(q) /\ Len(s) = Len(t)
  BY <1>1, <1>3, <1>4
<1>6. p = q
  <2>1. \A k \in 1..Len(p) : p[k] = q[k]
    BY <1>2, <1>5
  <2> QED
    BY <1>5, <2>1, SeqEqual, Zenon
<1>7. \A k \in 1..Len(s) : s[k] = t[k]
  <2> TAKE k \in 1..Len(s)
  <2>1. (p \o s)[Len(p) + k] = s[k]
    <3>1. \A i \in 1..Len(p) + Len(s) :
            (p \o s)[i] = IF i <= Len(p) THEN p[i] ELSE s[i - Len(p)]
      BY ConcatProperties
    <3>2. /\ k \in Nat /\ Len(p) + k \in 1..Len(p) + Len(s)
          /\ ~ (Len(p) + k <= Len(p)) /\ Len(p) + k - Len(p) = k
      BY <1>1
    <3> QED
      BY <3>1, <3>2
  <2>2. (q \o t)[Len(q) + k] = t[k]
    <3>1. \A i \in 1..Len(q) + Len(t) :
            (q \o t)[i] = IF i <= Len(q) THEN q[i] ELSE t[i - Len(q)]
      BY ConcatProperties
    <3>2. /\ k \in Nat /\ Len(q) + k \in 1..Len(q) + Len(t)
          /\ ~ (Len(q) + k <= Len(q)) /\ Len(q) + k - Len(q) = k
      BY <1>1, <1>5
    <3> QED
      BY <3>1, <3>2
  <2> QED
    BY <1>5, <2>1, <2>2
<1>8. s = t
  BY <1>5, <1>7, SeqEqual, Zenon
<1> QED
  BY <1>6, <1>8

\* In a regular workspace the longest candidate of a configuration, with the
\* platform, the build configuration and the project's name, is its own.
LEMMA LongestIsOwn ==
  ASSUME TypeOK, Regular, NEW c \in counted
  PROVE  OwnCandidate(c, Len(Suffix(c)))
<1> SUFFICES ASSUME NEW d \in counted, NEW j \in Choice(d),
                    Candidate(c, Len(Suffix(c))) = Candidate(d, j)
             PROVE  c = d
  BY DEF OwnCandidate, Candidates
<1>1. c \in Config /\ d \in Config
  BY DEF TypeOK
<1>2. /\ Suffix(c) \in Seq(Name) /\ Suffix(d) \in Seq(Name)
      /\ Len(Suffix(c)) \in {2, 3} /\ Len(Suffix(d)) \in {2, 3}
      /\ j \in 0..Len(Suffix(d))
      /\ raw[c] \in Seq(Name) /\ raw[d] \in Seq(Name)
  BY <1>1, CandidateType DEF Choice, TypeOK, Path
<1>3. SubSeq(Suffix(c), 1, Len(Suffix(c))) = Suffix(c)
  BY <1>2
<1>4. SubSeq(Suffix(d), 1, j) \in Seq(Name) /\ Len(SubSeq(Suffix(d), 1, j)) = j
  BY <1>2
<1>5. raw[c] \o Suffix(c) = raw[d] \o SubSeq(Suffix(d), 1, j)
  BY <1>3 DEF Candidate
<1>6. Suffix(c) = SubSeq(Suffix(d), 1, j)
  <2>1. ~ ProperPrefix(raw[c], raw[d]) /\ ~ ProperPrefix(raw[d], raw[c])
    BY DEF Regular
  <2>2. \A p, q, s, t \in Seq(Name) :
          p \o s = q \o t /\ ~ ProperPrefix(p, q) /\ ~ ProperPrefix(q, p)
            => p = q /\ s = t
    BY SameCut
  <2>3. /\ raw[c] \in Seq(Name) /\ raw[d] \in Seq(Name) /\ Suffix(c) \in Seq(Name)
        /\ SubSeq(Suffix(d), 1, j) \in Seq(Name)
    BY <1>2, <1>4
  <2> QED
    BY <1>5, <2>1, <2>2, <2>3, Zenon
<1>7. j = Len(Suffix(c)) /\ \A k \in 1..j : Suffix(c)[k] = Suffix(d)[k]
  BY <1>2, <1>4, <1>6
<1>8. buildcfg[c] # platform[d]
  BY DEF Regular
<1>9. CASE platform[c] = None
  <2>1. Suffix(c) = <<buildcfg[c], project[c]>> /\ j = 2
    BY <1>7, <1>9 DEF Suffix
  <2>2. Suffix(c)[1] = Suffix(d)[1] /\ Suffix(c)[2] = Suffix(d)[2]
    BY <1>7, <2>1
  <2>3. platform[d] = None
    BY <1>8, <2>1, <2>2 DEF Suffix
  <2>4. buildcfg[c] = buildcfg[d] /\ project[c] = project[d]
    BY <2>1, <2>2, <2>3 DEF Suffix
  <2> QED
    BY <1>9, <2>3, <2>4 DEF Regular
<1>10. CASE platform[c] # None
  <2>1. Suffix(c) = <<platform[c], buildcfg[c], project[c]>> /\ j = 3
    BY <1>7, <1>10 DEF Suffix
  <2>2. platform[d] # None
    BY <1>2, <2>1 DEF Suffix
  <2>3. Suffix(c)[1] = Suffix(d)[1] /\ Suffix(c)[2] = Suffix(d)[2] /\ Suffix(c)[3] = Suffix(d)[3]
    BY <1>7, <2>1
  <2>4. platform[c] = platform[d] /\ buildcfg[c] = buildcfg[d] /\ project[c] = project[d]
    BY <2>1, <2>2, <2>3 DEF Suffix
  <2> QED
    BY <2>4 DEF Regular
<1> QED
  BY <1>9, <1>10

\* When no objdir lies inside another and no platform is named like a build
\* configuration, every configuration of every project gets a directory of
\* its own.
THEOREM RegularDirsUnique == Spec => []RegularAllUnique
<1>1. TypeOK /\ ObjDirsDistinct => RegularAllUnique
  <2> SUFFICES ASSUME TypeOK, ObjDirsDistinct, phase = "done", Regular,
                      NEW c \in counted, NEW d \in counted
               PROVE  objdir[c] # None /\ (c # d => objdir[c] # objdir[d])
    BY DEF RegularAllUnique
  <2>1. HasOwn(c)
    <3>1. Len(Suffix(c)) \in Choice(c)
      BY CandidateType DEF Choice, TypeOK
    <3> QED
      BY <3>1, LongestIsOwn DEF HasOwn
  <2> QED
    BY <2>1 DEF ObjDirsDistinct
<1> QED
  BY <1>1, TypeCorrect, DirsDistinct, PTL
=============================================================================
