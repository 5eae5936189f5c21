--------------------------- MODULE BakingProofs ----------------------------
(***************************************************************************)
(* Proofs about what project.bake and oven.bakeConfig make of a project.   *)
(*                                                                         *)
(* The first part is about BakeConfig: for every script and all stages,    *)
(* what a configuration and its files get follows from the terms that the  *)
(* configuration reports in the end.  A stage changes the terms of its own *)
(* field only.  So the terms it saw can be told from the final ones, and   *)
(* the invariant says of each stage that is over what value it gave, in    *)
(* the terms of now.                                                       *)
(*                                                                         *)
(* The second part is about ConfigMap: for all lists and maps, which pairs *)
(* are baked and found.  What table.fold makes of two lists and what the   *)
(* entries of a map make of a pair are stated first; the invariant says    *)
(* that the listed pairs have the parts of the mapped ones and that each   *)
(* was stored under its key.                                               *)
(***************************************************************************)
EXTENDS BakeConfig, ConfigMap, Induction, TLAPS

\* The terms as they were before stage j, and before stage k of the project.
TermsBefore(j) ==
  [g \in Field |-> IF \E i \in j..Len(Stages) : Stages[i] = g THEN WksTerms[g] ELSE terms[g]]

ProjectWksTerms == [f \in Field |-> IF f \in Own THEN {} ELSE WksTerms[f]]

ProjectTermsBefore(k) ==
  [g \in Field |-> IF \E i \in k..Len(ProjectStages) : ProjectStages[i] = g
                   THEN ProjectWksTerms[g] ELSE projectTerms[g]]

\* What stage j made of its field.
StageValue(j) == Resolved(Stages[j], TermsBefore(j), Forced[Stages[j]], Default[Stages[j]])

ProjectStageValue(k) ==
  Resolved(ProjectStages[k], ProjectTermsBefore(k), {}, ProjectDefault[ProjectStages[k]])

-----------------------------------------------------------------------------
(* The invariant                                                           *)

TypeOK ==
  /\ blocks \in Script
  /\ stage \in 1..(Len(Stages) + 1) /\ projectStage \in 1..(Len(ProjectStages) + 1)
  /\ terms \in [Field -> SUBSET Value] /\ projectTerms \in [Field -> SUBSET Value]
  /\ cached \subseteq Field /\ held \in [Field -> SUBSET Value]
  /\ compiled \in BOOLEAN

InOrder ==
  /\ stage > 1 => ProjectBaked
  /\ compiled => stage > Len(Stages) /\ applied = MatchingBlocks(terms)

\* A field whose stage is over: its terms are those of its value, which the
\* context holds, if there is one; if not, a read may have found a late one.
Settled(j) ==
  LET f == Stages[j] IN
  /\ terms[f] = TermsFor(StageValue(j))
  /\ IF StageValue(j) # {} \/ f \in Lists
     THEN f \in cached /\ held[f] = StageValue(j)
     ELSE f \in cached => compiled /\ held[f] = Fetch(f, applied)

StagesInv ==
  /\ \A j \in 1..(stage - 1) : Settled(j)
  /\ \A j \in stage..Len(Stages) : Stages[j] \notin cached
  /\ \A g \in Field : (\A j \in 1..(stage - 1) : Stages[j] # g) => terms[g] = WksTerms[g]
  /\ \A f \in cached : held[f] # {} \/ f \in Lists

ProjectInv ==
  /\ \A k \in 1..(projectStage - 1) : projectTerms[ProjectStages[k]] = TermsFor(ProjectStageValue(k))
  /\ \A g \in Field : (\A k \in 1..(projectStage - 1) : ProjectStages[k] # g)
                        => projectTerms[g] = ProjectWksTerms[g]

FileInv ==
  fileTerms[Files] # {} =>
    /\ compiled /\ ProjectBaked
    /\ fileApplied = {i \in MatchingBlocks(MergedTerms) : NamesFile(blocks[i].criteria)}

IInv == TypeOK /\ InOrder /\ StagesInv /\ ProjectInv /\ FileInv

-----------------------------------------------------------------------------
(* Facts about the operators                                               *)

\* A block has a filter, a field and a value.
LEMMA BlockType ==
  ASSUME blocks \in Script, NEW i \in 1..Len(blocks)
  PROVE  /\ blocks[i].criteria \in SUBSET SUBSET Word
         /\ blocks[i].field \in Field /\ blocks[i].value \in Value
<1> DEFINE Block == [criteria : SUBSET SUBSET Word, field : Field, value : Value]
<1>1. blocks \in Seq(Block)
  BY ScriptAssumption
<1>2. blocks[i] \in Block
  <2> HIDE DEF Block
  <2> QED BY <1>1
<1> QED BY <1>2

\* A fetch gives values, and so does a stage.
LEMMA FetchType ==
  ASSUME blocks \in Script, NEW f, NEW S \in SUBSET (1..Len(blocks))
  PROVE  Fetch(f, S) \in SUBSET Value
<1> SUFFICES ASSUME NEW i \in S PROVE blocks[i].value \in Value
  BY DEF Fetch
<1> QED BY BlockType

LEMMA ResolvedType ==
  ASSUME blocks \in Script, NEW f, NEW t,
         NEW forced \in SUBSET Value, NEW default \in SUBSET Value
  PROVE  Resolved(f, t, forced, default) \in SUBSET Value
<1>1. MatchingBlocks(t) \in SUBSET (1..Len(blocks))
  BY DEF MatchingBlocks
<1>2. Fetch(f, MatchingBlocks(t)) \in SUBSET Value
  BY <1>1, FetchType
<1> QED BY <1>2 DEF Resolved

LEMMA TermsForType ==
  ASSUME NEW S \in SUBSET Value
  PROVE  TermsFor(S) \in SUBSET Value
BY TermsAssumption DEF TermsFor

\* Stages are fields, those of the project among them.
LEMMA StageType ==
  /\ Len(Stages) \in Nat /\ Len(ProjectStages) \in Nat
  /\ \A j \in 1..Len(Stages) :
       /\ Stages[j] \in Field /\ Stages[j] \in Staged
       /\ Forced[Stages[j]] \in SUBSET Value /\ Default[Stages[j]] \in SUBSET Value
  /\ \A k \in 1..Len(ProjectStages) :
       /\ ProjectStages[k] \in Field /\ ProjectStages[k] \in Staged
       /\ ProjectDefault[ProjectStages[k]] \in SUBSET Value
       /\ \E j \in 1..Len(Stages) : Stages[j] = ProjectStages[k]
<1>1. /\ Len(Stages) \in Nat
      /\ \A j \in 1..Len(Stages) : Stages[j] \in Field /\ Stages[j] \in Staged
  BY StagesAssumption DEF Staged
<1>2. /\ Len(ProjectStages) \in Nat
      /\ \A k \in 1..Len(ProjectStages) : ProjectStages[k] \in Staged
  BY ProjectAssumption
<1>3. \A f \in Staged : f \in Field /\ \E j \in 1..Len(Stages) : Stages[j] = f
  BY <1>1 DEF Staged
<1> QED BY <1>1, <1>2, <1>3, TermsAssumption, ProjectAssumption

\* Filters do not tell apart terms that are equal.
LEMMA SameMatches ==
  ASSUME blocks \in Script, NEW i \in 1..Len(blocks), NEW t, NEW u,
         \A pattern \in blocks[i].criteria : \A w \in pattern : t[w.field] = u[w.field]
  PROVE  CriteriaMatch(blocks[i].criteria, t) <=> CriteriaMatch(blocks[i].criteria, u)
BY DEF CriteriaMatch, WordMatches

\* A filter without "not" that matches some terms matches more terms.
LEMMA MoreMatches ==
  ASSUME blocks \in Script, NEW i \in 1..Len(blocks), NEW t, NEW u,
         \A pattern \in blocks[i].criteria : \A w \in pattern : ~ w.negated,
         \A g \in Field : t[g] \subseteq u[g],
         CriteriaMatch(blocks[i].criteria, t)
  PROVE  CriteriaMatch(blocks[i].criteria, u)
<1> SUFFICES ASSUME NEW pattern \in blocks[i].criteria
             PROVE  \E w \in pattern : WordMatches(w, u)
  BY DEF CriteriaMatch
<1>1. PICK w \in pattern : WordMatches(w, t)
  BY DEF CriteriaMatch
<1>2. w.field \in Field /\ w.negated \in BOOLEAN /\ ~ w.negated
  BY BlockType DEF Word
<1>3. w.value \in t[w.field]
  BY <1>1, <1>2 DEF WordMatches
<1>4. WordMatches(w, u)
  BY <1>2, <1>3 DEF WordMatches
<1> QED BY <1>4

-----------------------------------------------------------------------------
(* The invariant holds                                                     *)

\* Terms that a stage has yet to set are those of the workspace.
LEMMA NowBefore ==
  ASSUME TypeOK, StagesInv, stage <= Len(Stages)
  PROVE  TermsBefore(stage) = terms
<1>1. SUFFICES ASSUME NEW g \in Field, NEW i \in stage..Len(Stages), Stages[i] = g
               PROVE  terms[g] = WksTerms[g]
  BY DEF TermsBefore, TypeOK
<1>2. ASSUME NEW j \in 1..(stage - 1) PROVE Stages[j] # g
  <2>1. i \in 1..Len(Stages) /\ j \in 1..Len(Stages) /\ j # i
    BY StageType DEF TypeOK
  <2> QED BY <1>1, <2>1, StagesAssumption
<1> QED BY <1>2 DEF StagesInv

LEMMA ProjectNowBefore ==
  ASSUME TypeOK, ProjectInv, projectStage <= Len(ProjectStages)
  PROVE  ProjectTermsBefore(projectStage) = projectTerms
<1>1. SUFFICES ASSUME NEW g \in Field, NEW i \in projectStage..Len(ProjectStages),
                      ProjectStages[i] = g
               PROVE  projectTerms[g] = ProjectWksTerms[g]
  BY DEF ProjectTermsBefore, TypeOK
<1>2. ASSUME NEW k \in 1..(projectStage - 1) PROVE ProjectStages[k] # g
  <2>1. i \in 1..Len(ProjectStages) /\ k \in 1..Len(ProjectStages) /\ k # i
    BY StageType DEF TypeOK
  <2> QED BY <1>1, <2>1, ProjectAssumption
<1> QED BY <1>2 DEF ProjectInv

LEMMA InitInv == Init => IInv
<1> SUFFICES ASSUME Init PROVE IInv
  OBVIOUS
<1>1. TypeOK
  <2>1. WksTerms \in [Field -> SUBSET Value]
    BY TermsAssumption
  <2>2. /\ terms = WksTerms /\ held = [f \in Field |-> {}] /\ cached = {} /\ compiled = FALSE
        /\ blocks \in Script /\ stage = 1 /\ projectStage = 1
        /\ projectTerms = [f \in Field |-> IF f \in Own THEN {} ELSE WksTerms[f]]
    BY DEF Init
  <2>3. Len(Stages) \in Nat /\ Len(ProjectStages) \in Nat
    BY StageType
  <2>4. projectTerms \in [Field -> SUBSET Value]
    <3>1. \A f \in Field : (IF f \in Own THEN {} ELSE WksTerms[f]) \in SUBSET Value
      BY <2>1
    <3> QED BY <2>2, <3>1
  <2>5. held \in [Field -> SUBSET Value] /\ terms \in [Field -> SUBSET Value]
    BY <2>1, <2>2
  <2>6. stage \in 1..(Len(Stages) + 1) /\ projectStage \in 1..(Len(ProjectStages) + 1)
    BY <2>2, <2>3
  <2> QED BY <2>2, <2>4, <2>5, <2>6 DEF TypeOK
<1>2. InOrder
  BY DEF Init, InOrder
<1>3. StagesInv
  BY DEF Init, StagesInv
<1>4. ProjectInv
  BY DEF Init, ProjectInv, ProjectWksTerms
<1>5. FileInv
  BY FileAssumption DEF Init, FileInv
<1> QED BY <1>1, <1>2, <1>3, <1>4, <1>5 DEF IInv

LEMMA TypeStep ==
  ASSUME IInv, [Next]_vars
  PROVE  TypeOK' /\ blocks' = blocks
<1>0. TypeOK
  BY DEF IInv
<1>1. CASE RunProjectStage
  <2>1. projectStage \in 1..Len(ProjectStages)
    BY <1>0, <1>1, StageType DEF RunProjectStage, ProjectBaked, TypeOK
  <2> DEFINE f == ProjectStages[projectStage]
             v == Resolved(f, projectTerms, {}, ProjectDefault[f])
  <2>2. f \in Field /\ TermsFor(v) \in SUBSET Value
    BY <1>0, <2>1, StageType, ResolvedType, TermsForType DEF TypeOK
  <2>3. /\ projectTerms' = [projectTerms EXCEPT ![f] = TermsFor(v)]
        /\ projectStage' = projectStage + 1
        /\ UNCHANGED <<blocks, stage, terms, cached, held, compiled>>
    BY <1>1 DEF RunProjectStage
  <2> HIDE DEF f, v
  <2> QED BY <1>0, <2>1, <2>2, <2>3, StageType DEF TypeOK
<1>2. CASE RunStage
  <2>1. stage \in 1..Len(Stages)
    BY <1>0, <1>2, StageType DEF RunStage, TypeOK
  <2> DEFINE f == Stages[stage]
             v == Resolved(f, terms, Forced[f], Default[f])
  <2>2. f \in Field /\ v \in SUBSET Value /\ TermsFor(v) \in SUBSET Value
    BY <1>0, <2>1, StageType, ResolvedType, TermsForType DEF TypeOK
  <2>3. /\ held' = [held EXCEPT ![f] = v] /\ terms' = [terms EXCEPT ![f] = TermsFor(v)]
        /\ cached' = IF v # {} \/ f \in Lists THEN cached \union {f} ELSE cached
        /\ stage' = stage + 1
        /\ UNCHANGED <<blocks, compiled, project>>
    BY <1>2 DEF RunStage
  <2> HIDE DEF f, v
  <2> QED BY <1>0, <2>1, <2>2, <2>3, StageType DEF TypeOK, project
<1>3. CASE CompileContext
  BY <1>0, <1>3 DEF CompileContext, TypeOK, project
<1>4. CASE BakeFile
  BY <1>0, <1>4 DEF BakeFile, TypeOK, project
<1>5. ASSUME NEW f \in Field, ReadField(f) PROVE TypeOK' /\ blocks' = blocks
  <2>1. applied \in SUBSET (1..Len(blocks))
    BY <1>5 DEF ReadField, IInv, InOrder, MatchingBlocks
  <2>2. Fetch(f, applied) \in SUBSET Value
    BY <1>0, <2>1, FetchType DEF TypeOK
  <2> QED BY <1>0, <1>5, <2>2 DEF ReadField, TypeOK, project
<1>6. CASE UNCHANGED vars
  BY <1>0, <1>6 DEF TypeOK, vars, project
<1> QED BY <1>1, <1>2, <1>3, <1>4, <1>5, <1>6 DEF Next

\* The values of stages are those of the fetches at the time.
LEMMA ConfigUnchanged ==
  ASSUME IInv, UNCHANGED <<blocks, stage, terms, cached, held, compiled, applied>>,
         ProjectBaked => ProjectBaked'
  PROVE  InOrder' /\ StagesInv'
<1>1. InOrder'
  BY DEF IInv, InOrder, MatchingBlocks
<1>2. \A j : StageValue(j)' = StageValue(j)
  BY DEF StageValue, TermsBefore, Resolved, Fetch, MatchingBlocks
<1>3. \A g : Fetch(g, applied)' = Fetch(g, applied)
  BY DEF Fetch
<1>4. ASSUME NEW j, Settled(j) PROVE Settled(j)'
  <2>1. TermsFor(StageValue(j))' = TermsFor(StageValue(j))
    BY <1>2 DEF TermsFor
  <2> QED BY <1>2, <1>3, <1>4, <2>1 DEF Settled
<1>5. StagesInv'
  BY <1>4 DEF IInv, StagesInv
<1> QED BY <1>1, <1>5

LEMMA StageStep ==
  ASSUME IInv, RunStage
  PROVE  InOrder' /\ StagesInv'
<1>0. TypeOK /\ InOrder /\ StagesInv /\ stage \in 1..Len(Stages)
  BY StageType DEF RunStage, IInv, TypeOK
<1> DEFINE f == Stages[stage]
           v == Resolved(f, terms, Forced[f], Default[f])
<1>1. /\ held' = [held EXCEPT ![f] = v] /\ terms' = [terms EXCEPT ![f] = TermsFor(v)]
      /\ cached' = IF v # {} \/ f \in Lists THEN cached \union {f} ELSE cached
      /\ stage' = stage + 1
      /\ UNCHANGED <<blocks, compiled, applied, project>> /\ ProjectBaked
  BY DEF RunStage
<1>2. f \in Field /\ f \notin cached /\ StageValue(stage) = v
  <2>1. TermsBefore(stage) = terms
    BY <1>0, NowBefore
  <2>2. stage \in stage..Len(Stages)
    BY <1>0, StageType
  <2> QED BY <1>0, <2>1, <2>2, StageType DEF StagesInv, StageValue
<1>3. \A j \in 1..stage : TermsBefore(j)' = TermsBefore(j)
  <2> SUFFICES ASSUME NEW j \in 1..stage, NEW g \in Field
               PROVE  (\E i \in j..Len(Stages) : Stages[i] = g) \/ terms'[g] = terms[g]
    BY DEF TermsBefore
  <2>1. CASE g = f
    BY <2>1, <1>0
  <2>2. CASE g # f
    BY <2>2, <1>0, <1>1 DEF TypeOK
  <2> QED BY <2>1, <2>2
<1>4. ASSUME NEW j \in 1..stage PROVE StageValue(j)' = StageValue(j)
  <2>1. TermsBefore(j)' = TermsBefore(j) /\ blocks' = blocks
    BY <1>1, <1>3
  <2>2. MatchingBlocks(TermsBefore(j))' = MatchingBlocks(TermsBefore(j))
    <3> HIDE DEF f, v
    <3> QED BY <2>1 DEF MatchingBlocks
  <2> QED BY <2>1, <2>2 DEF StageValue, Resolved, Fetch
<1>5. ~ compiled
  BY <1>0, StageType DEF InOrder, TypeOK
<1>6. \A j \in 1..(stage - 1) : Stages[j] # f /\ Stages[j] \in Field
  BY <1>0, StageType, StagesAssumption DEF TypeOK
<1>7. InOrder'
  BY <1>0, <1>1, <1>5, StageType DEF InOrder, ProjectBaked, project
<1>8. ASSUME NEW j \in 1..stage PROVE Settled(j)'
  <2>1. CASE j = stage
    <3>1. terms'[f] = TermsFor(v)
      BY <1>0, <1>1, <1>2 DEF TypeOK
    <3>2. held'[f] = v
      BY <1>0, <1>1, <1>2 DEF TypeOK
    <3>3. StageValue(j)' = v
      BY <2>1, <1>2, <1>4
    <3> QED BY <2>1, <1>1, <1>2, <3>1, <3>2, <3>3 DEF Settled, TermsFor
  <2>2. CASE j # stage
    <3>1. Settled(j) /\ Stages[j] # f /\ Stages[j] \in Field
      BY <2>2, <1>0, <1>6, StageType DEF StagesInv, TypeOK
    <3>2. /\ terms'[Stages[j]] = terms[Stages[j]] /\ held'[Stages[j]] = held[Stages[j]]
          /\ Stages[j] \in cached' <=> Stages[j] \in cached
      BY <1>0, <1>1, <3>1 DEF TypeOK
    <3>3. StageValue(j)' = StageValue(j)
      BY <1>4
    <3> QED BY <1>1, <1>5, <3>1, <3>2, <3>3 DEF Settled, TermsFor
  <2> QED BY <2>1, <2>2
<1>9. ASSUME NEW j \in (stage + 1)..Len(Stages) PROVE Stages[j] \notin cached'
  BY <1>0, <1>1, StageType, StagesAssumption DEF StagesInv
<1>10. ASSUME NEW g \in Field, \A j \in 1..stage : Stages[j] # g PROVE terms'[g] = WksTerms[g]
  <2>1. g # f
    BY <1>0, <1>10
  <2>2. terms'[g] = terms[g]
    BY <1>0, <1>1, <2>1 DEF TypeOK
  <2>3. \A j \in 1..(stage - 1) : Stages[j] # g
    BY <1>0, <1>10
  <2> QED BY <1>0, <2>2, <2>3 DEF StagesInv
<1>11. ASSUME NEW g \in cached' PROVE held'[g] # {} \/ g \in Lists
  BY <1>0, <1>1, <1>2 DEF StagesInv, TypeOK
<1>12. StagesInv'
  <2>1. (stage' - 1) = stage
    BY <1>0, <1>1
  <2> HIDE DEF f, v
  <2> QED BY <1>1, <2>1, <1>8, <1>9, <1>10, <1>11 DEF StagesInv
<1> QED BY <1>7, <1>12

LEMMA CompileStep ==
  ASSUME IInv, CompileContext
  PROVE  InOrder' /\ StagesInv'
<1>1. /\ compiled' = TRUE /\ ~ compiled /\ stage > Len(Stages)
      /\ UNCHANGED <<blocks, stage, terms, cached, held, project>>
      /\ applied' = MatchingBlocks(terms)
  BY DEF CompileContext
<1>2. InOrder'
  BY <1>1 DEF IInv, InOrder, MatchingBlocks, ProjectBaked, project
<1>3. ASSUME NEW j, Settled(j) PROVE Settled(j)'
  <2>1. StageValue(j)' = StageValue(j)
    BY <1>1 DEF StageValue, TermsBefore, Resolved, Fetch, MatchingBlocks
  <2>2. TermsFor(StageValue(j))' = TermsFor(StageValue(j))
    BY <2>1 DEF TermsFor
  <2> QED BY <1>1, <1>3, <2>1, <2>2 DEF Settled
<1>4. StagesInv'
  BY <1>1, <1>3 DEF IInv, StagesInv
<1> QED BY <1>2, <1>4

LEMMA ReadStep ==
  ASSUME IInv, NEW f \in Field, ReadField(f)
  PROVE  InOrder' /\ StagesInv'
<1>0. TypeOK /\ InOrder /\ StagesInv
  BY DEF IInv
<1>1. /\ compiled /\ f \notin cached /\ Fetch(f, applied) # {}
      /\ held' = [held EXCEPT ![f] = Fetch(f, applied)] /\ cached' = cached \union {f}
      /\ UNCHANGED <<blocks, stage, terms, compiled, applied, project>>
  BY DEF ReadField
<1>2. InOrder'
  BY <1>0, <1>1 DEF InOrder, MatchingBlocks, ProjectBaked, project
<1>3. stage > Len(Stages)
  BY <1>0, <1>1 DEF InOrder
<1>4. held'[f] = Fetch(f, applied) /\ \A g \in Field : g # f => held'[g] = held[g]
  BY <1>0, <1>1 DEF TypeOK
<1>5. \A j : StageValue(j)' = StageValue(j)
  BY <1>1 DEF StageValue, TermsBefore, Resolved, Fetch, MatchingBlocks
<1>6. \A g : Fetch(g, applied)' = Fetch(g, applied)
  BY <1>1 DEF Fetch
<1>7. ASSUME NEW j \in 1..(stage - 1) PROVE Settled(j)'
  <2>1. Settled(j) /\ Stages[j] \in Field
    BY <1>0, StageType DEF StagesInv, TypeOK
  <2>2. TermsFor(StageValue(j))' = TermsFor(StageValue(j))
    BY <1>5 DEF TermsFor
  <2>3. CASE Stages[j] = f
    BY <2>1, <2>2, <2>3, <1>1, <1>4, <1>5, <1>6 DEF Settled
  <2>4. CASE Stages[j] # f
    BY <2>1, <2>2, <2>4, <1>1, <1>4, <1>5, <1>6 DEF Settled
  <2> QED BY <2>3, <2>4
<1>8. \A j \in stage..Len(Stages) : FALSE
  BY <1>0, <1>3, StageType DEF TypeOK
<1>9. \A g \in cached' : held'[g] # {} \/ g \in Lists
  BY <1>0, <1>1, <1>4 DEF StagesInv, TypeOK
<1>10. StagesInv'
  BY <1>0, <1>1, <1>7, <1>8, <1>9 DEF StagesInv
<1> QED BY <1>2, <1>10

LEMMA ConfigStep ==
  ASSUME IInv, [Next]_vars
  PROVE  InOrder' /\ StagesInv'
<1>1. CASE RunProjectStage
  <2>1. /\ UNCHANGED <<blocks, stage, terms, cached, held, compiled, applied>>
        /\ ~ ProjectBaked
    BY <1>1 DEF RunProjectStage
  <2> QED BY <2>1, ConfigUnchanged
<1>2. CASE RunStage
  BY <1>2, StageStep
<1>3. CASE CompileContext
  BY <1>3, CompileStep
<1>4. CASE BakeFile
  <2>1. UNCHANGED <<blocks, stage, terms, cached, held, compiled, applied, projectStage>>
    BY <1>4 DEF BakeFile, project
  <2>2. ProjectBaked => ProjectBaked'
    BY <2>1 DEF ProjectBaked
  <2> QED BY <2>1, <2>2, ConfigUnchanged
<1>5. ASSUME NEW f \in Field, ReadField(f) PROVE InOrder' /\ StagesInv'
  BY <1>5, ReadStep
<1>6. CASE UNCHANGED vars
  <2>1. UNCHANGED <<blocks, stage, terms, cached, held, compiled, applied, projectStage>>
    BY <1>6 DEF vars, project
  <2>2. ProjectBaked => ProjectBaked'
    BY <2>1 DEF ProjectBaked
  <2> QED BY <2>1, <2>2, ConfigUnchanged
<1> QED BY <1>1, <1>2, <1>3, <1>4, <1>5, <1>6 DEF Next

LEMMA ProjectStep ==
  ASSUME IInv, [Next]_vars
  PROVE  ProjectInv'
<1>0. TypeOK /\ ProjectInv
  BY DEF IInv
<1>1. CASE RunProjectStage
  <2>1. projectStage \in 1..Len(ProjectStages)
    BY <1>0, <1>1, StageType DEF RunProjectStage, ProjectBaked, TypeOK
  <2> DEFINE f == ProjectStages[projectStage]
             v == Resolved(f, projectTerms, {}, ProjectDefault[f])
  <2>2. /\ projectTerms' = [projectTerms EXCEPT ![f] = TermsFor(v)]
        /\ projectStage' = projectStage + 1 /\ blocks' = blocks
    BY <1>1 DEF RunProjectStage
  <2>3. f \in Field /\ projectTerms'[f] = TermsFor(v)
        /\ \A g \in Field : g # f => projectTerms'[g] = projectTerms[g]
    BY <1>0, <2>1, <2>2, StageType DEF TypeOK
  <2>4. ProjectStageValue(projectStage) = v
    BY <1>0, <2>1, ProjectNowBefore, StageType DEF ProjectStageValue
  <2>5. \A k \in 1..projectStage : ProjectTermsBefore(k)' = ProjectTermsBefore(k)
    <3> SUFFICES ASSUME NEW k \in 1..projectStage, NEW g \in Field
                 PROVE  \/ \E i \in k..Len(ProjectStages) : ProjectStages[i] = g
                        \/ projectTerms'[g] = projectTerms[g]
      BY DEF ProjectTermsBefore, ProjectWksTerms
    <3>1. CASE g = f
      BY <3>1, <2>1
    <3>2. CASE g # f
      BY <3>2, <2>3
    <3> QED BY <3>1, <3>2
  <2>6. ASSUME NEW k \in 1..projectStage PROVE ProjectStageValue(k)' = ProjectStageValue(k)
    <3>1. ProjectTermsBefore(k)' = ProjectTermsBefore(k) /\ blocks' = blocks
      BY <2>2, <2>5
    <3>2. MatchingBlocks(ProjectTermsBefore(k))' = MatchingBlocks(ProjectTermsBefore(k))
      <4> HIDE DEF f, v
      <4> QED BY <3>1 DEF MatchingBlocks
    <3> QED BY <3>1, <3>2 DEF ProjectStageValue, Resolved, Fetch
  <2>7. ASSUME NEW k \in 1..projectStage
        PROVE  projectTerms'[ProjectStages[k]] = TermsFor(ProjectStageValue(k))'
    <3>0. TermsFor(ProjectStageValue(k))' = TermsFor(ProjectStageValue(k))
      <4> HIDE DEF f, v
      <4> QED BY <2>6 DEF TermsFor
    <3>1. CASE k = projectStage
      BY <3>0, <3>1, <2>3, <2>4
    <3>2. CASE k # projectStage
      <4>1. ProjectStages[k] # f /\ ProjectStages[k] \in Field
        BY <3>2, <2>1, StageType, ProjectAssumption
      <4>2. projectTerms[ProjectStages[k]] = TermsFor(ProjectStageValue(k))
        BY <1>0, <3>2, <2>1 DEF ProjectInv
      <4> HIDE DEF f, v
      <4> QED BY <3>0, <4>1, <4>2, <2>3
    <3> QED BY <3>1, <3>2
  <2>8. ASSUME NEW g \in Field, \A k \in 1..projectStage : ProjectStages[k] # g
        PROVE  projectTerms'[g] = ProjectWksTerms[g]
    <3>1. g # f
      BY <2>8, <2>1
    <3>2. \A k \in 1..(projectStage - 1) : ProjectStages[k] # g
      BY <2>8, <2>1
    <3> QED BY <1>0, <3>1, <3>2, <2>3 DEF ProjectInv
  <2>9. projectStage' - 1 = projectStage
    BY <2>1, <2>2
  <2> HIDE DEF f, v
  <2> QED BY <2>7, <2>8, <2>9 DEF ProjectInv, ProjectWksTerms
<1>2. ASSUME UNCHANGED <<blocks, projectStage, projectTerms>> PROVE ProjectInv'
  <2>1. \A k : ProjectStageValue(k)' = ProjectStageValue(k)
    BY <1>2 DEF ProjectStageValue, ProjectTermsBefore, ProjectWksTerms, Resolved, Fetch, MatchingBlocks
  <2>2. \A k : TermsFor(ProjectStageValue(k))' = TermsFor(ProjectStageValue(k))
    BY <2>1 DEF TermsFor
  <2> QED BY <1>0, <1>2, <2>1, <2>2 DEF ProjectInv, ProjectWksTerms
<1>3. CASE ~ RunProjectStage
  <2>1. UNCHANGED <<blocks, projectStage, projectTerms>>
    BY <1>3 DEF Next, RunStage, CompileContext, BakeFile, ReadField, vars, project
  <2> QED BY <2>1, <1>2
<1> QED BY <1>1, <1>3

LEMMA FileStep ==
  ASSUME IInv, [Next]_vars
  PROVE  FileInv'
<1>0. TypeOK /\ InOrder /\ FileInv
  BY DEF IInv
<1>1. CASE BakeFile
  <2>1. /\ compiled /\ UNCHANGED <<blocks, compiled, terms, projectTerms, projectStage>>
        /\ fileApplied' = {i \in MatchingBlocks(MergedTerms) : NamesFile(blocks[i].criteria)}
    BY <1>1 DEF BakeFile, project
  <2>2. ProjectBaked
    <3>1. CASE Len(Stages) = 0
      <4>1. ~ \E k \in 1..Len(ProjectStages) : TRUE
        BY <3>1, StageType
      <4> QED BY <4>1, <1>0, StageType DEF ProjectBaked, TypeOK
    <3>2. CASE Len(Stages) # 0
      BY <3>2, <1>0, <2>1, StageType DEF InOrder, TypeOK
    <3> QED BY <3>1, <3>2
  <2>3. MergedTerms' = MergedTerms
    BY <2>1 DEF MergedTerms
  <2>4. MatchingBlocks(MergedTerms)' = MatchingBlocks(MergedTerms)
    BY <2>1, <2>3 DEF MatchingBlocks
  <2>5. ProjectBaked'
    BY <2>1, <2>2 DEF ProjectBaked
  <2>6. \A i : NamesFile(blocks[i].criteria)' = NamesFile(blocks[i].criteria)
    BY <2>1 DEF NamesFile
  <2> QED BY <2>1, <2>4, <2>5, <2>6 DEF FileInv
<1>2. CASE ~ BakeFile
  <2>1. fileTerms' = fileTerms /\ fileApplied' = fileApplied /\ blocks' = blocks
    BY <1>2 DEF Next, RunProjectStage, RunStage, CompileContext, ReadField, vars, file
  <2>2. ASSUME fileTerms[Files] # {}
        PROVE  UNCHANGED <<compiled, projectStage, terms, projectTerms>>
    <3>1. compiled /\ ProjectBaked /\ stage > Len(Stages)
      BY <1>0, <2>2 DEF FileInv, InOrder
    <3>2. ~ RunProjectStage /\ ~ CompileContext
      BY <3>1 DEF RunProjectStage, CompileContext
    <3>3. ~ RunStage
      <4>1. ~ (stage <= Len(Stages))
        BY <3>1, <1>0, StageType DEF TypeOK
      <4> QED BY <4>1 DEF RunStage
    <3> QED BY <1>2, <3>2, <3>3 DEF Next, ReadField, vars, project
  <2>3. ASSUME fileTerms[Files] # {}
        PROVE  MatchingBlocks(MergedTerms)' = MatchingBlocks(MergedTerms)
    <3>1. MergedTerms' = MergedTerms
      BY <2>2, <2>3 DEF MergedTerms
    <3> QED BY <2>1, <3>1 DEF MatchingBlocks
  <2>4. \A i : NamesFile(blocks[i].criteria)' = NamesFile(blocks[i].criteria)
    BY <2>1 DEF NamesFile
  <2> QED BY <1>0, <2>1, <2>2, <2>3, <2>4 DEF FileInv, ProjectBaked
<1> QED BY <1>1, <1>2

\* The invariant, of which the properties below are consequences.
THEOREM Invariance == Spec => []IInv
<1>1. IInv /\ [Next]_vars => IInv'
  BY TypeStep, ConfigStep, ProjectStep, FileStep DEF IInv
<1> QED BY InitInv, <1>1, PTL DEF Spec

-----------------------------------------------------------------------------
(* The configuration                                                       *)

\* Once compiled, every staged field is settled.
LEMMA AllSettled ==
  ASSUME IInv, compiled, NEW f \in Staged
  PROVE  \E j \in 1..Len(Stages) : Stages[j] = f /\ Settled(j)
<1>1. PICK j \in 1..Len(Stages) : Stages[j] = f
  BY DEF Staged
<1>2. j \in 1..(stage - 1)
  BY StageType DEF IInv, TypeOK, InOrder
<1> QED BY <1>1, <1>2 DEF IInv, StagesInv

\* The terms describe the configuration as it reports itself, but for a string
\* that was late.
LEMMA TermsReported ==
  ASSUME IInv, compiled,
         \A f \in Staged \ Lists : terms[f] = {} => Reported(f) = {}
  PROVE  ReportedTerms = terms
<1>1. TypeOK
  BY DEF IInv
<1>2. ASSUME NEW f \in Staged PROVE TermsFor(Reported(f)) = terms[f]
  <2>1. PICK j \in 1..Len(Stages) : Stages[j] = f /\ Settled(j)
    BY AllSettled
  <2>2. CASE StageValue(j) # {} \/ f \in Lists
    BY <2>1, <2>2 DEF Settled, Reported
  <2>3. CASE StageValue(j) = {} /\ f \notin Lists
    <3>1. terms[f] = {}
      BY <2>1, <2>3 DEF Settled, TermsFor
    <3>2. Reported(f) = {}
      BY <2>3, <3>1
    <3> QED BY <3>1, <3>2 DEF TermsFor
  <2> QED BY <2>2, <2>3
<1> QED BY <1>1, <1>2 DEF ReportedTerms, TypeOK

\* AppliedIffTrue: the blocks of the compiled set (configset.compile) are those
\* whose filters are true of what the configuration reports, for all scripts.
THEOREM AppliedSafety == Spec => []AppliedIffTrue
<1>1. ASSUME IInv, compiled, ~ LateString, NEW i \in 1..Len(blocks)
      PROVE  i \in applied <=> CriteriaMatch(blocks[i].criteria, ReportedTerms)
  <2>1. ReportedTerms = terms
    BY <1>1, TermsReported DEF LateString
  <2> QED BY <1>1, <2>1 DEF IInv, InOrder, MatchingBlocks
<1>2. IInv => AppliedIffTrue
  BY <1>1 DEF AppliedIffTrue
<1> QED BY Invariance, <1>2, PTL

\* The rank of a field is the number of its stage.
LEMMA RankOfStage ==
  /\ \A j \in 1..Len(Stages) : Rank(Stages[j]) = j
  /\ \A f : f \notin Staged => Rank(f) = 0
<1>1. ASSUME NEW j \in 1..Len(Stages) PROVE Rank(Stages[j]) = j
  <2>1. \A i \in 1..Len(Stages) : Stages[i] = Stages[j] => i = j
    BY StagesAssumption
  <2> QED BY <2>1, StageType DEF Rank
<1>2. \A f : f \notin Staged => Rank(f) = 0
  BY DEF Rank
<1> QED BY <1>1, <1>2

\* Under a well staged script, what is known at a stage is enough to tell the
\* blocks that set its field.
LEMMA FetchedInTime ==
  ASSUME IInv, WellStaged, NEW j \in 1..Len(Stages)
  PROVE  Fetch(Stages[j], MatchingBlocks(TermsBefore(j))) = Fetch(Stages[j], MatchingBlocks(terms))
<1> DEFINE f == Stages[j]
           before == TermsBefore(j)
<1>1. blocks \in Script /\ f \in Staged /\ Rank(f) = j
  BY RankOfStage, StageType DEF IInv, TypeOK
<1>2. ASSUME NEW i \in 1..Len(blocks), blocks[i].field = f
      PROVE  i \in MatchingBlocks(before) <=> i \in MatchingBlocks(terms)
  <2>1. ASSUME NEW pattern \in blocks[i].criteria, NEW w \in pattern
        PROVE  before[w.field] = terms[w.field]
    <3>1. w.field \in Field
      BY <1>1, BlockType DEF Word
    <3>2. Rank(w.field) < j
      BY <1>1, <1>2 DEF WellStaged
    <3>3. \A k \in j..Len(Stages) : Stages[k] # w.field
      BY <3>2, RankOfStage, StageType
    <3> QED BY <3>1, <3>3 DEF TermsBefore
  <2>2. CriteriaMatch(blocks[i].criteria, before) <=> CriteriaMatch(blocks[i].criteria, terms)
    <3> HIDE DEF before
    <3> QED BY <1>1, <2>1, SameMatches
  <2> QED BY <2>2 DEF MatchingBlocks
<1>3. {i \in MatchingBlocks(before) : blocks[i].field = f}
        = {i \in MatchingBlocks(terms) : blocks[i].field = f}
  <2> HIDE DEF before, f
  <2> QED BY <1>2 DEF MatchingBlocks
<1> HIDE DEF before, f
<1>4. Fetch(f, MatchingBlocks(before)) = Fetch(f, MatchingBlocks(terms))
  BY <1>3 DEF Fetch
<1> QED BY <1>4 DEF before, f

\* WellStagedIsDeclarative: if each staged field is set only under filters on
\* fields that oven.bakeConfig resolves before it, the order of its stages does
\* not show.
THEOREM WellStagedSafety == Spec => []WellStagedIsDeclarative
<1>1. ASSUME IInv, compiled, WellStaged, NEW f \in Staged
      PROVE  /\ Reported(f) = IF Forced[f] # {} THEN Forced[f]
                              ELSE IF Fetch(f, applied) # {} THEN Fetch(f, applied)
                              ELSE Default[f]
             /\ terms[f] = TermsFor(Reported(f))
  <2>1. PICK j \in 1..Len(Stages) : Stages[j] = f /\ Settled(j)
    BY <1>1, AllSettled
  <2>2. applied = MatchingBlocks(terms)
    BY <1>1 DEF IInv, InOrder
  <2>3. StageValue(j) = IF Forced[f] # {} THEN Forced[f]
                        ELSE IF Fetch(f, applied) # {} THEN Fetch(f, applied)
                        ELSE Default[f]
    BY <1>1, <2>1, <2>2, FetchedInTime DEF StageValue, Resolved
  <2>4. CASE StageValue(j) # {} \/ f \in Lists
    BY <2>1, <2>3, <2>4 DEF Settled, Reported
  <2>5. CASE StageValue(j) = {} /\ f \notin Lists
    <3>1. Forced[f] = {} /\ Fetch(f, applied) = {} /\ Default[f] = {}
      BY <2>3, <2>5
    <3>2. Reported(f) = {}
      BY <2>1, <2>5, <3>1 DEF Settled, Reported
    <3> QED BY <2>1, <2>5, <3>1, <3>2 DEF Settled
  <2> QED BY <2>4, <2>5
<1>2. ASSUME IInv, compiled, WellStaged, NEW i \in 1..Len(blocks)
      PROVE  i \in applied <=> CriteriaMatch(blocks[i].criteria, ReportedTerms)
  <2>1. ReportedTerms = terms
    BY <1>1, <1>2 DEF ReportedTerms, IInv, TypeOK
  <2> QED BY <1>2, <2>1 DEF IInv, InOrder, MatchingBlocks
<1>3. IInv => WellStagedIsDeclarative
  BY <1>1, <1>2 DEF WellStagedIsDeclarative
<1> QED BY Invariance, <1>3, PTL

\* ReadsAreStable: after context.compile no read, of whatever field, changes
\* what other reads give (context.fetchvalue keeps what it found).
THEOREM ReadsSafety == Spec => ReadsAreStable
<1> DEFINE Stable == applied' = applied /\ \A f \in Field : Reported(f)' = Reported(f)
<1>1. ASSUME IInv, IInv', [Next]_vars, compiled PROVE Stable
  <2>1. stage > Len(Stages) /\ held \in [Field -> SUBSET Value]
    BY <1>1 DEF IInv, InOrder, TypeOK
  <2>2. ASSUME UNCHANGED <<blocks, cached, held, applied>> PROVE Stable
    BY <2>2 DEF Reported, Fetch
  <2>3. CASE RunProjectStage
    BY <2>2, <2>3 DEF RunProjectStage
  <2>4. ~ RunStage
    <3>1. ~ (stage <= Len(Stages))
      BY <1>1, <2>1, StageType DEF IInv, TypeOK
    <3> QED BY <3>1 DEF RunStage
  <2>5. ~ CompileContext
    BY <1>1 DEF CompileContext
  <2>6. CASE BakeFile
    BY <2>2, <2>6 DEF BakeFile
  <2>7. ASSUME NEW g \in Field, ReadField(g) PROVE Stable
    <3>1. /\ g \notin cached /\ cached' = cached \union {g}
          /\ held' = [held EXCEPT ![g] = Fetch(g, applied)]
          /\ blocks' = blocks /\ applied' = applied
      BY <2>7 DEF ReadField
    <3>2. \A f : Fetch(f, applied)' = Fetch(f, applied)
      BY <3>1 DEF Fetch
    <3>3. ASSUME NEW f \in Field PROVE Reported(f)' = Reported(f)
      <4>1. CASE f = g
        BY <4>1, <3>1, <2>1 DEF Reported
      <4>2. CASE f # g
        BY <4>2, <3>1, <3>2, <2>1 DEF Reported
      <4> QED BY <4>1, <4>2
    <3> QED BY <3>1, <3>3
  <2>8. CASE UNCHANGED vars
    BY <2>2, <2>8 DEF vars
  <2> QED BY <1>1, <2>3, <2>4, <2>5, <2>6, <2>7, <2>8 DEF Next
<1>2. IInv /\ IInv' /\ [Next]_vars => [compiled => Stable]_vars
  BY <1>1
<1> QED BY Invariance, <1>2, PTL DEF Spec, ReadsAreStable

-----------------------------------------------------------------------------
(* Files                                                                   *)

\* A fetch finds something if a block sets the field.
LEMMA FetchFinds ==
  ASSUME blocks \in Script, NEW f, NEW S \in SUBSET (1..Len(blocks)),
         NEW i \in S, blocks[i].field = f
  PROVE  Fetch(f, S) # {}
<1> DEFINE setting == {k \in S : blocks[k].field = f}
<1>1. Len(blocks) \in Nat
  BY ScriptAssumption
<1>2. setting \in SUBSET (1..Len(blocks)) /\ setting # {}
  OBVIOUS
<1>3. PICK j \in setting : \A k \in setting : k <= j
  <2> HIDE DEF setting
  <2> QED BY <1>1, <1>2, GreatestNat
<1>4. blocks[j].value \in Fetch(f, S)
  BY <1>3 DEF Fetch
<1> QED BY <1>4

\* Before stage k of the project, its terms are among those of the
\* configuration before the same stage, if what the project resolved so far was
\* resolved before it there too; in any case among the final ones.
LEMMA TermsBehind ==
  ASSUME IInv, compiled, ProjectBaked,
         NEW k \in 1..Len(ProjectStages), NEW j \in 1..Len(Stages), Stages[j] = ProjectStages[k],
         \A m \in 1..(k - 1) : projectTerms[ProjectStages[m]] \subseteq terms[ProjectStages[m]]
  PROVE  /\ k > 1 => \A g \in Field : ProjectTermsBefore(k)[g] \subseteq terms[g]
         /\ (\A m \in 1..(k - 1) : \A h, i \in 1..Len(Stages) :
               Stages[h] = ProjectStages[m] /\ Stages[i] = ProjectStages[k] => h < i)
            => \A g \in Field : ProjectTermsBefore(k)[g] \subseteq TermsBefore(j)[g]
<1>0. TypeOK /\ ProjectInv /\ StagesInv /\ InOrder
  BY DEF IInv
<1>1. ProjectTermsBefore(k) \in [Field -> SUBSET Value] /\ \A g \in Field :
        /\ (\A m \in 1..(k - 1) : ProjectStages[m] # g)
             => ProjectTermsBefore(k)[g] \subseteq WksTerms[g]
        /\ \A m \in 1..(k - 1) : ProjectStages[m] = g
             => ProjectTermsBefore(k)[g] = projectTerms[g]
  <2>1. \A g \in Field : ProjectWksTerms[g] \subseteq WksTerms[g]
    BY DEF ProjectWksTerms
  <2>2. ASSUME NEW g \in Field, \A m \in 1..(k - 1) : ProjectStages[m] # g
        PROVE  ProjectTermsBefore(k)[g] \subseteq WksTerms[g]
    <3>1. CASE \E i \in k..Len(ProjectStages) : ProjectStages[i] = g
      BY <2>1, <3>1 DEF ProjectTermsBefore
    <3>2. CASE ~ \E i \in k..Len(ProjectStages) : ProjectStages[i] = g
      <4>1. \A m \in 1..(projectStage - 1) : ProjectStages[m] # g
        BY <2>2, <3>2, <1>0, StageType DEF TypeOK
      <4> QED BY <4>1, <3>2, <2>1, <1>0 DEF ProjectTermsBefore, ProjectInv
    <3> QED BY <3>1, <3>2
  <2>3. ASSUME NEW g \in Field, NEW m \in 1..(k - 1), ProjectStages[m] = g
        PROVE  ProjectTermsBefore(k)[g] = projectTerms[g]
    <3>1. \A i \in k..Len(ProjectStages) : ProjectStages[i] # g
      BY <2>3, StageType, ProjectAssumption
    <3> QED BY <3>1 DEF ProjectTermsBefore
  <2>4. ASSUME NEW g \in Field PROVE ProjectTermsBefore(k)[g] \in SUBSET Value
    <3>1. WksTerms[g] \in SUBSET Value /\ projectTerms[g] \in SUBSET Value
      BY <1>0, TermsAssumption DEF TypeOK
    <3> QED BY <3>1, <2>1 DEF ProjectTermsBefore
  <2> QED BY <2>2, <2>3, <2>4 DEF ProjectTermsBefore
<1>2. \A g \in Field \ Staged : terms[g] = WksTerms[g] /\ TermsBefore(j)[g] = terms[g]
  <2>1. \A g \in Field \ Staged : \A i \in 1..Len(Stages) : Stages[i] # g
    BY DEF Staged
  <2>2. j \in Nat /\ stage - 1 \in Nat /\ stage - 1 <= Len(Stages)
    BY <1>0, StageType DEF TypeOK
  <2> QED BY <2>1, <2>2, <1>0, StageType DEF StagesInv, TermsBefore
<1>3. ASSUME k > 1, NEW g \in Field PROVE ProjectTermsBefore(k)[g] \subseteq terms[g]
  <2>1. CASE \E m \in 1..(k - 1) : ProjectStages[m] = g
    BY <1>1, <2>1
  <2>2. CASE ~ \E m \in 1..(k - 1) : ProjectStages[m] = g
    <3>1. ProjectTermsBefore(k)[g] \subseteq WksTerms[g]
      BY <1>1, <2>2
    <3>2. CASE g \in Staged
      <4>1. WksTerms[g] = {}
        BY <1>3, <2>2, <3>2, ProjectAssumption
      <4> QED BY <3>1, <4>1
    <3>3. CASE g \notin Staged
      BY <1>2, <3>1, <3>3
    <3> QED BY <3>2, <3>3
  <2> QED BY <2>1, <2>2
<1>4. ASSUME \A m \in 1..(k - 1) : \A h, i \in 1..Len(Stages) :
               Stages[h] = ProjectStages[m] /\ Stages[i] = ProjectStages[k] => h < i,
             NEW g \in Field
      PROVE  ProjectTermsBefore(k)[g] \subseteq TermsBefore(j)[g]
  <2>1. CASE \E m \in 1..(k - 1) : ProjectStages[m] = g
    <3>1. \A i \in j..Len(Stages) : Stages[i] # g
      BY <1>4, <2>1, StageType
    <3>2. TermsBefore(j)[g] = terms[g]
      BY <3>1 DEF TermsBefore
    <3> QED BY <1>1, <2>1, <3>2
  <2>2. CASE ~ \E m \in 1..(k - 1) : ProjectStages[m] = g
    <3>1. ProjectTermsBefore(k)[g] \subseteq WksTerms[g]
      BY <1>1, <2>2
    <3>2. CASE g \notin Staged
      BY <1>2, <3>1, <3>2
    <3>3. CASE g \in Staged /\ WksTerms[g] = {}
      BY <3>1, <3>3
    <3>4. CASE g \in Staged /\ WksTerms[g] # {}
      <4>1. g = ProjectStages[1] /\ g = Stages[1]
        BY <3>4, ProjectAssumption
      <4>2. k = 1
        <5>1. k # 1 => 1 \in 1..(k - 1)
          OBVIOUS
        <5> QED BY <2>2, <4>1, <5>1
      <4>3. j = 1
        <5>1. Stages[j] = Stages[1]
          BY <4>1, <4>2
        <5>2. 1 \in 1..Len(Stages)
          BY StageType
        <5> QED BY <5>1, <5>2, StagesAssumption
      <4>4. 1 \in j..Len(Stages)
        BY <4>3, StageType
      <4>5. TermsBefore(j)[g] = WksTerms[g]
        BY <4>1, <4>4 DEF TermsBefore
      <4> QED BY <3>1, <4>5
    <3> QED BY <3>2, <3>3, <3>4
  <2> QED BY <2>1, <2>2
<1> QED BY <1>3, <1>4

\* What the project resolves for a field is among what the configuration does.
LEMMA StageBehind ==
  ASSUME IInv, compiled, ProjectBaked, Positive, OneValue, SameDefaults, ~ LateString,
         NEW k \in 1..Len(ProjectStages),
         \A m \in 1..(k - 1) : projectTerms[ProjectStages[m]] \subseteq terms[ProjectStages[m]]
  PROVE  projectTerms[ProjectStages[k]] \subseteq terms[ProjectStages[k]]
<1> DEFINE f == ProjectStages[k]
           before == ProjectTermsBefore(k)
           own == Fetch(f, MatchingBlocks(before))
<1>1. PICK j \in 1..Len(Stages) : Stages[j] = f /\ Settled(j)
  BY AllSettled, StageType
<1> DEFINE found == Fetch(f, MatchingBlocks(TermsBefore(j)))
           InTime == \A m \in 1..(k - 1) : \A h, i \in 1..Len(Stages) :
             Stages[h] = ProjectStages[m] /\ Stages[i] = ProjectStages[k] => h < i
<1>2. /\ blocks \in Script /\ Forced[f] = {} /\ ProjectDefault[f] \subseteq Default[f]
      /\ f \in Staged /\ f \in Field
  BY ProjectAssumption, StageType DEF IInv, TypeOK, SameDefaults
<1>3. /\ projectTerms[f] = TermsFor(IF own # {} THEN own ELSE ProjectDefault[f])
      /\ terms[f] = TermsFor(IF found # {} THEN found ELSE Default[f])
  <2>1. k \in 1..(projectStage - 1)
    BY StageType DEF IInv, TypeOK, ProjectBaked
  <2> QED BY <1>1, <1>2, <2>1 DEF IInv, ProjectInv, ProjectStageValue, Settled, StageValue, Resolved
<1>4. /\ k > 1 => \A g \in Field : before[g] \subseteq terms[g]
      /\ InTime => \A g \in Field : before[g] \subseteq TermsBefore(j)[g]
  BY <1>1, TermsBehind
<1>5. /\ \A i \in 1..Len(blocks) : blocks[i].field = f => i \in ProjectBlocks
      /\ \A i \in ProjectBlocks : i \in 1..Len(blocks)
  BY DEF ProjectBlocks
<1>6. ASSUME NEW t, \A g \in Field : before[g] \subseteq t[g],
             NEW i \in MatchingBlocks(before), blocks[i].field = f
      PROVE  i \in MatchingBlocks(t)
  <2>1. i \in 1..Len(blocks) /\ CriteriaMatch(blocks[i].criteria, before)
    BY <1>6 DEF MatchingBlocks
  <2>2. \A pattern \in blocks[i].criteria : \A w \in pattern : ~ w.negated
    BY <1>5, <1>6, <2>1 DEF Positive
  <2>3. CriteriaMatch(blocks[i].criteria, t)
    <3> HIDE DEF before
    <3> QED BY <1>2, <1>6, <2>1, <2>2, MoreMatches
  <2> QED BY <2>1, <2>3 DEF MatchingBlocks
<1>7. /\ \A t : MatchingBlocks(t) \in SUBSET (1..Len(blocks))
      /\ \A v \in own : \E i \in MatchingBlocks(before) : blocks[i].field = f /\ blocks[i].value = v
      /\ \A v \in found : \E i \in 1..Len(blocks) : blocks[i].field = f /\ blocks[i].value = v
  <2>1. \A t : MatchingBlocks(t) \in SUBSET (1..Len(blocks))
    BY DEF MatchingBlocks
  <2> HIDE DEF before
  <2> QED BY <2>1 DEF Fetch
<1>8. ASSUME f \notin Lists, found # {}
      PROVE  own \subseteq found /\ ProjectDefault[f] \subseteq found
  <2> HIDE DEF own, found, before
  <2>1. PICK u \in found : TRUE
    BY <1>8
  <2>2. PICK i \in 1..Len(blocks) : blocks[i].field = f /\ blocks[i].value = u
    BY <1>7
  <2>3. ProjectDefault[f] \subseteq {u}
    BY <1>5, <1>8, <2>2 DEF OneValue
  <2>4. \A v \in own : v = u
    BY <1>5, <1>7, <1>8, <2>2 DEF OneValue
  <2> QED BY <2>1, <2>3, <2>4
<1>9. CASE InTime
  <2>1. own # {} => found # {}
    <3>1. SUFFICES ASSUME NEW v \in own PROVE found # {}
      OBVIOUS
    <3>2. PICK i \in MatchingBlocks(before) : blocks[i].field = f
      BY <1>7
    <3>3. i \in MatchingBlocks(TermsBefore(j))
      BY <1>4, <1>6, <1>9, <3>2
    <3> HIDE DEF before
    <3> QED BY <1>2, <1>7, <3>2, <3>3, FetchFinds
  <2>2. f \in Lists => own \subseteq found
    <3>1. SUFFICES ASSUME f \in Lists, NEW v \in own PROVE v \in found
      OBVIOUS
    <3>2. PICK i \in MatchingBlocks(before) : blocks[i].field = f /\ blocks[i].value = v
      BY <1>7
    <3>3. i \in MatchingBlocks(TermsBefore(j))
      BY <1>4, <1>6, <1>9, <3>2
    <3> HIDE DEF before
    <3> QED BY <3>1, <3>2, <3>3 DEF Fetch
  <2>3. f \in Lists => ProjectDefault[f] = {}
    BY ProjectAssumption
  <2> HIDE DEF own, found
  <2> QED BY <1>2, <1>3, <1>8, <2>1, <2>2, <2>3 DEF TermsFor
<1>10. CASE ~ InTime
  <2>1. k > 1 /\ f \notin Lists /\ Default[f] = {}
    BY <1>10, ProjectAssumption
  <2>2. own # {} => found # {}
    <3>1. SUFFICES ASSUME NEW v \in own PROVE found # {}
      OBVIOUS
    <3>2. PICK i \in MatchingBlocks(before) : blocks[i].field = f
      BY <1>7
    <3>3. i \in MatchingBlocks(terms)
      BY <1>4, <1>6, <2>1, <3>2
    <3>4. Fetch(f, applied) # {}
      BY <1>2, <1>7, <3>2, <3>3, FetchFinds DEF IInv, InOrder
    <3>5. Reported(f) # {}
      BY <2>1, <3>4 DEF Reported, IInv, StagesInv
    <3>6. terms[f] # {}
      BY <1>2, <2>1, <3>5 DEF LateString
    <3> HIDE DEF found, own
    <3> QED BY <1>3, <2>1, <3>6 DEF TermsFor
  <2> HIDE DEF own, found
  <2> QED BY <1>2, <1>3, <1>8, <2>1, <2>2 DEF TermsFor
<1> QED BY <1>9, <1>10

LEMMA ProjectBehind ==
  ASSUME IInv, compiled, ProjectBaked, Positive, OneValue, SameDefaults, ~ LateString,
         NEW k \in 1..Len(ProjectStages)
  PROVE  projectTerms[ProjectStages[k]] \subseteq terms[ProjectStages[k]]
<1> DEFINE top == Len(ProjectStages)
           S == {l \in 0..top : \A m \in 1..l :
                   projectTerms[ProjectStages[m]] \subseteq terms[ProjectStages[m]]}
<1>1. top \in Nat
  BY StageType
<1>2. 0 \in S
  BY <1>1
<1>3. ASSUME NEW l \in 1..top, l - 1 \in S PROVE l \in S
  <2>1. projectTerms[ProjectStages[l]] \subseteq terms[ProjectStages[l]]
    BY <1>3, StageBehind
  <2> QED BY <1>1, <1>3, <2>1
<1>4. 0..top \subseteq S
  <2> HIDE DEF S, top
  <2> QED BY <1>1, <1>2, <1>3, InductionUpTo
<1> QED BY <1>1, <1>4

\* FilesSeeTheirConfiguration: what fileconfig.addconfig merges, the project's
\* terms under the configuration's, is no more than the configuration's terms.
THEOREM FilesSafety == Spec => []FilesSeeTheirConfiguration
<1>1. ASSUME IInv, fileTerms[Files] # {}, Positive, OneValue, SameDefaults, ~ LateString,
             NEW i \in 1..Len(blocks)
      PROVE  i \in fileApplied <=>
               /\ NamesFile(blocks[i].criteria)
               /\ CriteriaMatch(blocks[i].criteria, [ReportedTerms EXCEPT ![Files] = {File}])
  <2>1. /\ compiled /\ ProjectBaked /\ TypeOK /\ ProjectInv /\ StagesInv
        /\ fileApplied = {m \in MatchingBlocks(MergedTerms) : NamesFile(blocks[m].criteria)}
    BY <1>1 DEF IInv, FileInv
  <2>2. ReportedTerms = terms
    BY <1>1, <2>1, TermsReported DEF LateString
  <2>3. ASSUME NEW g \in Field PROVE projectTerms[g] \subseteq terms[g]
    <3>1. CASE \E k \in 1..Len(ProjectStages) : ProjectStages[k] = g
      BY <1>1, <2>1, <3>1, ProjectBehind
    <3>2. CASE ~ \E k \in 1..Len(ProjectStages) : ProjectStages[k] = g
      <4>1. projectTerms[g] \subseteq WksTerms[g]
        BY <2>1, <3>2, StageType DEF ProjectInv, ProjectWksTerms, TypeOK
      <4>2. CASE g \in Staged
        <5>1. WksTerms[g] = {}
          BY <3>2, <4>2, StageType, ProjectAssumption
        <5> QED BY <4>1, <5>1
      <4>3. CASE g \notin Staged
        <5>1. \A j \in 1..Len(Stages) : Stages[j] # g
          BY <4>3 DEF Staged
        <5>2. \A j \in 1..(stage - 1) : Stages[j] # g
          BY <5>1, <2>1, StageType DEF TypeOK
        <5> QED BY <4>1, <5>2, <2>1 DEF StagesInv
      <4> QED BY <4>2, <4>3
    <3> QED BY <3>1, <3>2
  <2>4. MergedTerms = [terms EXCEPT ![Files] = {File}]
    BY <2>1, <2>3 DEF MergedTerms, TypeOK
  <2> QED BY <2>1, <2>2, <2>4 DEF MatchingBlocks
<1>2. IInv => FilesSeeTheirConfiguration
  BY <1>1 DEF FilesSeeTheirConfiguration
<1> QED BY Invariance, <1>2, PTL

-----------------------------------------------------------------------------
(* Pairs and their product                                                 *)

LEMMA PairFacts ==
  ASSUME NEW p \in Pair
  PROVE  /\ Len(p) \in {1, 2} /\ \A i \in 1..Len(p) : p[i] \in Name
         /\ p[1] \in Name /\ (Len(p) = 2 => p[2] \in Name)
         /\ (Len(p) = 1 => p = <<p[1]>>) /\ (Len(p) = 2 => p = <<p[1], p[2]>>)
BY DEF Pair

LEMMA PairsDiffer ==
  ASSUME NEW p \in Pair, NEW q \in Pair, Len(p) = Len(q), \A i \in 1..Len(p) : p[i] = q[i]
  PROVE  p = q
<1>1. CASE Len(p) = 1
  <2>1. p[1] = q[1]
    BY <1>1
  <2>2. p = <<p[1]>> /\ q = <<q[1]>>
    BY <1>1, PairFacts
  <2> QED BY <2>1, <2>2
<1>2. CASE Len(p) = 2
  <2>1. p[1] = q[1] /\ p[2] = q[2]
    BY <1>2
  <2>2. p = <<p[1], p[2]>> /\ q = <<q[1], q[2]>>
    BY <1>2, PairFacts
  <2> QED BY <2>1, <2>2
<1> QED BY <1>1, <1>2, PairFacts

LEMMA Division ==
  ASSUME NEW w \in Nat \ {0}, NEW x \in Nat, NEW r \in 0..(w - 1)
  PROVE  (x * w + r) \div w = x /\ (x * w + r) % w = r
OBVIOUS

LEMMA Quotient ==
  ASSUME NEW w \in Nat \ {0}, NEW x \in Nat, NEW i \in 1..(x * w)
  PROVE  ((i - 1) \div w) + 1 \in 1..x /\ ((i - 1) % w) + 1 \in 1..w
OBVIOUS

\* What table.fold makes of two lists of names.
LEMMA FoldFacts ==
  ASSUME NEW list1 \in Seq(Name), NEW list2 \in Seq(Name)
  PROVE  /\ Fold(list1, list2) \in Seq(Pair)
         /\ \A p \in Elements(Fold(list1, list2)) :
              /\ p \in Pair /\ Len(p) = (IF list2 = << >> THEN 1 ELSE 2)
              /\ p[1] \in Elements(list1) /\ (Len(p) = 2 => p[2] \in Elements(list2))
         /\ \A a \in Elements(list1) :
              IF list2 = << >> THEN <<a>> \in Elements(Fold(list1, list2))
              ELSE \A b \in Elements(list2) : <<a, b>> \in Elements(Fold(list1, list2))
<1> DEFINE F == Fold(list1, list2)
           w == Len(list2)
           m == Len(list1)
<1>0. w \in Nat /\ m \in Nat
  OBVIOUS
<1>1. CASE list2 = << >>
  <2>1. F = [i \in 1..m |-> <<list1[i]>>]
    BY <1>1 DEF Fold
  <2>2. \A i \in 1..m : list1[i] \in Name
    OBVIOUS
  <2>3. F \in Seq(Pair) /\ Len(F) = m /\ \A i \in 1..m : F[i] = <<list1[i]>>
    BY <1>0, <2>1, <2>2 DEF Pair
  <2> HIDE DEF F, m
  <2>4. ASSUME NEW p \in Elements(F)
        PROVE  p \in Pair /\ Len(p) = 1 /\ p[1] \in Elements(list1)
    <3>1. PICK i \in 1..m : p = <<list1[i]>>
      BY <2>3 DEF Elements
    <3>2. list1[i] \in Elements(list1)
      BY DEF Elements, m
    <3> QED BY <2>2, <3>1, <3>2 DEF Pair
  <2>5. ASSUME NEW a \in Elements(list1) PROVE <<a>> \in Elements(F)
    <3>1. PICK i \in 1..m : a = list1[i]
      BY DEF Elements, m
    <3> QED BY <2>3, <3>1 DEF Elements
  <2> QED BY <1>1, <2>3, <2>4, <2>5 DEF F
<1>2. CASE list2 # << >>
  <2> DEFINE row(i) == ((i - 1) \div w) + 1
             col(i) == ((i - 1) % w) + 1
  <2>0. w \in Nat \ {0} /\ m * w \in Nat
    BY <1>0, <1>2
  <2>1. F = [i \in 1..(m * w) |-> <<list1[row(i)], list2[col(i)]>>]
    BY <1>2 DEF Fold
  <2>2. \A i \in 1..(m * w) : row(i) \in 1..m /\ col(i) \in 1..w
    <3> HIDE DEF w, m
    <3> QED BY <1>0, <2>0, Quotient
  <2>3. ASSUME NEW i \in 1..m, NEW j \in 1..w
        PROVE  \E k \in 1..(m * w) : row(k) = i /\ col(k) = j
    <3> DEFINE k == (i - 1) * w + (j - 1) + 1
    <3>1. k \in 1..(m * w) /\ k - 1 = (i - 1) * w + (j - 1)
      <4> HIDE DEF w, m
      <4> QED BY <1>0, <2>0, <2>3
    <3>2. row(k) = i /\ col(k) = j
      <4>1. i - 1 \in Nat /\ j - 1 \in 0..(w - 1)
        OBVIOUS
      <4>2. ((i - 1) * w + (j - 1)) \div w = i - 1 /\ ((i - 1) * w + (j - 1)) % w = j - 1
        <5> HIDE DEF w, m
        <5> QED BY <2>0, <4>1, Division
      <4>3. ((k - 1) \div w) = i - 1 /\ ((k - 1) % w) = j - 1
        <5> HIDE DEF w, m, k
        <5> QED BY <3>1, <4>2
      <4> HIDE DEF w, m, k
      <4> QED BY <4>3
    <3> HIDE DEF row, col, k, w, m
    <3> QED BY <3>1, <3>2
  <2> HIDE DEF row, col
  <2>4. (\A i \in 1..m : list1[i] \in Name) /\ (\A j \in 1..w : list2[j] \in Name)
    OBVIOUS
  <2>5. F \in Seq(Pair) /\ Len(F) = m * w
        /\ \A i \in 1..(m * w) : F[i] = <<list1[row(i)], list2[col(i)]>>
    <3>1. \A i \in 1..(m * w) : <<list1[row(i)], list2[col(i)]>> \in Pair
      BY <2>2, <2>4 DEF Pair
    <3> DEFINE z == m * w
               h(i) == <<list1[row(i)], list2[col(i)]>>
    <3>2. z \in Nat /\ F = [i \in 1..z |-> h(i)] /\ \A i \in 1..z : h(i) \in Pair
      BY <2>0, <2>1, <3>1
    <3>3. F \in Seq(Pair) /\ Len(F) = z /\ \A i \in 1..z : F[i] = h(i)
      <4> HIDE DEF F, z, h
      <4> QED BY <3>2
    <3> QED BY <3>3
  <2> HIDE DEF F
  <2>6. ASSUME NEW p \in Elements(F)
        PROVE  /\ p \in Pair /\ Len(p) = 2
               /\ p[1] \in Elements(list1) /\ p[2] \in Elements(list2)
    <3>1. PICK i \in 1..(m * w) : p = <<list1[row(i)], list2[col(i)]>>
      BY <2>5 DEF Elements
    <3>2. list1[row(i)] \in Elements(list1) /\ list2[col(i)] \in Elements(list2)
      BY <2>2 DEF Elements
    <3>3. list1[row(i)] \in Name /\ list2[col(i)] \in Name
      BY <2>2, <2>4
    <3> HIDE DEF m, w
    <3> QED BY <3>1, <3>2, <3>3 DEF Pair
  <2>7. ASSUME NEW a \in Elements(list1), NEW b \in Elements(list2)
        PROVE  <<a, b>> \in Elements(F)
    <3>1. PICK i \in 1..m : a = list1[i]
      BY DEF Elements
    <3>2. PICK j \in 1..w : b = list2[j]
      BY DEF Elements
    <3>3. PICK k \in 1..(m * w) : row(k) = i /\ col(k) = j
      BY <2>3
    <3>4. F[k] = <<a, b>> /\ k \in 1..Len(F)
      BY <2>5, <3>1, <3>2, <3>3
    <3> QED BY <3>4 DEF Elements
  <2> QED BY <1>2, <2>5, <2>6, <2>7 DEF F
<1> QED BY <1>1, <1>2
-----------------------------------------------------------------------------
(* project.mapconfig                                                       *)

LEMMA ApplyType ==
  ASSUME NEW e \in Entry, NEW p \in Pair
  PROVE  ApplyEntry(e, p) \in Pair
<1>1. e.replacement \in Pair
  BY DEF Entry
<1>2. ASSUME NEW q \in Pair, NEW i \in {1, 2} PROVE TryAt(e, q, i) \in Pair
  <2>1. CASE Len(e.pattern) = 1 /\ Len(e.replacement) = 1
    <3>1. e.replacement[1] \in Name
      BY <1>1, PairFacts
    <3>2. [q EXCEPT ![i] = e.replacement[1]] \in Pair
      <4>1. CASE Len(q) = 1
        <5>1. q = <<q[1]>> /\ q[1] \in Name
          BY <4>1, PairFacts
        <5>2. [q EXCEPT ![i] = e.replacement[1]] \in {<<q[1]>>, <<e.replacement[1]>>}
          BY <5>1
        <5> QED BY <3>1, <5>1, <5>2 DEF Pair
      <4>2. CASE Len(q) = 2
        <5>1. q = <<q[1], q[2]>> /\ q[1] \in Name /\ q[2] \in Name
          BY <4>2, PairFacts
        <5>2. [q EXCEPT ![i] = e.replacement[1]] \in {<<q[1], e.replacement[1]>>, <<e.replacement[1], q[2]>>}
          BY <5>1
        <5> QED BY <3>1, <5>1, <5>2 DEF Pair
      <4> QED BY <4>1, <4>2, PairFacts
    <3> QED BY <2>1, <3>2 DEF TryAt, Replace
  <2>2. CASE ~ (Len(e.pattern) = 1 /\ Len(e.replacement) = 1)
    BY <1>1, <2>2 DEF TryAt, Replace
  <2> QED BY <2>1, <2>2
<1>3. TryAt(e, p, 1) \in Pair
  BY <1>2
<1> QED BY <1>2, <1>3 DEF ApplyEntry

\* The equations of MapConfig.
MapEquations(p) ==
  /\ MapConfig(<< >>, p) = p
  /\ \A s \in Seq(Entry) :
       /\ MapConfig(s, p) \in Pair
       /\ \A e \in Entry : MapConfig(Append(s, e), p) = ApplyEntry(e, MapConfig(s, p))

LEMMA MapStep ==
  ASSUME NEW p \in Pair
  PROVE  MapEquations(p)
<1> DEFINE g == [x \in Pair \X Entry |-> ApplyEntry(x[2], x[1])]
<1>1. /\ g \in [Pair \X Entry -> Pair]
      /\ \A q \in Pair, e \in Entry : g[<<q, e>>] = ApplyEntry(e, q)
  BY ApplyType
<1> HIDE DEF g
<1>2. ASSUME NEW s \in Seq(Entry) PROVE MapConfig(s, p) = FoldedBy(g, p, s)
  <2> DEFINE Walks(f) == f = [k \in 0..Len(s) |-> IF k = 0 THEN p ELSE ApplyEntry(s[k], f[k - 1])]
             f == CHOOSE x : Walks(x)
  <2>1. MapConfig(s, p) = f[Len(s)]
    BY DEF MapConfig
  <2>2. \E x \in [0..Len(s) -> Pair] : Folds(x, g, p, s)
    BY <1>1, FoldExists
  <2>3. PICK x \in [0..Len(s) -> Pair] : Folds(x, g, p, s)
    BY <2>2
  <2>4. Walks(x)
    <3>1. \A k \in 1..Len(s) : s[k] \in Entry /\ x[k - 1] \in Pair
      OBVIOUS
    <3>2. \A k \in 0..Len(s) : (IF k = 0 THEN p ELSE g[<<x[k - 1], s[k]>>])
                                  = (IF k = 0 THEN p ELSE ApplyEntry(s[k], x[k - 1]))
      BY <1>1, <3>1
    <3> QED BY <2>3, <3>2 DEF Folds
  <2>5. Walks(f)
    BY <2>4
  <2> HIDE DEF f
  <2>6. /\ f[0] = p
        /\ \A k \in 1..Len(s) : f[k] = ApplyEntry(s[k], f[k - 1])
    BY <2>5
  <2>7. \A k \in 1..Len(s) : f[k - 1] \in Pair => f[k] = g[<<f[k - 1], s[k]>>]
    <3>1. \A k \in 1..Len(s) : s[k] \in Entry
      OBVIOUS
    <3> QED BY <1>1, <2>6, <3>1
  <2>8. Follows(f, Pair, Entry, g, p, s)
    BY <1>1, <2>6, <2>7 DEF Follows
  <2> QED BY <2>1, <2>8, FoldUnique
<1>3. FoldEquations(Pair, Entry, g, p)
  BY <1>1, FoldedStep
<1>4. << >> \in Seq(Entry) /\ \A s \in Seq(Entry), e \in Entry : Append(s, e) \in Seq(Entry)
  OBVIOUS
<1>5. MapConfig(<< >>, p) = p
  <2>1. FoldedBy(g, p, << >>) = p
    BY <1>3 DEF FoldEquations
  <2>2. MapConfig(<< >>, p) = FoldedBy(g, p, << >>)
    BY <1>2, <1>4
  <2> QED BY <2>1, <2>2
<1>6. ASSUME NEW s \in Seq(Entry)
      PROVE  /\ MapConfig(s, p) \in Pair
             /\ \A e \in Entry : MapConfig(Append(s, e), p) = ApplyEntry(e, MapConfig(s, p))
  <2>1. MapConfig(s, p) = FoldedBy(g, p, s) /\ FoldedBy(g, p, s) \in Pair
    BY <1>2, <1>3 DEF FoldEquations
  <2>2. ASSUME NEW e \in Entry
        PROVE  MapConfig(Append(s, e), p) = ApplyEntry(e, MapConfig(s, p))
    <3>1. MapConfig(Append(s, e), p) = FoldedBy(g, p, Append(s, e))
      BY <1>2, <1>4
    <3>2. FoldedBy(g, p, Append(s, e)) = g[<<FoldedBy(g, p, s), e>>]
      BY <1>3 DEF FoldEquations
    <3> QED BY <1>1, <2>1, <3>1, <3>2
  <2> QED BY <2>1, <2>2
<1> QED BY <1>5, <1>6 DEF MapEquations

LEMMA MapType ==
  ASSUME NEW s \in Seq(Entry), NEW p \in Pair
  PROVE  MapConfig(s, p) \in Pair
BY MapStep DEF MapEquations
-----------------------------------------------------------------------------
(* Maps from name to name                                                  *)

\* PerName, of any list of entries.
PerNameMaps(s) ==
  /\ \A i \in 1..Len(s) :
       /\ Len(s[i].pattern) = 1 /\ Len(s[i].replacement) = 1
       /\ s[i].pattern[1] # Any
  /\ \A i, j \in 1..Len(s) : s[i].replacement[1] # s[j].pattern[1]

Sources(s) == {s[i].pattern[1] : i \in 1..Len(s)}

\* Entry i is the first for the name.
FirstFor(s, i, name) ==
  /\ i \in 1..Len(s) /\ s[i].pattern[1] = name
  /\ \A j \in 1..(i - 1) : s[j].pattern[1] # name

\* Name x is what the entries make of a name.
MapsTo(s, name, x) ==
  /\ name \notin Sources(s) => x = name
  /\ \A i \in 1..Len(s) : FirstFor(s, i, name) => x = s[i].replacement[1]

LEMMA FirstExists ==
  ASSUME NEW s \in Seq(Entry), NEW name \in Sources(s)
  PROVE  \E i \in 1..Len(s) : FirstFor(s, i, name)
<1> DEFINE T == {i \in 1..Len(s) : s[i].pattern[1] = name}
<1>1. T \in SUBSET Nat /\ T # {}
  BY DEF Sources
<1>2. PICK i \in T : \A j \in T : i <= j
  <2> HIDE DEF T
  <2> QED BY <1>1, LeastNat, Zenon
<1>3. \A j \in 1..(i - 1) : j \in 1..Len(s) /\ ~ (i <= j)
  OBVIOUS
<1>4. \A j \in 1..(i - 1) : s[j].pattern[1] # name
  BY <1>2, <1>3
<1> QED BY <1>4 DEF FirstFor

\* One entry for a name replaces that name wherever it is.
LEMMA PerNameApply ==
  ASSUME NEW e \in Entry, Len(e.pattern) = 1, Len(e.replacement) = 1, e.pattern[1] # Any,
         NEW p \in Pair
  PROVE  /\ ApplyEntry(e, p) \in Pair /\ Len(ApplyEntry(e, p)) = Len(p)
         /\ \A k \in 1..Len(p) :
              ApplyEntry(e, p)[k] = IF p[k] = e.pattern[1] THEN e.replacement[1] ELSE p[k]
<1> DEFINE a == e.pattern[1]
           b == e.replacement[1]
<1>1. b \in Name
  BY PairFacts DEF Entry
<1>2. ASSUME NEW q \in Pair, NEW i \in 1..Len(q)
      PROVE  /\ TryAt(e, q, i) \in Pair /\ Len(TryAt(e, q, i)) = Len(q)
             /\ \A k \in 1..Len(q) :
                  TryAt(e, q, i)[k] = IF k = i /\ q[i] = a THEN b ELSE q[k]
  <2>1. TestPattern(e.pattern, q, i) <=> q[i] = a
    <3>1. i \in Nat /\ Len(q) \in Nat /\ i <= Len(q) /\ i + 1 - 1 = i
      BY PairFacts
    <3>2. 1..Len(e.pattern) = {1}
      OBVIOUS
    <3> HIDE DEF a
    <3>3. TestPattern(e.pattern, q, i) <=> Matches(e.pattern[1], q[i])
      BY <3>1, <3>2 DEF TestPattern
    <3> QED BY <3>3 DEF Matches, a
  <2>2. TryAt(e, q, i) = IF q[i] = a THEN [q EXCEPT ![i] = b] ELSE q
    BY <2>1 DEF TryAt, Replace
  <2> HIDE DEF a, b
  <2>3. CASE Len(q) = 1
    <3>1. q = <<q[1]>> /\ q[1] \in Name /\ i = 1
      BY <2>3, PairFacts
    <3>2. [q EXCEPT ![i] = b] = <<b>>
      BY <3>1
    <3>3. TryAt(e, q, i) = IF q[1] = a THEN <<b>> ELSE q
      BY <2>2, <3>1, <3>2
    <3> QED BY <1>1, <2>3, <3>1, <3>3 DEF Pair
  <2>4. CASE Len(q) = 2
    <3>1. q = <<q[1], q[2]>> /\ q[1] \in Name /\ q[2] \in Name /\ i \in {1, 2}
      BY <2>4, PairFacts
    <3>2. [q EXCEPT ![i] = b] = IF i = 1 THEN <<b, q[2]>> ELSE <<q[1], b>>
      <4>1. PICK x \in Name, y \in Name : q = <<x, y>>
        BY <3>1
      <4>2. q[1] = x /\ q[2] = y
        BY <4>1
      <4>3. [<<x, y>> EXCEPT ![1] = b] = <<b, y>> /\ [<<x, y>> EXCEPT ![2] = b] = <<x, b>>
        OBVIOUS
      <4> QED BY <3>1, <4>1, <4>2, <4>3
    <3>3. TryAt(e, q, i) = IF q[i] = a THEN (IF i = 1 THEN <<b, q[2]>> ELSE <<q[1], b>>) ELSE q
      BY <2>2, <3>2
    <3>4. <<b, q[2]>> \in Pair /\ <<q[1], b>> \in Pair
      BY <1>1, <3>1 DEF Pair
    <3>5. CASE i = 1
      BY <2>4, <3>1, <3>3, <3>4, <3>5
    <3>6. CASE i = 2
      BY <2>4, <3>1, <3>3, <3>4, <3>6
    <3> QED BY <3>1, <3>5, <3>6
  <2> QED BY <2>3, <2>4, PairFacts
<1> HIDE DEF a, b
<1>3. CASE Len(p) = 1
  <2>1. ApplyEntry(e, p) = TryAt(e, p, 1)
    BY <1>3 DEF ApplyEntry
  <2>2. /\ TryAt(e, p, 1) \in Pair /\ Len(TryAt(e, p, 1)) = 1
        /\ TryAt(e, p, 1)[1] = IF p[1] = a THEN b ELSE p[1]
    BY <1>2, <1>3
  <2> QED BY <1>3, <2>1, <2>2 DEF a, b
<1>4. CASE Len(p) = 2
  <2> DEFINE q == TryAt(e, p, 1)
  <2>1. ApplyEntry(e, p) = TryAt(e, q, 2)
    BY <1>4 DEF ApplyEntry
  <2>2. /\ q \in Pair /\ Len(q) = 2 /\ q[1] = (IF p[1] = a THEN b ELSE p[1]) /\ q[2] = p[2]
    BY <1>2, <1>4
  <2> HIDE DEF q
  <2>3. /\ TryAt(e, q, 2) \in Pair /\ Len(TryAt(e, q, 2)) = 2
        /\ TryAt(e, q, 2)[1] = q[1] /\ TryAt(e, q, 2)[2] = IF q[2] = a THEN b ELSE q[2]
    <3>1. 1 \in 1..Len(q) /\ 2 \in 1..Len(q) /\ 1 # 2
      BY <2>2
    <3> QED BY <1>2, <2>2, <3>1
  <2> QED BY <1>4, <2>1, <2>2, <2>3 DEF a, b
<1> QED BY <1>3, <1>4, PairFacts

\* Of a name the first entry for it decides: what it gives is mapped no further.
LEMMA PerNameMapping ==
  ASSUME NEW p \in Pair
  PROVE  \A s \in Seq(Entry) : PerNameMaps(s) =>
           /\ MapConfig(s, p) \in Pair /\ Len(MapConfig(s, p)) = Len(p)
           /\ \A k \in 1..Len(p) : MapsTo(s, p[k], MapConfig(s, p)[k])
<1> DEFINE Good(s) ==
             PerNameMaps(s) =>
               /\ MapConfig(s, p) \in Pair /\ Len(MapConfig(s, p)) = Len(p)
               /\ \A k \in 1..Len(p) : MapsTo(s, p[k], MapConfig(s, p)[k])
           S == {s \in Seq(Entry) : Good(s)}
<1>0. MapEquations(p)
  BY MapStep
<1>1. << >> \in S
  BY <1>0 DEF MapEquations, MapsTo, FirstFor
<1>2. ASSUME NEW s \in Seq(Entry), s \in S, NEW e \in Entry PROVE Append(s, e) \in S
  <2> DEFINE t == Append(s, e)
             q == MapConfig(s, p)
             r == MapConfig(t, p)
             m == Len(s)
  <2>1. /\ t \in Seq(Entry) /\ m \in Nat /\ Len(t) = m + 1 /\ t[m + 1] = e
        /\ \A i \in 1..m : t[i] = s[i]
    OBVIOUS
  <2>2. r = ApplyEntry(e, q)
    BY <1>0 DEF MapEquations
  <2>3. Good(s)
    BY <1>2
  <2> HIDE DEF t, q, r, m
  <2>4. SUFFICES ASSUME PerNameMaps(t)
                 PROVE  r \in Pair /\ Len(r) = Len(p) /\ \A k \in 1..Len(p) : MapsTo(t, p[k], r[k])
    BY <2>1 DEF t, r
  <2>5. PerNameMaps(s) /\ Len(e.pattern) = 1 /\ Len(e.replacement) = 1 /\ e.pattern[1] # Any
    BY <2>1, <2>4 DEF PerNameMaps, m
  <2>6. q \in Pair /\ Len(q) = Len(p) /\ \A k \in 1..Len(p) : MapsTo(s, p[k], q[k])
    BY <2>3, <2>5 DEF q
  <2>7. /\ r \in Pair /\ Len(r) = Len(p)
        /\ \A k \in 1..Len(p) : r[k] = IF q[k] = e.pattern[1] THEN e.replacement[1] ELSE q[k]
    BY <2>2, <2>5, <2>6, PerNameApply
  <2>8. ASSUME NEW k \in 1..Len(p) PROVE MapsTo(t, p[k], r[k])
    <3>1. CASE p[k] \in Sources(s)
      <4>1. PICK i \in 1..m : FirstFor(s, i, p[k])
        BY <3>1, FirstExists DEF m
      <4>2. q[k] = s[i].replacement[1]
        BY <2>6, <4>1 DEF MapsTo, m
      <4>3. q[k] # e.pattern[1]
        <5>1. i \in 1..Len(t) /\ m + 1 \in 1..Len(t)
          BY <2>1
        <5> QED BY <2>1, <2>4, <4>2, <5>1 DEF PerNameMaps
      <4>4. r[k] = s[i].replacement[1]
        BY <2>7, <4>2, <4>3
      <4>5. p[k] \in Sources(t)
        <5>1. i \in 1..Len(t) /\ t[i].pattern[1] = p[k]
          BY <2>1, <4>1 DEF FirstFor
        <5> QED BY <5>1 DEF Sources
      <4>6. ASSUME NEW j \in 1..Len(t), FirstFor(t, j, p[k]) PROVE j = i
        <5>1. j \in 1..Len(t) /\ t[j].pattern[1] = p[k]
              /\ \A l \in 1..(j - 1) : t[l].pattern[1] # p[k]
          BY <4>6 DEF FirstFor
        <5>2. s[i].pattern[1] = p[k] /\ \A l \in 1..(i - 1) : s[l].pattern[1] # p[k]
          BY <4>1 DEF FirstFor
        <5>3. ~ (i < j)
          <6>1. i < j => i \in 1..(j - 1)
            BY <2>1
          <6> QED BY <2>1, <5>1, <5>2, <6>1
        <5>4. ~ (j < i)
          <6>1. j < i => j \in 1..(i - 1) /\ j \in 1..m
            BY <2>1
          <6> QED BY <2>1, <5>1, <5>2, <6>1
        <5> QED BY <2>1, <5>3, <5>4
      <4> QED BY <2>1, <4>4, <4>5, <4>6 DEF MapsTo
    <3>2. CASE p[k] \notin Sources(s)
      <4>1. q[k] = p[k]
        BY <2>6, <3>2 DEF MapsTo
      <4>2. \A l \in 1..m : t[l].pattern[1] # p[k]
        BY <2>1, <3>2 DEF Sources, m
      <4>3. CASE p[k] = e.pattern[1]
        <5>1. r[k] = e.replacement[1]
          BY <2>7, <4>1, <4>3
        <5>2. p[k] \in Sources(t)
          BY <2>1, <4>3 DEF Sources
        <5>3. ASSUME NEW j \in 1..Len(t), FirstFor(t, j, p[k]) PROVE t[j] = e
          <6>1. j \notin 1..m
            BY <4>2, <5>3 DEF FirstFor
          <6> QED BY <2>1, <6>1
        <5> QED BY <5>1, <5>2, <5>3 DEF MapsTo
      <4>4. CASE p[k] # e.pattern[1]
        <5>1. r[k] = p[k]
          BY <2>7, <4>1, <4>4
        <5>2. \A l \in 1..Len(t) : t[l].pattern[1] # p[k]
          <6>1. \A l \in 1..Len(t) : l \in 1..m \/ l = m + 1
            BY <2>1
          <6> QED BY <2>1, <4>2, <4>4, <6>1
        <5> QED BY <5>1, <5>2 DEF MapsTo, FirstFor
      <4> QED BY <4>3, <4>4
    <3> QED BY <3>1, <3>2
  <2> QED BY <2>7, <2>8
<1>3. Seq(Entry) \subseteq S
  <2> HIDE DEF S
  <2> QED BY <1>1, <1>2, SequenceInduction
<1> QED BY <1>3

\* No part of a mapped pair is mapped once more.
LEMMA MappedIsFinal ==
  ASSUME NEW s \in Seq(Entry), PerNameMaps(s), NEW p \in Pair
  PROVE  \A k \in 1..Len(p) : MapConfig(s, p)[k] \notin Sources(s)
<1> SUFFICES ASSUME NEW k \in 1..Len(p) PROVE MapConfig(s, p)[k] \notin Sources(s)
  OBVIOUS
<1>1. MapsTo(s, p[k], MapConfig(s, p)[k])
  BY PerNameMapping
<1>2. CASE p[k] \in Sources(s)
  <2>1. PICK i \in 1..Len(s) : FirstFor(s, i, p[k])
    BY <1>2, FirstExists
  <2>2. MapConfig(s, p)[k] = s[i].replacement[1]
    BY <1>1, <2>1 DEF MapsTo
  <2> QED BY <2>2 DEF PerNameMaps, Sources
<1>3. CASE p[k] \notin Sources(s)
  BY <1>1, <1>3 DEF MapsTo
<1> QED BY <1>2, <1>3

LEMMA FinalIsKept ==
  ASSUME NEW s \in Seq(Entry), PerNameMaps(s), NEW p \in Pair,
         \A k \in 1..Len(p) : p[k] \notin Sources(s)
  PROVE  MapConfig(s, p) = p
<1>1. /\ MapConfig(s, p) \in Pair /\ Len(MapConfig(s, p)) = Len(p)
      /\ \A k \in 1..Len(p) : MapConfig(s, p)[k] = p[k]
  BY PerNameMapping DEF MapsTo
<1> QED BY <1>1, PairsDiffer
-----------------------------------------------------------------------------
(* The order of the entries of one table                                   *)

\* A one-to-one function of 1..m to itself misses nothing.
LEMMA Permutes ==
  ASSUME NEW m \in Nat, NEW o \in [1..m -> 1..m],
         \A i, j \in 1..m : o[i] = o[j] => i = j, NEW k \in 1..m
  PROVE  \E i \in 1..m : o[i] = k
<1> SUFFICES ASSUME \A i \in 1..m : o[i] # k PROVE FALSE
  OBVIOUS
<1> DEFINE D == 1..m
           T == D \ {k}
<1>1. IsFiniteSet(D) /\ Cardinality(D) = m
  BY FS_Interval
<1>2. IsFiniteSet(T) /\ Cardinality(T) = Cardinality(D) - 1
  BY <1>1, FS_RemoveElement
<1>3. Cardinality(T) < Cardinality(D)
  BY <1>1, <1>2
<1>4. o \in [D -> T]
  OBVIOUS
<1> DEFINE h == o
<1>5. h \in [D -> T]
  BY <1>4
<1>6. PICK x \in D, y \in D : x # y /\ h[x] = h[y]
  <2> HIDE DEF D, T, h
  <2> QED BY <1>1, <1>2, <1>3, <1>5, FS_PigeonHole
<1> QED BY <1>6

\* o reorders the entries of s inside the tables t they come from.
Shuffles(o, s, t) ==
  /\ t \in Seq(Nat) /\ Len(t) = Len(s)
  /\ \A i, j \in 1..Len(s) : i <= j => t[i] <= t[j]
  /\ \A i, j \in 1..Len(s) :
       (t[i] = t[j] /\ Len(s[i].pattern) = 1 /\ s[i].pattern = s[j].pattern) => i = j
  /\ o \in [1..Len(s) -> 1..Len(s)]
  /\ \A i, j \in 1..Len(s) : o[i] = o[j] => i = j
  /\ \A i \in 1..Len(s) : t[o[i]] = t[i]

Shuffled(o, s) == [i \in 1..Len(s) |-> s[o[i]]]

LEMMA Reordering ==
  ASSUME NEW s \in Seq(Entry), PerNameMaps(s), NEW t, NEW o, Shuffles(o, s, t),
         NEW p \in Pair
  PROVE  MapConfig(Shuffled(o, s), p) = MapConfig(s, p)
<1>0. /\ t \in Seq(Nat) /\ Len(t) = Len(s)
      /\ \A i, j \in 1..Len(s) : i <= j => t[i] <= t[j]
      /\ \A i, j \in 1..Len(s) :
           (t[i] = t[j] /\ Len(s[i].pattern) = 1 /\ s[i].pattern = s[j].pattern) => i = j
      /\ o \in [1..Len(s) -> 1..Len(s)]
      /\ \A i, j \in 1..Len(s) : o[i] = o[j] => i = j
      /\ \A i \in 1..Len(s) : t[o[i]] = t[i]
  BY DEF Shuffles
<1> DEFINE m == Len(s)
           r == Shuffled(o, s)
<1>1. m \in Nat /\ \A i \in 1..m : s[i] \in Entry /\ t[i] \in Nat
  BY <1>0
<1>2. r \in Seq(Entry) /\ Len(r) = m /\ \A i \in 1..m : r[i] = s[o[i]]
  BY <1>0, <1>1 DEF Shuffled
<1> HIDE DEF r
<1>3. PerNameMaps(r)
  <2>1. \A i \in 1..m : o[i] \in 1..m
    BY <1>0
  <2>2. ASSUME NEW i \in 1..m
        PROVE  Len(r[i].pattern) = 1 /\ Len(r[i].replacement) = 1 /\ r[i].pattern[1] # Any
    <3>1. r[i] = s[o[i]] /\ o[i] \in 1..m
      BY <1>2, <2>1
    <3> QED BY <3>1 DEF PerNameMaps
  <2>3. ASSUME NEW i \in 1..m, NEW j \in 1..m
        PROVE  r[i].replacement[1] # r[j].pattern[1]
    <3>1. r[i] = s[o[i]] /\ o[i] \in 1..m /\ r[j] = s[o[j]] /\ o[j] \in 1..m
      BY <1>2, <2>1
    <3> QED BY <3>1 DEF PerNameMaps
  <2> HIDE DEF m
  <2> QED BY <1>2, <2>2, <2>3 DEF PerNameMaps
<1>4. \A k \in 1..m : \E i \in 1..m : o[i] = k
  <2> HIDE DEF m
  <2> QED BY <1>0, <1>1, Permutes DEF m
<1>5. Sources(r) = Sources(s)
  <2>1. ASSUME NEW i \in 1..m PROVE r[i].pattern[1] \in Sources(s)
    <3>1. r[i] = s[o[i]] /\ o[i] \in 1..m
      BY <1>0, <1>2
    <3> QED BY <3>1 DEF Sources
  <2>2. ASSUME NEW k \in 1..m PROVE s[k].pattern[1] \in Sources(r)
    <3>1. PICK i \in 1..m : o[i] = k
      BY <1>4
    <3>2. r[i] = s[k] /\ i \in 1..Len(r)
      BY <1>2, <3>1
    <3> QED BY <3>2 DEF Sources
  <2>3. ASSUME NEW x \in Sources(r) PROVE x \in Sources(s)
    <3>1. PICK i \in 1..Len(r) : x = r[i].pattern[1]
      BY DEF Sources
    <3> QED BY <1>2, <2>1, <3>1
  <2>4. ASSUME NEW x \in Sources(s) PROVE x \in Sources(r)
    <3>1. PICK k \in 1..Len(s) : x = s[k].pattern[1]
      BY DEF Sources
    <3> QED BY <2>2, <3>1
  <2> QED BY <2>3, <2>4
<1>6. \A i \in 1..m : s[i].pattern = <<s[i].pattern[1]>>
  <2> SUFFICES ASSUME NEW i \in 1..m PROVE s[i].pattern = <<s[i].pattern[1]>>
    OBVIOUS
  <2>1. s[i].pattern \in {<<x>> : x \in Pattern} \union Pattern \X Pattern
    BY <1>1 DEF Entry
  <2>2. Len(s[i].pattern) = 1
    BY DEF PerNameMaps
  <2> HIDE DEF m
  <2> QED BY <2>1, <2>2
<1>7. ASSUME NEW name, NEW i \in 1..m, NEW k \in 1..m,
             FirstFor(r, i, name), FirstFor(s, k, name)
      PROVE  r[i] = s[k]
  <2>1. /\ s[o[i]].pattern[1] = name /\ s[k].pattern[1] = name
        /\ \A j \in 1..(i - 1) : r[j].pattern[1] # name
        /\ \A j \in 1..(k - 1) : s[j].pattern[1] # name
    BY <1>2, <1>7 DEF FirstFor
  <2>2. PICK l \in 1..m : o[l] = k
    BY <1>4
  <2>3. ~ (l < i)
    <3>1. r[l].pattern[1] = name
      BY <1>2, <2>1, <2>2
    <3>2. l < i => l \in 1..(i - 1)
      BY <1>1
    <3> QED BY <2>1, <3>1, <3>2
  <2>4. t[i] <= t[l] /\ t[l] = t[k] /\ t[i] = t[o[i]]
    BY <1>0, <1>1, <2>2, <2>3
  <2>5. ~ (o[i] < k)
    <3>1. o[i] < k => o[i] \in 1..(k - 1)
      BY <1>0, <1>1
    <3> QED BY <2>1, <3>1
  <2>6. o[i] \in 1..m /\ t[k] <= t[o[i]]
    <3>1. o[i] \in 1..m
      BY <1>0
    <3>2. k <= o[i]
      BY <1>1, <2>5, <3>1
    <3> QED BY <1>0, <3>1, <3>2
  <2>7. t[o[i]] = t[k]
    BY <1>1, <2>4, <2>6
  <2>8. s[o[i]].pattern = s[k].pattern /\ Len(s[o[i]].pattern) = 1
    BY <1>6, <2>1, <2>6 DEF PerNameMaps
  <2>9. o[i] = k
    BY <1>0, <2>6, <2>7, <2>8
  <2> QED BY <1>2, <2>9
<1>8. ASSUME NEW name, NEW x, NEW y, MapsTo(r, name, x), MapsTo(s, name, y)
      PROVE  x = y
  <2>1. CASE name \in Sources(s)
    <3>1. PICK i \in 1..m : FirstFor(r, i, name)
      BY <1>2, <1>5, <2>1, FirstExists
    <3>2. PICK k \in 1..m : FirstFor(s, k, name)
      BY <2>1, FirstExists
    <3>3. x = r[i].replacement[1] /\ y = s[k].replacement[1]
      BY <1>2, <1>8, <3>1, <3>2 DEF MapsTo
    <3> QED BY <1>7, <3>1, <3>2, <3>3
  <2>2. CASE name \notin Sources(s)
    BY <1>5, <1>8, <2>2 DEF MapsTo
  <2> QED BY <2>1, <2>2
<1>9. /\ MapConfig(r, p) \in Pair /\ Len(MapConfig(r, p)) = Len(p)
      /\ \A k \in 1..Len(p) : MapsTo(r, p[k], MapConfig(r, p)[k])
  BY <1>2, <1>3, PerNameMapping
<1>10. /\ MapConfig(s, p) \in Pair /\ Len(MapConfig(s, p)) = Len(p)
       /\ \A k \in 1..Len(p) : MapsTo(s, p[k], MapConfig(s, p)[k])
  BY PerNameMapping
<1>11. \A k \in 1..Len(p) : MapConfig(r, p)[k] = MapConfig(s, p)[k]
  BY <1>8, <1>9, <1>10
<1>12. MapConfig(r, p) = MapConfig(s, p)
  BY <1>9, <1>10, <1>11, PairsDiffer
<1> QED BY <1>12 DEF r
-----------------------------------------------------------------------------
(* The invariant                                                           *)

OwnList == Fold(configurations, platforms)

InputsOK ==
  /\ configurations \in Seq(Name) /\ platforms \in Seq(Name)
  /\ maps \in Seq(Entry) /\ table \in Seq(Nat) /\ Len(table) = Len(maps)
  /\ \A i, j \in 1..Len(maps) : i <= j => table[i] <= table[j]

MapTypeOK ==
  /\ phase \in {"map", "collect", "bake", "iterate", "done", "error"} /\ n \in Nat \ {0}
  /\ cfgs \in Seq(Pair) /\ cfglist \in Seq(Pair)
  /\ buildcfgs \in Seq(Name) /\ platfs \in Seq(Name)

\* bakeConfigList is running.
Listing == phase \in {"map", "collect"}

\* The pairs that were mapped are what the map makes of the project's own.
MappedInv ==
  /\ Len(cfgs) = Len(OwnList)
  /\ \A i \in 1..Len(cfgs) :
       cfgs[i] = IF phase = "map" /\ i >= n THEN OwnList[i] ELSE MapConfig(maps, OwnList[i])

\* The names of a pair were collected.
Collected(pair) ==
  pair[1] \in Elements(buildcfgs) /\ (Len(pair) = 2 => pair[2] \in Elements(platfs))

\* The names collected are those of the pairs that were visited.
CollectInv ==
  /\ phase = "map" => buildcfgs = << >> /\ platfs = << >>
  /\ phase = "collect" => \A i \in 1..Len(cfgs) : i < n => Collected(cfgs[i])
  /\ ~ Listing => \A i \in 1..Len(cfgs) : Collected(cfgs[i])
  /\ \A a \in Elements(buildcfgs) : \E i \in 1..Len(cfgs) : a = cfgs[i][1]
  /\ \A b \in Elements(platfs) : \E i \in 1..Len(cfgs) : Len(cfgs[i]) = 2 /\ b = cfgs[i][2]
  /\ Listing => cfglist = << >>
  /\ ~ Listing => cfglist = Fold(buildcfgs, platfs)

\* What is stored under a key is a listed pair with that key.
StoredInv ==
  \A k \in DOMAIN configs : configs[k] \in Elements(cfglist) /\ ConfigKey(configs[k]) = k

\* Every pair that was baked left something under its key.
BakeInv ==
  /\ Listing => DOMAIN configs = {}
  /\ StoredInv
  /\ (unsupported = {} /\ phase = "bake") =>
       \A i \in 1..Len(cfglist) : i < n => ConfigKey(cfglist[i]) \in DOMAIN configs
  /\ (unsupported = {} /\ Baked) =>
       \A i \in 1..Len(cfglist) : ConfigKey(cfglist[i]) \in DOMAIN configs

\* With maps from name to name the loop of eachconfig follows the list.
Regular == PerName /\ NoKeyClash /\ unsupported = {}

\* The first k pairs of the list were visited.
VisitedUpTo(k) ==
  /\ visited \in Seq(Pair) /\ Len(visited) = k /\ k <= Len(cfglist)
  /\ \A i \in 1..k : visited[i] = cfglist[i]

VisitInv ==
  /\ ~ Baked => visited = << >>
  /\ Regular => phase # "error"
  /\ (Regular /\ phase = "iterate") => VisitedUpTo(n - 1)
  /\ (Regular /\ phase = "done") => VisitedUpTo(Len(cfglist))

MapIInv == InputsOK /\ MapTypeOK /\ MappedInv /\ CollectInv /\ BakeInv /\ VisitInv
-----------------------------------------------------------------------------
(* The steps keep the invariant                                            *)

LEMMA AddUniqueFacts ==
  ASSUME NEW list \in Seq(Name), NEW a \in Name
  PROVE  /\ AddUnique(list, a) \in Seq(Name)
         /\ Elements(AddUnique(list, a)) = Elements(list) \union {a}
<1>1. CASE a \in Elements(list)
  BY <1>1 DEF AddUnique
<1>2. CASE a \notin Elements(list)
  <2> DEFINE q == Append(list, a)
             m == Len(list)
  <2>1. /\ q \in Seq(Name) /\ m \in Nat /\ Len(q) = m + 1 /\ q[m + 1] = a
        /\ \A i \in 1..m : q[i] = list[i]
    OBVIOUS
  <2>2. AddUnique(list, a) = q
    BY <1>2 DEF AddUnique
  <2> HIDE DEF q, m
  <2>3. Elements(q) = Elements(list) \union {a}
    <3>1. ASSUME NEW x \in Elements(q) PROVE x \in Elements(list) \union {a}
      <4>1. PICK i \in 1..(m + 1) : x = q[i]
        BY <2>1 DEF Elements
      <4>2. i \in 1..m \/ i = m + 1
        BY <2>1
      <4> QED BY <2>1, <4>1, <4>2 DEF Elements, m
    <3>2. ASSUME NEW x \in Elements(list) PROVE x \in Elements(q)
      <4>1. PICK i \in 1..m : x = list[i]
        BY DEF Elements, m
      <4>2. i \in 1..Len(q) /\ x = q[i]
        BY <2>1, <4>1
      <4> QED BY <4>2 DEF Elements
    <3>3. a \in Elements(q)
      <4>1. m + 1 \in 1..Len(q) /\ a = q[m + 1]
        BY <2>1
      <4> QED BY <4>1 DEF Elements
    <3> QED BY <3>1, <3>2, <3>3
  <2> QED BY <2>1, <2>2, <2>3
<1> QED BY <1>1, <1>2

LEMMA OwnListType == InputsOK => OwnList \in Seq(Pair)
BY FoldFacts DEF InputsOK, OwnList

LEMMA InitMapIInv == MapInit => MapIInv
<1> SUFFICES ASSUME MapInit PROVE MapIInv
  OBVIOUS
<1>1. InputsOK
  BY MapsAssumption DEF MapInit, Inputs, InputsOK
<1>2. OwnList \in Seq(Pair) /\ cfgs = OwnList
  BY <1>1, OwnListType DEF MapInit, OwnList
<1>3. MapTypeOK
  BY <1>2 DEF MapInit, MapTypeOK
<1>4. MappedInv
  <2> HIDE DEF OwnList
  <2>1. phase = "map" /\ \A i \in 1..Len(cfgs) : i >= n
    BY <1>2 DEF MapInit
  <2> QED BY <1>2, <2>1 DEF MappedInv
<1>5. CollectInv
  BY DEF MapInit, CollectInv, Listing, Elements
<1>6. BakeInv
  BY DEF MapInit, BakeInv, StoredInv, Listing, Baked
<1>7. VisitInv
  BY DEF MapInit, VisitInv, Baked
<1> QED BY <1>1, <1>3, <1>4, <1>5, <1>6, <1>7 DEF MapIInv

\* What bakeConfigList does not touch.
LEMMA MapPairStep == MapIInv /\ MapPair => MapIInv'
<1> SUFFICES ASSUME MapIInv, MapPair PROVE MapIInv'
  OBVIOUS
<1> DEFINE m == Len(cfgs)
<1>0. InputsOK /\ MapTypeOK /\ MappedInv /\ CollectInv /\ BakeInv /\ VisitInv
  BY DEF MapIInv
<1>1. /\ phase = "map" /\ phase' = "map" /\ n \in 1..m /\ n' = n + 1 /\ m \in Nat
      /\ cfgs' = [cfgs EXCEPT ![n] = MapConfig(maps, cfgs[n])] /\ cfgs \in Seq(Pair)
      /\ configurations' = configurations /\ platforms' = platforms
      /\ maps' = maps /\ table' = table /\ unsupported' = unsupported
      /\ buildcfgs' = buildcfgs /\ platfs' = platfs /\ cfglist' = cfglist
      /\ configs' = configs /\ visited' = visited
  BY <1>0 DEF MapPair, inputs, MapTypeOK
<1>2. InputsOK'
  BY <1>0, <1>1 DEF InputsOK
<1>3. OwnList' = OwnList
  BY <1>1 DEF OwnList
<1>4. cfgs[n] = OwnList[n] /\ cfgs[n] \in Pair /\ MapConfig(maps, cfgs[n]) \in Pair
  <2>1. cfgs[n] = OwnList[n] /\ cfgs[n] \in Pair
    BY <1>0, <1>1 DEF MappedInv
  <2>2. maps \in Seq(Entry)
    BY <1>0 DEF InputsOK
  <2> QED BY <2>1, <2>2, MapType
<1>5. /\ cfgs' \in Seq(Pair) /\ Len(cfgs') = m
      /\ \A i \in 1..m : cfgs'[i] = IF i = n THEN MapConfig(maps, OwnList[n]) ELSE cfgs[i]
  BY <1>1, <1>4
<1>6. MapTypeOK'
  BY <1>0, <1>1, <1>5 DEF MapTypeOK
<1>7. MappedInv'
  <2>1. \A i \in 1..m : cfgs[i] = IF i >= n THEN OwnList[i] ELSE MapConfig(maps, OwnList[i])
    BY <1>0, <1>1 DEF MappedInv
  <2>2. \A i \in 1..m : i = n \/ (i >= n /\ i >= n + 1) \/ (~ (i >= n) /\ ~ (i >= n + 1))
    BY <1>1
  <2>3. ~ (n >= n + 1) /\ m = Len(OwnList)
    BY <1>0, <1>1 DEF MappedInv
  <2> HIDE DEF OwnList, m
  <2>4. \A i \in 1..m : cfgs'[i] = IF i >= n + 1 THEN OwnList[i] ELSE MapConfig(maps, OwnList[i])
    BY <1>5, <2>1, <2>2, <2>3
  <2> QED BY <1>1, <1>3, <1>5, <2>3, <2>4 DEF MappedInv
<1>8. CollectInv'
  BY <1>0, <1>1 DEF CollectInv, Listing, Elements
<1>9. BakeInv'
  BY <1>0, <1>1 DEF BakeInv, StoredInv, Listing, Baked
<1>10. VisitInv'
  BY <1>0, <1>1 DEF VisitInv, Baked
<1> QED BY <1>2, <1>6, <1>7, <1>8, <1>9, <1>10 DEF MapIInv

LEMMA EndMappingStep == MapIInv /\ EndMapping => MapIInv'
<1> SUFFICES ASSUME MapIInv, EndMapping PROVE MapIInv'
  OBVIOUS
<1>0. InputsOK /\ MapTypeOK /\ MappedInv /\ CollectInv /\ BakeInv /\ VisitInv
  BY DEF MapIInv
<1>1. /\ phase = "map" /\ phase' = "collect" /\ n > Len(cfgs) /\ n' = 1 /\ cfgs' = cfgs
      /\ configurations' = configurations /\ platforms' = platforms
      /\ maps' = maps /\ table' = table /\ unsupported' = unsupported
      /\ buildcfgs' = buildcfgs /\ platfs' = platfs /\ cfglist' = cfglist
      /\ configs' = configs /\ visited' = visited
  BY DEF EndMapping, inputs
<1>2. InputsOK'
  BY <1>0, <1>1 DEF InputsOK
<1>3. OwnList' = OwnList
  BY <1>1 DEF OwnList
<1>4. Len(cfgs) \in Nat /\ n \in Nat /\ \A i \in 1..Len(cfgs) : ~ (i >= n) /\ ~ (i < 1)
  BY <1>0, <1>1 DEF MapTypeOK
<1>5. MapTypeOK'
  BY <1>0, <1>1 DEF MapTypeOK
<1>6. MappedInv'
  <2> HIDE DEF OwnList
  <2> QED BY <1>0, <1>1, <1>3, <1>4 DEF MappedInv
<1>7. CollectInv'
  BY <1>0, <1>1, <1>4 DEF CollectInv, Listing, Elements
<1>8. BakeInv'
  BY <1>0, <1>1 DEF BakeInv, StoredInv, Listing, Baked
<1>9. VisitInv'
  BY <1>0, <1>1 DEF VisitInv, Baked
<1> QED BY <1>2, <1>5, <1>6, <1>7, <1>8, <1>9 DEF MapIInv

LEMMA CollectPairStep == MapIInv /\ CollectPair => MapIInv'
<1> SUFFICES ASSUME MapIInv, CollectPair PROVE MapIInv'
  OBVIOUS
<1> DEFINE m == Len(cfgs)
<1>0. InputsOK /\ MapTypeOK /\ MappedInv /\ CollectInv /\ BakeInv /\ VisitInv
  BY DEF MapIInv
<1>1. /\ phase = "collect" /\ phase' = "collect" /\ n' = n + 1 /\ cfgs' = cfgs
      /\ configurations' = configurations /\ platforms' = platforms
      /\ maps' = maps /\ table' = table /\ unsupported' = unsupported
      /\ buildcfgs' = AddUnique(buildcfgs, cfgs[n][1])
      /\ platfs' = (IF Len(cfgs[n]) = 2 THEN AddUnique(platfs, cfgs[n][2]) ELSE platfs)
      /\ cfglist' = cfglist /\ configs' = configs /\ visited' = visited
      /\ n <= m
  BY DEF CollectPair, inputs
<1>2. InputsOK'
  BY <1>0, <1>1 DEF InputsOK
<1>3. OwnList' = OwnList
  BY <1>1 DEF OwnList
<1>4. m \in Nat /\ n \in 1..m /\ cfgs[n] \in Pair
  BY <1>0, <1>1 DEF MapTypeOK
<1>5. cfgs[n][1] \in Name /\ (Len(cfgs[n]) = 2 => cfgs[n][2] \in Name)
  BY <1>4, PairFacts
<1>6. buildcfgs' \in Seq(Name) /\ Elements(buildcfgs') = Elements(buildcfgs) \union {cfgs[n][1]}
  BY <1>0, <1>1, <1>5, AddUniqueFacts DEF MapTypeOK
<1>7. /\ platfs' \in Seq(Name)
      /\ Elements(platfs') = Elements(platfs) \union (IF Len(cfgs[n]) = 2 THEN {cfgs[n][2]} ELSE {})
  <2>1. platfs \in Seq(Name)
    BY <1>0 DEF MapTypeOK
  <2>2. CASE Len(cfgs[n]) = 2
    BY <1>1, <1>5, <2>1, <2>2, AddUniqueFacts
  <2>3. CASE Len(cfgs[n]) # 2
    BY <1>1, <2>1, <2>3
  <2> QED BY <2>2, <2>3
<1>8. MapTypeOK'
  BY <1>0, <1>1, <1>6, <1>7 DEF MapTypeOK
<1>9. MappedInv'
  <2> HIDE DEF OwnList
  <2> QED BY <1>0, <1>1, <1>3 DEF MappedInv
<1>10. CollectInv'
  <2>1. \A i \in 1..m : i < n + 1 => Collected(cfgs[i])'
    <3>1. \A i \in 1..m : i < n => Collected(cfgs[i])
      BY <1>0, <1>1 DEF CollectInv
    <3>2. \A i \in 1..m : i < n + 1 => i < n \/ i = n
      BY <1>4
    <3> HIDE DEF m
    <3> QED BY <1>1, <1>6, <1>7, <3>1, <3>2 DEF Collected
  <2>2. \A a \in Elements(buildcfgs') : \E i \in 1..m : a = cfgs[i][1]
    <3> SUFFICES ASSUME NEW a \in Elements(buildcfgs') PROVE \E i \in 1..m : a = cfgs[i][1]
      OBVIOUS
    <3>1. CASE a = cfgs[n][1]
      BY <1>4, <3>1
    <3>2. CASE a \in Elements(buildcfgs)
      BY <1>0, <3>2 DEF CollectInv
    <3> QED BY <1>6, <3>1, <3>2
  <2>3. \A b \in Elements(platfs') : \E i \in 1..m : Len(cfgs[i]) = 2 /\ b = cfgs[i][2]
    <3> SUFFICES ASSUME NEW b \in Elements(platfs')
                 PROVE  \E i \in 1..m : Len(cfgs[i]) = 2 /\ b = cfgs[i][2]
      OBVIOUS
    <3>1. CASE Len(cfgs[n]) = 2 /\ b = cfgs[n][2]
      BY <1>4, <3>1
    <3>2. CASE b \in Elements(platfs)
      BY <1>0, <3>2 DEF CollectInv
    <3> QED BY <1>7, <3>1, <3>2
  <2>4. phase' = "collect" /\ (Listing => cfglist = << >>) /\ Listing
    BY <1>0, <1>1 DEF CollectInv, Listing
  <2> QED BY <1>1, <2>1, <2>2, <2>3, <2>4 DEF CollectInv, Listing, Collected
<1>11. BakeInv'
  BY <1>0, <1>1 DEF BakeInv, StoredInv, Listing, Baked
<1>12. VisitInv'
  BY <1>0, <1>1 DEF VisitInv, Baked
<1> QED BY <1>2, <1>8, <1>9, <1>10, <1>11, <1>12 DEF MapIInv

LEMMA EndCollectingStep == MapIInv /\ EndCollecting => MapIInv'
<1> SUFFICES ASSUME MapIInv, EndCollecting PROVE MapIInv'
  OBVIOUS
<1>0. InputsOK /\ MapTypeOK /\ MappedInv /\ CollectInv /\ BakeInv /\ VisitInv
  BY DEF MapIInv
<1>1. /\ phase = "collect" /\ phase' = "bake" /\ n > Len(cfgs) /\ n' = 1 /\ cfgs' = cfgs
      /\ configurations' = configurations /\ platforms' = platforms
      /\ maps' = maps /\ table' = table /\ unsupported' = unsupported
      /\ buildcfgs' = buildcfgs /\ platfs' = platfs /\ cfglist' = Fold(buildcfgs, platfs)
      /\ configs' = configs /\ visited' = visited
  BY DEF EndCollecting, inputs
<1>2. InputsOK'
  BY <1>0, <1>1 DEF InputsOK
<1>3. OwnList' = OwnList
  BY <1>1 DEF OwnList
<1>4. cfglist' \in Seq(Pair)
  BY <1>0, <1>1, FoldFacts DEF MapTypeOK
<1>5. MapTypeOK'
  BY <1>0, <1>1, <1>4 DEF MapTypeOK
<1>6. MappedInv'
  <2> HIDE DEF OwnList
  <2> QED BY <1>0, <1>1, <1>3 DEF MappedInv
<1>7. CollectInv'
  <2>1. \A i \in 1..Len(cfgs) : i < n
    BY <1>0, <1>1 DEF MapTypeOK
  <2> QED BY <1>0, <1>1, <2>1 DEF CollectInv, Listing, Collected
<1>8. BakeInv'
  <2>1. DOMAIN configs = {} /\ phase' = "bake" /\ n' = 1 /\ \A i \in 1..Len(cfglist') : ~ (i < 1)
    BY <1>0, <1>1 DEF BakeInv, Listing
  <2> QED BY <1>1, <2>1 DEF BakeInv, StoredInv, Listing, Baked
<1>9. VisitInv'
  BY <1>0, <1>1 DEF VisitInv, Baked
<1> QED BY <1>2, <1>5, <1>6, <1>7, <1>8, <1>9 DEF MapIInv

LEMMA BakeConfigStep == MapIInv /\ BakeConfig => MapIInv'
<1> SUFFICES ASSUME MapIInv, BakeConfig PROVE MapIInv'
  OBVIOUS
<1> DEFINE pair == cfglist[n]
           key  == ConfigKey(pair)
<1>0. InputsOK /\ MapTypeOK /\ MappedInv /\ CollectInv /\ BakeInv /\ VisitInv
  BY DEF MapIInv
<1>1. /\ phase = "bake" /\ phase' = "bake" /\ n <= Len(cfglist) /\ n' = n + 1 /\ cfgs' = cfgs
      /\ configurations' = configurations /\ platforms' = platforms
      /\ maps' = maps /\ table' = table /\ unsupported' = unsupported
      /\ buildcfgs' = buildcfgs /\ platfs' = platfs /\ cfglist' = cfglist
      /\ configs' = (IF pair \in unsupported THEN configs
                     ELSE [k \in DOMAIN configs \union {key} |->
                             IF k = key THEN pair ELSE configs[k]])
      /\ visited' = visited
  BY DEF BakeConfig, inputs
<1>2. InputsOK'
  BY <1>0, <1>1 DEF InputsOK
<1>3. OwnList' = OwnList
  BY <1>1 DEF OwnList
<1>4. MapTypeOK'
  BY <1>0, <1>1 DEF MapTypeOK
<1>5. MappedInv'
  <2> HIDE DEF OwnList
  <2> QED BY <1>0, <1>1, <1>3 DEF MappedInv
<1>6. CollectInv'
  BY <1>0, <1>1 DEF CollectInv, Listing, Collected
<1>7. n \in 1..Len(cfglist) /\ pair \in Elements(cfglist)
  BY <1>0, <1>1 DEF MapTypeOK, Elements
<1>8. StoredInv'
  <2>1. StoredInv
    BY <1>0 DEF BakeInv
  <2>2. CASE pair \in unsupported
    BY <1>1, <2>1, <2>2 DEF StoredInv
  <2>3. CASE pair \notin unsupported
    <3>1. /\ DOMAIN configs' = DOMAIN configs \union {key}
          /\ \A k \in DOMAIN configs \union {key} :
               configs'[k] = IF k = key THEN pair ELSE configs[k]
      BY <1>1, <2>3
    <3>2. ConfigKey(pair) = key
      OBVIOUS
    <3> HIDE DEF pair, key
    <3> QED BY <1>1, <1>7, <2>1, <3>1, <3>2 DEF StoredInv
  <2> QED BY <2>2, <2>3
<1>9. BakeInv'
  <2>1. unsupported = {} =>
          \A i \in 1..Len(cfglist) : i < n + 1 => ConfigKey(cfglist[i]) \in DOMAIN configs'
    <3> SUFFICES ASSUME unsupported = {}, NEW i \in 1..Len(cfglist), i < n + 1
                 PROVE  ConfigKey(cfglist[i]) \in DOMAIN configs'
      OBVIOUS
    <3>1. DOMAIN configs' = DOMAIN configs \union {key}
      BY <1>1
    <3>2. i < n \/ i = n
      BY <1>7
    <3>3. i < n => ConfigKey(cfglist[i]) \in DOMAIN configs
      BY <1>0, <1>1 DEF BakeInv
    <3> QED BY <3>1, <3>2, <3>3
  <2> QED BY <1>1, <1>8, <2>1 DEF BakeInv, Listing, Baked
<1>10. VisitInv'
  BY <1>0, <1>1 DEF VisitInv, Baked
<1> QED BY <1>2, <1>4, <1>5, <1>6, <1>9, <1>10 DEF MapIInv

LEMMA EndBakingStep == MapIInv /\ EndBaking => MapIInv'
<1> SUFFICES ASSUME MapIInv, EndBaking PROVE MapIInv'
  OBVIOUS
<1>0. InputsOK /\ MapTypeOK /\ MappedInv /\ CollectInv /\ BakeInv /\ VisitInv
  BY DEF MapIInv
<1>1. /\ phase = "bake" /\ phase' = "iterate" /\ n > Len(cfglist) /\ n' = 1 /\ cfgs' = cfgs
      /\ configurations' = configurations /\ platforms' = platforms
      /\ maps' = maps /\ table' = table /\ unsupported' = unsupported
      /\ buildcfgs' = buildcfgs /\ platfs' = platfs /\ cfglist' = cfglist
      /\ configs' = configs /\ visited' = visited
  BY DEF EndBaking, inputs
<1>2. InputsOK'
  BY <1>0, <1>1 DEF InputsOK
<1>3. OwnList' = OwnList
  BY <1>1 DEF OwnList
<1>4. MapTypeOK'
  BY <1>0, <1>1 DEF MapTypeOK
<1>5. MappedInv'
  <2> HIDE DEF OwnList
  <2> QED BY <1>0, <1>1, <1>3 DEF MappedInv
<1>6. CollectInv'
  BY <1>0, <1>1 DEF CollectInv, Listing, Collected
<1>7. BakeInv'
  <2>1. \A i \in 1..Len(cfglist) : i < n
    BY <1>0, <1>1 DEF MapTypeOK
  <2> QED BY <1>0, <1>1, <2>1 DEF BakeInv, StoredInv, Listing, Baked
<1>8. VisitInv'
  <2>1. visited = << >> /\ n' = 1
    BY <1>0, <1>1 DEF VisitInv, Baked
  <2>2. VisitedUpTo(0)'
    <3>1. Len(cfglist) \in Nat
      BY <1>0 DEF MapTypeOK
    <3> QED BY <1>1, <2>1, <3>1 DEF VisitedUpTo
  <2> QED BY <1>1, <2>1, <2>2 DEF VisitInv, Baked
<1> QED BY <1>2, <1>4, <1>5, <1>6, <1>7, <1>8 DEF MapIInv
-----------------------------------------------------------------------------
(* The lookup                                                              *)

LEMMA ListedArePairs ==
  MapIInv => \A q \in Elements(cfglist) : q \in Pair /\ q # Nil
BY MarkAssumption DEF MapIInv, MapTypeOK, Elements

\* A pair that is mapped to a listed one finds a configuration.
LEMMA MappedToListed ==
  ASSUME MapIInv, Baked, unsupported = {}, NEW p, MapConfig(maps, p) \in Elements(cfglist)
  PROVE  /\ GetConfig(p) \in Elements(cfglist) /\ GetConfig(p) # Nil
         /\ ConfigKey(GetConfig(p)) = ConfigKey(MapConfig(maps, p))
<1> DEFINE q == MapConfig(maps, p)
<1>1. PICK i \in 1..Len(cfglist) : q = cfglist[i]
  BY DEF Elements
<1>2. BakeInv
  BY DEF MapIInv
<1>3. ConfigKey(q) \in DOMAIN configs
  BY <1>1, <1>2 DEF BakeInv
<1>4. GetConfig(p) = configs[ConfigKey(q)]
  BY <1>3 DEF GetConfig
<1> HIDE DEF q
<1>5. GetConfig(p) \in Elements(cfglist) /\ ConfigKey(GetConfig(p)) = ConfigKey(q)
  BY <1>2, <1>3, <1>4 DEF BakeInv, StoredInv
<1> QED BY <1>5, ListedArePairs DEF q

\* With maps from name to name a listed pair finds itself.
LEMMA RegularLookup ==
  ASSUME MapIInv, Baked, Regular, NEW i \in 1..Len(cfglist)
  PROVE  GetConfig(cfglist[i]) = cfglist[i] /\ cfglist[i] \in Pair
<1> DEFINE q == cfglist[i]
<1>0. InputsOK /\ MapTypeOK /\ MappedInv /\ CollectInv /\ BakeInv
  BY DEF MapIInv
<1>1. maps \in Seq(Entry) /\ PerNameMaps(maps) /\ OwnList \in Seq(Pair)
  BY <1>0, OwnListType DEF InputsOK, Regular, PerName, PerNameMaps
<1>2. q \in Elements(cfglist) /\ q \in Pair
  BY <1>0 DEF Elements, MapTypeOK
<1>3. /\ ~ Listing /\ phase # "map"
      /\ buildcfgs \in Seq(Name) /\ platfs \in Seq(Name) /\ cfglist = Fold(buildcfgs, platfs)
  BY <1>0 DEF Baked, Listing, CollectInv, MapTypeOK
<1> HIDE DEF q
<1>4. q[1] \in Elements(buildcfgs) /\ (Len(q) = 2 => q[2] \in Elements(platfs))
  BY <1>2, <1>3, FoldFacts
<1>5. ASSUME NEW j \in 1..Len(cfgs)
      PROVE  /\ OwnList[j] \in Pair /\ cfgs[j] = MapConfig(maps, OwnList[j])
             /\ cfgs[j] \in Pair /\ Len(cfgs[j]) = Len(OwnList[j])
             /\ \A k \in 1..Len(cfgs[j]) : cfgs[j][k] \notin Sources(maps)
  <2>1. OwnList[j] \in Pair /\ cfgs[j] = MapConfig(maps, OwnList[j])
    <3> HIDE DEF OwnList
    <3> QED BY <1>0, <1>1, <1>3 DEF MappedInv
  <2> HIDE DEF OwnList
  <2>2. cfgs[j] \in Pair /\ Len(cfgs[j]) = Len(OwnList[j])
    BY <1>1, <2>1, PerNameMapping
  <2> QED BY <1>1, <2>1, <2>2, MappedIsFinal
<1>6. q[1] \notin Sources(maps)
  <2>1. PICK j \in 1..Len(cfgs) : q[1] = cfgs[j][1]
    BY <1>0, <1>4 DEF CollectInv
  <2>2. 1 \in 1..Len(cfgs[j])
    BY <1>5, PairFacts
  <2> QED BY <1>5, <2>1, <2>2
<1>7. Len(q) = 2 => q[2] \notin Sources(maps)
  <2> SUFFICES ASSUME Len(q) = 2 PROVE q[2] \notin Sources(maps)
    OBVIOUS
  <2>1. PICK j \in 1..Len(cfgs) : Len(cfgs[j]) = 2 /\ q[2] = cfgs[j][2]
    BY <1>0, <1>4 DEF CollectInv
  <2>2. 2 \in 1..Len(cfgs[j])
    BY <2>1
  <2> QED BY <1>5, <2>1, <2>2
<1>8. MapConfig(maps, q) = q
  <2>1. \A k \in 1..Len(q) : q[k] \notin Sources(maps)
    <3>1. \A k \in 1..Len(q) : k = 1 \/ (k = 2 /\ Len(q) = 2)
      BY <1>2, PairFacts
    <3> QED BY <1>6, <1>7, <3>1
  <2> QED BY <1>1, <1>2, <2>1, FinalIsKept
<1>9. GetConfig(q) \in Elements(cfglist) /\ ConfigKey(GetConfig(q)) = ConfigKey(q)
  BY <1>2, <1>8, MappedToListed DEF Regular
<1>10. PICK j \in 1..Len(cfglist) : GetConfig(q) = cfglist[j]
  BY <1>9 DEF Elements
<1>11. j = i
  BY <1>9, <1>10 DEF Regular, NoKeyClash, q
<1> QED BY <1>2, <1>10, <1>11 DEF q

\* The iterator is past its first n - 1 calls.
LEMMA RegularIteration ==
  ASSUME MapIInv, Regular, phase = "iterate", n <= Len(cfglist)
  PROVE  /\ n \in 1..Len(cfglist) /\ VisitedUpTo(n - 1)
         /\ Looked = cfglist[n] /\ cfglist[n] \in Pair
         /\ Looked # Nil /\ Looked \notin Elements(visited)
<1>0. MapTypeOK /\ VisitInv
  BY DEF MapIInv
<1>1. n \in 1..Len(cfglist) /\ Len(cfglist) \in Nat
  BY <1>0 DEF MapTypeOK
<1>2. VisitedUpTo(n - 1)
  BY <1>0 DEF VisitInv
<1>3. Looked = cfglist[n] /\ cfglist[n] \in Pair
  BY <1>1, RegularLookup DEF Looked, Baked
<1>4. Looked # Nil
  BY <1>3, MarkAssumption
<1>5. Looked \notin Elements(visited)
  <2> SUFFICES ASSUME Looked \in Elements(visited) PROVE FALSE
    OBVIOUS
  <2>1. PICK j \in 1..(n - 1) : Looked = visited[j]
    BY <1>2 DEF VisitedUpTo, Elements
  <2>2. j \in 1..Len(cfglist) /\ j # n /\ cfglist[j] = cfglist[n]
    BY <1>1, <1>2, <1>3, <2>1 DEF VisitedUpTo
  <2> QED BY <1>1, <2>2 DEF Regular, NoKeyClash
<1> QED BY <1>1, <1>2, <1>3, <1>4, <1>5

-----------------------------------------------------------------------------
(* The steps of eachconfig                                                 *)

\* They change the iterator alone.
LEMMA IteratorStep ==
  ASSUME MapIInv, phase = "iterate", phase' \in {"iterate", "done", "error"},
         n' \in Nat \ {0}, inputs' = inputs, cfgs' = cfgs, buildcfgs' = buildcfgs,
         platfs' = platfs, cfglist' = cfglist, configs' = configs
  PROVE  /\ InputsOK' /\ MapTypeOK' /\ MappedInv' /\ CollectInv' /\ BakeInv'
         /\ Regular' = Regular /\ Baked'
<1>0. InputsOK /\ MapTypeOK /\ MappedInv /\ CollectInv /\ BakeInv
  BY DEF MapIInv
<1>1. /\ configurations' = configurations /\ platforms' = platforms
      /\ maps' = maps /\ table' = table /\ unsupported' = unsupported
  BY DEF inputs
<1>2. InputsOK'
  BY <1>0, <1>1 DEF InputsOK
<1>3. OwnList' = OwnList
  BY <1>1 DEF OwnList
<1>4. MapTypeOK'
  BY <1>0, <1>1 DEF MapTypeOK
<1>5. MappedInv'
  <2> HIDE DEF OwnList
  <2> QED BY <1>0, <1>1, <1>3 DEF MappedInv
<1>6. CollectInv'
  BY <1>0, <1>1 DEF CollectInv, Listing, Collected
<1>7. BakeInv'
  BY <1>0, <1>1 DEF BakeInv, StoredInv, Listing, Baked
<1>8. Regular' = Regular
  BY <1>1 DEF Regular, PerName, NoKeyClash
<1> QED BY <1>2, <1>4, <1>5, <1>6, <1>7, <1>8 DEF Baked

LEMMA VisitConfigStep == MapIInv /\ VisitConfig => MapIInv'
<1> SUFFICES ASSUME MapIInv, VisitConfig PROVE MapIInv'
  OBVIOUS
<1>1. /\ phase = "iterate" /\ phase' = "iterate" /\ n <= Len(cfglist) /\ n' = n + 1
      /\ visited' = Append(visited, Looked) /\ inputs' = inputs /\ cfgs' = cfgs
      /\ buildcfgs' = buildcfgs /\ platfs' = platfs /\ cfglist' = cfglist /\ configs' = configs
  BY DEF VisitConfig, Iterating, inputs
<1>2. n \in Nat \ {0} /\ n' \in Nat \ {0}
  BY <1>1 DEF MapIInv, MapTypeOK
<1>3. /\ InputsOK' /\ MapTypeOK' /\ MappedInv' /\ CollectInv' /\ BakeInv'
      /\ Regular' = Regular /\ Baked'
  BY <1>1, <1>2, IteratorStep
<1>4. Regular => VisitedUpTo(n - 1)'
  <2> SUFFICES ASSUME Regular PROVE VisitedUpTo(n - 1)'
    OBVIOUS
  <2>1. /\ n \in 1..Len(cfglist) /\ Looked = cfglist[n] /\ cfglist[n] \in Pair
        /\ visited \in Seq(Pair) /\ Len(visited) = n - 1
        /\ \A i \in 1..(n - 1) : visited[i] = cfglist[i]
    BY <1>1, RegularIteration DEF VisitedUpTo
  <2>2. /\ visited' \in Seq(Pair) /\ Len(visited') = n /\ visited'[n] = cfglist[n]
        /\ \A i \in 1..(n - 1) : visited'[i] = visited[i]
    BY <1>1, <1>2, <2>1
  <2>3. \A i \in 1..n : visited'[i] = cfglist[i]
    <3>1. \A i \in 1..n : i \in 1..(n - 1) \/ i = n
      BY <1>2
    <3> QED BY <2>1, <2>2, <3>1
  <2>4. n' - 1 = n /\ n <= Len(cfglist)
    BY <1>1, <1>2
  <2> QED BY <1>1, <2>2, <2>3, <2>4 DEF VisitedUpTo
<1>5. VisitInv'
  BY <1>1, <1>3, <1>4 DEF VisitInv
<1> QED BY <1>3, <1>5 DEF MapIInv

LEMMA SeenConfigStep == MapIInv /\ SeenConfig => MapIInv'
<1> SUFFICES ASSUME MapIInv, SeenConfig PROVE MapIInv'
  OBVIOUS
<1>1. /\ phase = "iterate" /\ phase' = "done" /\ n <= Len(cfglist) /\ n' = n + 2
      /\ Looked \in Elements(visited) /\ inputs' = inputs /\ cfgs' = cfgs
      /\ buildcfgs' = buildcfgs /\ platfs' = platfs /\ cfglist' = cfglist /\ configs' = configs
  BY DEF SeenConfig, Iterating, inputs
<1>2. n' \in Nat \ {0}
  BY <1>1 DEF MapIInv, MapTypeOK
<1>3. /\ InputsOK' /\ MapTypeOK' /\ MappedInv' /\ CollectInv' /\ BakeInv'
      /\ Regular' = Regular /\ Baked'
  BY <1>1, <1>2, IteratorStep
<1>4. ~ Regular
  BY <1>1, RegularIteration
<1>5. VisitInv'
  BY <1>3, <1>4 DEF VisitInv
<1> QED BY <1>3, <1>5 DEF MapIInv

LEMMA MissingConfigStep == MapIInv /\ MissingConfig => MapIInv'
<1> SUFFICES ASSUME MapIInv, MissingConfig PROVE MapIInv'
  OBVIOUS
<1>1. /\ phase = "iterate" /\ phase' = "error" /\ n <= Len(cfglist) /\ n' = n
      /\ Looked = Nil /\ inputs' = inputs /\ cfgs' = cfgs
      /\ buildcfgs' = buildcfgs /\ platfs' = platfs /\ cfglist' = cfglist /\ configs' = configs
  BY DEF MissingConfig, Iterating, inputs
<1>2. n' \in Nat \ {0}
  BY <1>1 DEF MapIInv, MapTypeOK
<1>3. /\ InputsOK' /\ MapTypeOK' /\ MappedInv' /\ CollectInv' /\ BakeInv'
      /\ Regular' = Regular /\ Baked'
  BY <1>1, <1>2, IteratorStep
<1>4. ~ Regular
  BY <1>1, RegularIteration
<1>5. VisitInv'
  BY <1>3, <1>4 DEF VisitInv
<1> QED BY <1>3, <1>5 DEF MapIInv

LEMMA EndIterationStep == MapIInv /\ EndIteration => MapIInv'
<1> SUFFICES ASSUME MapIInv, EndIteration PROVE MapIInv'
  OBVIOUS
<1>1. /\ phase = "iterate" /\ phase' = "done" /\ n > Len(cfglist) /\ n' = n
      /\ visited' = visited /\ inputs' = inputs /\ cfgs' = cfgs
      /\ buildcfgs' = buildcfgs /\ platfs' = platfs /\ cfglist' = cfglist /\ configs' = configs
  BY DEF EndIteration, inputs
<1>2. n \in Nat \ {0} /\ n' \in Nat \ {0} /\ Len(cfglist) \in Nat
  BY <1>1 DEF MapIInv, MapTypeOK
<1>3. /\ InputsOK' /\ MapTypeOK' /\ MappedInv' /\ CollectInv' /\ BakeInv'
      /\ Regular' = Regular /\ Baked'
  BY <1>1, <1>2, IteratorStep
<1>4. Regular => VisitedUpTo(Len(cfglist))'
  <2> SUFFICES ASSUME Regular PROVE VisitedUpTo(Len(cfglist))'
    OBVIOUS
  <2>1. VisitedUpTo(n - 1)
    BY <1>1 DEF MapIInv, VisitInv
  <2>2. n - 1 = Len(cfglist)
    BY <1>1, <1>2, <2>1 DEF VisitedUpTo
  <2> QED BY <1>1, <2>1, <2>2 DEF VisitedUpTo
<1>5. VisitInv'
  BY <1>1, <1>3, <1>4 DEF VisitInv
<1> QED BY <1>3, <1>5 DEF MapIInv
-----------------------------------------------------------------------------
(* The theorems                                                            *)

\* MapIInv is inductive: the pairs that bakeConfigList has mapped are what
\* mapconfig makes of the project's own, the names it has collected are those
\* of the mapped pairs, every pair that was baked is stored under its key, and
\* with maps from name to name eachconfig has returned the first pairs of
\* prj._cfglist.
THEOREM MapInvariance == MapSpec => []MapIInv
<1>1. MapInit => MapIInv
  BY InitMapIInv
<1>2. MapIInv /\ [MapNext]_mapVars => MapIInv'
  <2> SUFFICES ASSUME MapIInv, [MapNext]_mapVars PROVE MapIInv'
    OBVIOUS
  <2>1. CASE MapNext
    BY <2>1, MapPairStep, EndMappingStep, CollectPairStep, EndCollectingStep,
       BakeConfigStep, EndBakingStep, VisitConfigStep, SeenConfigStep,
       MissingConfigStep, EndIterationStep DEF MapNext
  <2>2. CASE UNCHANGED mapVars
    <3>1. /\ phase' = phase /\ n' = n /\ inputs' = inputs /\ cfgs' = cfgs
          /\ buildcfgs' = buildcfgs /\ platfs' = platfs /\ cfglist' = cfglist
          /\ configs' = configs /\ visited' = visited
          /\ configurations' = configurations /\ platforms' = platforms
          /\ maps' = maps /\ table' = table /\ unsupported' = unsupported
      BY <2>2 DEF mapVars, inputs
    <3>2. OwnList' = OwnList
      BY <3>1 DEF OwnList
    <3>3. InputsOK' /\ MapTypeOK'
      BY <3>1 DEF MapIInv, InputsOK, MapTypeOK
    <3>4. MappedInv'
      <4> HIDE DEF OwnList
      <4> QED BY <3>1, <3>2 DEF MapIInv, MappedInv
    <3>5. CollectInv'
      BY <3>1 DEF MapIInv, CollectInv, Listing, Collected
    <3>6. BakeInv'
      BY <3>1 DEF MapIInv, BakeInv, StoredInv, Listing, Baked
    <3>7. VisitInv'
      <4>1. Regular' = Regular
        BY <3>1 DEF Regular, PerName, NoKeyClash
      <4> QED BY <3>1, <4>1 DEF MapIInv, VisitInv, Baked, VisitedUpTo
    <3> QED BY <3>3, <3>4, <3>5, <3>6, <3>7 DEF MapIInv
  <2> QED BY <2>1, <2>2
<1> QED BY <1>1, <1>2, PTL DEF MapSpec

\* One of the project's own pairs is mapped to a listed one.
LEMMA OwnPairsAreListed ==
  ASSUME MapIInv, Baked, OneShape, NEW pair \in OwnPair
  PROVE  MapConfig(maps, pair) \in Elements(cfglist)
<1>0. InputsOK /\ MapTypeOK /\ MappedInv /\ CollectInv
  BY DEF MapIInv
<1>1. PICK i \in 1..Len(OwnList) : pair = OwnList[i]
  BY DEF OwnPair, Elements, OwnList
<1> HIDE DEF OwnList
<1>2. i \in 1..Len(cfgs) /\ phase # "map" /\ ~ Listing
  BY <1>0, <1>1 DEF MappedInv, Baked, Listing
<1>3. cfgs[i] = MapConfig(maps, pair) /\ cfgs[i] \in Pair
  BY <1>0, <1>1, <1>2 DEF MappedInv, MapTypeOK
<1>4. /\ cfglist = Fold(buildcfgs, platfs)
      /\ buildcfgs \in Seq(Name) /\ platfs \in Seq(Name) /\ Collected(cfgs[i])
  BY <1>0, <1>2 DEF CollectInv, MapTypeOK
<1>5. cfgs[i] \in Elements(Fold(buildcfgs, platfs))
  <2>1. cfgs[i][1] \in Elements(buildcfgs)
    BY <1>4 DEF Collected
  <2>2. CASE platfs = << >>
    <3>1. Len(cfgs[i]) = 1
      <4>1. Elements(platfs) = {}
        BY <2>2 DEF Elements
      <4> QED BY <1>3, <1>4, <4>1, PairFacts DEF Collected
    <3>2. <<cfgs[i][1]>> \in Elements(Fold(buildcfgs, platfs))
      BY <1>4, <2>1, <2>2, FoldFacts
    <3> QED BY <1>3, <3>1, <3>2, PairFacts
  <2>3. CASE platfs # << >>
    <3>1. platfs[1] \in Elements(platfs)
      <4>1. 1 \in 1..Len(platfs)
        BY <1>4, <2>3
      <4> QED BY <4>1 DEF Elements
    <3>2. PICK j \in 1..Len(cfgs) : Len(cfgs[j]) = 2
      BY <1>0, <3>1 DEF CollectInv
    <3>3. Len(cfgs[i]) = 2
      BY <1>2, <3>2 DEF OneShape
    <3>4. cfgs[i][2] \in Elements(platfs)
      BY <1>4, <3>3 DEF Collected
    <3>5. <<cfgs[i][1], cfgs[i][2]>> \in Elements(Fold(buildcfgs, platfs))
      BY <1>4, <2>1, <2>3, <3>4, FoldFacts
    <3> QED BY <1>3, <3>3, <3>5, PairFacts
  <2> QED BY <2>2, <2>3
<1> QED BY <1>3, <1>4, <1>5

LEMMA OwnPairsFound == MapIInv => OwnPairsResolve
<1> SUFFICES ASSUME MapIInv, Baked, unsupported = {}, OneShape, NEW pair \in OwnPair
             PROVE  GetConfig(pair) # Nil
  BY DEF OwnPairsResolve
<1>1. MapConfig(maps, pair) \in Elements(cfglist)
  BY OwnPairsAreListed
<1> QED BY <1>1, MappedToListed

\* Every pair of the project's own configurations and platforms resolves to a
\* baked configuration, although oven.bakeConfigList takes the mapped pairs
\* apart and folds their names together again.
THEOREM OwnPairs == MapSpec => []OwnPairsResolve
BY MapInvariance, OwnPairsFound, PTL

LEMMA ClosestFound == MapIInv => ClosestIsFound
<1> SUFFICES ASSUME MapIInv, Baked, unsupported = {}, OneShape, NEW pair \in Pair
             PROVE  FindClosestMatch(pair) # Nil
  BY DEF ClosestIsFound
<1>0. configurations \in Seq(Name) /\ platforms \in Seq(Name)
  BY DEF MapIInv, InputsOK
<1>1. \A own \in OwnPair : GetConfig(own) # Nil
  BY OwnPairsFound DEF OwnPairsResolve
<1>2. ASSUME NEW list \in Seq(Name), list # << >>, NEW name
      PROVE  Closest(name, list) \in Elements(list) /\ list[1] \in Elements(list)
  <2>1. list[1] \in Elements(list)
    <3>1. 1 \in 1..Len(list)
      BY <1>2
    <3> QED BY <3>1 DEF Elements
  <2> QED BY <2>1 DEF Closest
<1>3. CASE configurations = << >>
  BY <1>3, MarkAssumption DEF FindClosestMatch
<1>4. CASE configurations # << >> /\ platforms = << >>
  <2>1. <<Closest(pair[1], configurations)>> \in OwnPair
    BY <1>0, <1>2, <1>4, FoldFacts DEF OwnPair
  <2> QED BY <1>1, <1>4, <2>1 DEF FindClosestMatch
<1>5. CASE configurations # << >> /\ platforms # << >>
  <2> DEFINE b == IF Len(pair) = 2 THEN Closest(pair[2], platforms) ELSE platforms[1]
  <2>1. Closest(pair[1], configurations) \in Elements(configurations) /\ b \in Elements(platforms)
    BY <1>0, <1>2, <1>5
  <2>2. FindClosestMatch(pair) = GetConfig(<<Closest(pair[1], configurations), b>>)
    BY <1>5 DEF FindClosestMatch
  <2> HIDE DEF b
  <2>3. <<Closest(pair[1], configurations), b>> \in OwnPair
    BY <1>0, <1>5, <2>1, FoldFacts DEF OwnPair
  <2> QED BY <1>1, <2>2, <2>3
<1> QED BY <1>3, <1>4, <1>5

\* project.findClosestMatch finds something for every pair a workspace may ask
\* for, whatever the maps make of its names.
THEOREM ClosestPair == MapSpec => []ClosestIsFound
BY MapInvariance, ClosestFound, PTL

LEMMA AllVisited == MapIInv => PerNameMapsVisitAll
<1> SUFFICES ASSUME MapIInv, phase \in {"done", "error"}, Regular PROVE visited = cfglist
  BY DEF PerNameMapsVisitAll, Regular
<1>1. VisitedUpTo(Len(cfglist)) /\ cfglist \in Seq(Pair)
  BY DEF MapIInv, VisitInv, MapTypeOK
<1> QED BY <1>1 DEF VisitedUpTo

\* With maps from name to name, no target of which is a source, the iterator of
\* project.eachconfig returns every configuration of the list, once and in the
\* order of the list, and never stops at one that is missing.
THEOREM PerNameMapsVisit == MapSpec => []PerNameMapsVisitAll
BY MapInvariance, AllVisited, PTL

LEMMA AnyOrder == MapIInv => OrderIrrelevant
<1> SUFFICES ASSUME MapIInv, PerName, NamesOnce, NEW o \in Reordered, NEW pair \in OwnPair
             PROVE  MapConfig([i \in 1..Len(maps) |-> maps[o[i]]], pair) = MapConfig(maps, pair)
  BY DEF OrderIrrelevant
<1>1. /\ maps \in Seq(Entry) /\ table \in Seq(Nat) /\ Len(table) = Len(maps)
      /\ \A i, j \in 1..Len(maps) : i <= j => table[i] <= table[j]
      /\ configurations \in Seq(Name) /\ platforms \in Seq(Name)
  BY DEF MapIInv, InputsOK
<1>2. PerNameMaps(maps)
  BY DEF PerName, PerNameMaps
<1>3. Shuffles(o, maps, table)
  BY <1>1 DEF Reordered, Shuffles, NamesOnce
<1>4. pair \in Pair
  BY <1>1, FoldFacts DEF OwnPair
<1> QED BY <1>1, <1>2, <1>3, <1>4, Reordering DEF Shuffled

\* With such maps the order in which pairs() visits the entries of one
\* configmap table makes no difference to what mapconfig returns.
THEOREM OrderOfMaps == MapSpec => []OrderIrrelevant
BY MapInvariance, AnyOrder, PTL
=============================================================================
