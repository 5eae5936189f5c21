----------------------------- MODULE BakeConfig -----------------------------
(***************************************************************************)
(* Baking one configuration (oven.bakeConfig) and a file of it: the terms  *)
(* filters are tested against are themselves set by the script.            *)
(*                                                                         *)
(* A filter may test the system, architecture, toolset, kind, shared       *)
(* library type and tags of the configuration being baked, and a script    *)
(* may set each of these under a filter.  bakeConfig resolves them in that *)
(* order: it fetches one from the blocks that match the terms known so     *)
(* far, keeps the value in the context, where later reads find it          *)
(* (context.fetchvalue), and adds it to the terms.  Then it compiles the   *)
(* configuration set with the final terms, and every other field is read   *)
(* from the blocks that remain.                                            *)
(*                                                                         *)
(* The project has been baked before, in much the same way but without a   *)
(* configuration's name, and in an order of its own.  A file that belongs  *)
(* to the configuration (fileconfig.addconfig) is tested against the terms *)
(* of the project with those of the configuration merged over them.        *)
(*                                                                         *)
(* blocks is what the configuration set of the project and its parents     *)
(* holds, in the order of module ConfigSet's Compile; a block that sets    *)
(* several fields is listed once for each.                                 *)
(***************************************************************************)
EXTENDS Naturals, Sequences, FiniteSets

CONSTANTS
  Stages,    \* the fields resolved before compiling, in order
  Lists,     \* those of them that are lists ("tags")
  Field,     \* these and the other fields and terms filters may name
  Value,     \* values of fields and terms
  TagsOf,    \* TagsOf[v]: the terms value v stands for (os.getSystemTags)
  Default,   \* Default[f]: what a stage assumes when the script sets nothing;
             \* {} for none
  Forced,    \* Forced[f]: a value the command line gives (--cc); {} for none
  WksTerms,  \* the terms of the workspace and of the configuration's names
  Own,       \* those a project does not have: the configuration's names
  ProjectStages,  \* the fields resolved for the project, in order
  ProjectDefault, \* what these stages assume
  Files,     \* the field "files" of filters
  File,      \* the file
  Script     \* the block lists considered

Staged == {Stages[i] : i \in 1..Len(Stages)}

\* One word of a filter; its patterns are sets of words, one of which must
\* match, and its criteria are sets of patterns, all of which must.
Word == [field : Field, value : Value, negated : BOOLEAN]

ASSUME StagesAssumption ==
  /\ Stages \in Seq(Field) /\ Lists \subseteq Staged
  /\ \A i, j \in 1..Len(Stages) : Stages[i] = Stages[j] => i = j
ASSUME TermsAssumption ==
  /\ TagsOf \in [Value -> SUBSET Value]
  /\ Default \in [Staged -> SUBSET Value] /\ Forced \in [Staged -> SUBSET Value]
  /\ \A f \in Staged \ Lists : Cardinality(Default[f]) <= 1 /\ Cardinality(Forced[f]) <= 1
  /\ WksTerms \in [Field -> SUBSET Value] /\ Own \subseteq Field \ Staged
\* What the project resolves depends on fields that a configuration resolves
\* before it too, but for "kind", which has no default.  Lists have no default
\* either; of the staged terms a workspace has one only, the first ("system").
ASSUME ProjectAssumption ==
  /\ ProjectStages \in Seq(Staged)
  /\ \A i, j \in 1..Len(ProjectStages) : ProjectStages[i] = ProjectStages[j] => i = j
  /\ ProjectDefault \in [Staged -> SUBSET Value]
  /\ \A f \in Lists : ProjectDefault[f] = {}
  /\ \A j \in 1..Len(ProjectStages) : Forced[ProjectStages[j]] = {}
  /\ \A f \in Staged : WksTerms[f] # {} =>
       Len(ProjectStages) > 0 /\ f = ProjectStages[1] /\ f = Stages[1]
  /\ \A k \in 1..Len(ProjectStages) :
       \/ ProjectStages[k] \notin Lists /\ Default[ProjectStages[k]] = {}
       \/ \A j \in 1..(k - 1) : \A m, n \in 1..Len(Stages) :
            Stages[m] = ProjectStages[j] /\ Stages[n] = ProjectStages[k] => m < n
\* Module Criteria has the other ways to name a file.
ASSUME FileAssumption ==
  /\ Files \in Field \ Staged /\ File \in Value /\ WksTerms[Files] = {}
  /\ \A s \in Script : \A i \in 1..Len(s) :
       \A pattern \in s[i].criteria : \A w \in pattern :
         w.field = Files => pattern = {w} /\ ~ w.negated
ASSUME ScriptAssumption == \A s \in Script :
  s \in Seq([criteria : SUBSET SUBSET Word, field : Field, value : Value])

VARIABLES
  blocks,   \* the script (never changes)
  stage,    \* index into Stages of the next field to resolve
  terms,    \* ctx.terms
  cached,   \* the fields the context holds a value of (rawget)
  held,     \* those values: a set with the value, or the items of a list
  compiled, \* ctx._cfgset is a compiled set
  applied,  \* indices of the blocks in the compiled set
  projectStage, projectTerms, \* the same as stage and terms, for the project
  fileTerms,    \* the terms of the file in this configuration (fsub.terms)
  fileApplied   \* indices of the blocks in the file's compiled set

project == <<projectStage, projectTerms>>
file    == <<fileTerms, fileApplied>>
vars    == <<blocks, stage, terms, cached, held, compiled, applied, project, file>>

-----------------------------------------------------------------------------
(* Matching and fetching                                                   *)

\* testWithPrefix
WordMatches(w, t) == (w.value \in t[w.field]) # w.negated

\* criteria.matches
CriteriaMatch(criteria, t) ==
  \A pattern \in criteria : \E w \in pattern : WordMatches(w, t)

MatchingBlocks(t) == {i \in 1..Len(blocks) : CriteriaMatch(blocks[i].criteria, t)}

\* configset.fetch from the blocks with the given indices: all the values of
\* a list field, the last one of a string field.
Fetch(f, indices) ==
  LET setting == {i \in indices : blocks[i].field = f}
  IN  {blocks[i].value : i \in
         {j \in setting : f \in Lists \/ \A k \in setting : k <= j}}

TermsFor(values) == UNION {TagsOf[v] : v \in values}

\* What a stage makes of field f: forced or ctx.f or default
Resolved(f, t, forced, default) ==
  LET fetched == Fetch(f, MatchingBlocks(t))
  IN  IF forced # {} THEN forced ELSE IF fetched # {} THEN fetched ELSE default

ProjectBaked == projectStage > Len(ProjectStages)

-----------------------------------------------------------------------------
(* project.bake                                                            *)

\* self.f = self.f or default; context.addFilter(self, "f", self.f)
RunProjectStage ==
  /\ ~ ProjectBaked
  /\ LET f == ProjectStages[projectStage] IN
       projectTerms' = [projectTerms EXCEPT
         ![f] = TermsFor(Resolved(f, projectTerms, {}, ProjectDefault[f]))]
  /\ projectStage' = projectStage + 1
  /\ UNCHANGED <<blocks, stage, terms, cached, held, compiled, applied, file>>

-----------------------------------------------------------------------------
(* oven.bakeConfig                                                         *)

\* Mutants of RunStage: the value is not stored in the context; the default
\* goes before what the script says.
RunStageUncached ==
  /\ ProjectBaked /\ stage <= Len(Stages)
  /\ LET f == Stages[stage]
         value == Resolved(f, terms, Forced[f], Default[f])
     IN  terms' = [terms EXCEPT ![f] = TermsFor(value)]
  /\ stage' = stage + 1
  /\ UNCHANGED <<blocks, cached, held, compiled, applied, project, file>>

RunStageDefaultFirst ==
  /\ ProjectBaked /\ stage <= Len(Stages)
  /\ LET f == Stages[stage]
         value == IF Default[f] # {} THEN Default[f]
                  ELSE Fetch(f, MatchingBlocks(terms))
     IN  /\ held' = [held EXCEPT ![f] = value]
         /\ cached' = IF value # {} \/ f \in Lists THEN cached \union {f} ELSE cached
         /\ terms' = [terms EXCEPT ![f] = TermsFor(value)]
  /\ stage' = stage + 1
  /\ UNCHANGED <<blocks, compiled, applied, project, file>>

\* ctx.f = forced or ctx.f or default; context.addFilter(ctx, "f", ctx.f).
\* A string field without value is not cached; a list is, even an empty one.
RunStage ==
  /\ ProjectBaked /\ stage <= Len(Stages)
  /\ LET f == Stages[stage]
         value == Resolved(f, terms, Forced[f], Default[f])
     IN  /\ held' = [held EXCEPT ![f] = value]
         /\ cached' = IF value # {} \/ f \in Lists THEN cached \union {f} ELSE cached
         /\ terms' = [terms EXCEPT ![f] = TermsFor(value)]
  /\ stage' = stage + 1
  /\ UNCHANGED <<blocks, compiled, applied, project, file>>

\* context.compile
CompileContext ==
  /\ stage > Len(Stages) /\ ~ compiled
  /\ compiled' = TRUE
  /\ applied' = MatchingBlocks(terms)
  /\ UNCHANGED <<blocks, stage, terms, cached, held, project, file>>

\* Mutant of ReadField: the context is not asked first.
ReadFieldAgain(f) ==
  /\ compiled
  /\ Fetch(f, applied) # {}
  /\ held' = [held EXCEPT ![f] = Fetch(f, applied)]
  /\ cached' = cached \union {f}
  /\ UNCHANGED <<blocks, stage, terms, compiled, applied, project, file>>

\* context.fetchvalue by oven.finishConfig and the exporters, in any order
ReadField(f) ==
  /\ compiled /\ f \notin cached
  /\ Fetch(f, applied) # {}
  /\ held' = [held EXCEPT ![f] = Fetch(f, applied)]
  /\ cached' = cached \union {f}
  /\ UNCHANGED <<blocks, stage, terms, compiled, applied, project, file>>

-----------------------------------------------------------------------------
(* fileconfig.lua                                                          *)

\* Mutant of MergedTerms: the configuration's terms are not merged.
ProjectsTerms == [projectTerms EXCEPT ![Files] = {File}]

\* context.copyFilters, then mergeFilters: tags are joined; of other fields the
\* configuration's terms replace the project's, where it has any.
MergedTerms ==
  [f \in Field |-> IF f = Files THEN {File}
                   ELSE IF f \in Lists THEN projectTerms[f] \union terms[f]
                   ELSE IF terms[f] # {} THEN terms[f] ELSE projectTerms[f]]

NamesFile(criteria) == \E pattern \in criteria : \E w \in pattern : w.field = Files

\* fileconfig.addconfig; only blocks that name files apply to files.
BakeFile ==
  /\ compiled /\ fileTerms[Files] = {}
  /\ fileTerms' = MergedTerms
  /\ fileApplied' = {i \in MatchingBlocks(MergedTerms) : NamesFile(blocks[i].criteria)}
  /\ UNCHANGED <<blocks, stage, terms, cached, held, compiled, applied, project>>

-----------------------------------------------------------------------------
(* Specification                                                           *)

Init ==
  /\ blocks \in Script
  /\ stage = 1
  /\ terms = WksTerms
  /\ cached = {} /\ held = [f \in Field |-> {}]
  /\ compiled = FALSE /\ applied = {}
  /\ projectStage = 1
  /\ projectTerms = [f \in Field |-> IF f \in Own THEN {} ELSE WksTerms[f]]
  /\ fileTerms = [f \in Field |-> {}] /\ fileApplied = {}

Next ==
  \/ RunProjectStage \/ RunStage \/ CompileContext \/ BakeFile
  \/ \E f \in Field : ReadField(f)

Spec == Init /\ [][Next]_vars

-----------------------------------------------------------------------------
(* Properties                                                              *)

\* What the configuration reports for a field.
Reported(f) == IF f \in cached THEN held[f] ELSE Fetch(f, applied)

\* The terms that describe the configuration as it reports itself.
ReportedTerms ==
  [f \in Field |-> IF f \in Staged THEN TermsFor(Reported(f)) ELSE terms[f]]

\* A staged string that no block set when its turn came, but that a block
\* applied in the end does set.
LateString ==
  \E f \in Staged \ Lists : terms[f] = {} /\ Reported(f) # {}

\* A block's settings are in the configuration exactly when the block's
\* filter is true of the configuration as it finally reports itself: of its
\* kind, its system, and so on, each of which a block may have set.  The case
\* excepted is a field that had no value at its stage and gets one later.
AppliedIffTrue ==
  (compiled /\ ~ LateString) =>
    \A i \in 1..Len(blocks) :
      i \in applied <=> CriteriaMatch(blocks[i].criteria, ReportedTerms)

\* A script that sets each staged field only under filters on fields that are
\* resolved before it.
Rank(f) == IF f \in Staged THEN CHOOSE i \in 1..Len(Stages) : Stages[i] = f ELSE 0

WellStaged ==
  \A i \in 1..Len(blocks) :
    blocks[i].field \in Staged =>
      \A pattern \in blocks[i].criteria : \A w \in pattern :
        Rank(w.field) < Rank(blocks[i].field)

\* Such a script gets what it says: the staged fields have the value of the
\* last of the blocks that apply in the end (all the values, for a list), as
\* any other field has, and no block's filter is true but ignored.
WellStagedIsDeclarative ==
  (compiled /\ WellStaged) =>
    /\ \A f \in Staged :
         Reported(f) = IF Forced[f] # {} THEN Forced[f]
                       ELSE IF Fetch(f, applied) # {} THEN Fetch(f, applied)
                       ELSE Default[f]
    /\ \A i \in 1..Len(blocks) :
         i \in applied <=> CriteriaMatch(blocks[i].criteria, ReportedTerms)

\* The blocks that set a field which the project resolves too
ProjectBlocks ==
  {i \in 1..Len(blocks) : \E j \in 1..Len(ProjectStages) : blocks[i].field = ProjectStages[j]}

\* Their filters have no "not" ...
Positive ==
  \A i \in ProjectBlocks :
    \A pattern \in blocks[i].criteria : \A w \in pattern : ~ w.negated

\* ... and all give a string the same value, which is the default if there is one.
OneValue ==
  \A i, j \in ProjectBlocks :
    (blocks[i].field = blocks[j].field /\ blocks[i].field \notin Lists) =>
      /\ blocks[i].value = blocks[j].value
      /\ ProjectDefault[blocks[i].field] \subseteq {blocks[i].value}

\* A configuration assumes what the project assumes: its platform is not named
\* like another system.
SameDefaults ==
  \A j \in 1..Len(ProjectStages) :
    ProjectDefault[ProjectStages[j]] \subseteq Default[ProjectStages[j]]

\* A block that names the file applies to it, in this configuration, exactly when
\* its filter is true of the configuration.  In general it is not so, because the
\* project's terms are under the configuration's: what the project alone has, by a
\* filter with "not", by its own defaults or before a configuration overrides what
\* it rests on, is tested for files of all configurations.
FilesSeeTheirConfiguration ==
  (fileTerms[Files] # {} /\ Positive /\ OneValue /\ SameDefaults /\ ~ LateString) =>
    \A i \in 1..Len(blocks) :
      i \in fileApplied <=>
        /\ NamesFile(blocks[i].criteria)
        /\ CriteriaMatch(blocks[i].criteria, [ReportedTerms EXCEPT ![Files] = {File}])

\* Which blocks apply, and what the context reports, no longer change once
\* the context is compiled, whichever field is read next.
ReadsAreStable ==
  [][compiled => applied' = applied /\ \A f \in Field : Reported(f)' = Reported(f)]_vars
=============================================================================
