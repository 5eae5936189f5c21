----------------------------- MODULE ConfigSet -----------------------------
(***************************************************************************)
(* Configuration sets: how the statements of a project script are stored,  *)
(* and what a field's value is when a configuration asks for it.           *)
(*                                                                         *)
(* Every container (global, workspace, project) is a configuration set: a  *)
(* list of blocks, each with the criteria of the filter it was opened      *)
(* under, values of fields, and values to remove.  A script statement goes *)
(* to the last block of the container in scope.  "removedefines" opens a   *)
(* block of its own, as the removes of a block are applied before its      *)
(* values.  A fetch walks the blocks whose criteria match, those of the    *)
(* enclosing containers first; configset.compile collects these blocks     *)
(* once, and fetches from the result test no criteria.                     *)
(*                                                                         *)
(* Two fields stand for the two ways to fetch: a list ("defines"), which   *)
(* merges the blocks' values, and a string ("kind"), where one value wins. *)
(* The history variable log keeps the statements as the script made them;  *)
(* replaying the matching ones is what the fetches are compared with.      *)
(***************************************************************************)
EXTENDS Naturals, Sequences, ListField

CONSTANTS
  Container,    \* global and everything below
  Global,       \* the container in scope when the script starts
  ChainOf,      \* ChainOf[c]: the containers enclosing c, from Global to c
  Value,        \* values of the two fields
  Unset,        \* a string field that has no value (nil)
  Pattern,      \* what a remove statement names: a value or a wildcard
  Selects,      \* Selects[p]: the values pattern p matches
  Criteria,     \* the terms of a filter
  Always,       \* no terms
  Env,          \* the filtering terms a context may have
  Holds,        \* Holds[t]: the contexts that criteria t match
  Listed,       \* the value lists that list statements give
  MaxStatements \* bound on the length of the script

ASSUME ContainerAssumption ==
  /\ Global \in Container /\ ChainOf \in [Container -> Seq(Container)]
  /\ \A c \in Container :
       /\ ChainOf[c] # << >>
       /\ ChainOf[c][1] = Global /\ ChainOf[c][Len(ChainOf[c])] = c
       /\ \A i \in 1..Len(ChainOf[c]) :
            ChainOf[ChainOf[c][i]] = SubSeq(ChainOf[c], 1, i)
ASSUME ValueAssumption ==
  /\ Unset \notin Value /\ Listed \subseteq Seq(Value)
  /\ Selects \in [Pattern -> SUBSET Value]
ASSUME CriteriaAssumption ==
  /\ Always \in Criteria /\ Holds \in [Criteria -> SUBSET Env]
  /\ Holds[Always] = Env
ASSUME BoundAssumption == MaxStatements \in Nat

VARIABLES
  scope,    \* api.scope.current
  blocks,   \* blocks[c]: the blocks of container c; none before it is created
  active,   \* history: the criteria of the filter the script is under
  log,      \* history: log[c] is the statements made in container c
  size      \* history: the length of the script so far

vars == <<scope, blocks, active, log, size>>

NewBlock(t) == [criteria |-> t, removes |-> {}, list |-> << >>, string |-> Unset]

Parents(c) == {ChainOf[c][i] : i \in 1..(Len(ChainOf[c]) - 1)}
Enclosing(c) == Parents(c) \union {c}

RemoveSelected(list, patterns) == Without(list, UNION {Selects[p] : p \in patterns})

-----------------------------------------------------------------------------
(* Fetching.  The recursion from a set to its parent is a recursion over   *)
(* the chain of containers.                                                *)

\* The blocks, or statements, that match
Matching(bs, e) == Without(bs, {b \in Elements(bs) : e \notin Holds[b.criteria]})

\* The merge loop over the blocks of one set that match: a block's removes
\* come before its values.
MergeBlocks(list, bs) ==
  LET Merged[i \in 0..Len(bs)] ==
        IF i = 0 THEN list
        ELSE StoreList(RemoveSelected(Merged[i - 1], bs[i].removes), bs[i].list)
  IN  Merged[Len(bs)]

FetchMerged(c, e) ==
  LET Fetched[i \in 0..Len(ChainOf[c])] ==
        IF i = 0 THEN << >>
        ELSE MergeBlocks(Fetched[i - 1], Matching(blocks[ChainOf[c][i]], e))
  IN  Fetched[Len(ChainOf[c])]

Last(indices) == CHOOSE i \in indices : \A j \in indices : j <= i

\* The last block that sets the string; Unset when none does.
LastString(bs) ==
  LET set == {i \in 1..Len(bs) : bs[i].string # Unset}
  IN  IF set = {} THEN Unset ELSE bs[Last(set)].string

FetchDirect(c, e) ==
  LET Fetched[i \in 0..Len(ChainOf[c])] ==
        IF i = 0 THEN Unset
        ELSE LET own == LastString(Matching(blocks[ChainOf[c][i]], e))
             IN  IF own # Unset THEN own ELSE Fetched[i - 1]
  IN  Fetched[Len(ChainOf[c])]

\* Mutant of Compile: the parents are left out.
CompileOwn(c, e) == Matching(blocks[c], e)

\* configset.compile: the blocks of a set without parent that tests nothing.
Compile(c, e) ==
  LET Compiled[i \in 0..Len(ChainOf[c])] ==
        IF i = 0 THEN << >>
        ELSE Compiled[i - 1] \o Matching(blocks[ChainOf[c][i]], e)
  IN  Compiled[Len(ChainOf[c])]

-----------------------------------------------------------------------------
(* The statements of a script                                              *)

Created(c) == blocks[c] # << >>

Another == size < MaxStatements /\ size' = size + 1

\* The values of one call of a field function are stored in the last block.
StoreIn(bs, field, values) ==
  LET current == bs[Len(bs)]
  IN  [bs EXCEPT ![Len(bs)] =
         IF field = "list" THEN [current EXCEPT !.list = StoreList(current.list, values)]
                           ELSE [current EXCEPT !.string = values[1]]]

Recorded(op, values, patterns) ==
  log' = [log EXCEPT ![scope] =
            Append(@, [criteria |-> active, op |-> op,
                       values |-> values, patterns |-> patterns])]

\* project "name", for a container not seen before: its first fields open a
\* block without criteria.
NewContainer(c) ==
  /\ Another
  /\ ~ Created(c) /\ Parents(c) \subseteq Enclosing(scope)
  /\ blocks' = [blocks EXCEPT ![c] = <<NewBlock(Always)>>]
  /\ scope' = c /\ active' = Always
  /\ UNCHANGED log

\* project "name" again: "create a new configuration block for it so I don't
\* pick up an old filter".
SetContainer(c) ==
  /\ Another
  /\ Created(c) /\ Parents(c) \subseteq Enclosing(scope)
  /\ blocks' = [blocks EXCEPT ![c] = Append(@, NewBlock(Always))]
  /\ scope' = c /\ active' = Always
  /\ UNCHANGED log

\* Mutant of Filter: the new block does not become the current one.
FilterBefore(t) ==
  /\ Another
  /\ blocks' = [blocks EXCEPT ![scope] = <<NewBlock(t)>> \o @]
  /\ active' = t
  /\ UNCHANGED <<scope, log>>

\* filter { ... }
Filter(t) ==
  /\ Another
  /\ blocks' = [blocks EXCEPT ![scope] = Append(@, NewBlock(t))]
  /\ active' = t
  /\ UNCHANGED <<scope, log>>

\* defines { ... }, kind "..."
StoreField(field, values) ==
  /\ Another
  /\ blocks' = [blocks EXCEPT ![scope] = StoreIn(@, field, values)]
  /\ Recorded(field, values, {})
  /\ UNCHANGED <<scope, active>>

\* Mutant of Remove: the removes are put into the current block.
RemoveInPlace(patterns) ==
  /\ Another
  /\ blocks' = [blocks EXCEPT ![scope] =
       [@ EXCEPT ![Len(@)] = [@ EXCEPT !.removes = @ \union patterns]]]
  /\ Recorded("remove", << >>, patterns)
  /\ UNCHANGED <<scope, active>>

\* removedefines { ... }
Remove(patterns) ==
  /\ Another
  /\ blocks' = [blocks EXCEPT ![scope] =
       Append(@, [NewBlock(@[Len(@)].criteria) EXCEPT !.removes = patterns])]
  /\ Recorded("remove", << >>, patterns)
  /\ UNCHANGED <<scope, active>>

-----------------------------------------------------------------------------
(* Specification                                                           *)

Init ==
  /\ scope = Global
  /\ blocks = [c \in Container |-> IF c = Global THEN <<NewBlock(Always)>> ELSE << >>]
  /\ active = Always
  /\ log = [c \in Container |-> << >>]
  /\ size = 0

Next ==
  \/ \E c \in Container : NewContainer(c) \/ SetContainer(c)
  \/ \E t \in Criteria : Filter(t)
  \/ \E values \in Listed : StoreField("list", values)
  \/ \E v \in Value : StoreField("string", <<v>>)
  \/ \E p \in Pattern : Remove({p})

Spec == Init /\ [][Next]_vars

-----------------------------------------------------------------------------
(* Properties                                                              *)

\* The reference: the statements that apply to container c, those of the
\* containers around it first, replayed one by one.
Statements(c, e) ==
  LET Made[i \in 0..Len(ChainOf[c])] ==
        IF i = 0 THEN << >> ELSE Made[i - 1] \o log[ChainOf[c][i]]
  IN  Matching(Made[Len(ChainOf[c])], e)

ReplayList(list, statements) ==
  LET Replayed[i \in 0..Len(statements)] ==
        IF i = 0 THEN list
        ELSE LET s == statements[i] IN
             IF s.op = "list" THEN StoreList(Replayed[i - 1], s.values)
             ELSE IF s.op = "remove" THEN RemoveSelected(Replayed[i - 1], s.patterns)
             ELSE Replayed[i - 1]
  IN  Replayed[Len(statements)]

ReplayString(statements) ==
  LET set == {i \in 1..Len(statements) : statements[i].op = "string"}
  IN  IF set = {} THEN Unset ELSE statements[Last(set)].values[1]

\* A fetch returns what the script says: the statements that match, in the
\* order they were made within a container and outermost container first,
\* whatever order the script visited the containers in, and although values
\* are gathered per block and a block's removes precede its values.
FetchIsReplay ==
  \A c \in Container, e \in Env :
    /\ FetchMerged(c, e) = ReplayList(<< >>, Statements(c, e))
    /\ FetchDirect(c, e) = ReplayString(Statements(c, e))

\* Fetching from a compiled set gives what fetching from the set and its
\* parents gives ("faster fetches against a smaller set of configuration
\* blocks").
CompiledAgrees ==
  \A c \in Container, e \in Env :
    /\ MergeBlocks(<< >>, Compile(c, e)) = FetchMerged(c, e)
    /\ LastString(Compile(c, e)) = FetchDirect(c, e)

\* A statement concerns only the container in scope and those inside it, and
\* only the contexts that the filter it was made under matches.
StatementsAreScoped ==
  [][\A c \in Container, e \in Env :
       (scope \notin Enclosing(c) \/ e \notin Holds[active]) =>
         FetchMerged(c, e)' = FetchMerged(c, e) /\ FetchDirect(c, e)' = FetchDirect(c, e)]_vars

=============================================================================
