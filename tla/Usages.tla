------------------------------- MODULE Usages -------------------------------
(***************************************************************************)
(* Usages: blocks of settings that projects consume by name.               *)
(*                                                                         *)
(* A project may define usages.  Those it names PUBLIC, PRIVATE and        *)
(* INTERFACE are special: the first two are applied to the project itself, *)
(* and naming the project in "uses" stands for PUBLIC and INTERFACE.  Any  *)
(* other usage is named itself.  A usage may use others.                   *)
(*                                                                         *)
(* When everything is baked oven.applyUsages walks all the configurations. *)
(* For each it collects the configurations of usages it consumes, those a  *)
(* usage uses before the usage, by a recursive descent that remembers      *)
(* nothing; it merges the values of their blocks into one block, which it  *)
(* appends to those of the configuration.  The recursion is a stack here.  *)
(*                                                                         *)
(* Names are taken as the script spells them, in one case.  As in module   *)
(* ConfigSet a list field and a string field stand for all others.         *)
(***************************************************************************)
EXTENDS Naturals, Sequences, FiniteSets, ListField

CONSTANTS
  Project,      \* the projects of all workspaces
  Name,         \* names of projects, and of usages that are not special
  Public, Private, Interface,
  Buildcfg,     \* names of configurations
  Nil,          \* no configuration; not walked yet; no value of the string field
  Value,        \* values of the two fields
  MaxDepth,     \* calls that fit on the stack
  Script        \* the scripts considered: see ScriptAssumption

Special     == {Public, Private, Interface}
UsageName   == Name \union Special
Config      == Project \X Buildcfg
UsageConfig == Project \X UsageName \X Buildcfg

\* What a block of a usage holds.
Given == [removes : SUBSET Value, list : Seq(Value), string : Value \union {Nil}]

\* The configurations of the usages of a script.
Usages(s) == {u \in UsageConfig : <<u[1], u[2]>> \in s.usages /\ u[3] \in Elements(s.cfgs[u[1]])}

ASSUME NameAssumption ==
  /\ Name \intersect Special = {}
  /\ Public # Private /\ Public # Interface /\ Private # Interface
ASSUME NilAssumption ==
  Nil \notin Value /\ Nil \notin Project /\ Nil \notin UsageConfig /\ Nil \notin Seq(UsageConfig)
ASSUME DepthAssumption == MaxDepth \in Nat \ {0}

\* A project belongs to one workspace, and has a configuration.  The stack of
\* Lua has room for a chain of all usages.
ASSUME ScriptAssumption == \A s \in Script :
  /\ \E i \in 1..Len(s.workspaces) : s.workspaces[i] # << >>
  /\ s.workspaces \in Seq(Seq(Project)) /\ s.name \in [Project -> Name]
  /\ s.usages \subseteq Project \X UsageName
  /\ \A p \in Project : s.cfgs[p] \in Seq(Buildcfg) \ {<< >>} /\ NoRepeats(s.cfgs[p])
  /\ s.unbaked \subseteq UsageConfig
  /\ IsFiniteSet(Usages(s)) /\ Cardinality(Usages(s)) < MaxDepth
  /\ s.uses \in [Config -> Seq(UsageName)]
  /\ s.usageUses \in [Usages(s) -> Seq(UsageName)]
  /\ s.own \in [Config -> [list : Seq(Value), string : Value \union {Nil}]]
  /\ s.gives \in [Usages(s) -> Seq(Given)]
  /\ s.read \subseteq Config

VARIABLES
  script,    \* what the script defines (never changes), with
             \*   workspaces  the projects of each, sorted by name
             \*   name        of each project
             \*   usages      <<project, name>> of those defined
             \*   cfgs        the build configurations of a project
             \*   unbaked     usage configurations the action does not support
             \*   uses, usageUses   the "uses" of configurations, of usages
             \*   own         values of a configuration after it was baked
             \*   gives       the blocks of a usage configuration
             \*   read        configurations whose string was fetched already
  todo,      \* configurations still to be walked, the one at hand first
  roots,     \* calls of collectUsages still to make for it
  stack,     \* the calls of collectUsages that run
  toconsume, \* what it collected so far
  applied,   \* toconsume of the configurations that are finished, else Nil
  phase      \* "collect", "done" or "error"

vars == <<script, todo, roots, stack, toconsume, applied, phase>>

\* The configurations in the order of the three loops.
Listed ==
  LET Configs(p) == [i \in 1..Len(script.cfgs[p]) |-> <<p, script.cfgs[p][i]>>]
      projects   == Concat(script.workspaces)
  IN  Concat([i \in 1..Len(projects) |-> Configs(projects[i])])

-----------------------------------------------------------------------------
(* Finding a usage                                                         *)

\* project.findClosestMatch of a usage, without platforms and maps (these are
\* the subject of module ConfigMap).
Closest(p, u, b) ==
  LET closest == <<p, u, IF b \in Elements(script.cfgs[p]) THEN b ELSE script.cfgs[p][1]>>
  IN  IF closest \in script.unbaked THEN Nil ELSE closest

\* Usage u of project p, if there is one
Defined(p, u) == IF <<p, u>> \in script.usages THEN <<<<p, u>>>> ELSE << >>

First(indices) == CHOOSE i \in indices : \A j \in indices : i <= j

\* Mutant of FindInWorkspace: a project stands for its PRIVATE usage too.
FindInWorkspacePrivate(projects, name) ==
  LET named    == {i \in 1..Len(projects) : script.name[projects[i]] = name}
      defining == {i \in 1..Len(projects) : <<projects[i], name>> \in script.usages}
      project  == projects[First(named)]
  IN  IF named # {}
      THEN Defined(project, Public) \o Defined(project, Interface) \o Defined(project, Private)
      ELSE IF defining # {} THEN <<<<projects[First(defining)], name>>>> ELSE Nil

\* What a name stands for in one workspace: the PUBLIC and INTERFACE usages of
\* the project so called, or the first usage so called.
FindInWorkspace(projects, name) ==
  LET named    == {i \in 1..Len(projects) : script.name[projects[i]] = name}
      defining == {i \in 1..Len(projects) : <<projects[i], name>> \in script.usages}
      project  == projects[First(named)]
  IN  IF named # {} THEN Defined(project, Public) \o Defined(project, Interface)
      ELSE IF defining # {} THEN <<<<projects[First(defining)], name>>>> ELSE Nil

\* usage.findglobal: the first workspace in which the name stands for
\* something, an empty list included.
FindGlobal(name) ==
  LET Found == {i \in 1..Len(script.workspaces) :
                  FindInWorkspace(script.workspaces[i], name) # Nil}
  IN  IF Found = {} THEN << >> ELSE FindInWorkspace(script.workspaces[First(Found)], name)

-----------------------------------------------------------------------------
(* collectUsages                                                           *)

\* A call: the configuration's build configuration, the names in its "uses"
\* that are left, the matches of the current name that are left, the result.
Frame == [buildcfg : Buildcfg, names : Seq(UsageName),
          matches : Seq(UsageConfig \union {Nil}), uses : Seq(UsageConfig)]

CallFor(c) == [buildcfg |-> c[2], names |-> script.uses[c], matches |-> << >>, uses |-> << >>]
CallForUsage(u) ==
  [buildcfg |-> u[3], names |-> script.usageUses[u], matches |-> << >>, uses |-> << >>]

Top == stack[Len(stack)]
Running == phase = "collect" /\ stack # << >>

\* The next name: a special one is an error.
LookUpName ==
  /\ Running /\ Top.matches = << >> /\ Top.names # << >>
  /\ Head(Top.names) \notin Special
  /\ LET found == FindGlobal(Head(Top.names))
         matches == [i \in 1..Len(found) |->
                       Closest(found[i][1], found[i][2], Top.buildcfg)]
     IN  stack' = [stack EXCEPT ![Len(stack)] =
                     [Top EXCEPT !.names = Tail(@), !.matches = matches]]
  /\ UNCHANGED <<script, todo, roots, toconsume, applied, phase>>

RejectName ==
  /\ Running /\ Top.matches = << >> /\ Top.names # << >>
  /\ Head(Top.names) \in Special
  /\ phase' = "error"
  /\ UNCHANGED <<script, todo, roots, stack, toconsume, applied>>

\* Mutant of MissUsage: the loop does not go on.
MissUsageInPlace ==
  /\ Running /\ Top.matches # << >> /\ Head(Top.matches) = Nil
  /\ UNCHANGED vars

\* A usage with no configuration for this one: warnOnce
MissUsage ==
  /\ Running /\ Top.matches # << >> /\ Head(Top.matches) = Nil
  /\ stack' = [stack EXCEPT ![Len(stack)] = [Top EXCEPT !.matches = Tail(@)]]
  /\ UNCHANGED <<script, todo, roots, toconsume, applied, phase>>

EnterUsage ==
  /\ Running /\ Top.matches # << >> /\ Head(Top.matches) # Nil
  /\ Len(stack) < MaxDepth
  /\ stack' = Append(stack, CallForUsage(Head(Top.matches)))
  /\ UNCHANGED <<script, todo, roots, toconsume, applied, phase>>

\* Mutant of Overflow: a usage that is too deep is left out.
OverflowIgnored ==
  /\ Running /\ Top.matches # << >> /\ Head(Top.matches) # Nil
  /\ Len(stack) = MaxDepth
  /\ stack' = [stack EXCEPT ![Len(stack)] = [Top EXCEPT !.matches = Tail(@)]]
  /\ UNCHANGED <<script, todo, roots, toconsume, applied, phase>>

\* "stack overflow"
Overflow ==
  /\ Running /\ Top.matches # << >> /\ Head(Top.matches) # Nil
  /\ Len(stack) = MaxDepth
  /\ phase' = "error"
  /\ UNCHANGED <<script, todo, roots, stack, toconsume, applied>>

\* Mutant of LeaveUsage: a usage comes before those it uses.
LeaveUsageFirst ==
  /\ Running /\ Top.matches = << >> /\ Top.names = << >> /\ Len(stack) > 1
  /\ LET caller == stack[Len(stack) - 1] IN
       stack' = [SubSeq(stack, 1, Len(stack) - 1) EXCEPT ![Len(stack) - 1] =
                   [caller EXCEPT !.matches = Tail(@),
                                  !.uses = Append(@, Head(caller.matches)) \o Top.uses]]
  /\ UNCHANGED <<script, todo, roots, toconsume, applied, phase>>

\* The caller adds what the usage uses, and then the usage.
LeaveUsage ==
  /\ Running /\ Top.matches = << >> /\ Top.names = << >> /\ Len(stack) > 1
  /\ LET caller == stack[Len(stack) - 1] IN
       stack' = [SubSeq(stack, 1, Len(stack) - 1) EXCEPT ![Len(stack) - 1] =
                   [caller EXCEPT !.matches = Tail(@),
                                  !.uses = Append(@ \o Top.uses, Head(caller.matches))]]
  /\ UNCHANGED <<script, todo, roots, toconsume, applied, phase>>

-----------------------------------------------------------------------------
(* The loop over the configurations                                        *)

\* The configuration of special usage u for configuration c, if there is one
SpecialOf(c, u) ==
  LET closest == Closest(c[1], u, c[2])
  IN  IF <<c[1], u>> \in script.usages /\ closest # Nil THEN <<closest>> ELSE << >>

\* Mutant of RootsOf: INTERFACE instead of PUBLIC.
RootsOfInterface(c) == <<c>> \o SpecialOf(c, Interface) \o SpecialOf(c, Private)

\* The calls made for a configuration: for itself, and for the project's own
\* PUBLIC and PRIVATE usages if there are any.
RootsOf(c) == <<c>> \o SpecialOf(c, Public) \o SpecialOf(c, Private)

Call ==
  /\ phase = "collect" /\ stack = << >> /\ roots # << >>
  /\ stack' = << IF Head(roots) = Head(todo) THEN CallFor(Head(roots))
                                            ELSE CallForUsage(Head(roots)) >>
  /\ UNCHANGED <<script, todo, roots, toconsume, applied, phase>>

\* collectSpecialUsages adds the special usage itself.
Return ==
  /\ Running /\ Top.matches = << >> /\ Top.names = << >> /\ Len(stack) = 1
  /\ toconsume' = toconsume \o Top.uses
                  \o (IF Head(roots) = Head(todo) THEN << >> ELSE <<Head(roots)>>)
  /\ stack' = << >> /\ roots' = Tail(roots)
  /\ UNCHANGED <<script, todo, applied, phase>>

Apply ==
  /\ phase = "collect" /\ stack = << >> /\ roots = << >>
  /\ applied' = [applied EXCEPT ![Head(todo)] = Unique(toconsume)]
  /\ todo' = Tail(todo)
  /\ IF todo' = << >>
     THEN phase' = "done" /\ UNCHANGED roots
     ELSE roots' = RootsOf(Head(todo')) /\ UNCHANGED phase
  /\ toconsume' = << >>
  /\ UNCHANGED <<script, stack>>

-----------------------------------------------------------------------------
(* What a configuration reports afterwards: a fetch finds the block that   *)
(* Apply appends last, but a value that was fetched before is in the       *)
(* context.                                                                *)

\* Blocks stored into an empty one, field by field; what a block removes is
\* not a field.
StoreAll(blocks) ==
  LET List[i \in 0..Len(blocks)] ==
        IF i = 0 THEN << >> ELSE StoreList(List[i - 1], blocks[i].list)
      String[i \in 0..Len(blocks)] ==
        IF i = 0 THEN Nil
        ELSE IF blocks[i].string = Nil THEN String[i - 1] ELSE blocks[i].string
  IN  [list |-> List[Len(blocks)], string |-> String[Len(blocks)]]

\* Mutant of Properties: only the last block of a usage counts.
PropertiesOfLast(u) ==
  LET bs == script.gives[u] IN
  StoreAll(IF bs = << >> THEN << >> ELSE <<bs[Len(bs)]>>)

\* fetchPropertiesToApply
Properties(u) == StoreAll(script.gives[u])

\* The block appended
Block(c) == StoreAll([i \in 1..Len(applied[c]) |-> Properties(applied[c][i])])

ListOf(c) ==
  IF applied[c] = Nil THEN script.own[c].list
  ELSE StoreList(script.own[c].list, Block(c).list)

StringOf(c) ==
  IF c \in script.read \/ applied[c] = Nil \/ Block(c).string = Nil
  THEN script.own[c].string ELSE Block(c).string

-----------------------------------------------------------------------------
(* Specification                                                           *)

Init ==
  /\ script \in Script
  /\ todo = Listed /\ roots = RootsOf(Head(Listed)) /\ stack = << >> /\ toconsume = << >>
  /\ applied = [c \in Config |-> Nil]
  /\ phase = "collect"

Next ==
  \/ Call \/ LookUpName \/ RejectName \/ MissUsage \/ EnterUsage \/ Overflow
  \/ LeaveUsage \/ Return \/ Apply

Spec == Init /\ [][Next]_vars

\* One Lua thread: the program does not stop between two steps.
FairSpec == Spec /\ WF_vars(Next)

-----------------------------------------------------------------------------
(* Properties                                                              *)

\* The configurations that have their block
Walked == {c \in Config : applied[c] # Nil}

\* The configuration has its block, and the walk has ended.
Finished(c) == phase # "collect" /\ c \in Walked

\* The usage configurations that names stand for, asked for by b.
Uses(names, b) ==
  {Closest(m[1], m[2], b) :
     m \in UNION {Elements(FindGlobal(names[i])) : i \in 1..Len(names)}} \ {Nil}

UsesOf(u) == Uses(script.usageUses[u], u[3])

\* What can be reached from the set us by the function used.
Closure(us, used) ==
  LET Within[k \in 0..Cardinality(DOMAIN used)] ==
        IF k = 0 THEN us
        ELSE LET near == Within[k - 1] IN near \union UNION {used[u] : u \in near}
  IN  Within[Cardinality(DOMAIN used)]

Reach(us) == Closure(us, [u \in Usages(script) |-> UsesOf(u)])

OwnUsages(c) ==
  {Closest(c[1], u, c[2]) : u \in {s \in {Public, Private} : <<c[1], s>> \in script.usages}}
    \ {Nil}

Consumed(c) == Reach(Uses(script.uses[c], c[2]) \union OwnUsages(c))

\* A configuration receives what it uses and its project's own usages, and what
\* these use, to any depth; nothing else, and nothing twice.
ConsumesReachable ==
  \A c \in Config : Finished(c) =>
    Elements(applied[c]) = Consumed(c) /\ NoRepeats(applied[c])

\* "This block is inaccessible to be consumed by uses" (usage.md): a PRIVATE
\* usage is applied to its own project only, whatever uses what.
PrivateStaysHome ==
  \A c \in Walked : \A i \in 1..Len(applied[c]) :
    applied[c][i][2] = Private => applied[c][i][1] = c[1]

\* A usage's values come after those of the usages it uses, so that it can
\* override them, although the same usage is reached along several paths.
DependenciesFirst ==
  \A c \in Walked : \A i, j \in 1..Len(applied[c]) :
    applied[c][i] \in UsesOf(applied[c][j]) => i < j

AllConsumed == UNION {Consumed(c) : c \in Elements(Listed)}

Cyclic == LET all == AllConsumed IN \E u \in all : u \in Reach(UsesOf(u))

NamesSpecial ==
  \/ \E c \in Elements(Listed) : Elements(script.uses[c]) \intersect Special # {}
  \/ LET all == AllConsumed
     IN  \E u \in all : Elements(script.usageUses[u]) \intersect Special # {}

\* Usages that use each other are not resolved: baking fails on them, and on
\* a special name, and on nothing else.
FailsOnCyclesOnly ==
  /\ phase = "error" => Cyclic \/ NamesSpecial
  /\ phase = "done" => ~ Cyclic /\ ~ NamesSpecial

\* The descent ends, one way or the other.
Finishes == <>(phase # "collect")

\* The blocks of the usages as they were written, one after the other.
Written(c) == Concat([i \in 1..Len(applied[c]) |-> script.gives[applied[c][i]]])

LastGiven(blocks, default) ==
  LET set == {i \in 1..Len(blocks) : blocks[i].string # Nil}
  IN  IF set = {} THEN default
      ELSE blocks[CHOOSE i \in set : \A j \in set : j <= i].string

\* Usages that remove nothing have the effect of their statements written at
\* the end of the project, those of a used usage first, for fields not read
\* before ("This is the equivalent of defining configuration inside the
\* project directly", usage.md on PRIVATE), although values are merged per
\* usage, then across usages, then with the configuration's.
AppliedAsWritten ==
  \A c \in Config :
    (Finished(c) /\ \A i \in 1..Len(Written(c)) : Written(c)[i].removes = {}) =>
      /\ ListOf(c) =
           StoreList(script.own[c].list,
                     Concat([i \in 1..Len(Written(c)) |-> Written(c)[i].list]))
      /\ c \notin script.read =>
           StringOf(c) = LastGiven(Written(c), script.own[c].string)
=============================================================================
