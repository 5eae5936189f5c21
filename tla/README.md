# Premake, modelled in TLA+

Premake reads Lua scripts that describe workspaces and projects and writes
makefiles or IDE project files. This directory holds TLA+ models of the part
of Premake that is neither parsing nor printing: how the statements of a script
are stored, how the configurations of a project are computed from them
("baking"), and what is derived from the result before an exporter sees it.
The models are checked with TLC on small instances, and the safety properties of all of
them are also proved with TLAPS, for every size of input.

Paths below are relative to `src/src/base/` unless they say otherwise; `modules/` and
`host/` are `src/modules/` and `src/src/host/`, and the manual is `src/website/docs/`.

## The system

Premake is a sequential program: one Lua state in a small C host. Nothing runs
concurrently and nothing is persisted, so there are no crashes to recover from
and no messages to lose. What makes the code hard to test is *order*: scripts
may make statements in any order and come back to a container, filters test
values that other filters set, Lua tables are walked in an order that changes
from run to run, values are cached the first time they are read, and lists are
rewritten while something derived from them is kept.

The life of a run: the host starts Lua and loads Premake's own scripts
(`src/src/host/premake.c`); `_premake_main.lua` goes through its phases (locate
the user's script, load modules, prepare the action, run the script, check the
options, bake, validate, run the action). Running the script fills *containers*;
baking turns them into *contexts*; the action reads these and prints.

| Component | State it keeps | Operations | What is hard, what makes it correct |
|---|---|---|---|
| configuration sets (`configset.lua`) | a list of blocks: criteria, values, removes | addFilter, store, remove, fetch, compile | a fetch must give what the statements say in order, though values are gathered per block and removes come first |
| script statements and scope (`api.lua`) | the container in scope, one per class | project/workspace/..., filter, field calls, remove, reset | a container is left and re-entered; no filter may leak |
| field kinds (`field.lua`, `api.lua`) | accessors composed from the kind's name | store, merge, remove, compare, translate | lists are sets in order of last mention; keyed values merge differently inside a block and across blocks |
| criteria (`criteria.lua`, `host/criteria_matches.c`) | parsed patterns | new, matches | and/or/not, file terms |
| contexts (`context.lua`) | terms, cached values, a configuration set | addFilter, compile, fetchvalue | values cached while terms are still missing |
| baking (`oven.lua`, `container.lua`) | contexts for containers, configurations, files | container.bake, X.bake, bakeConfig, bakeFiles | filters on values that filters set; each container once, outer first |
| configuration lists and maps (`project.lua`, `oven.lua`) | `_cfglist`, `configs`, `configmap` | bakeConfigList, mapconfig, getconfig, eachconfig, findClosestMatch | pairs are mapped, taken apart, folded and mapped again |
| object directories (`oven.lua`) | `counts`, `cfg.objdir` | bakeObjDirs | four candidates may not be enough; `pairs()` order |
| object names (`oven.lua`, `fileconfig.lua`) | `bases`, `sequence` | uniqueSequence, addGeneratedFiles | numbered names collide with real ones; numbers go stale |
| usages (`usage.lua`, `oven.lua`) | usage containers and their configurations | applyUsages | recursion, cached values, dropped removes |
| dependencies (`project.lua`, `config.lua`, exporters) | a cache per mode | getdependencies, getlinks, getwholearchive, needsExplicitLink | three functions read the same names in three ways, one over all configurations; a library must be built before it is linked, and linked once |
| file configurations (`fileconfig.lua`) | terms of a file in a configuration | new, addconfig | terms of the project under those of the configuration |
| trees (`tree.lua`, `project.lua`) | children by position and by name, paths | getsourcetree, add, insert, remove, sort, trimroot | two indexes; folders are known by a path that trimming rewrites |
| validation (`validation.lua`) | none | validate | what the action may assume |
| actions, options (`action.lua`, `option.lua`) | current action, triggers, values | set, call, validate | fixed phases |
| scripts (`globals.lua`, `_foundation.lua`, `host/lua_auxlib.c`, `host/premake.c`) | included files, working directory, `_SCRIPT_DIR`, the external mark | include, includeexternal, dofile, require | a script runs once, in its own directory, whoever asks; errors and pcall |
| token expansion (`detoken.lua`), paths, os, io, http, zip, json, tools | almost none | | pure functions or I/O |
| exporters (`src/modules/*`) | none | | read what was baked and print it |

`PROJECT.json` lists every component with what is modelled of it, and under
"hazards" what in this code a test would hardly reach, each with its line and
the properties about it.

Interactions: the script calls `api` functions, which store into the
configuration set of the container in scope. `oven` wraps each set in a
context, adds terms, fetches and compiles through `context` and `configset`,
which ask `criteria`; reading any field of a context goes back to its
configuration set and fills the context's cache. Everything that loops over the
configurations of a project, in `oven` and in the exporters, goes through
`project.eachconfig`, which goes through the configuration map.

## Modules

| Module | Models | Checked by | Proofs |
|---|---|---|---|
| `Scripts` | which file a name means, and in what state scripts run | `Scripts.cfg` | `ScriptsProofs` |
| `ConfigSet` | what a script's statements store, and what a field's value is | `ConfigSet.cfg` | `ConfigurationProofs` |
| `Criteria` | a filter: how it is parsed, which configurations and files it matches | `Criteria.cfg` | `FilesProofs` |
| `BakeConfig` | the staged terms of a project, a configuration and a file | `BakeConfig.cfg` | `BakingProofs` |
| `ConfigMap` | one project's configurations and the map from the workspace's | `ConfigMap.cfg`, `ConfigMapTuple.cfg` | `BakingProofs` |
| `Usages` | which usages each configuration receives, and what they do to it | `Usages.cfg` | `UsagesProofs` |
| `ListField` | how a list takes values, and what is in it; used by `ConfigSet`, `ConfigMap`, `Usages` and `Links` | with these | in `Induction` |
| `ObjDirs` | the object directories of a workspace | `ObjDirs.cfg` | `ObjDirsProofs` |
| `ObjNames` | what numbering promises, as an abstract specification | with `ObjSequence` | `ObjSequenceProofs` |
| `ObjSequence` | the object names of a project; implements `ObjNames` | `ObjSequence.cfg` | `ObjSequenceProofs` |
| `SourceTree` | the tree of folders and files that IDEs show | `SourceTree.cfg` | `FilesProofs` |
| `Links` | dependencies, links and the build that follows from them | `Links.cfg`, `LinksOrder.cfg` | `ConfigurationProofs` |
| `Induction` | induction, recursion and walks of sequences, for the proofs | – | itself |

`MCx` instantiates module `x`; each module keeps, next to the definitions they
vary, the mutated forms ("Mutant of ...") that show each property to depend on
the code.

The modules share an interface rather than variables. `BakeConfig.blocks` is
the sequence that `ConfigSet.Compile` returns with nothing tested; what
`BakeConfig` computes is one entry of `ConfigMap.configs`; `ConfigMap.visited`
is the order of configurations that `ObjSequence.ConfigList` and
`ObjDirs.listed` take; `Links` takes the configurations that `ConfigMap` gives, and
`Criteria` the terms that `BakeConfig` gives a file. `Scripts` decides which container is
current when a statement of `ConfigSet` is made.

### Scripts

State: the script trees that exist (`program`, never changes), the stack of scripts
that run with what `chunk_wrapper` will put back, `_SCRIPT`, `_SCRIPT_DIR` and the working
directory, `io._includedFiles`, the flag of `includeexternal`, `api.scope` and the marks of
containers. A body is a sequence of statements; `IncludeNew`, `IncludeAgain`,
`IncludeExternal`, `DoFile`, their failing forms, `Workspace`, `Project`, `Group` and
`RaiseError` are one statement each, `Return` is the end of a chunk. The three ways to find a
file are `FindProjectScript` (globals.lua), `Locate` (os_locate.c) and `LoadFile`
(lua_auxlib.c). An error abandons scripts up to the innermost pcall, and restores nothing.

The phases of the host in which scripts run are actions too. `RunCore` starts the boot script
(`run_premake_main`), `PrepareEnvironment` makes the search path longer. `m.preloadModules`
takes one module of the manifest (`pending`) at a time: `PreloadModule` includes the module's
`_preload` script, wherever `os.locate` finds it, `PreloadAgain` finds it included already, and
`RequireModule` loads a module that has none, through `m.moduleLoader`. `RunSystemScript` and
`RunUserScript` follow, then `Finish`.

`RunsOnce`, `KnowsItsPlace`, `ExternalIsScoped` and `MarksFollowScripts` say that a script
does not depend on who includes it: it runs once, in its directory, and what it creates is
marked as it should be. Each names what it excepts: a name with ".." that is found on the
search path (`RunsOnce`; this is a finding), and the rest of a script that caught an error of
another. `MarksFollowScripts` takes what the code touches for touched by the script, so that
it does not see that a group marks another container, which is a finding as well.

`CoreFromOnePlace` is about release builds that were not given `--scripts`. Their core
scripts run from the executable, whatever files lie about, if the executable holds what the
boot script reaches with `dofile` (`OwnCore`). For modules this is true under a condition only:
a module includes its `_preload` script or its parts through `os.locate` and
`findProjectScript`, which look at the disk first. So the property says when modules are safe:
all that they ask for is embedded, and no file has a name they or the host ask for on the
way (`OwnModules`). A file `modules/vstudio/_preload.lua` or `vs2005.lua` in the directory
where Premake is started does take the place of the module's own.

Bounds: 18463 sets of scripts: a main script of a few statements, a subdirectory, a file of the
same name beside the main script and on the search path, scripts that fail, do not compile or
include each other, core scripts and modules in the executable with files of the same names on
disk, and a system script. `MaxDepth = 5` stands for the C stack: a script tree of three files
has chains of three, so that five calls are reached by repetition only.

### ConfigSet

State: `scope` is `api.scope.current` and `blocks[c]` the blocks of container
`c`, from the global one down (`ChainOf`). Actions are the statements of a
script: a container named for the first time (`NewContainer`) or again
(`SetContainer`, which opens a block without criteria), `filter`, a call of a
list field or of a string field, and `removedefines`. A container can be named
only from a scope that contains its parent. `FetchMerged`, `FetchDirect` and
`Compile` are the functions of `configset.lua`; their recursion over parents
is a recursive function over the chain. Criteria are abstract: `Holds` gives the
contexts that match them. Values are model values, and a remove pattern is the
set of values it matches (case folding and wildcards are in `Selects`).

`log` is a history variable: the statements, as made. `FetchIsReplay` compares
every fetch with the replay of the statements that match, `CompiledAgrees` a
fetch from a compiled set with one from the sets. `StatementsAreScoped` says
what a statement may change: only fetches for the container in scope and those
inside it, in contexts the active filter matches.

Bounds: `MaxStatements = 5` over four containers (two of them siblings), two
values, one wildcard, one filter that only one of two contexts matches. Five
statements are enough to leave a container under a filter, come back to it and
remove what was set; six were tried once and passed too.

### BakeConfig

State: the blocks a script leaves (`blocks`, in the order of a compiled set),
the terms so far, the context's cache (`cached`, `held`) and the compiled set
(`applied`). `RunStage` is one "ctx.f = ctx.f or default; addFilter" of
`oven.bakeConfig`; the stages are a constant, in the code's order. Before, the project
has gone through stages of its own (`RunProjectStage`), without a configuration's name and
with tags before the kind. `BakeFile` is `fileconfig.addconfig`: a file is tested with the
terms of the project under those of the configuration. `ReadField`
is any later read, in any order. A string field without value is not cached, a
list always is: that difference decides what a later read finds.

`AppliedIffTrue`: the blocks that apply are those whose filters are true of the
configuration as it reports itself. It excepts one case (`LateString`), a kind set
under a filter on tags, which is among the findings. `WellStagedIsDeclarative` says which
scripts are safe: those that set a staged field only under filters on fields
resolved before it. `FilesSeeTheirConfiguration`: settings for a file are those whose
filter is true of the configuration, if no filter on a field that the project resolves too
has a "not", no configuration overrides a string of the project, and the defaults of the
project are among those of the configuration. No condition can be dropped: what only the
project has is tested for files of all its configurations, which is among the findings as
well. `ReadsAreStable`: after compiling, reads change nothing.

Bounds: all scripts of two settings, those of three whose first is not filtered, and
those of two and a third for a file, over ten criteria (with "not", "or" and "and", on
each stage and on the configuration's name) and six settings. Two blocks are needed for
one to decide the other's filter, the third is for a value that both replace, or for what
the two make of a file. The instance has four of the
code's stages (system, toolset, kind, tags): architecture and sharedlibtype are
like toolset without `--cc`, and like kind.

### Criteria

One filter, from the text to its verdicts. `ParseTerm` and `RejectTerm` are
`criteria.new`, a term at a time: a prefix holds for the words after it, until the
term ends, and "not" may come before and after it. Then `criteria_matches` runs
twice, for a configuration (`subject = "config"`) and for a file of it (`"file"`,
the same terms and a file name): one step per word, which either decides its pattern
(`WordTrue`), passes on to the next word (`WordFalse`) or fails the filter
(`PatternFalse`). The C flag `fileMatched` is a variable. `Filter` holds the
filters, in the style of `filter` and in that of `configuration` (`unprefixed`).

`ConfigIsFormula` compares the verdict on a configuration with the filter read as a
formula, straight from its words as they are written. About files the documents
say little; `FileVerdictSound` states the direction that always holds. Because the
test of a pattern stops at its first true word, the order of words matters:
`FilesFirstComplete` is what holds when the words about files come first (nothing is
missed), `FilesLastAppliedOnce` when they come last (no block applies both to a
configuration and, once more, to its files).

Bounds: filters of one term of up to three words, or two terms of up to two, over
nine words with and without prefix, "not" (before, after and around the prefix),
wildcard and an invalid prefix, and five words of the older style; four contexts. Two
words decide order, the third is for a prefix that is carried twice.

### ConfigMap

State: the pairs `bakeConfigList` works on, its result `cfglist`, the baked
configurations by key, and what `eachconfig` returned. `MapConfig` is
`project.mapconfig`, with its comparison of pattern and pair at each position.
Keys are concatenations of names, as in the code, so names are sequences and
"Debugx" + "32" clashes with "Debug" + "x32". The error of indexing a table
with nil is the phase "error".

`OwnPairsResolve` and `ClosestIsFound`: every pair of the project, and every
pair a workspace may ask for, finds a configuration. They assume that the maps
send all pairs to pairs of one shape (`OneShape`): with a map that gives
some pairs a platform and others none, a lookup fails and `eachconfig` raises
an error, which was reproduced with the program. `OwnPairsResolve` also assumes that the
action rejects no pair (`unsupported = {}`), as a rejected pair is not baked, and may be looked
up. That crash is the known behaviour: the property says for which maps it does not happen.
`PerNameMapsVisitAll` says
which maps leave the loop of the exporters complete and in order: maps from
name to name no target of which is a source, which is how the manual uses them.
`OrderIrrelevant`: then the order of `pairs()` is irrelevant too, unless one table has a
name and a pattern of this one name side by side (`NamesOnce`), which the keys of a table allow.

Bounds: five choices of configurations and platforms, all sequences of at most
two of twelve map entries, in one `configmap` call or two, and an action that
rejects some pairs or none.

### Usages

State: the configurations still to be walked (`todo`), the calls of
`collectUsages` that run (`stack`, one frame per call: names and matches left, and
the local list `uses`), the calls still to be made for the configuration at hand
(`roots`: itself, then its project's PUBLIC and PRIVATE usages), `toconsume`, and
what each finished configuration collected (`applied`), from which `Block` makes the block
that is appended. `FindGlobal` is `usage.findglobal`, workspace by
workspace; `Closest` stands for `findClosestMatch`, whose platforms and maps are
in `ConfigMap`. Every script is a value of the constant `Script`: projects,
names, usages, what uses what, and what the blocks hold. Baked usage containers are
taken as given.

`ConsumesReachable`: a configuration is given exactly what can be reached from
what it uses and from its project's own usages. `PrivateStaysHome`: a
PRIVATE usage reaches no other project, along no path. `DependenciesFirst`: a
usage comes after those it uses, even when it is reached along several paths of
which only the first mention stays. `FailsOnCyclesOnly`: the descent, which does not
mark what it visits, fails on cycles and on special names, and on nothing else;
`Finishes`: it ends, one way or the other. `AppliedAsWritten`: merged per usage,
then across usages, then with the configuration, values come out as if the blocks
were written at the end of the project. It excepts what the code leaves
out: removes in a usage, and fields read before usages are applied. Both were
tried with the program: `removedefines` and `targetname` in a PRIVATE usage have no
effect.

Bounds: three projects in one workspace or two, up to seven usages, 648 choices
of who uses whom, direct and indirect cycles among them. `MaxDepth = 13` stands for Lua's
stack, which has room for hundreds of thousands of calls. `ScriptAssumption` asks what a
real script meets by far: that the stack is deeper than there are configurations of usages
(at most twelve here), which a chain without a cycle cannot exceed.

### ObjDirs

State: the two tables of `bakeObjDirs`, and `objdir` by configuration. The
second pass takes the configurations in any order. A path is a sequence of
names below the root, after `path.getabsolute`.

`ObjDirsDistinct`: a configuration with a candidate of its own shares its
directory with nobody, not even with those that keep what they set.
`OrderIndependent`: the outcome is a function of the input. `RegularAllUnique`:
if no objdir lies inside another and no platform has a build configuration's
name, all directories differ.

Bounds: three projects, five configurations, four places for their objdir, no
platform, one, or one named like a configuration, with and without "!". Three
projects are the smallest number for which a configuration may be left without
a directory.

### ObjSequence

State: the file list, the file configurations (`member`), the tables `bases` and
`sequence`, and the position of the loop. The `while true` of `uniqueSequence` is
one step per attempt, so that its termination is a property. The baking of the
generated files and the second numbering are phases. Base names are sequences
of characters, so that a number appended to one can give another.

`UniqueObjNames` holds at every step of a pass, except that while generated files
are being added the numbers are stale; `NumberedOnlyOnCollision` and `Finishes` are about
the end. `NamesEveryFile` is refinement: the abstract specification `ObjNames` knows only
the names given so far. It gives one at a time, any that is free, the plain one if that is
free, and may take all back when files join; it is done when every file has one. The names
are those of the positions visited; attempts are stutters.

Fairness: `FairSpec`, here and in `Usages`, is weak fairness of `Next`: one Lua
thread, which runs until the loop ends. No other specification needs fairness.

Bounds: four native files, a header and a library, with base names h, h1, h11
and h2 in every combination, two configurations, a file that is missing from
one, one excluded from the build, and three kinds of build outputs.

### SourceTree

State: the nodes in the order they are made, each with its children and its index by
name, the files not placed yet, and whether trimming removed anything. `AddFile` and
`AddGenerated` are one call of `tree.add` and `tree.insert` each, `TrimRoot` and `DropDotDot`
one turn of the loops of `trimroot`, `Finish` its rewriting of paths. Paths are sequences
of names, `Relative` is `path.getrelative`, and an entry of vpaths is the set of files it
matches with the part before its first star.

`PlacedByVirtualPath`: every file is in the tree once, in the folders of its virtual path, less
some leading ones that are the same for all. `FoldersInsideDiffer`: no two folders have one
path, by which the exporters know them, if files are inside the project's location or shown
there; outside it they may (a finding). `OnlyNeededFolders` says which leading folders are
trimmed, where files are shown inside the location. `tree.add` gives the flag against trimming
only to folders that it makes, so the first file in a folder decides, in the order of virtual
paths (`FirstIn`). No folder is gone that its first file has by virtue of vpaths (`AskedFor`),
and a folder that is left alone at the top is such a one (`MayBeAskedFor`). A folder that vpaths
ask for only by a later file *is* trimmed: files `prj/x/a` and `../x/c`, the second shown as
`x/c`, lose the folder x, against the comment of `getsourcetree`; this is a finding. Without
vpaths no folder ever stands alone at the top, inside or outside the location. The three except
projects that show a file where a folder is (`ShownApart`): a disk has no such folder, but
vpaths can make one, and then `tree.add`, which looks for a node of that name and path, may put
the folder's files under the node of the file.

Bounds: all choices of one to four of eight files inside the project, beside it, above it and
elsewhere, two locations, eight lists of vpaths (one makes a folder with a file's name), none,
one or all but one of them generated. Folders are at most three deep, so that trimming stops at
each level and ".." occurs twice. The order of children, which only exporters sort, is left out.

### Links

State: what each configuration of three projects links, depends on and links whole
(`wks`), the cache of `getdependencies`, what the written files say (`rule`, `line`), and the
build. `GetLinks`, `GetWholeArchive`, `GetDependencies` and `NeedsExplicitLink` are the
functions; the workspace's file and each project's are one action, with a variant for
makefiles and for Visual Studio. What a project's file says of its libraries depends on its
language: C++ projects list libraries and archives (`MakefileLine`, `ProjectLine`), .NET
projects references (`NetMakefileLine`, `NetProjectLine`). `FailProject` is the error of
`getwholearchive`, which .NET projects do not call (`Stops`). Static libraries do under Visual
Studio, where they have a librarian that is given libraries, but no references they link. The build
is external: make or Visual Studio, one project at a time, each after those its rule
names, in any order that this leaves.

`LibrariesAreBuilt`: no project is linked before a library on its line is built.
`LinesMeanLinks`: a line has the projects that the configuration asks for and that can be
linked, though a Visual Studio project leaves them to references which do not depend on the
configuration. It is about C++ projects, under Visual Studio not about static libraries: the
references of a .NET project are those of all its configurations. `LinkedOnce`: nothing is on a
makefile's line twice, also when it is linked whole. They except projects that link themselves
(`NotItself`), links with a decorator (`Undecorated`) and projects linked whole under another
name than the one they are linked by (`ArchivesLinked`); the first two are findings. The third
excepts, among others, `wholearchive { "Lib:static" }`: `getlinks` leaves the link of that name
out, and `getwholearchive`, which does not strip decorators, gives the linker a file
`Lib:static`.

Bounds: 9600 workspaces and two exporters; two configurations, of which a project may lack
one; names in another spelling, decorated, of system libraries and of assemblies; native,
mixed and managed projects; cycles. Three projects are the smallest number for which a
dependency over all configurations and the links of one may have equally many members and
differ.

## Runs

| Run | Expected | Shows |
|---|---|---|
| `objsequence` | pass | unique object names, as `ObjNames` asks; numbering ends |
| `configmap` | pass | which maps keep a project's pairs resolvable and complete |
| `configmap_tuple` | violation of `EveryConfigVisited` | `eachconfig` stops early after a map from pair to pair |
| `objdirs` | pass | distinct directories, whatever the order |
| `configset` | pass | fetches are the replay of the script |
| `criteria` | pass | which configurations and files a filter matches |
| `bakeconfig` | pass | filters and what they decide agree, for configurations and files |
| `usages` | pass | what is consumed, in which order, with which effect; the descent ends |
| `scripts` | pass | scripts run once, in their place, and mark what they create |
| `sourcetree` | pass | files are where their virtual paths say, folders are known by their paths |
| `links` | pass | what is linked is asked for, built before, and given once |
| `links_order` | violation of `LinkingOrdersTheBuild` | a decorated link orders nothing |

Each violation is a disagreement between the code and its comments or manual; the
counterexample is the run's trace. Each was reproduced with the program: a project
makefile that lacks a configuration the workspace makefile asks for, and a workspace
makefile without a dependency on the library a project links.

`PROJECT.json` lists further disagreements under "findings", without a run of their own,
each found while modelling and reproduced with the program: a configuration without object
directory; a kind under a filter on tags; settings for a file in a configuration that
does not match; a project that hides usages of its name; a group in an external script that
marks another project; names on the search path that include does not recognise; what an
error caught by pcall leaves behind; a project that links itself, and the count of
references this upsets; a library linked whole that lacks a configuration; two folders with
one path; the flag of virtual folders; a group and a project of one name. The properties
above say where they make an exception for one of these.

Every specification ends in a final state, so deadlock is not checked.

## Proofs

`ObjSequenceProofs` proves `TypeOK`, `UniqueObjNames` and
`NumberedOnlyOnCollision`, for any files, configurations and generated files.
`UniqueObjNames` is not inductive: that a numbered name is free says nothing of
names given out earlier unless the table knows them. The invariant `IInv` says
that for each key the table `bases` has exactly the object names of the files
visited and that each is held by one file; every step that assigns a name adds one
entry (`NewName`), a retry adds none, and both keep the entries there are. A
second part, about the file list and the positions that were visited, carries
the numbers over `addGeneratedFiles` into the second pass. The arithmetic
of decimal numbers is not needed: only that number 0 leaves a name as it is.

The same module proves that `ObjSequence` implements `ObjNames` (`NumberingNames`), with the
invariant above. A position that is numbered is a `Choose`: by the invariant the name is
free, and number 0, which is the plain name, was tried first. A generated file is a `Grow`,
possible because the first pass has named all or, before a second pass, the names have been
taken back; the end is `Finish`, where every pair has a name. All other steps stutter.

`ObjDirsProofs` proves `TypeOK`, `OrderIndependent`, `ObjDirsDistinct` and
`RegularAllUnique`. Its invariant says that `counts` has as its domain the
candidates of the configurations counted so far, that a directory has count one
exactly when a single one of them has it as a candidate, and that a
configuration the second pass has left is settled. As `counts` does not change
in that pass, neither does what is settled, in whatever order. `RegularAllUnique`
rests on `SameCut`: two ways to cut a path in two are the same unless one first
part is a proper prefix of the other.

The first part of `FilesProofs` proves `TypeOK` and the four properties of `Criteria`. Its
invariant says what is known when the test stands at word j of pattern i: the patterns before
are true, the words before j are false, and `fileMatched` tells whether the first true word of
some pattern before matched the file. The properties about files follow, with the least true
word of a pattern (`LeastNat`) for `FilesFirstComplete`. `ConfigIsFormula` needs more: the
prefix that `criteria.new` carries from word to word (a recursive function, `WordPrefixes`) is
the last prefix written (`WrittenPrefix`, which a reader of the script sees), by induction on
the words of a term, and an invariant that pattern t says what term t does.

Its second part proves `PlacedByVirtualPath`, `FoldersInsideDiffer` and `OnlyNeededFolders`, for
any files, locations, vpaths and generated files, at any depth. None is inductive: the first
and the third are about the end, the second about paths that are wrong while `trimroot` runs.
`TreeInv` says three things more. The nodes are a tree in the order they were made
(`Rising`, `Tree`), which gives induction over nodes, and with it that `Chain` and `InTree`,
recursive functions, follow their equations (`ChainStep`, `InTreeKept`). While the tree is
made (`WhileMade`), a folder's path is the beginning of some file's virtual folder, its
chain is that path, and the index finds every child by its name; `tree.add`, a recursion
over the levels of a path, keeps this at each level (`AddFolderBuilt`, `AddLevels`). While it
is trimmed (`WhereShown`), the chain of each file is its virtual path without k names that
all paths share and then up to m "..". A turn of the first loop raises k: the node it takes
away is the only child of the root, so its name is the next one of every path
(`LiftCommon`). A turn of the second raises m: no other child of the root is a "..", by the
invariant, so just the paths with a ".." next lose one (`LiftDots`). For
`FoldersInsideDiffer`, siblings that are folders have different names where no folder is
outside (`OneOfAName`), which trimming keeps, so that chains tell folders apart
(`UniqueChain`), and after `Finish` paths are chains. For `OnlyNeededFolders` a second
invariant, `OpenInv`, says who made each folder (`Opened`): a listed file that no other listed
file in the folder comes before, or a generated one where there is none, and the folder's
flag is that file's. As files enter in the order of their virtual paths, this holds when a folder
is made and stays true; the folders that the first loop took away had the flag for trimming
(`GoneOpened`), those that are left keep theirs (`LeftOpened`). The first loop ends only when no
folder is alone at the top that may go, and without vpaths the second leaves none alone
either (`LiftAlone`). TLC checked `TreeInv` on the instance of the run before it was proved.

`ScriptsProofs` proves `KnowsItsPlace`, `RunsOnce`, `ExternalIsScoped`, `MarksFollowScripts`
and `CoreFromOnePlace`. A step does one of six things to the stack (nothing, the
next statement, a call, a return, an error caught by a script further out, an error that
ends the program); lemmas say what each does to the entries that stay. The
invariant is that what each entry saved is the place of the entry below it, unless that one
has caught an error: then a return restores exactly what the caller had. `RunsOnce` needs
that the count of a file is one only if a name of it is recorded. For `CoreFromOnePlace` the
working directory is where Premake was started, as embedded scripts do not leave it
(`HostPlace`), and a script of the executable finds what it asks for: by `dofile` next to
itself (`LoadFile` looks at embedded scripts first), by `include` and by `os.locate` after a
search of the disk that finds nothing (`LocatesOwn`, `IncludesOwn`, `ModulesOwn`).

The first part of `BakingProofs` proves `AppliedIffTrue`, `WellStagedIsDeclarative`, `ReadsAreStable` and
`FilesSeeTheirConfiguration`, for any stages and any script. A stage changes the terms of
its own field only. The invariant uses this to describe the past in terms of the present:
`TermsBefore(j)` are the terms stage j saw, recovered from those of now, and `Settled(j)`
says that the field of stage j has the terms, and the cache the value, that this stage made
of them. For `AppliedIffTrue` nothing else is needed: when the set is compiled all stages
are settled, and a string without value is the exception the property names. For
`WellStagedIsDeclarative`, a filter on earlier stages has the same verdict in
`TermsBefore(j)` as in the final terms. For files, a positive filter that holds in the merged
terms holds in the configuration's, by induction over the stages of the project: each gave
the project a value that the configuration has too.

Its second part proves the four properties of `ConfigMap`, for any lists, any maps and, where the
property does not exclude them, any rejected pairs. `MapIInv` says that the pairs mapped so
far are what `MapConfig` makes of the project's own, that the names collected are those of the
pairs visited, and that what was baked is stored under its key, by itself or by a later pair
with the same one. `OwnPairsResolve` needs it with `FoldFacts`, what `table.fold` returns: the
mapped pair is in the product of the collected names, and there something has its key.
`ClosestIsFound` reduces to it, as the names it falls back on are the project's own. The
other two properties are about maps from name to name: by induction on the entries
(`PerNameMapping`), of each part of a pair the first entry for it decides. So a mapped name is mapped no
further (`MappedIsFinal`): the second mapping of `getconfig` changes no listed pair, which
finds itself, and the invariant says that the iterator is where the list is. And a
permutation of the entries inside their tables has the same first entries (`Reordering`), as it
misses none of them, by the pigeonhole principle.

The first part of `ConfigurationProofs` proves `FetchIsReplay`, `CompiledAgrees` and
`StatementsAreScoped`, for any script over any tree of containers. `FetchIsReplay` compares
nested walks, of the chain of containers, of the blocks of each, of the values of each block,
with one walk of a log. Its invariant `BlocksSayTheLog` is about each container alone: merged
into *any* list, the blocks that match give what the replay of its log gives, and the last
string among them is that of the log. A statement appends to the log and either to the last
block, whose filter is the active one (`CurrentBlock`), or to a new block; `Effect` says that
both ways a fetch changes as the replay does. That the removes of a block come before its values
is why a remove has to open a block, and where the proof uses that it does. The chain is then an
induction on its length.

Its second part proves `LinesMeanLinks`, `LinkedOnce` and `LibrariesAreBuilt`, for any workspace
and any order of the build. `LinksIInv` says that a list that `getdependencies` has kept is
what it would compute again (`Cache`), so that it does not matter in which order and in which
modes the exporters ask; that a file once written has the lines (`LineOf`) and the rule
(`Ordered`) that its project calls for; and that for makefiles the rules of all projects are
there before the first of these files. What the lines mean is then a question about names.
`NamedAreMeant`: the links that are not dropped and the archives together are the projects
meant, as the comparison of names that drops a link and the lookup that adds the archive agree
under `ArchivesLinked`. `ReferencesAreMeant` is about projects left to references: `getdependencies`
finds all that a configuration links, both lists have no repetition, so if they are equally
long they have the same projects (`NoRepeatsCardinality`); this is why
`needsExplicitLink` may count instead of compare. `LibrariesAreBuilt` needs that every
library of a line is found under one of the names that the rule was made from
(`LinksAreRead`). A project is built when its rule allows it, or when no project can be built;
the second cannot be while the rules have no cycle, since among those not yet built
`Acyclic` yields one that waits for none of them (`RuleIsBuilt`).

`UsagesProofs` proves `ConsumesReachable`, `PrivateStaysHome`, `DependenciesFirst`,
`FailsOnCyclesOnly` and `AppliedAsWritten`, for any finite set of usages and whatever they
use. `ClosureFacts` says that `Closure`, which the properties speak of, is the least closed
set. The invariant is about the calls that run: what a call has collected, with what its
subject's names and matches still stand for, is all that its subject uses (`CallInv`), it
collects only what can be reached, each list has what a usage uses before it (`Sound`), and
the subject of a call is reached from those of all calls below it (`StackInv`).
From a sound list `Unique` makes a sound list; a sound list that has what its subject uses is
closed, hence the closure; and it has no cycle, since a least position would have one before
it. That is `ConsumesReachable`, `DependenciesFirst` and half of `FailsOnCyclesOnly`. For the
other half: if the stack is full there are more subjects than usages, so that two are the
same, and this one is reached from itself. `AppliedAsWritten` is again about walks: storing
lists one by one, merged lists, or one concatenated list is the same.

`Induction` holds what these need: induction on 0..n and on the length of sequences, stated
about a set instead of a predicate; the existence and uniqueness of functions defined by
recursion, from the well-foundedness of inclusion of finite sets; walks of a sequence
(`Folds`, `FoldedStep`), by which an operator that walks a sequence gets its two equations,
for the empty sequence and for one more item; and the facts about `ListField` that follow,
among them `StoreListConcat` and `StoreListMerges`. With them the recursive functions of the
models can be unfolded in proofs.

The proofs use the assumptions on the constants named in the modules, which say
what `oven.bakeFiles` and the script leave: lists without repetition, markers (nil, the
project's key) that are not values, chains of containers that begin with the global one,
stages that resolve each field once, a stack deeper than the usages of a script, maps
that are visited one `configmap` call after the other, list fields that are kept like sets,
projects with different names (without case), absolute paths of files that are not above the
project's location. TLC
evaluates each of them on its instance.

Only model-checked: the two liveness properties (`Finishes` of `ObjSequence` and of
`Usages`), as the provers have no rule for fairness; and the findings, which are runs that
end in a counterexample.

## Not modelled

The models cover a small share of the repository's lines, for two reasons: most of them are
vendored C code (mbedtls, curl, zlib, libzip, Lua, luasocket), and most of Premake's own
are exporters, tables of compiler flags and registrations of fields, which have neither
state nor order.

- Exporters, toolsets, file output: they print. Of these only links and dependencies are
  modelled (`Links`); the rest relies on what the models establish of `eachconfig`, object
  names, directories and trees.
- Token expansion: tokens are Lua expressions evaluated in the script's
  environment. Values are taken as expanded.
- Path functions other than getrelative and getabsolute, wildcards and case folding: pure
  functions, which the models take as given (`Selects`, `Holds`, `Lower`).
- The tree of groups (`workspace.lua`), and `tree.remove`, `sort` and `traverse`: no state
  beyond what `SourceTree` has, but for the shared node that is among the findings.
- The order of baking and validation: fixed loops over containers; each reads one
  container and ends the program or does nothing.
- Keyed and nested field kinds: their merge is that of the kind inside.
- `require` from scripts and from the phases after baking, the module registry and
  `override`: they use the loader of `Scripts` or keep a table of functions. The empty
  `filter` after the system script only changes the filter in scope.
- The operating system wrappers, downloads and archives: I/O.

## Plan

To be modelled: keyed kinds above `ConfigSet`, and the tree of groups beside `SourceTree`.
