------------------------------- MODULE Links -------------------------------
(***************************************************************************)
(* Linking against other projects of a workspace, from the names in links  *)
(* to the build.                                                           *)
(*                                                                         *)
(* Three functions read the same names.  project.getdependencies lists the *)
(* projects a project depends on, over all its configurations: the order   *)
(* of the build.  config.getlinks lists what one configuration links, and  *)
(* config.getwholearchive the libraries to be linked whole, which getlinks *)
(* is then told to leave out.  The makefiles name the libraries of each    *)
(* configuration; Visual Studio projects leave them to the references of   *)
(* the project, unless vstudio.needsExplicitLink counts differently many   *)
(* of these than the configuration links.                                  *)
(*                                                                         *)
(* The build is external: make, or Visual Studio, which builds projects in *)
(* any order, each after those its rule names.  Names are compared without *)
(* case, and may carry a decorator (":static").  The mapping of one        *)
(* project's configurations to another's is that of ConfigMap; here they   *)
(* have the same names.  implicitlink is not set.                          *)
(***************************************************************************)
EXTENDS Naturals, Sequences, FiniteSets, ListField

CONSTANTS
  Projects,    \* the projects of the workspace, sorted by name
  Config,      \* the names of configurations
  Link,        \* what scripts put in links, dependson and wholearchive
  NameOf,      \* NameOf[p]: project p's name
  Lower,       \* Lower[l]: link l in lower case
  Bare,        \* Bare[l]: l without its decorator
  Assembly,    \* the links with the extension ".dll"
  None,        \* no project; nothing computed yet
  Workspace    \* the workspaces considered: see WorkspaceAssumption

Project == {Projects[i] : i \in 1..Len(Projects)}
Kind    == {"ConsoleApp", "SharedLib", "StaticLib"}
Mode    == {"all", "linkOnly", "dependOnly"}

ASSUME NameAssumption ==
  /\ Projects \in Seq(Project)
  /\ Project \intersect Link = {} /\ None \notin Project \union Link
  /\ NameOf \in [Project -> Link] /\ Bare \in [Link -> Link] /\ DOMAIN Lower = Link
  /\ \A p, q \in Project : Lower[NameOf[p]] = Lower[NameOf[q]] => p = q
  /\ \A l \in Link : Bare[Bare[l]] = Bare[l]

\* configs is the order of project.eachconfig; the others are list fields.
ASSUME WorkspaceAssumption == \A w \in Workspace :
  /\ w.configs \in [Project -> Seq(Config)]
  /\ w.type \in [Project -> [kind : Kind, dotnet : BOOLEAN, clr : {"Off", "On", "Pure"}]]
  /\ \A field \in {w.links, w.dependson, w.wholearchive} :
       /\ field \in [Project -> [Config -> Seq(Link)]]
       /\ \A p \in Project : \A c \in Config : NoRepeats(field[p][c])

VARIABLES
  wks,       \* the workspace (never changes): each project's configurations,
             \* type, and lists of names
  exporter,  \* "gmake" or "vstudio"
  phase,     \* "workspace", "projects", "build" or "error"
  todo,      \* the projects whose files are not written yet
  dependencies, \* prj.dependencies: the lists by mode, once computed
  rule,      \* rule[p]: the projects built before p, as the files written say
  line,      \* line[p][c]: the libraries given to the linker, and those whole
  goal,      \* the configuration that is built
  built      \* the projects built

linksVars == <<wks, exporter, phase, todo, dependencies, rule, line, goal, built>>

-----------------------------------------------------------------------------
(* Names and compatibility                                                 *)

\* workspace.findproject
FindProject(l) ==
  LET found == {p \in Project : Lower[NameOf[p]] = Lower[l]}
  IN  IF found = {} THEN None ELSE CHOOSE p \in found : TRUE

Net(p)     == wks.type[p].dotnet
Mixed(p)   == ~ Net(p) /\ wks.type[p].clr = "On"
Managed(p) == Net(p) \/ wks.type[p].clr # "Off"

\* config.canLink, for a configuration of another project
CanLink(p, q) ==
  /\ wks.type[q].kind # "ConsoleApp"
  /\ Mixed(p) \/ Mixed(q) \/ (Managed(p) <=> Managed(q))

\* config.canLink, for a library that is not a project
CanLinkSystem(p, l) == Net(p) \/ l \notin Assembly

-----------------------------------------------------------------------------
(* What a configuration links                                              *)

HasConfig(p, c) == c \in Elements(wks.configs[p])

\* The project that a link names, decorated or not
Sibling(l) == FindProject(Bare[l])

\* Lists skip what is not found, and what they have already.
Distinct(items) == Unique(Without(items, {None}))

\* What a link stands for: a project, a library, or nothing that can be linked.
\* A project itself is not excepted.
Item(p, c, kind, l) ==
  LET q == Sibling(l)
      linked == IF q = None THEN kind \in {"system", "all"} /\ CanLinkSystem(p, l)
                ELSE /\ kind # "system" /\ HasConfig(q, c)
                     /\ kind = "dependencies" \/ CanLink(p, q)
  IN  IF ~ linked THEN None ELSE IF q = None THEN l ELSE q

Items(p, c, kind, links) == Distinct([i \in 1..Len(links) |-> Item(p, c, kind, links[i])])

LinkedWhole(p, c) ==
  {l \in Link : \E w \in Elements(wks.wholearchive[p][c]) : w = Bare[l] \/ w = l}

\* Mutant of GetLinks: the libraries linked whole are left out by their
\* undecorated names only.
GetLinksByName(p, c, kind, drop) ==
  Items(p, c, kind,
        Without(wks.links[p][c],
                IF drop /\ kind # "dependencies" THEN Elements(wks.wholearchive[p][c]) ELSE {}))

\* config.getlinks; drop leaves out the libraries linked whole.
GetLinks(p, c, kind, drop) ==
  Items(p, c, kind,
        Without(wks.links[p][c],
                IF drop /\ kind # "dependencies" THEN LinkedWhole(p, c) ELSE {}))

\* config.getwholearchive fails when a project does not have the configuration.
Fails(p, c) ==
  \E l \in Elements(wks.wholearchive[p][c]) :
    FindProject(l) # None /\ ~ HasConfig(FindProject(l), c)

\* The file of p is not written then; those of .NET projects do not ask.
Stops(p) == ~ Net(p) /\ \E c \in Elements(wks.configs[p]) : Fails(p, c)

\* config.getwholearchive: projects, and other libraries by their names
GetWholeArchive(p, c) ==
  LET Library(l) ==
        IF FindProject(l) # None /\ CanLink(p, FindProject(l)) THEN FindProject(l) ELSE l
  IN  [i \in 1..Len(wks.wholearchive[p][c]) |-> Library(wks.wholearchive[p][c][i])]

-----------------------------------------------------------------------------
(* What a project depends on                                               *)

\* The names read for one configuration
Names(p, c, mode) ==
  (IF mode = "dependOnly" THEN << >> ELSE Without(wks.links[p][c], {NameOf[p]}))
    \o (IF mode = "linkOnly" THEN << >> ELSE wks.dependson[p][c])

\* Mutant of Depends: only the first configuration is looked at.
DependsOfFirst(p, mode) ==
  LET names == Names(p, Head(wks.configs[p]), mode)
  IN  Distinct([i \in 1..Len(names) |-> FindProject(names[i])])

\* The projects found under these names, configuration by configuration
Depends(p, mode) ==
  LET configs == wks.configs[p]
      names   == Concat([i \in 1..Len(configs) |-> Names(p, configs[i], mode)])
  IN  Distinct([i \in 1..Len(names) |-> FindProject(names[i])])

\* project.getdependencies
GetDependencies(p, mode) ==
  IF dependencies[p][mode] # None THEN dependencies[p][mode] ELSE Depends(p, mode)

Cached(p, mode) == [dependencies EXCEPT ![p][mode] = GetDependencies(p, mode)]

\* Mutant of NeedsExplicitLink: what is not in the configuration is not counted.
NeedsExplicitLinkFor(p, c) ==
  Len(GetLinks(p, c, "dependencies", FALSE)) > Len(GetDependencies(p, "linkOnly"))

\* vstudio.needsExplicitLink
NeedsExplicitLink(p, c) ==
  Len(GetDependencies(p, "linkOnly")) # Len(GetLinks(p, c, "dependencies", FALSE))

-----------------------------------------------------------------------------
(* Makefiles                                                               *)

\* gmake.projectrules: the workspace's makefile has a rule for each project.
WorkspaceMakefile ==
  /\ exporter = "gmake" /\ phase = "workspace"
  /\ dependencies' = [p \in Project |->
       [dependencies[p] EXCEPT !["all"] = GetDependencies(p, "all")]]
  /\ rule' = [p \in Project |-> Elements(GetDependencies(p, "all"))]
  /\ phase' = "projects"
  /\ UNCHANGED <<wks, exporter, todo, line, goal, built>>

\* REFERENCES of a .NET project: the other libraries are those of its first
\* configuration.
NetMakefileLine(p) ==
  [c \in Elements(wks.configs[p]) |->
     [plain |-> GetLinks(p, c, "dependencies", FALSE)
                  \o GetLinks(p, Head(wks.configs[p]), "system", FALSE),
      whole |-> << >>]]

\* LIBS, and what is linked whole
MakefileLine(p) ==
  [c \in Elements(wks.configs[p]) |->
     [plain |-> GetLinks(p, c, "siblings", TRUE) \o GetLinks(p, c, "system", TRUE),
      whole |-> GetWholeArchive(p, c)]]

ProjectMakefile ==
  /\ exporter = "gmake" /\ phase = "projects" /\ todo # << >> /\ ~ Stops(Head(todo))
  /\ line' = [line EXCEPT ![Head(todo)] =
                 IF Net(Head(todo)) THEN NetMakefileLine(Head(todo)) ELSE MakefileLine(Head(todo))]
  /\ todo' = Tail(todo)
  /\ UNCHANGED <<wks, exporter, phase, dependencies, rule, goal, built>>

-----------------------------------------------------------------------------
(* Visual Studio                                                           *)

\* sln2005.projectdependencies: the solution has what is not linked.
SolutionFile ==
  /\ exporter = "vstudio" /\ phase = "workspace"
  /\ dependencies' = [p \in Project |->
       [dependencies[p] EXCEPT !["dependOnly"] = GetDependencies(p, "dependOnly")]]
  /\ rule' = [p \in Project |-> Elements(GetDependencies(p, "dependOnly"))]
  /\ phase' = "projects"
  /\ UNCHANGED <<wks, exporter, todo, line, goal, built>>

\* The references that Visual Studio uses by itself: to static libraries it adds
\* nothing.
LinkedReferences(p, c) ==
  IF wks.type[p].kind = "StaticLib" THEN << >>
  ELSE Without(GetDependencies(p, "linkOnly"),
               {q \in Project : ~ (HasConfig(q, c) /\ CanLink(p, q))})

\* The references of a .NET project
NetProjectLine(p) ==
  [c \in Elements(wks.configs[p]) |->
     [plain |-> LinkedReferences(p, c) \o GetLinks(p, c, "system", FALSE), whole |-> << >>]]

\* The libraries for the linker, or for the librarian of a static library
ProjectLine(p) ==
  [c \in Elements(wks.configs[p]) |->
     [plain |-> (IF NeedsExplicitLink(p, c) THEN GetLinks(p, c, "siblings", TRUE)
                 ELSE LinkedReferences(p, c))
                  \o GetLinks(p, c, "system", TRUE),
      whole |-> GetWholeArchive(p, c)]]

\* A project file: references to the projects linked, and the linker's lines.
ProjectFile ==
  /\ exporter = "vstudio" /\ phase = "projects" /\ todo # << >> /\ ~ Stops(Head(todo))
  /\ dependencies' = Cached(Head(todo), "linkOnly")
  /\ rule' = [rule EXCEPT ![Head(todo)] = @ \union Elements(GetDependencies(Head(todo), "linkOnly"))]
  /\ line' = [line EXCEPT ![Head(todo)] =
                 IF Net(Head(todo)) THEN NetProjectLine(Head(todo)) ELSE ProjectLine(Head(todo))]
  /\ todo' = Tail(todo)
  /\ UNCHANGED <<wks, exporter, phase, goal, built>>

\* A Lua error ends the program.
FailProject ==
  /\ phase = "projects" /\ todo # << >> /\ Stops(Head(todo))
  /\ phase' = "error"
  /\ UNCHANGED <<wks, exporter, todo, dependencies, rule, line, goal, built>>

-----------------------------------------------------------------------------
(* The build (external)                                                    *)

StartBuild(c) ==
  /\ phase = "projects" /\ todo = << >>
  /\ phase' = "build" /\ goal' = c
  /\ UNCHANGED <<wks, exporter, todo, dependencies, rule, line, built>>

Ready(p) == rule[p] \ {p} \subseteq built

\* A project is built after those in its rule; make drops a prerequisite when
\* they wait for each other.
BuildProject(p) ==
  /\ phase = "build" /\ p \notin built
  /\ Ready(p) \/ \A q \in Project \ built : ~ Ready(q)
  /\ built' = built \union {p}
  /\ UNCHANGED <<wks, exporter, phase, todo, dependencies, rule, line, goal>>

-----------------------------------------------------------------------------
(* Specification                                                           *)

LinksInit ==
  /\ wks \in Workspace
  /\ exporter \in {"gmake", "vstudio"} /\ phase = "workspace" /\ todo = Projects
  /\ dependencies = [p \in Project |-> [m \in Mode |-> None]]
  /\ rule = [p \in Project |-> {}]
  /\ line = [p \in Project |-> << >>]
  /\ goal = None /\ built = {}

LinksNext ==
  \/ WorkspaceMakefile \/ ProjectMakefile \/ SolutionFile \/ ProjectFile \/ FailProject
  \/ \E c \in Config : StartBuild(c)
  \/ \E p \in Project : BuildProject(p)

LinksSpec == LinksInit /\ [][LinksNext]_linksVars

-----------------------------------------------------------------------------
(* Properties                                                              *)

\* The projects on the line of p for configuration c
Libraries(p, c) ==
  IF HasConfig(p, c)
  THEN (Elements(line[p][c].plain) \union Elements(line[p][c].whole)) \intersect Project
  ELSE {}

LinksOf(p, c) == Elements(wks.links[p][c])

\* No configuration of p links p itself.
NotItself(p) ==
  \A c \in Elements(wks.configs[p]) : \A l \in LinksOf(p, c) : Sibling(l) # p

\* Links to projects carry no decorator.
Undecorated(p) ==
  \A c \in Elements(wks.configs[p]) : \A l \in LinksOf(p, c) :
    FindProject(l) # None \/ Sibling(l) # None => Bare[l] = l

\* What p links whole is a library that it also links, under the same name.
ArchivesLinked(p) ==
  \A c \in Elements(wks.configs[p]) : \A w \in Elements(wks.wholearchive[p][c]) :
    (FindProject(w) # None \/ Sibling(w) # None) =>
      /\ w \in {Bare[l] : l \in LinksOf(p, c)} /\ CanLink(p, FindProject(w))
      /\ \A l \in LinksOf(p, c) : Sibling(l) = FindProject(w) => Bare[l] = w

Acyclic ==
  \A s \in (SUBSET Project) \ {{}} : \E p \in s : (rule[p] \ {p}) \intersect s = {}

\* No project is linked before the projects whose libraries it links: the rules,
\* taken over all configurations, suffice for each, and getdependencies finds
\* what getlinks does.
LibrariesAreBuilt ==
  [][\A p \in built' \ built :
       (Acyclic /\ NotItself(p) /\ Undecorated(p) /\ ArchivesLinked(p)) =>
         Libraries(p, goal) \subseteq built]_linksVars

\* The projects that configuration c of p asks to be linked with, and can be
Meant(p, c) ==
  {q \in Project :
     /\ \E l \in LinksOf(p, c) : Sibling(l) = q
     /\ HasConfig(q, c) /\ CanLink(p, q)}

\* Whether named one by one, linked whole or left to the references of the
\* project, the projects linked are those that the configuration asks for:
\* Visual Studio's references, which hold for all configurations, are only
\* relied on where they are the same.  The references of .NET projects always
\* hold for all configurations.
LinesMeanLinks ==
  phase = "build" =>
    \A p \in Project : \A c \in Elements(wks.configs[p]) :
      (/\ ~ Net(p) /\ NotItself(p) /\ ArchivesLinked(p)
       /\ exporter = "vstudio" => Undecorated(p) /\ wks.type[p].kind # "StaticLib")
         => Libraries(p, c) = Meant(p, c)

\* A library is given to the linker once, also when it is linked whole.
LinkedOnce ==
  (phase = "build" /\ exporter = "gmake") =>
    \A p \in Project : \A c \in Elements(wks.configs[p]) :
      ArchivesLinked(p) => NoRepeats(line[p][c].plain \o line[p][c].whole)

\* "Premake will figure out the correct library to link against for the current
\* configuration, and will also create a dependency between the projects to
\* ensure a proper build order" (the manual, on links).
LinkingOrdersTheBuild ==
  phase = "build" =>
    \A p \in Project : \A c \in Elements(wks.configs[p]) :
      (Meant(p, c) \ {p}) \subseteq rule[p]
=============================================================================
