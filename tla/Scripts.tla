------------------------------ MODULE Scripts ------------------------------
(***************************************************************************)
(* How scripts are found and run.                                          *)
(*                                                                         *)
(* A script runs others with include, includeexternal and dofile.  Each    *)
(* chunk is wrapped (chunk_wrapper in lua_auxlib.c): while it runs, its    *)
(* directory is the working directory, _SCRIPT and _SCRIPT_DIR name it,    *)
(* and what they were before is put back when it returns.  Relative names  *)
(* therefore depend on the script that runs, and so do the directories     *)
(* that containers remember.  An error leaves the wrappers without         *)
(* restoring anything; a script that guards a call with pcall goes on in   *)
(* the state the error left behind.                                        *)
(*                                                                         *)
(* include runs a script once; includeexternal runs it every time, with a  *)
(* flag set that marks containers as external.  Which file a name means is *)
(* decided by three functions with different orders: findProjectScript,    *)
(* os.locate and the host's loader, which prefers scripts embedded in the  *)
(* executable for a script that was itself embedded.                       *)
(*                                                                         *)
(* The host runs scripts in phases: the core scripts, the _preload scripts *)
(* of the modules, the script of the system, the script of the user.       *)
(*                                                                         *)
(* A path is a sequence of names: the first is "/" for an absolute path,   *)
(* "$" for an embedded script.  File name extensions are left out.         *)
(***************************************************************************)
EXTENDS Naturals, Sequences

CONSTANTS
  Program,   \* the script trees considered: see below
  MaxDepth,  \* calls that fit on the C stack (LUAI_MAXCCALLS)
  None       \* nil

\* A program is a record:
\*   disk, builtin  the scripts on disk and in the executable: path -> body
\*   broken         the scripts among these that do not compile
\*   scripts        the directory given with --scripts, or None
\*   env, share     the directories of PREMAKE_PATH, and the installed ones
\*   home           the directory of the executable
\*   release        whether the host was built with NDEBUG
\*   start, main    the working directory of the user, and the user's script
\*   modules        the names in _modules.lua, no two the same
\*   system         the script given with --systemscript, or None
\* A body is a sequence of statements [op, arg, guard], guard telling whether
\* the call is made through pcall.
ASSUME DepthAssumption == MaxDepth \in Nat \ {0}
ASSUME NoneAssumption == None \notin Seq(STRING)
ASSUME ProgramAssumption == \A p \in Program :
  /\ \A f \in DOMAIN p.disk : f \in Seq(STRING) /\ Len(f) > 1 /\ f[1] = "/"
  /\ \A f \in DOMAIN p.builtin :
       /\ f \in Seq(STRING) /\ Len(f) > 1 /\ f[1] = "$" /\ Len(p.builtin[f]) \in Nat
       /\ \A i \in 1..Len(p.builtin[f]) : p.builtin[f][i].arg \in Seq(STRING)
  /\ p.modules \in Seq(STRING) /\ p.env \in Seq(Seq(STRING)) /\ p.share \in Seq(Seq(STRING))

VARIABLES
  program,    \* the program that runs (never changes)
  pending,    \* the modules still to be preloaded
  phase,      \* "start", one of Phases, "done" or "failed"
  stack,      \* the scripts that run, innermost last
  script,     \* _SCRIPT
  dir,        \* _SCRIPT_DIR
  cwd,        \* the process's working directory
  included,   \* io._includedFiles
  external,   \* api._isIncludingExternal
  scope,      \* api.scope: the active workspace, project, and current container
  containers, \* per container: [external, basedir], and how it came about
  ran,        \* history: how often include has run each file
  caught      \* history: whether a script has caught an error of another

place  == <<script, dir, cwd>>
api    == <<external, scope, containers>>
ghosts == <<ran, caught>>
given  == <<program, pending>>
vars   == <<given, phase, stack, place, included, api, ghosts>>

\* The phases of the host in which scripts run
Phases == {"core", "preload", "system", "user"}

-----------------------------------------------------------------------------
(* Paths                                                                   *)

Absolute(p) == p # << >> /\ p[1] \in {"/", "$"}
Embedded(p) == p # << >> /\ p[1] = "$"

Under(d, p) == IF Absolute(p) THEN p ELSE d \o p

DirOf(f) == SubSeq(f, 1, Len(f) - 1)

\* do_getabsolute, name by name: ".." takes the name before it away, unless that
\* is "$" or a ".." that was kept.
Normal(p) ==
  LET upTo[n \in 0..Len(p)] ==
        IF n = 0 THEN [path |-> << >>, prev |-> ""]
        ELSE LET before == upTo[n - 1] IN
             IF p[n] # ".." \/ before.prev \in {"$", ".."}
             THEN [path |-> Append(before.path, p[n]), prev |-> p[n]]
             ELSE [path |-> IF Len(before.path) > 1 THEN DirOf(before.path) ELSE before.path,
                   prev |-> ""]
  IN  upTo[Len(p)].path

First(S) == CHOOSE i \in S : \A j \in S : i <= j

-----------------------------------------------------------------------------
(* Finding a script                                                        *)

\* do_isfile; the operating system resolves ".." and relative names, and no
\* directory is called "$".
OnDisk(p) == ~ Embedded(p) /\ Normal(Under(cwd, p)) \in DOMAIN program.disk

Builtin(p) == p \in DOMAIN program.builtin

\* premake.path: build_premake_path ...
FirstPath ==
  << << >> >> \o (IF program.scripts = None THEN << >> ELSE <<program.scripts>>)
  \o program.env \o program.share

\* ... and m.prepareEnvironment, once the core scripts have run
HostPath == FirstPath \o <<program.home, DirOf(program.main)>>

SearchPath == IF phase \in {"start", "core"} THEN FirstPath ELSE HostPath

\* do_locate: the directory is made absolute, the name is appended as it is.
OnPath(p, dirs) ==
  LET hits == {i \in 1..Len(dirs) : OnDisk(dirs[i] \o p)}
  IN  IF hits = {} THEN None ELSE Normal(Under(cwd, dirs[First(hits)])) \o p

\* os_locate with one name
Locate(p) ==
  IF Builtin(p) THEN p
  ELSE IF OnDisk(p) THEN Normal(Under(cwd, p))
  ELSE IF OnPath(p, SearchPath) # None THEN OnPath(p, SearchPath)
  ELSE IF Builtin(<<"$">> \o p) THEN <<"$">> \o p
  ELSE None

FirstOf(results) ==
  LET found == {i \in 1..Len(results) : results[i] # None}
  IN  IF found = {} THEN None ELSE results[First(found)]

\* premake.findProjectScript: the file or the script of that directory, on disk
\* if it is there; an embedded script's neighbour comes last.
Candidates(p) ==
  <<p, Append(p, "premake5")>> \o
  (IF dir # None /\ Embedded(dir) THEN <<Normal(Under(dir, p))>> ELSE << >>)

FindProjectScript(p) ==
  LET local == {i \in 1..Len(Candidates(p)) : OnDisk(Candidates(p)[i])}
  IN  IF local # {} THEN Normal(Under(cwd, Candidates(p)[First(local)]))
      ELSE FirstOf([i \in 1..Len(Candidates(p)) |-> Locate(Candidates(p)[i])])

\* Mutant of LoadFile: the disk is looked at before the running script's
\* embedded neighbours.
LoadFileDiskFirst(p) ==
  IF Embedded(p) THEN IF Builtin(p) THEN p ELSE None
  ELSE IF Locate(p) # None THEN Locate(p)
  ELSE IF dir # None /\ Embedded(dir) /\ Builtin(Normal(Under(dir, p)))
    THEN Normal(Under(dir, p))
  ELSE None

\* premake_luaL_loadfilex: an embedded script by its full name, a neighbour of
\* the running script if that is embedded, a file, any embedded script.
LoadFile(p) ==
  IF Embedded(p) THEN IF Builtin(p) THEN p ELSE None
  ELSE IF dir # None /\ Embedded(dir) /\ Builtin(Normal(Under(dir, p)))
    THEN Normal(Under(dir, p))
  ELSE Locate(p)

\* premake_locate_file, as run_premake_main calls it
BootName == <<"src", "_premake_main">>

LocateBoot ==
  LET local    == IF OnDisk(BootName) THEN Normal(Under(cwd, BootName)) ELSE None
      scripts  == IF program.scripts = None THEN None
                  ELSE OnPath(BootName, <<program.scripts>>)
      env      == OnPath(BootName, program.env)
      embedded == IF Builtin(<<"$">> \o BootName) THEN <<"$">> \o BootName ELSE None
  IN  FirstOf(IF program.release THEN <<scripts, embedded, local, env>>
                                 ELSE <<local, scripts, env, embedded>>)

-----------------------------------------------------------------------------
(* Running a script                                                        *)

Top == stack[Len(stack)]

Running == phase \in Phases /\ stack # << >>

Body(f) == IF Embedded(f) THEN program.builtin[f] ELSE program.disk[Normal(f)]

Here == [script |-> script, dir |-> dir, cwd |-> cwd]

Advanced == [stack EXCEPT ![Len(stack)].pc = @ + 1]

\* chunk_wrapper up to lua_call.  callers is the stack of the callers.
Enter(callers, f, how, guard) ==
  /\ stack' = Append(callers, [file |-> f, pc |-> 1, how |-> how, guarded |-> guard,
                               saved |-> Here, outer |-> external, leaked |-> FALSE])
  /\ script' = f
  /\ dir' = DirOf(f)
  /\ cwd' = IF Embedded(f) THEN cwd ELSE Normal(DirOf(f))

\* An error: everything up to the innermost pcall of a script is abandoned.  The
\* pcall of include itself only adds to the message and raises it again.  deep tells
\* whether something was called before the error.
Fail(guard, deep) ==
  LET guards == {i \in 1..Len(stack) : stack[i].guarded}
      k      == CHOOSE i \in guards : \A j \in guards : i >= j
  IN  \/ /\ guard
         /\ stack' = Advanced
         /\ caught' = (caught \/ deep)
         /\ UNCHANGED phase
      \/ /\ ~ guard /\ guards # {}
         /\ stack' = [SubSeq(stack, 1, k - 1) EXCEPT ![k - 1].leaked = TRUE]
         /\ caught' = TRUE
         /\ UNCHANGED phase
      \/ /\ ~ guard /\ guards = {}
         /\ stack' = << >>
         /\ phase' = "failed"
         /\ UNCHANGED caught

-----------------------------------------------------------------------------
(* Statements                                                              *)

Statement == Body(Top.file)[Top.pc]

IsAt(op) == Running /\ Top.pc <= Len(Body(Top.file)) /\ Statement.op = op

Loads(f) == f # None /\ Normal(f) \notin program.broken

\* The chunk is run, if the C stack has room for another call.
Run(f, how, guard) ==
  \/ /\ Len(stack) < MaxDepth
     /\ Enter(Advanced, f, how, guard)
     /\ UNCHANGED <<phase, caught>>
  \/ /\ Len(stack) = MaxDepth
     /\ Fail(guard, TRUE)
     /\ UNCHANGED place

NotFound(f) ==
  /\ ~ Loads(f)
  /\ Fail(Statement.guard, FALSE)
  /\ UNCHANGED <<place, included, api, ran>>

\* Mutant of IncludeNew: the script is recorded under the name it was asked for.
IncludeNewByName ==
  /\ IsAt("include")
  /\ LET f == FindProjectScript(Statement.arg) IN
       /\ Loads(f) /\ Statement.arg \notin included
       /\ included' = included \union {Statement.arg}
       /\ ran' = [ran EXCEPT ![Normal(f)] = @ + 1]
       /\ Run(LoadFile(f), "include", Statement.guard)
  /\ UNCHANGED <<given, api>>

\* include: the script is recorded before it runs.
IncludeNew ==
  /\ IsAt("include")
  /\ LET f == FindProjectScript(Statement.arg) IN
       /\ Loads(f) /\ f \notin included
       /\ included' = included \union {f}
       /\ ran' = [ran EXCEPT ![Normal(f)] = @ + 1]
       /\ Run(LoadFile(f), "include", Statement.guard)
  /\ UNCHANGED <<given, api>>

IncludeAgain ==
  /\ IsAt("include")
  /\ LET f == FindProjectScript(Statement.arg) IN Loads(f) /\ f \in included
  /\ stack' = Advanced
  /\ UNCHANGED <<given, phase, place, included, api, ghosts>>

IncludeMissing ==
  /\ IsAt("include")
  /\ NotFound(FindProjectScript(Statement.arg))
  /\ UNCHANGED given

IncludeExternal ==
  /\ IsAt("includeexternal")
  /\ LET f == FindProjectScript(Statement.arg) IN
       /\ Loads(f)
       /\ Run(LoadFile(f), "external", Statement.guard)
  /\ external' = TRUE
  /\ UNCHANGED <<given, included, scope, containers, ran>>

IncludeExternalMissing ==
  /\ IsAt("includeexternal")
  /\ NotFound(FindProjectScript(Statement.arg))
  /\ UNCHANGED given

DoFile ==
  /\ IsAt("dofile")
  /\ Loads(LoadFile(Statement.arg))
  /\ Run(LoadFile(Statement.arg), "dofile", Statement.guard)
  /\ UNCHANGED <<given, included, api, ran>>

DoFileMissing ==
  /\ IsAt("dofile")
  /\ NotFound(LoadFile(Statement.arg))
  /\ UNCHANGED given

\* error(), or a mistake in the script
RaiseError ==
  /\ IsAt("error")
  /\ Fail(Statement.guard, FALSE)
  /\ UNCHANGED <<given, place, included, api, ran>>

\* Mutants of Return: the working directory stays; the flag is cleared rather than
\* put back.
ReturnInPlace ==
  /\ Running
  /\ Top.pc > Len(Body(Top.file))
  /\ stack' = SubSeq(stack, 1, Len(stack) - 1)
  /\ script' = Top.saved.script
  /\ dir' = Top.saved.dir
  /\ external' = IF Top.how = "external" THEN Top.outer ELSE external
  /\ UNCHANGED <<given, phase, cwd, included, scope, containers, ghosts>>

ReturnCleared ==
  /\ Running
  /\ Top.pc > Len(Body(Top.file))
  /\ stack' = SubSeq(stack, 1, Len(stack) - 1)
  /\ script' = Top.saved.script
  /\ dir' = Top.saved.dir
  /\ cwd' = Top.saved.cwd
  /\ external' = IF Top.how = "external" THEN FALSE ELSE external
  /\ UNCHANGED <<given, phase, included, scope, containers, ghosts>>

\* chunk_wrapper after lua_call, and the last line of includeexternal
Return ==
  /\ Running
  /\ Top.pc > Len(Body(Top.file))
  /\ stack' = SubSeq(stack, 1, Len(stack) - 1)
  /\ script' = Top.saved.script
  /\ dir' = Top.saved.dir
  /\ cwd' = Top.saved.cwd
  /\ external' = IF Top.how = "external" THEN Top.outer ELSE external
  /\ UNCHANGED <<given, phase, included, scope, containers, ghosts>>

-----------------------------------------------------------------------------
(* Containers                                                              *)

\* history: a call of includeexternal is being made
Inside == \E i \in 1..Len(stack) : stack[i].how = "external"

\* Mutant of Named: a container is marked only when it is named again.
NamedAgain(c) ==
  [k \in DOMAIN containers \union {c} |->
     IF k # c THEN containers[k]
     ELSE IF c \in DOMAIN containers
       THEN [containers[c] EXCEPT !.external = @ \/ external, !.inside = @ \/ Inside]
     ELSE [external |-> FALSE, basedir |-> cwd, by |-> Top.file,
           leaked |-> Top.leaked, created |-> Inside, inside |-> Inside]]

\* container.new for a new one; the mark is set on old ones too
Named(c) ==
  [k \in DOMAIN containers \union {c} |->
     IF k # c THEN containers[k]
     ELSE IF c \in DOMAIN containers
       THEN [containers[c] EXCEPT !.external = @ \/ external, !.inside = @ \/ Inside]
     ELSE [external |-> external, basedir |-> cwd, by |-> Top.file,
           leaked |-> Top.leaked, created |-> Inside, inside |-> Inside]]

Workspace ==
  /\ IsAt("workspace")
  /\ scope' = [workspace |-> Statement.arg, group |-> None, current |-> Statement.arg]
  /\ containers' = Named(Statement.arg)
  /\ stack' = Advanced
  /\ UNCHANGED <<given, phase, place, included, external, ghosts>>

Project ==
  /\ IsAt("project")
  /\ scope.workspace # None
  /\ scope' = [scope EXCEPT !.current = Statement.arg]
  /\ containers' = Named(Statement.arg)
  /\ stack' = Advanced
  /\ UNCHANGED <<given, phase, place, included, external, ghosts>>

\* A group is a placeholder: it does not become the current container, which is
\* what api._setContainer returns and the mark is set on.
Group ==
  /\ IsAt("group")
  /\ scope.workspace # None
  /\ scope' = [scope EXCEPT !.group = Statement.arg]
  /\ containers' = Named(scope.current)
  /\ stack' = Advanced
  /\ UNCHANGED <<given, phase, place, included, external, ghosts>>

\* "no workspace in scope"
OutOfScope ==
  /\ IsAt("project") \/ IsAt("group")
  /\ scope.workspace = None
  /\ Fail(Statement.guard, FALSE)
  /\ UNCHANGED <<given, place, included, api, ran>>

-----------------------------------------------------------------------------
(* The host and the phases of _premake_main that run scripts               *)

\* The host runs a chunk; an error that reaches it ends the program.
Start(f, next) ==
  IF Loads(f) THEN phase' = next /\ Enter(<< >>, LoadFile(f), "host", FALSE)
              ELSE phase' = "failed" /\ UNCHANGED <<stack, place>>

Idles(when) == phase = when /\ stack = << >>

\* run_premake_main
RunCore ==
  /\ Idles("start")
  /\ Start(LocateBoot, "core")
  /\ UNCHANGED <<given, included, api, ghosts>>

\* m.prepareEnvironment, which the core scripts' _premake_main calls
PrepareEnvironment ==
  /\ Idles("core")
  /\ phase' = "preload"
  /\ UNCHANGED <<given, stack, place, included, api, ghosts>>

\* m.preloadModules: the script that says whether the module is needed ...
PreloadNames(m) == << <<"modules", m, "_preload">>, <<m, "_preload">> >>

Preloader(m) == FirstOf([i \in 1..2 |-> Locate(PreloadNames(m)[i])])

\* ... and m.moduleLoader, for require: the module's main script
ModuleNames(m) == << <<".modules", m, m>>, <<"modules", m, m>>, <<m, m>>, <<m>> >>

ModuleScript(m) == FirstOf([i \in 1..4 |-> Locate(ModuleNames(m)[i])])

NextModule ==
  /\ Idles("preload") /\ pending # << >>
  /\ pending' = Tail(pending)

\* A module that has a _preload script: it is included.
PreloadModule ==
  /\ NextModule /\ Preloader(Head(pending)) # None
  /\ LET f == FindProjectScript(Preloader(Head(pending))) IN
       /\ f \notin included \/ ~ Loads(f)
       /\ Start(f, "preload")
       /\ included' = IF Loads(f) THEN included \union {f} ELSE included
       /\ ran' = IF Loads(f) THEN [ran EXCEPT ![Normal(f)] = @ + 1] ELSE ran
  /\ UNCHANGED <<program, api, caught>>

PreloadAgain ==
  /\ NextModule /\ Preloader(Head(pending)) # None
  /\ LET f == FindProjectScript(Preloader(Head(pending))) IN Loads(f) /\ f \in included
  /\ UNCHANGED <<program, phase, stack, place, included, api, ghosts>>

\* One that has none is loaded at once.
RequireModule ==
  /\ NextModule /\ Preloader(Head(pending)) = None
  /\ Start(ModuleScript(Head(pending)), "preload")
  /\ UNCHANGED <<program, included, api, ghosts>>

\* m.runSystemScript: dofileopt
SystemScript ==
  IF program.system # None THEN Locate(program.system)
  ELSE FirstOf(<<Locate(<<"premake5-system">>), Locate(<<"premake-system">>)>>)

RunSystemScript ==
  /\ Idles("preload") /\ pending = << >>
  /\ IF SystemScript # None THEN Start(SystemScript, "system")
     ELSE phase' = "system" /\ UNCHANGED <<stack, place>>
  /\ UNCHANGED <<given, included, api, ghosts>>

\* m.runUserScript
RunUserScript ==
  /\ Idles("system")
  /\ IF OnDisk(program.main) THEN Start(program.main, "user")
     ELSE phase' = "user" /\ UNCHANGED <<stack, place>>
  /\ UNCHANGED <<given, included, api, ghosts>>

Finish ==
  /\ Idles("user")
  /\ phase' = "done"
  /\ UNCHANGED <<given, stack, place, included, api, ghosts>>

Files == DOMAIN program.disk \union DOMAIN program.builtin

Init ==
  /\ program \in Program /\ pending = program.modules
  /\ phase = "start"
  /\ stack = << >>
  /\ script = None /\ dir = None /\ cwd = program.start
  /\ included = {}
  /\ external = FALSE
  /\ scope = [workspace |-> None, group |-> None, current |-> None]
  /\ containers = << >>
  /\ ran = [f \in Files |-> 0]
  /\ caught = FALSE

Next ==
  \/ RunCore \/ PrepareEnvironment \/ PreloadModule \/ PreloadAgain \/ RequireModule
  \/ RunSystemScript \/ RunUserScript \/ Finish
  \/ IncludeNew \/ IncludeAgain \/ IncludeMissing
  \/ IncludeExternal \/ IncludeExternalMissing \/ DoFile \/ DoFileMissing
  \/ Workspace \/ Project \/ Group \/ OutOfScope
  \/ RaiseError \/ Return

Spec == Init /\ [][Next]_vars

-----------------------------------------------------------------------------
(* Properties                                                              *)

\* include runs a script at most once (globals.lua, "each file is tracked, and
\* loaded only once"), whatever it is called from wherever, also when scripts
\* include each other.  It excepts names with ".." that are found on the search
\* path, which os.locate does not reduce to one form.
RunsOnce ==
  (\A f \in included : Normal(f) = f) => \A f \in Files : ran[f] <= 1

\* A script that runs has its own directory as the working directory and as
\* _SCRIPT_DIR, and containers are based in the directory of the script that
\* creates them; except in a script that has itself caught an error of another.
\* What such an error leaves behind is never seen by the script's callers.
KnowsItsPlace ==
  /\ Running /\ ~ Top.leaked =>
       /\ script = Top.file /\ dir = DirOf(Top.file)
       /\ cwd = IF Embedded(Top.file) THEN Top.saved.cwd ELSE Normal(dir)
  /\ \A c \in DOMAIN containers :
       ~ containers[c].leaked /\ ~ Embedded(containers[c].by) =>
         containers[c].basedir = Normal(DirOf(containers[c].by))

\* The flag is set exactly while a call of includeexternal is being made, until
\* a script catches an error: includeexternal does not clear the flag then.
ExternalIsScoped == ~ caught /\ Running => (external <=> Inside)

\* Containers created by an external script are external, always; and those no
\* external script touches are not, unless an error was caught.
MarksFollowScripts ==
  \A c \in DOMAIN containers :
    /\ containers[c].created => containers[c].external
    /\ containers[c].external /\ ~ caught => containers[c].inside

Boot == <<"$">> \o BootName

Statements(f) == {program.builtin[f][i] : i \in 1..Len(program.builtin[f])}

Loading == {"include", "includeexternal", "dofile"}

\* The embedded scripts of C call nothing through pcall, and what they run, with the
\* functions of `with`, is one of them, named relative to the caller.
Complete(C, with) ==
  \A f \in C : \A s \in Statements(f) :
    /\ ~ s.guard
    /\ s.op \in Loading =>
         s.op \in with /\ ~ Absolute(s.arg) /\ Normal(Under(DirOf(f), s.arg)) \in C

\* The executable has what the boot script reaches with dofile.
OwnCore ==
  \E C \in SUBSET DOMAIN program.builtin : Boot \in C /\ Complete(C, {"dofile"})

\* Some file is where this name is looked for while modules are preloaded.
InTheWay(p) ==
  \E i \in 1..Len(HostPath) :
    Normal(Under(program.start, HostPath[i] \o p)) \in DOMAIN program.disk

Modules == {program.modules[i] : i \in 1..Len(program.modules)}

Included(f) == {s.arg : s \in {t \in Statements(f) : t.op = "include"}}

\* The names that are then looked for: those of the modules, and of what embedded
\* scripts include.
PreloadAsks(m) ==
  {PreloadNames(m)[1], PreloadNames(m)[2]} \union {ModuleNames(m)[i] : i \in 1..4}

IncludeAsks(p) == {p, Append(p, "premake5")}

LookedFor ==
  (UNION {PreloadAsks(m) : m \in Modules}) \union
  (UNION {IncludeAsks(p) : p \in UNION {Included(f) : f \in DOMAIN program.builtin}})

OwnModules ==
  /\ Complete(DOMAIN program.builtin, {"dofile", "include"})
  /\ \A p \in LookedFor : ~ InTheWay(p)

\* The core of a release build runs from the executable, whatever lies in the working
\* directory or on the search path, if what its boot script reaches is embedded
\* (run_premake_main, "to avoid mismatches between the native host code and the
\* scripts themselves"; premake_luaL_loadfilex, "If the currently running script was
\* embedded").  Its modules do as well, but only as long as no file has a name that
\* they or the host ask for: os.locate and findProjectScript look at the disk first.
CoreFromOnePlace ==
  program.release /\ program.scripts = None =>
    /\ phase = "core" /\ OwnCore => \A i \in 1..Len(stack) : Embedded(stack[i].file)
    /\ phase = "preload" /\ OwnCore /\ OwnModules =>
         \A i \in 1..Len(stack) : Embedded(stack[i].file)
=============================================================================
