------------------------------ MODULE ObjDirs ------------------------------
(***************************************************************************)
(* The object directories of one workspace (oven.bakeObjDirs).             *)
(*                                                                         *)
(* Each configuration has three or four candidate directories: the objdir  *)
(* it sets, or "obj", below the project's location; that followed by the   *)
(* platform, if any; by the build configuration; by the project's name.    *)
(* A first pass over all configurations counts how often each directory is *)
(* a candidate; a second gives each configuration its first candidate that *)
(* is nobody else's.  An objdir marked with "!" is left out of both.       *)
(*                                                                         *)
(* The second pass walks a table keyed by configuration objects with       *)
(* pairs(), so its order is arbitrary: the model takes any.                *)
(***************************************************************************)
EXTENDS Naturals, Sequences

CONSTANTS
  Config,     \* the configurations of all the projects
  Name,       \* names of projects, configurations, platforms, directories
  None,       \* no platform; no directory
  Workspace   \* the workspaces considered: see WorkspaceAssumption

Path == Seq(Name)

NoRepeats(s) == \A i, j \in 1..Len(s) : s[i] = s[j] => i = j

ASSUME NoneAssumption == None \notin Name /\ None \notin Path

\* raw is the absolute directory of the configuration's objdir, or of "obj"
\* when it sets none; listed is the order of workspace.eachproject and
\* project.eachconfig, which yield no configuration twice.
ASSUME WorkspaceAssumption == \A w \in Workspace :
  /\ w.project \in [Config -> Name] /\ w.buildcfg \in [Config -> Name]
  /\ w.platform \in [Config -> Name \union {None}]
  /\ w.raw \in [Config -> Path]
  /\ w.explicit \subseteq Config /\ w.marked \subseteq w.explicit
  /\ w.listed \in Seq(Config) /\ NoRepeats(w.listed)

VARIABLES
  project, buildcfg, platform,  \* of each configuration (never change)
  raw,        \* the directory its objdir names (never changes)
  explicit,   \* the configurations that set objdir (never changes)
  marked,     \* those whose objdir holds a "!" (never changes)
  listed,     \* the configurations in the order of the first pass
  phase,      \* "count", "assign" or "done"
  n,          \* index into listed
  counts,     \* how often a directory is a candidate
  counted,    \* keys of the table "configs": those that were counted
  todo,       \* those the second pass has not reached
  objdir      \* cfg.objdir as a directory; None when nil, or still marked

inputs == <<project, buildcfg, platform, raw, explicit, marked, listed>>
vars   == <<inputs, phase, n, counts, counted, todo, objdir>>

-----------------------------------------------------------------------------
(* getobjdirs                                                              *)

\* Mutant of Suffix: the project's name is left out.
SuffixNoProject(c) ==
  IF platform[c] = None THEN <<buildcfg[c]>> ELSE <<platform[c], buildcfg[c]>>

\* What may be appended to the directory of configuration c, in order.
Suffix(c) ==
  IF platform[c] = None THEN <<buildcfg[c], project[c]>>
                        ELSE <<platform[c], buildcfg[c], project[c]>>

\* Candidate number i of configuration c.
Choice(c) == 0..Len(Suffix(c))
Candidate(c, i) == raw[c] \o SubSeq(Suffix(c), 1, i)
Candidates(c) == {Candidate(c, i) : i \in Choice(c)}

-----------------------------------------------------------------------------
(* oven.bakeObjDirs                                                        *)

\* A marked objdir loses its mark and is not counted.
DontTouch ==
  /\ phase = "count" /\ n <= Len(listed)
  /\ listed[n] \in marked
  /\ objdir' = [objdir EXCEPT ![listed[n]] = raw[listed[n]]]
  /\ n' = n + 1
  /\ UNCHANGED <<inputs, phase, counts, counted, todo>>

CountDirs ==
  /\ phase = "count" /\ n <= Len(listed)
  /\ listed[n] \notin marked
  /\ counts' = [d \in DOMAIN counts \union Candidates(listed[n]) |->
                  IF d \notin DOMAIN counts THEN 1
                  ELSE IF d \in Candidates(listed[n]) THEN counts[d] + 1
                  ELSE counts[d]]
  /\ counted' = counted \union {listed[n]}
  /\ n' = n + 1
  /\ UNCHANGED <<inputs, phase, todo, objdir>>

EndCounting ==
  /\ phase = "count" /\ n > Len(listed)
  /\ phase' = "assign" /\ todo' = counted
  /\ UNCHANGED <<inputs, n, counts, counted, objdir>>

\* Mutant of UniqueChoice: two configurations may share a directory.
UniqueChoiceLoose(c, i) == counts[Candidate(c, i)] <= 2

UniqueChoice(c, i) == counts[Candidate(c, i)] = 1

\* Mutant of AssignDir: any unique value, not the first.
AssignAnyDir(c) ==
  /\ phase = "assign"
  /\ \E i \in Choice(c) :
       /\ UniqueChoice(c, i)
       /\ objdir' = [objdir EXCEPT ![c] = Candidate(c, i)]
  /\ todo' = todo \ {c}
  /\ UNCHANGED <<inputs, phase, n, counts, counted>>

\* "assign the first unique value"
AssignDir(c) ==
  /\ phase = "assign"
  /\ \E i \in Choice(c) :
       /\ UniqueChoice(c, i)
       /\ \A j \in Choice(c) : j < i => ~ UniqueChoice(c, j)
       /\ objdir' = [objdir EXCEPT ![c] = Candidate(c, i)]
  /\ todo' = todo \ {c}
  /\ UNCHANGED <<inputs, phase, n, counts, counted>>

\* No candidate is unique: the configuration keeps what it has.
KeepDir(c) ==
  /\ phase = "assign"
  /\ \A i \in Choice(c) : ~ UniqueChoice(c, i)
  /\ todo' = todo \ {c}
  /\ UNCHANGED <<inputs, phase, n, counts, counted, objdir>>

EndAssigning ==
  /\ phase = "assign" /\ todo = {}
  /\ phase' = "done"
  /\ UNCHANGED <<inputs, n, counts, counted, todo, objdir>>

-----------------------------------------------------------------------------
(* Specification                                                           *)

Inputs ==
  \E w \in Workspace :
    /\ project = w.project /\ buildcfg = w.buildcfg /\ platform = w.platform
    /\ raw = w.raw /\ explicit = w.explicit /\ marked = w.marked
    /\ listed = w.listed

Init ==
  /\ Inputs
  /\ phase = "count" /\ n = 1
  /\ counts = << >> /\ counted = {} /\ todo = {}
  /\ objdir = [c \in Config |-> IF c \in explicit \ marked THEN raw[c] ELSE None]

Next ==
  \/ DontTouch \/ CountDirs \/ EndCounting
  \/ \E c \in todo : AssignDir(c) \/ KeepDir(c)
  \/ EndAssigning

Spec == Init /\ [][Next]_vars

-----------------------------------------------------------------------------
(* Properties                                                              *)

TypeOK ==
  /\ project \in [Config -> Name] /\ buildcfg \in [Config -> Name]
  /\ platform \in [Config -> Name \union {None}]
  /\ raw \in [Config -> Path]
  /\ explicit \subseteq Config /\ marked \subseteq Config
  /\ listed \in Seq(Config)
  /\ phase \in {"count", "assign", "done"}
  /\ n \in Nat \ {0}
  /\ DOMAIN counts \subseteq Path
  /\ \A d \in DOMAIN counts : counts[d] \in Nat \ {0}
  /\ counted \subseteq Config /\ todo \subseteq counted
  /\ objdir \in [Config -> Path \union {None}]

\* The configuration has a candidate that no other counted one has.
OwnCandidate(c, i) ==
  \A d \in counted : d # c => Candidate(c, i) \notin Candidates(d)

HasOwn(c) == \E i \in Choice(c) : OwnCandidate(c, i)

\* A configuration that has a directory to itself among the candidates is
\* given one that no other configuration ends up with, not even one that had
\* to keep the directory it set ("to ensure builds from different
\* configurations won't step on each others' object files").
ObjDirsDistinct ==
  phase = "done" =>
    \A c, d \in counted :
      HasOwn(c) => objdir[c] # None /\ (c # d => objdir[c] # objdir[d])

\* The result is the same for every order of the second pass: each
\* configuration gets the first candidate it shares with nobody.
OrderIndependent ==
  phase = "done" =>
    \A c \in counted :
      \/ \E i \in Choice(c) :
           /\ OwnCandidate(c, i) /\ objdir[c] = Candidate(c, i)
           /\ \A j \in Choice(c) : j < i => ~ OwnCandidate(c, j)
      \/ ~ HasOwn(c) /\ objdir[c] = IF c \in explicit THEN raw[c] ELSE None

\* A workspace in which the directories that are set do not lie inside one
\* another, and no name serves as a build configuration and as a platform.
ProperPrefix(s, t) == Len(s) < Len(t) /\ SubSeq(t, 1, Len(s)) = s

Regular ==
  /\ \A c, d \in counted :
       /\ ~ ProperPrefix(raw[c], raw[d])
       /\ buildcfg[c] # platform[d]
  /\ \A c, d \in counted :
       (/\ project[c] = project[d] /\ buildcfg[c] = buildcfg[d]
        /\ platform[c] = platform[d]) => c = d

\* There every configuration of every project gets a directory of its own.
RegularAllUnique ==
  (phase = "done" /\ Regular) =>
    \A c, d \in counted : objdir[c] # None /\ (c # d => objdir[c] # objdir[d])
=============================================================================
