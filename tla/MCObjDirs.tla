----------------------------- MODULE MCObjDirs -----------------------------
(* Instances of ObjDirs for TLC.                                           *)
EXTENDS ObjDirs

CONSTANTS appDebug, appRelease, libDebug, libRelease, toolDebug,
          app, lib, tool, debug, release, x64, obj

MCConfig == {appDebug, appRelease, libDebug, libRelease, toolDebug}
MCName   == {app, lib, tool, debug, release, x64, obj}

Order == <<appDebug, appRelease, libDebug, libRelease, toolDebug>>

\* "obj" under one location, a directory inside a candidate of appDebug, one
\* inside a candidate of both release configurations, and one apart.
MCRaw == { <<obj>>, <<obj, debug, app>>, <<obj, release>>, <<lib>> }

ProjectOf(c) ==
  IF c = toolDebug THEN tool ELSE IF c \in {appDebug, appRelease} THEN app ELSE lib
BuildcfgOf(c) == IF c \in {appRelease, libRelease} THEN release ELSE debug

\* No platforms, one platform, or one that is named like a configuration.
MCPlatform ==
  { [c \in MCConfig |-> None], [c \in MCConfig |-> x64],
    [c \in MCConfig |-> IF c = libDebug THEN debug ELSE x64] }

MCWorkspace ==
  { [project  |-> [c \in MCConfig |-> ProjectOf(c)],
     buildcfg |-> [c \in MCConfig |-> BuildcfgOf(c)],
     platform |-> p, raw |-> r,
     explicit |-> {c \in MCConfig : r[c] # <<obj>>} \union m,
     marked   |-> m, listed |-> Order] :
    p \in MCPlatform,
    r \in {f \in [MCConfig -> MCRaw] :
             f[libRelease] \in {<<obj>>, <<obj, release>>} /\ f[toolDebug] = <<obj>>},
    m \in {{}, {libDebug}} }
=============================================================================
