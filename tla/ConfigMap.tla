----------------------------- MODULE ConfigMap -----------------------------
(***************************************************************************)
(* The configurations of one project and the map from the workspace's.     *)
(*                                                                         *)
(* A project lists configurations and platforms; its configuration maps    *)
(* (configmap) rewrite the workspace's configuration/platform pairs to the *)
(* project's own.  project.bake computes the list of pairs to bake         *)
(* (oven.bakeConfigList), bakes one configuration per listed pair and      *)
(* stores it under the concatenation of the pair's names.                  *)
(* project.getconfig maps the pair it is asked for before the lookup, and  *)
(* project.eachconfig, which every exporter loops over, looks every listed *)
(* pair up through getconfig and so maps it a second time.                 *)
(*                                                                         *)
(* A pair is a sequence of one name (no platform) or two.  The loops of    *)
(* bakeConfigList and project.bake are cut into one step per pair, and one *)
(* call of the iterator of eachconfig is one step.                         *)
(***************************************************************************)
EXTENDS Naturals, Sequences, FiniteSets, ListField

CONSTANTS
  Name,      \* configuration and platform names: sequences of characters
  Any,       \* the pattern element "*"
  Nil,       \* what a lookup that finds nothing returns
  Root,      \* the project itself, as the configuration of no name
  Project    \* the projects considered: see MapsAssumption

Pattern == Name \union {Any}
Pair    == {<<n>> : n \in Name} \union Name \X Name
Entry   == [pattern     : {<<e>> : e \in Pattern} \union Pattern \X Pattern,
            replacement : Pair]

ASSUME NameAssumption == \A n \in Name : n \in Seq(Nat)
ASSUME MarkAssumption == Any \notin Name /\ Nil \notin Pair \union {Root}

\* maps is the list of entries in the order mapconfig visits them and table the
\* number of the configmap call each comes from, one call after the other.
ASSUME MapsAssumption == \A p \in Project :
  /\ p.configurations \in Seq(Name) /\ p.platforms \in Seq(Name)
  /\ p.maps \in Seq(Entry) /\ p.table \in Seq(Nat) /\ Len(p.table) = Len(p.maps)
  /\ \A i, j \in 1..Len(p.maps) : i <= j => p.table[i] <= p.table[j]
  /\ p.unsupported \subseteq Pair

VARIABLES
  configurations, \* prj.configurations (never changes)
  platforms,      \* prj.platforms (never changes)
  maps,           \* prj.configmap, flattened (never changes)
  table,          \* which configmap call each entry is from (never changes)
  unsupported,    \* pairs the action's supportsconfig rejects (never changes)
  phase,          \* "map", "collect", "bake", "iterate", "done" or "error"
  n,              \* index of the loop that is running
  cfgs,           \* the pairs bakeConfigList is given and rewrites
  buildcfgs,      \* names collected for the first part of a pair
  platfs,         \* and for the second
  cfglist,        \* prj._cfglist
  configs,        \* prj.configs: the baked pair, by key
  visited         \* what the iterator of eachconfig returned so far

inputs  == <<configurations, platforms, maps, table, unsupported>>
mapVars == <<inputs, phase, n, cfgs, buildcfgs, platfs, cfglist, configs, visited>>

-----------------------------------------------------------------------------
(* project.mapconfig                                                       *)

Matches(e, name) == e = Any \/ e = name

\* Compare until either the pattern or the pair ends.
TestPattern(pattern, pairing, i) ==
  \A j \in 1..Len(pattern) :
    i + j - 1 <= Len(pairing) => Matches(pattern[j], pairing[i + j - 1])

\* Mutant of Replace: always the whole pair.
ReplaceWhole(e, pairing, i) == e.replacement

Replace(e, pairing, i) ==
  IF Len(e.pattern) = 1 /\ Len(e.replacement) = 1
  THEN [pairing EXCEPT ![i] = e.replacement[1]]
  ELSE e.replacement

TryAt(e, pairing, i) ==
  IF TestPattern(e.pattern, pairing, i) THEN Replace(e, pairing, i) ELSE pairing

\* The bound of the loop is the length the pair has when the loop starts.
ApplyEntry(e, pairing) ==
  IF Len(pairing) = 1 THEN TryAt(e, pairing, 1)
                      ELSE TryAt(e, TryAt(e, pairing, 1), 2)

\* Every entry in turn, each on what the ones before it made of the pair.
MapConfig(entries, pairing) ==
  LET Mapped[k \in 0..Len(entries)] ==
        IF k = 0 THEN pairing ELSE ApplyEntry(entries[k], Mapped[k - 1])
  IN  Mapped[Len(entries)]

-----------------------------------------------------------------------------
(* Lookups                                                                 *)

\* (buildcfg or "*") .. (platform or "")
ConfigKey(pair) == IF Len(pair) = 1 THEN pair[1] ELSE pair[1] \o pair[2]

\* Mutant of GetConfig: the lookup does not map the pair.
GetConfigUnmapped(pair) ==
  IF ConfigKey(pair) \in DOMAIN configs THEN configs[ConfigKey(pair)] ELSE Nil

\* project.getconfig
GetConfig(pair) ==
  LET key == ConfigKey(MapConfig(maps, pair))
  IN  IF key \in DOMAIN configs THEN configs[key] ELSE Nil

\* Mutant of Closest: the name is not looked for in the project's list.
ClosestUnchecked(name, list) == MapConfig(maps, <<name>>)[1]

\* project.findClosestMatch: the names are mapped one by one, and one that is
\* not the project's is replaced by the project's first.
Closest(name, list) ==
  LET mapped == MapConfig(maps, <<name>>)[1]
  IN  IF mapped \in Elements(list) THEN mapped ELSE list[1]

FindClosestMatch(pair) ==
  IF configurations = << >> THEN Root
  ELSE IF platforms = << >> THEN GetConfig(<<Closest(pair[1], configurations)>>)
  ELSE GetConfig(<<Closest(pair[1], configurations),
                   IF Len(pair) = 2 THEN Closest(pair[2], platforms)
                                    ELSE platforms[1]>>)

-----------------------------------------------------------------------------
(* table.fold and oven.bakeConfigList                                      *)

Fold(list1, list2) ==
  IF list2 = << >> THEN [i \in 1..Len(list1) |-> <<list1[i]>>]
  ELSE LET w == Len(list2)
       IN  [i \in 1..(Len(list1) * w) |->
              <<list1[((i - 1) \div w) + 1], list2[((i - 1) % w) + 1]>>]

AddUnique(list, name) ==
  IF name \in Elements(list) THEN list ELSE Append(list, name)

MapPair ==
  /\ phase = "map" /\ n <= Len(cfgs)
  /\ cfgs' = [cfgs EXCEPT ![n] = MapConfig(maps, cfgs[n])]
  /\ n' = n + 1
  /\ UNCHANGED <<inputs, phase, buildcfgs, platfs, cfglist, configs, visited>>

EndMapping ==
  /\ phase = "map" /\ n > Len(cfgs)
  /\ phase' = "collect" /\ n' = 1
  /\ UNCHANGED <<inputs, cfgs, buildcfgs, platfs, cfglist, configs, visited>>

CollectPair ==
  /\ phase = "collect" /\ n <= Len(cfgs)
  /\ buildcfgs' = AddUnique(buildcfgs, cfgs[n][1])
  /\ platfs' = IF Len(cfgs[n]) = 2 THEN AddUnique(platfs, cfgs[n][2]) ELSE platfs
  /\ n' = n + 1
  /\ UNCHANGED <<inputs, phase, cfgs, cfglist, configs, visited>>

EndCollecting ==
  /\ phase = "collect" /\ n > Len(cfgs)
  /\ cfglist' = Fold(buildcfgs, platfs)
  /\ phase' = "bake" /\ n' = 1
  /\ UNCHANGED <<inputs, cfgs, buildcfgs, platfs, configs, visited>>

-----------------------------------------------------------------------------
(* The configuration loop of project.bake                                  *)

BakeConfig ==
  /\ phase = "bake" /\ n <= Len(cfglist)
  /\ LET key == ConfigKey(cfglist[n]) IN
       configs' = IF cfglist[n] \in unsupported THEN configs
                  ELSE [k \in DOMAIN configs \union {key} |->
                          IF k = key THEN cfglist[n] ELSE configs[k]]
  /\ n' = n + 1
  /\ UNCHANGED <<inputs, phase, cfgs, buildcfgs, platfs, cfglist, visited>>

EndBaking ==
  /\ phase = "bake" /\ n > Len(cfglist)
  /\ phase' = "iterate" /\ n' = 1
  /\ UNCHANGED <<inputs, cfgs, buildcfgs, platfs, cfglist, configs, visited>>

-----------------------------------------------------------------------------
(* project.eachconfig: each step is one call of the iterator               *)

Looked == GetConfig(cfglist[n])

Iterating == phase = "iterate" /\ n <= Len(cfglist)

\* Mutant of VisitConfig: the index is advanced once too often.
VisitConfigSkipping ==
  /\ Iterating
  /\ Looked # Nil /\ Looked \notin Elements(visited)
  /\ visited' = Append(visited, Looked)
  /\ n' = n + 2
  /\ UNCHANGED <<inputs, phase, cfgs, buildcfgs, platfs, cfglist, configs>>

VisitConfig ==
  /\ Iterating
  /\ Looked # Nil /\ Looked \notin Elements(visited)
  /\ visited' = Append(visited, Looked)
  /\ n' = n + 1
  /\ UNCHANGED <<inputs, phase, cfgs, buildcfgs, platfs, cfglist, configs>>

\* A configuration that was seen: the branch returns nothing, which ends the
\* caller's loop.
SeenConfig ==
  /\ Iterating
  /\ Looked \in Elements(visited)
  /\ phase' = "done" /\ n' = n + 2
  /\ UNCHANGED <<inputs, cfgs, buildcfgs, platfs, cfglist, configs, visited>>

\* seen[nil] = true: "table index is nil"
MissingConfig ==
  /\ Iterating
  /\ Looked = Nil
  /\ phase' = "error"
  /\ UNCHANGED <<inputs, n, cfgs, buildcfgs, platfs, cfglist, configs, visited>>

EndIteration ==
  /\ phase = "iterate" /\ n > Len(cfglist)
  /\ phase' = "done"
  /\ UNCHANGED <<inputs, n, cfgs, buildcfgs, platfs, cfglist, configs, visited>>

-----------------------------------------------------------------------------
(* Specification                                                           *)

Inputs ==
  \E p \in Project :
    /\ configurations = p.configurations /\ platforms = p.platforms
    /\ maps = p.maps /\ table = p.table /\ unsupported = p.unsupported

MapInit ==
  /\ Inputs
  /\ phase = "map" /\ n = 1
  /\ cfgs = Fold(configurations, platforms)
  /\ buildcfgs = << >> /\ platfs = << >> /\ cfglist = << >>
  /\ configs = << >> /\ visited = << >>

MapNext ==
  \/ MapPair \/ EndMapping \/ CollectPair \/ EndCollecting
  \/ BakeConfig \/ EndBaking
  \/ VisitConfig \/ SeenConfig \/ MissingConfig \/ EndIteration

MapSpec == MapInit /\ [][MapNext]_mapVars

-----------------------------------------------------------------------------
(* Properties                                                              *)

Baked == phase \in {"iterate", "done", "error"}

\* The pairs the project starts from.
OwnPair == Elements(Fold(configurations, platforms))

\* The maps send all pairs to pairs of one shape, with or without platform.
OneShape ==
  \A i, j \in 1..Len(cfgs) : Len(cfgs[i]) = Len(cfgs[j])

\* Every configuration/platform pair of the project's own lists resolves to a
\* baked configuration, whatever the maps do to it and although bakeConfigList
\* takes the mapped pairs apart and folds them together again ("a canonical
\* set of configurations for the project, along with a mapping from the
\* workspace's configurations").
OwnPairsResolve ==
  (Baked /\ unsupported = {} /\ OneShape) =>
    \A pair \in OwnPair : GetConfig(pair) # Nil

\* findClosestMatch always finds something ("Now I should have a workable
\* pairing"), for every pair a workspace may ask for.
ClosestIsFound ==
  (Baked /\ unsupported = {} /\ OneShape) =>
    \A pair \in Pair : FindClosestMatch(pair) # Nil

\* Maps from one name to another, no target of which is a source.
PerName ==
  /\ \A i \in 1..Len(maps) :
       /\ Len(maps[i].pattern) = 1 /\ Len(maps[i].replacement) = 1
       /\ maps[i].pattern[1] # Any
  /\ \A i, j \in 1..Len(maps) : maps[i].replacement[1] # maps[j].pattern[1]

NoKeyClash ==
  \A i, j \in 1..Len(cfglist) :
    ConfigKey(cfglist[i]) = ConfigKey(cfglist[j]) => i = j

\* With such maps an exporter's loop sees every configuration that was baked,
\* each of them once, and in the order of the list.
PerNameMapsVisitAll ==
  (phase \in {"done", "error"} /\ PerName /\ NoKeyClash /\ unsupported = {}) =>
    visited = cfglist

\* Other orders in which mapconfig may visit the entries: pairs() promises
\* none inside one configmap table.
Reordered ==
  { o \in [1..Len(maps) -> 1..Len(maps)] :
      /\ \A i, j \in 1..Len(maps) : o[i] = o[j] => i = j
      /\ \A i \in 1..Len(maps) : table[o[i]] = table[i] }

\* No configmap table has two entries for a name.  As keys of the table names
\* are unique; only a name and a pattern of this one name may stand side by side.
NamesOnce ==
  \A i, j \in 1..Len(maps) :
    (/\ table[i] = table[j] /\ Len(maps[i].pattern) = 1
     /\ maps[i].pattern = maps[j].pattern) => i = j

\* With such maps the result does not depend on that order.
OrderIrrelevant ==
  (PerName /\ NamesOnce) =>
    \A o \in Reordered, pair \in OwnPair :
      MapConfig([i \in 1..Len(maps) |-> maps[o[i]]], pair) = MapConfig(maps, pair)

\* An exporter's loop sees every configuration that was baked ("Returns an
\* iterator function for the configuration objects contained by the project").
EveryConfigVisited ==
  phase = "done" => \A k \in DOMAIN configs : configs[k] \in Elements(visited)
=============================================================================
