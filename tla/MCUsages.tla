------------------------------ MODULE MCUsages ------------------------------
(* Instances of Usages for TLC.                                            *)
EXTENDS Usages

CONSTANTS a, b, c, common, debug, release, x, y, z

MCProject  == {a, b, c}
MCName     == {a, b, c, common}
MCBuildcfg == {debug, release}
MCValue    == {x, y, z}

Gives(r, l, s) == [removes |-> r, list |-> l, string |-> s]

MCCfgs == [p \in MCProject |-> IF p = b THEN <<release>> ELSE <<debug, release>>]

\* The configurations of the usages.
Of(usages) == {u \in UsageConfig : <<u[1], u[2]>> \in usages /\ u[3] \in Elements(MCCfgs[u[1]])}

\* Two blocks for each PUBLIC usage, the second of which repeats a value.
MCGives(usages, removed) ==
  [u \in Of(usages) |->
     IF u[2] = Public
     THEN <<Gives({}, <<x, y>>, Nil), Gives({}, <<x>>, IF u[1] = a THEN x ELSE y)>>
     ELSE IF u[2] = Private THEN <<Gives(removed, <<z>>, Nil)>>
     ELSE IF u[2] = common THEN <<Gives({}, <<y>>, z)>>
     ELSE IF u[2] = Interface THEN <<Gives({}, <<y, z>>, Nil)>>
     ELSE << >>]

MCOwn == [k \in Config |-> [list |-> <<z, x>>, string |-> IF k[1] = c THEN Nil ELSE z]]

MCUsageSet == {<<a, Public>>, <<a, Private>>, <<a, Interface>>,
               <<b, Public>>, <<b, Private>>, <<c, common>>}

\* Projects a and b have PUBLIC and PRIVATE usages, a also INTERFACE; c defines
\* the usage "common".  In some scripts c itself is called "common".
Script1(ws, name, usages, usesA, usesC, publicA, publicB, commonC, unbaked, removed, read) ==
  [workspaces |-> ws,
   name |-> [p \in MCProject |-> IF p = c THEN name ELSE p],
   usages |-> usages,
   cfgs |-> MCCfgs,
   unbaked |-> unbaked,
   uses |-> [k \in Config |-> IF k[1] = a THEN usesA ELSE IF k[1] = c THEN usesC ELSE << >>],
   usageUses |-> [u \in Of(usages) |->
                    IF u[2] = Public THEN (IF u[1] = a THEN publicA
                                           ELSE IF u[1] = b THEN publicB ELSE << >>)
                    ELSE IF u[2] = common THEN commonC ELSE << >>],
   own |-> MCOwn, gives |-> MCGives(usages, removed), read |-> read]

\* Project c is called "common" or not, and if so has a PUBLIC usage or not.
MCNaming == {<<c, {}>>, <<common, {}>>, <<common, {<<c, Public>>}>>}

\* The projects in one workspace or in two; with two, one usage configuration
\* that the action does not support, or PRIVATE usages that remove a value.
MCWorkspaces ==
  { <<<<<<a, b, c>>>>, {}, {}>>,
    <<<<<<a>>, <<b, c>>>>, {<<b, Public, release>>}, {}>>,
    <<<<<<a>>, <<b, c>>>>, {}, {x}>> }

\* The string of configuration c, debug was fetched, that of c, release not.
MCScript ==
  { Script1(ws[1], naming[1], MCUsageSet \union naming[2], usesA, usesC,
            publicA, publicB, commonC, ws[2], ws[3], {<<c, debug>>}) :
      ws \in MCWorkspaces, naming \in MCNaming,
      usesA \in {<< >>, <<common, b>>},
      usesC \in {<<a>>, <<b, a, common>>, <<Private>>},
      publicA \in {<< >>, <<common>>, <<b>>}, publicB \in {<< >>, <<a>>},
      commonC \in {<< >>, <<b>>} }
=============================================================================
