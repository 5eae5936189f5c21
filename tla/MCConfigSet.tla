---------------------------- MODULE MCConfigSet ----------------------------
(* Instances of ConfigSet for TLC.                                         *)
EXTENDS ConfigSet

CONSTANTS global, workspace, app, lib, any, onDebug, debug, release, a, b, all

MCContainer == {global, workspace, app, lib}

MCChainOf ==
  [c \in MCContainer |->
     IF c = global THEN <<global>>
     ELSE IF c = workspace THEN <<global, workspace>>
     ELSE <<global, workspace, c>>]

MCValue == {a, b}

\* A value by name, and the wildcard.
MCSelects == [p \in {a, all} |-> IF p = all THEN MCValue ELSE {p}]

\* No filter, and one that only debug contexts match.
MCHolds == [t \in {any, onDebug} |-> IF t = any THEN {debug, release} ELSE {debug}]

MCListed == {<<a>>, <<b, a>>}
=============================================================================
