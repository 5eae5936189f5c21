--------------------------- MODULE MCObjSequence ---------------------------
(* Instances of ObjSequence for TLC.                                       *)
EXTENDS ObjSequence

CONSTANTS f1, f2, f3, gen, header, lib, debug, release

MCFile       == {f1, f2, f3, gen, header, lib}
MCConfigList == <<debug, release>>
MCNative     == {f1, f2, f3, gen}

\* h, h1, h11 and h2, with 10 for the letter
MCName       == {<<10>>, <<10, 1>>, <<10, 1, 1>>, <<10, 2>>}

\* What the rule of f1 generates, and in which configurations: nothing, a new
\* source, a source that is listed already, or a library.
Generated == { << << >>, {} >>, << <<gen>>, {debug} >>,
               << <<lib, f2>>, {debug, release}>> }

\* Three sources and a header, with every choice of base names for the
\* sources; f2 may be missing from one configuration, f3 may be excluded.
MCProject ==
  { [base     |-> [f \in MCFile |-> IF f \in MCNative THEN b[f] ELSE <<10>>],
     files    |-> <<f1, header, f2, f3>>,
     member   |-> ({f1, header, f2, f3} \X {debug, release}) \ out,
     excluded |-> ex,
     outputs  |-> [e \in MCFile \X {debug, release} |->
                     IF e[1] = f1 /\ e[2] \in g[2] THEN g[1] ELSE << >>]] :
    b   \in {n \in [MCNative -> MCName] : n[f1] \in {<<10>>, <<10, 1>>}},
    out \in {{}, {<<f2, debug>>}},
    ex  \in {{}, {<<f3, release>>}},
    g   \in Generated }
=============================================================================
