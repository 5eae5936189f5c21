--------------------------- MODULE MCBakeConfig ---------------------------
(* Instances of BakeConfig for TLC.                                        *)
EXTENDS BakeConfig

CONSTANTS configurations, system, toolset, kind, tags, defines,
          debug, linux, posix, windows, gcc, clang, staticlib, sharedlib, x, y, files, source

MCStages == <<system, toolset, kind, tags>>
MCField  == {configurations, system, toolset, kind, tags, defines, files}
MCValue  == {debug, linux, posix, windows, gcc, clang, staticlib, sharedlib, x, y, source}

MCTagsOf == [v \in MCValue |-> IF v = linux THEN {linux, posix} ELSE {v}]

MCProjectStages == <<system, tags, kind>>
MCProjectDefault ==
  [f \in {system, toolset, kind, tags} |-> IF f = system THEN {linux} ELSE {}]

MCDefault ==
  [f \in {system, toolset, kind, tags} |->
     IF f = system THEN {linux} ELSE IF f = toolset THEN {gcc} ELSE {}]

NoneForced  == [f \in {system, toolset, kind, tags} |-> {}]
ClangForced == [f \in {system, toolset, kind, tags} |->
                  IF f = toolset THEN {clang} ELSE {}]

MCWksTerms ==
  [f \in MCField |-> IF f = configurations THEN {debug}
                     ELSE IF f = system THEN {linux, posix} ELSE {}]

Is(f, v)  == [field |-> f, value |-> v, negated |-> FALSE]
Not(f, v) == [field |-> f, value |-> v, negated |-> TRUE]

Setting == { <<system, windows>>, <<toolset, clang>>, <<kind, staticlib>>,
             <<kind, sharedlib>>, <<tags, x>>, <<defines, y>> }

MCCriteria ==
  { {}, {{Is(configurations, debug)}}, {{Is(system, posix)}},
    {{Not(system, linux)}}, {{Is(toolset, gcc)}}, {{Is(kind, staticlib)}},
    {{Not(kind, staticlib)}}, {{Is(tags, x)}}, {{Not(configurations, debug)}},
    {{Is(kind, sharedlib), Is(system, windows)}, {Is(toolset, clang)}} }

MCBlock ==
  { [criteria |-> c, field |-> s[1], value |-> s[2]] : c \in MCCriteria, s \in Setting }

\* Settings for the file only
MCFileBlock ==
  { [criteria |-> {{Is(files, source)}} \union c, field |-> defines, value |-> y] :
    c \in {{{Is(tags, x)}}, {{Is(kind, staticlib)}}, {{Is(kind, sharedlib), Is(configurations, debug)}}} }

\* Scripts of two settings, of three in which the first is not filtered, and of
\* two and one for the file.
MCScript ==
  (MCBlock \X MCBlock)
  \union { <<b1, b2, b3>> : b1 \in {b \in MCBlock : b.criteria = {}},
                            b2 \in MCBlock, b3 \in MCBlock }
  \union (MCBlock \X MCBlock \X MCFileBlock)
=============================================================================
