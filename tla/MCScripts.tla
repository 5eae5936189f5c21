------------------------------ MODULE MCScripts ------------------------------
(***************************************************************************)
(* Small script trees.                                                     *)
(***************************************************************************)
EXTENDS Scripts, TLC

CONSTANTS NoValue

S(op, arg) == [op |-> op, arg |-> arg, guard |-> FALSE]
G(op, arg) == [op |-> op, arg |-> arg, guard |-> TRUE]

Work == <<"/", "w">>
Lib  == <<"/", "lib">>
Main == <<"/", "w", "premake5">>
Sub  == <<"/", "w", "a", "premake5">>
X    == <<"/", "w", "x">>
LibX == <<"/", "lib", "x">>
Core == <<"$", "src", "core">>

\* What most programs have in common
Plain == [disk |-> << >>, builtin |-> << >>, broken |-> {}, scripts |-> NoValue, env |-> <<Lib>>, share |-> << >>,
          home |-> <<"/", "bin">>, release |-> TRUE, start |-> Work, main |-> Main,
          modules |-> << >>, system |-> NoValue]

\* What the user's script may do ...
MainStatements ==
  {S("include", <<"a">>), G("include", <<"a">>), S("includeexternal", <<"a">>),
   G("includeexternal", <<"a">>), S("include", <<"x">>), S("project", <<"P">>),
   S("group", <<"G">>)}
\* ... the script of the directory a ...
SubStatements ==
  {S("include", <<"x">>), S("includeexternal", <<"..">>), S("include", <<"..">>),
   S("error", << >>), S("project", <<"P">>), S("project", <<"Q">>), S("group", <<"G">>)}
\* ... and the two files called x.
XBodies == {<< >>, <<S("error", << >>)>>, <<S("include", <<"a">>)>>, <<G("dofile", <<"x">>)>>}

UpTo(n, T) == UNION {[1..k -> T] : k \in 0..n}

Trees(mains, subs, xs) ==
  {[Plain EXCEPT !.disk    = (Main :> (<<S("workspace", <<"W">>)>> \o m)) @@ (Sub :> s) @@ (X :> x)
                @@ (LibX :> <<S("project", <<"R">>)>>),
    !.builtin = (<<"$", "src", "_premake_main">> :> << >>)] :
   m \in mains, s \in subs, x \in xs}

\* Mistakes, and a file found on the search path under several names.
Odd == UpTo(2, {S("include", <<"no">>), G("includeexternal", <<"no">>), S("project", <<"P">>),
                G("group", <<"G">>), S("workspace", <<"V">>), G("include", <<"bad">>),
                S("include", <<"..", "b", "x">>), S("include", <<"/", "c", "b", "x">>),
                S("include", <<"b", "x">>)})

OddTrees ==
  {[Plain EXCEPT !.disk    = (Main :> m) @@ (<<"/", "w", "bad">> :> << >>)
                @@ (<<"/", "c", "b", "x">> :> <<G("include", <<"bad">>)>>),
    !.builtin = (<<"$", "src", "_premake_main">> :> << >>),
    !.broken  = {<<"/", "w", "bad">>}, !.env = <<<<"/", "c", "lib">>, <<"/", "c">>>>] :
   m \in Odd}

\* The core scripts, with files of the same names in the way.
Closed ==
  (<<"$", "src", "_premake_main">> :> <<S("dofile", <<"core">>), S("dofile", <<"b", "core">>)>>)
  @@ (Core :> << >>) @@ (<<"$", "src", "b", "core">> :> <<S("dofile", <<"near">>)>>)
  @@ (<<"$", "src", "b", "near">> :> << >>)

Open == (Core :> <<S("include", <<"near">>)>>) @@ Closed

Cores ==
  {[Plain EXCEPT !.disk    = [f \in d |-> IF f = Main THEN <<S("dofile", <<"y">>), S("project", <<"P">>)>>
                             ELSE << >>],
    !.builtin = b, !.broken = br, !.scripts = sc, !.env = e, !.release = r] :
   d  \in SUBSET {Main, <<"/", "w", "core">>, <<"/", "w", "src", "_premake_main">>,
                  <<"/", "lib", "src", "_premake_main">>, <<"/", "lib", "core">>},
   b  \in {<< >>, Closed, Open},
   br \in {{}, {<<"/", "w", "core">>}, {Main}},
   sc \in {NoValue, Lib}, e \in {<< >>, <<Lib>>}, r \in BOOLEAN}

\* The modules: vs has a _preload script that includes its neighbours, raw has none,
\* and the one of again is included by vs already.
Embed ==
  (<<"$", "src", "_premake_main">> :> <<S("dofile", <<"core">>)>>) @@ (Core :> << >>)
  @@ (<<"$", "vs", "_preload">> :> <<S("include", <<"vs05">>),
                                     S("include", <<"..", "again", "_preload">>)>>)
  @@ (<<"$", "vs", "vs05">> :> << >>) @@ (<<"$", "again", "_preload">> :> << >>)
  @@ (<<"$", "raw", "raw">> :> <<S("dofile", <<"act">>)>>) @@ (<<"$", "raw", "act">> :> << >>)

InWay == {<<"/", "w", "vs05">>, <<"/", "lib", "vs05">>, <<"/", "w", "raw", "raw">>,
          <<"/", "lib", "modules", "vs", "_preload">>, <<"/", "w", "act">>, <<"/", "w", "core">>,
          <<"/", "w", "premake5-system">>, <<"/", "bin", "premake-system">>}

ModuleTrees ==
  {[Plain EXCEPT !.disk = [f \in d \union {Main} |-> << >>], !.builtin = Embed, !.modules = m,
    !.broken = br, !.system = y] :
   d  \in SUBSET InWay,
   m  \in {<<"vs", "again", "raw">>, <<"raw", "vs">>, <<"none">>},
   br \in {{}, {<<"/", "w", "vs05">>}}, y \in {NoValue, <<"act">>}}

Programs ==
  Trees(UpTo(2, MainStatements), UpTo(2, SubStatements), XBodies)
    \union OddTrees \union Cores \union ModuleTrees
=============================================================================
