------------------------------ MODULE MCLinks ------------------------------
(* Instances of Links for TLC.                                             *)
EXTENDS Links

CONSTANTS app, core, lib, debug, release

MCProjects == <<app, core, lib>>
MCConfig   == {debug, release}

\* The project lib also goes by another spelling; "m" is a system library.
MCLink  == {"App", "Core", "Lib", "LIB", "Lib:static", "m", "m:static", "net.dll"}
MCNameOf == [p \in {app, core, lib} |->
               IF p = app THEN "App" ELSE IF p = core THEN "Core" ELSE "Lib"]
MCLower == [l \in MCLink |-> IF l = "LIB" THEN "Lib" ELSE l]
MCBare  == [l \in MCLink |-> IF l = "Lib:static" THEN "Lib"
                             ELSE IF l = "m:static" THEN "m" ELSE l]

Native(kind) == [kind |-> kind, dotnet |-> FALSE, clr |-> "Off"]
Clr(kind, clr) == [kind |-> kind, dotnet |-> FALSE, clr |-> clr]
DotNet(kind) == [kind |-> kind, dotnet |-> TRUE, clr |-> "Off"]

\* All native; core not a library; core managed, and app too, or mixed, or not.
MCType ==
  { [p \in {app, core, lib} |->
       IF p = app THEN t[1] ELSE IF p = core THEN t[2] ELSE Native("StaticLib")] :
    t \in { <<Native("ConsoleApp"), Native("SharedLib")>>,
            <<Native("StaticLib"), Native("ConsoleApp")>>,
            <<Native("ConsoleApp"), DotNet("SharedLib")>>,
            <<Clr("SharedLib", "On"), DotNet("SharedLib")>>,
            <<DotNet("ConsoleApp"), Clr("SharedLib", "Pure")>> } }

\* lib may not have the configuration debug, and core not release.
MCConfigs ==
  { [p \in {app, core, lib} |->
       IF p = lib THEN d ELSE IF p = core THEN r ELSE <<debug, release>>] :
    d \in {<<debug, release>>, <<release>>}, r \in {<<debug, release>>, <<debug>>} }

Both(l) == [c \in MCConfig |-> l]

\* What app links in either configuration, core always, and lib back.
MCAppLinks ==
  { [c \in MCConfig |-> IF c = debug THEN d ELSE r] :
    d \in {<< >>, <<"Lib">>, <<"Lib", "m:static">>, <<"Core", "LIB", "Lib">>, <<"Lib:static", "App">>},
    r \in {<<"Lib", "Core">>, <<"Core">>, <<"net.dll", "Lib:static", "Core">>} }
MCCoreLinks == {Both(<< >>), Both(<<"Lib", "m">>)}
MCLibLinks  == {Both(<< >>), Both(<<"Core">>)}

MCArchives ==
  {Both(<< >>), Both(<<"Lib">>), Both(<<"Lib", "m">>), Both(<<"Lib:static", "m">>)}

MCDependsOn == {Both(<< >>), Both(<<"Lib", "Core">>)}

MCWorkspace ==
  { [configs |-> cs, type |-> t,
     links |-> [p \in {app, core, lib} |-> IF p = app THEN a ELSE IF p = core THEN b ELSE d],
     dependson |-> [p \in {app, core, lib} |-> IF p = app THEN o ELSE Both(<< >>)],
     wholearchive |-> [p \in {app, core, lib} |-> IF p = app THEN w ELSE Both(<< >>)]] :
    cs \in MCConfigs, t \in MCType, a \in MCAppLinks, b \in MCCoreLinks,
    d \in MCLibLinks, o \in MCDependsOn, w \in MCArchives }
=============================================================================
