---------------------------- MODULE MCConfigMap ----------------------------
(* Instances of ConfigMap for TLC.                                         *)
EXTENDS ConfigMap

\* Debug, Release, Final and the platforms x32, x64; DebugX and 32, the
\* concatenation of which is that of Debug and X32.
Debug   == <<1>>
Release == <<2>>
Final   == <<3>>
X32     == <<7, 8>>
X64     == <<9>>
DebugX  == <<1, 7>>
P32     == <<8>>

MCName == {Debug, Release, Final, X32, X64, DebugX, P32}

Map(p, r) == [pattern |-> p, replacement |-> r]

MCEntry ==
  { Map(<<Debug>>, <<Release>>), Map(<<Release>>, <<Final>>),
    Map(<<Release>>, <<Debug>>), Map(<<X32>>, <<X64>>),
    Map(<<Any>>, <<Final>>), Map(<<Debug>>, <<Final, X64>>),
    Map(<<Debug, X32>>, <<Release, X32>>), Map(<<Debug, X32>>, <<Final>>),
    Map(<<Release, X64>>, <<Final, X32>>), Map(<<Debug, Any>>, <<Final, X64>>),
    Map(<<X64>>, <<P32>>), Map(<<Final>>, <<DebugX>>) }

\* No map, one, or two entries of one configmap call or of two.
MCMaps ==
  {<< << >>, << >> >>} \union {<< <<e>>, <<1>> >> : e \in MCEntry}
  \union {<< m, <<1, 2>> >> : m \in MCEntry \X MCEntry}
  \union {<< m, <<1, 1>> >> : m \in MCEntry \X MCEntry}

MCProject ==
  { [configurations |-> l[1], platforms |-> l[2], maps |-> m[1], table |-> m[2],
     unsupported |-> u] :
    l \in { << <<Debug, Release>>, << >> >>,
            << <<Debug, Release>>, <<X32, X64>> >>,
            << <<Debug, DebugX>>, <<X32, P32>> >>,
            << << >>, <<X32>> >>,
            << <<Final, Debug, Release>>, <<X64>> >> },
    m \in MCMaps,
    u \in {{}, {<<Release>>, <<Release, X64>>}} }

\* configurations { "Debug", "Release" }, platforms { "x32", "x64" },
\* configmap { [{ "Debug", "x32" }] = { "Release", "x32" } }
MCTupleMap ==
  { p \in MCProject :
      /\ p.platforms = <<X32, X64>> /\ p.unsupported = {}
      /\ p.maps = <<Map(<<Debug, X32>>, <<Release, X32>>)>> }
=============================================================================
