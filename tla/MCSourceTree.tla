---------------------------- MODULE MCSourceTree ----------------------------
(* Instances of SourceTree for TLC.                                        *)
EXTENDS SourceTree

MCName   == {"a", "b", "c", "home", "prj", "x", "y"}
MCDotDot == ".."
MCSlash  == "/"
MCRank   == [s \in Segment |->
               CHOOSE i \in 1..9 :
                 s = <<"..", "/", "a", "b", "c", "home", "prj", "x", "y">>[i]]

\* Folders x and y inside the project, beside it, above it and elsewhere.
MCFile == { <<"home", "prj", "a">>, <<"home", "prj", "x", "a">>,
            <<"home", "prj", "x", "b">>, <<"home", "prj", "x", "y", "c">>,
            <<"home", "x", "a">>, <<"home", "x", "c">>, <<"home", "y", "b">>,
            <<"x", "a">> }

Under(dir, to, stars) ==
  [to |-> to, stars |-> stars, from |-> dir,
   matches |-> {f \in MCFile : IsStrictPrefix(dir, f)}]

\* No virtual paths; a folder of the disk shown under another name, flat or with
\* its folders; a folder shown where another one is; everything shown at the top;
\* one file shown elsewhere, before a rule for its folder; files of a folder shown
\* under the name that another file has.
MCVpaths ==
  { << >>,
    <<Under(<<"home", "x">>, <<"y">>, FALSE)>>,
    <<Under(<<"home", "x">>, <<"x">>, TRUE)>>,
    <<Under(<<"home", "prj">>, <<"y", "x">>, TRUE)>>,
    <<Under(<< >>, << >>, TRUE)>>,
    <<Under(<< >>, <<"y">>, FALSE)>>,
    <<[to |-> <<"y">>, stars |-> TRUE, from |-> <<"home", "prj", "x", "a">>,
       matches |-> {<<"home", "prj", "x", "a">>}],
      Under(<<"home", "prj", "x">>, <<"x">>, TRUE)>>,
    <<Under(<<"home", "x">>, <<"a">>, FALSE)>> }

\* Nothing is generated; one file is, from another one; or all are from one.
MCSource(fs) ==
  {<< >>}
    \union {[f \in {gen} |-> src] : gen \in fs \intersect {<<"home", "prj", "x", "b">>, <<"home", "y", "b">>},
                                   src \in fs \ {<<"home", "prj", "x", "b">>, <<"home", "y", "b">>}}
    \union {[f \in fs \ {src} |-> src] : src \in fs \intersect {<<"home", "prj", "x", "a">>}}

MCProject ==
  UNION { { [location |-> loc, files |-> fs, vpaths |-> vp, source |-> src] : src \in MCSource(fs)} :
    loc \in {<<"home", "prj">>, <<"home", "prj", "y">>},
    fs \in {s \in SUBSET MCFile : Cardinality(s) \in 1..4},
    vp \in MCVpaths }
=============================================================================
