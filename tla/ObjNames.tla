------------------------------ MODULE ObjNames ------------------------------
(***************************************************************************)
(* What the numbering of object files promises the exporters, whatever the *)
(* tables it keeps: every file compiled under a key (a configuration, or   *)
(* the project) ends up with a name no other file has under that key, and  *)
(* keeps its plain name if that is free when its turn comes.  Names are    *)
(* given one at a time; more files may join when all have one or none has, *)
(* and then all names are taken back.  Module ObjSequence implements this. *)
(***************************************************************************)
EXTENDS FiniteSets

VARIABLES
  plain,     \* the base name of a file (never changes)
  compiled,  \* the pairs <<file, key>> to name
  name,      \* the names given so far
  done       \* the project is baked

vars == <<plain, compiled, name, done>>

Unnamed == [e \in {} |-> plain]

\* No file named so far has name n under key k.
Free(n, k) == \A d \in DOMAIN name : d[2] = k => name[d] # n

Init == name = Unnamed /\ done = FALSE

Choose(e) ==
  /\ ~done
  /\ e \notin DOMAIN name
  /\ DOMAIN name' = DOMAIN name \union {e}
  /\ \A d \in DOMAIN name : name'[d] = name[d]
  /\ Free(name'[e], e[2])
  /\ Free(plain[e[1]], e[2]) => name'[e] = plain[e[1]]
  /\ UNCHANGED <<plain, compiled, done>>

Grow ==
  /\ ~done
  /\ DOMAIN name \in {{}, compiled}
  /\ compiled \subseteq compiled'
  /\ name' = Unnamed
  /\ UNCHANGED <<plain, done>>

Finish ==
  /\ ~done
  /\ DOMAIN name = compiled
  /\ done' = TRUE
  /\ UNCHANGED <<plain, compiled, name>>

Next == (\E e \in compiled : Choose(e)) \/ Grow \/ Finish

Spec == Init /\ [][Next]_vars
=============================================================================
