---------------------------- MODULE ObjSequence ----------------------------
(***************************************************************************)
(* Object file names of one native project.                                *)
(*                                                                         *)
(* Two sources with the same base name (src/hello.cpp, tests/hello.cpp)    *)
(* would compile to the same object file, so premake numbers them:         *)
(* oven.assignObjectSequences walks the project's files and gives each a   *)
(* sequence number per configuration, and one more for the project itself  *)
(* (makefiles use that one).  The object name is the base name followed by *)
(* the number, unless the number is 0.  Names made that way may collide    *)
(* with real base names (hello1.cpp), which oven.uniqueSequence detects by *)
(* recording every issued name in the same table as the base names.        *)
(*                                                                         *)
(* The numbering runs when the project is baked, and a second time when    *)
(* oven.addGeneratedFiles has appended the outputs of custom build rules   *)
(* to the file list.  The outer loops are cut into one step per file and   *)
(* key, and the "while true" of uniqueSequence into one step per attempt.  *)
(***************************************************************************)
EXTENDS Naturals, Sequences, FiniteSets

CONSTANTS
  File,         \* absolute paths
  ConfigList,   \* the project's configurations, in project.eachconfig order
  Prj,          \* the key the project itself has in the tables
  Native,       \* the files for which path.isnativefile holds
  Linkable,     \* the files for which path.islinkable holds
  None,         \* the number of a file that has none (nil)
  Name,         \* lower-case base names: sequences of character codes
  Project       \* the projects considered: see ProjectAssumption

Config == {ConfigList[i] : i \in 1..Len(ConfigList)}
Key    == Config \union {Prj}

\* Configurations are numbered apart from the project object, and base names
\* are strings.
ASSUME ConfigListAssumption ==
  /\ ConfigList \in Seq(Config)
  /\ \A i, j \in 1..Len(ConfigList) : ConfigList[i] = ConfigList[j] => i = j
  /\ Prj \notin Config
ASSUME NoneAssumption == None \notin Nat
ASSUME FileAssumption == Native \subseteq File /\ Linkable \subseteq File
ASSUME NameAssumption == \A b \in Name : b \in Seq(Nat)

NoRepeats(s) == \A i, j \in 1..Len(s) : s[i] = s[j] => i = j

\* What oven.bakeFiles leaves in a project, and what its file configurations
\* say: the file list is keyed by path, so no path is listed twice.
ASSUME ProjectAssumption == \A p \in Project :
  /\ p.base \in [File -> Name]
  /\ p.excluded \subseteq File \X Config
  /\ p.member \subseteq File \X Config
  /\ p.outputs \in [File \X Config -> Seq(File)]
  /\ p.files \in Seq(File) /\ NoRepeats(p.files)

VARIABLES
  base,         \* file.basename:lower(), per file (never changes)
  excluded,     \* <<file, config>> with excludefrombuild (never changes)
  outputs,      \* buildoutputs of a rule with compilebuildoutputs (never changes)
  files,        \* prj._.files in order
  member,       \* <<file, config>> for which fileconfig.getconfig is not nil
  hasGenerated, \* prj.hasGeneratedFiles
  phase,        \* "number", "generate", "renumber" or "done"
  fi,           \* index into files of the file being visited
  ki,           \* index into KeyList of the key being visited
  oi,           \* index of the build output being visited
  snapshot,     \* length of the copy of files addGeneratedFiles iterates over
  bases,        \* bases[<<name, key>>]: the next number to try for name
  sequence      \* fcfg.sequence, per file and key; None when nil

inputs == <<base, excluded, outputs>>
tables == <<files, member, hasGenerated>>
vars   == <<inputs, tables, phase, fi, ki, oi, snapshot, bases, sequence>>

\* The order in which the keys of one file are visited: eachconfig, then prj.
KeyList == Append(ConfigList, Prj)

NumberingPhase == {"number", "renumber"}

-----------------------------------------------------------------------------
(* Object names                                                            *)

Decimal[n \in Nat] ==
  IF n < 10 THEN <<n>> ELSE Append(Decimal[n \div 10], n % 10)

\* fcfg_mt.objname, lower-cased
NumberedName(b, n) == IF n > 0 THEN b \o Decimal[n] ELSE b

ObjName(f, k) ==
  IF sequence[<<f, k>>] = None THEN base[f] ELSE NumberedName(base[f], sequence[<<f, k>>])

\* The keys under which a file is given a number: the configurations that
\* compile it, and the project.
Eligible(f, k) ==
  f \in Native /\ (k = Prj \/ (<<f, k>> \in member /\ <<f, k>> \notin excluded))

-----------------------------------------------------------------------------
(* oven.assignObjectSequences and oven.uniqueSequence                      *)

Numbering == phase \in NumberingPhase /\ fi <= Len(files)

NextFile == fi' = fi + 1 /\ ki' = 1

NextKey == IF ki = Len(KeyList) THEN NextFile ELSE ki' = ki + 1 /\ fi' = fi

\* "Only consider sources that actually generate object files"
SkipFile ==
  /\ Numbering
  /\ files[fi] \notin Native
  /\ NextFile
  /\ UNCHANGED <<inputs, tables, phase, oi, snapshot, bases, sequence>>

\* fcfg == nil or fcfg.excludefrombuild
SkipConfig ==
  /\ Numbering
  /\ files[fi] \in Native
  /\ ~ Eligible(files[fi], KeyList[ki])
  /\ NextKey
  /\ UNCHANGED <<inputs, tables, phase, oi, snapshot, bases, sequence>>

\* seq[cfg] is nil: the first file with this base name keeps it, number 0.
TakeBaseName(f, k) ==
  /\ <<base[f], k>> \notin DOMAIN bases
  /\ sequence' = [sequence EXCEPT ![<<f, k>>] = 0]
  /\ bases' = [e \in DOMAIN bases \union {<<base[f], k>>} |->
                 IF e = <<base[f], k>> THEN 1 ELSE bases[e]]

\* Mutants of Tried: the issued name is not recorded; the number is not
\* advanced; the issued name is recorded as number 0.
TriedUnrecorded(b, n, k) == [bases EXCEPT ![<<b, k>>] = n + 1]

TriedInPlace(b, n, k) ==
  [e \in DOMAIN bases \union {<<NumberedName(b, n), k>>} |->
     IF e \in DOMAIN bases THEN bases[e] ELSE 1]

TriedFromZero(b, n, k) ==
  [e \in DOMAIN bases \union {<<NumberedName(b, n), k>>} |->
     IF e = <<b, k>> THEN n + 1
     ELSE IF e \in DOMAIN bases THEN bases[e] ELSE 0]

\* The table after number n of base name b was tried under key k; a name that
\* was free is recorded so that a later base name equal to it is numbered.
Tried(b, n, k) ==
  [e \in DOMAIN bases \union {<<NumberedName(b, n), k>>} |->
     IF e = <<b, k>> THEN n + 1
     ELSE IF e \in DOMAIN bases THEN bases[e] ELSE 1]

\* The numbered name is free.
TakeNumber(f, k) ==
  /\ <<base[f], k>> \in DOMAIN bases
  /\ LET n == bases[<<base[f], k>>] IN
       /\ <<NumberedName(base[f], n), k>> \notin DOMAIN bases
       /\ sequence' = [sequence EXCEPT ![<<f, k>>] = n]
       /\ bases' = Tried(base[f], n, k)

\* The numbered name is in the table: try the next number.
Collide(f, k) ==
  /\ <<base[f], k>> \in DOMAIN bases
  /\ LET n == bases[<<base[f], k>>] IN
       /\ <<NumberedName(base[f], n), k>> \in DOMAIN bases
       /\ sequence' = [sequence EXCEPT ![<<f, k>>] = n]
       /\ bases' = Tried(base[f], n, k)

Assign ==
  /\ Numbering
  /\ Eligible(files[fi], KeyList[ki])
  /\ \/ TakeBaseName(files[fi], KeyList[ki])
     \/ TakeNumber(files[fi], KeyList[ki])
  /\ NextKey
  /\ UNCHANGED <<inputs, tables, phase, oi, snapshot>>

Retry ==
  /\ Numbering
  /\ Eligible(files[fi], KeyList[ki])
  /\ Collide(files[fi], KeyList[ki])
  /\ UNCHANGED <<inputs, tables, phase, fi, ki, oi, snapshot>>

EndNumbering ==
  /\ phase \in NumberingPhase
  /\ fi > Len(files)
  /\ phase' = IF phase = "number" THEN "generate" ELSE "done"
  /\ snapshot' = Len(files)
  /\ fi' = 1 /\ ki' = 1 /\ oi' = 1
  /\ UNCHANGED <<inputs, tables, bases, sequence>>

-----------------------------------------------------------------------------
(* oven.addGeneratedFiles: for each configuration, for each file of the    *)
(* copied list, for each of its build outputs.                             *)

Generating == phase = "generate" /\ ki <= Len(ConfigList) /\ fi <= snapshot

Compiles(f, c) == <<f, c>> \in member /\ <<f, c>> \notin excluded

\* addGeneratedFile; an output that can be linked is passed over
AddGeneratedFile ==
  /\ Generating
  /\ LET f == files[fi]
         c == ConfigList[ki]
     IN  /\ Compiles(f, c)
         /\ oi <= Len(outputs[<<f, c>>])
         /\ LET o == outputs[<<f, c>>][oi] IN
              IF o \in Linkable
              THEN UNCHANGED tables
              ELSE /\ hasGenerated' = TRUE
                   /\ files' = IF \E i \in 1..Len(files) : files[i] = o
                               THEN files ELSE Append(files, o)
                   /\ member' = member \union {<<o, c>>}
  /\ oi' = oi + 1
  /\ UNCHANGED <<inputs, phase, fi, ki, snapshot, bases, sequence>>

NextNode ==
  /\ Generating
  /\ LET f == files[fi]
         c == ConfigList[ki]
     IN  ~ Compiles(f, c) \/ oi > Len(outputs[<<f, c>>])
  /\ oi' = 1
  /\ IF fi = snapshot THEN fi' = 1 /\ ki' = ki + 1
                      ELSE fi' = fi + 1 /\ ki' = ki
  /\ UNCHANGED <<inputs, tables, phase, snapshot, bases, sequence>>

\* Mutants of EndGenerating: the files are not numbered again; they are, but
\* from the table of the first pass.
EndGeneratingOnce ==
  /\ phase = "generate"
  /\ ki > Len(ConfigList) \/ snapshot = 0
  /\ phase' = "done"
  /\ fi' = 1 /\ ki' = 1 /\ oi' = 1
  /\ UNCHANGED <<inputs, tables, snapshot, bases, sequence>>

EndGeneratingStale ==
  /\ phase = "generate"
  /\ ki > Len(ConfigList) \/ snapshot = 0
  /\ phase' = IF hasGenerated THEN "renumber" ELSE "done"
  /\ fi' = 1 /\ ki' = 1 /\ oi' = 1
  /\ UNCHANGED <<inputs, tables, snapshot, bases, sequence>>

\* "generated files might screw up the object sequences": number again, from
\* an empty table.
EndGenerating ==
  /\ phase = "generate"
  /\ ki > Len(ConfigList) \/ snapshot = 0
  /\ phase' = IF hasGenerated THEN "renumber" ELSE "done"
  /\ bases' = IF hasGenerated THEN << >> ELSE bases
  /\ fi' = 1 /\ ki' = 1 /\ oi' = 1
  /\ UNCHANGED <<inputs, tables, snapshot, sequence>>

-----------------------------------------------------------------------------
(* Specification                                                           *)

Inputs ==
  \E p \in Project :
    /\ base = p.base /\ excluded = p.excluded /\ outputs = p.outputs
    /\ files = p.files /\ member = p.member

Init ==
  /\ Inputs
  /\ hasGenerated = FALSE
  /\ phase = "number"
  /\ fi = 1 /\ ki = 1 /\ oi = 1 /\ snapshot = 0
  /\ bases = << >>
  /\ sequence = [e \in File \X Key |-> None]

Next ==
  \/ SkipFile \/ SkipConfig \/ Assign \/ Retry \/ EndNumbering
  \/ AddGeneratedFile \/ NextNode \/ EndGenerating

Spec == Init /\ [][Next]_vars

\* One Lua thread: the program does not stop between two steps.
FairSpec == Spec /\ WF_vars(Next)

-----------------------------------------------------------------------------
(* Properties                                                              *)

TypeOK ==
  /\ base \in [File -> Name]
  /\ excluded \subseteq File \X Config
  /\ outputs \in [File \X Config -> Seq(File)]
  /\ files \in Seq(File)
  /\ member \subseteq File \X Config
  /\ hasGenerated \in BOOLEAN
  /\ phase \in {"number", "generate", "renumber", "done"}
  /\ fi \in Nat \ {0} /\ ki \in Nat \ {0} /\ oi \in Nat \ {0}
  /\ snapshot \in Nat
  /\ bases \in [DOMAIN bases -> Nat \ {0}]
  /\ sequence \in [File \X Key -> Nat \union {None}]

\* The positions of the running pass, or of the last one, already numbered.
Visited(i, j) ==
  /\ i \in 1..Len(files) /\ j \in 1..Len(KeyList)
  /\ IF phase \in NumberingPhase THEN i < fi \/ (i = fi /\ j < ki)
                                  ELSE i <= snapshot

Numbered(i, j) == Visited(i, j) /\ Eligible(files[i], KeyList[j])

\* No two files compiled by a configuration, and no two native files of the
\* project, share an object name: at the end of baking, and among the files
\* visited so far while a pass runs (oven.lua, "assign unique sequence numbers
\* to each").  While generated files are being added the numbers are stale.
UniqueObjNames ==
  (phase = "generate" => ~hasGenerated) =>
    \A j \in 1..Len(KeyList) : \A i1, i2 \in 1..Len(files) :
      (/\ Numbered(i1, j) /\ Numbered(i2, j)
       /\ ObjName(files[i1], KeyList[j]) = ObjName(files[i2], KeyList[j]))
        => i1 = i2

\* The pairs <<file, key>> that are to be numbered, and those that are: none
\* while a generated file waits for the second pass.
Compiled == {e \in File \X Key :
               (\E i \in 1..Len(files) : files[i] = e[1]) /\ Eligible(e[1], e[2])}

Named ==
  {e \in Compiled :
     /\ phase = "generate" => ~hasGenerated
     /\ \E i \in 1..Len(files), j \in 1..Len(KeyList) :
          Numbered(i, j) /\ e = <<files[i], KeyList[j]>>}

Names == [e \in Named |-> ObjName(e[1], e[2])]

Naming == INSTANCE ObjNames WITH
  plain    <- base,
  compiled <- Compiled,
  name     <- Names,
  done     <- phase = "done"

\* The numbering does what module ObjNames promises: one name at a time, free
\* and plain if it can be, none changed before the second pass takes all back,
\* and baking ends only when no file that compiles is left without one, those
\* that addGeneratedFiles appended to the list or to a configuration included.
NamesEveryFile == Naming!Spec

\* A number is only appended to the name of a file whose plain base name some
\* other file already holds as its object name.
NumberedOnlyOnCollision ==
  phase = "done" =>
    \A i \in 1..Len(files), k \in Key :
      (Eligible(files[i], k) /\ sequence[<<files[i], k>>] # 0) =>
        \E g \in 1..Len(files) :
          g # i /\ Eligible(files[g], k) /\ ObjName(files[g], k) = base[files[i]]

\* The search for a free name ends for every file ("while true" in
\* oven.uniqueSequence), so the project gets baked.
Finishes == <>(phase = "done")
=============================================================================
