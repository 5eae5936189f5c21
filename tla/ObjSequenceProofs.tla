------------------------- MODULE ObjSequenceProofs -------------------------
(***************************************************************************)
(* Proofs about ObjSequence: for every project, the object names that      *)
(* oven.assignObjectSequences hands out are unique, and the numbering      *)
(* implements the abstract specification ObjNames.                         *)
(*                                                                         *)
(* The argument: the domain of bases is exactly the set of names issued in *)
(* the running pass, so a name that is not in it is free; a name is only   *)
(* issued when it is not in it, and is put there at once.  Nothing is      *)
(* needed of NumberedName but that number 0 leaves the base name alone.    *)
(***************************************************************************)
EXTENDS ObjSequence, TLAPS

\* The tables describe the files of the current file list: true but for the
\* time between a generated file being added and the numbers being redone.
Fresh == phase = "generate" => ~hasGenerated

NameAt(i, j) == ObjName(files[i], KeyList[j])

FileIndex == 1..Len(files)
KeyIndex  == 1..Len(KeyList)

\* Every position numbered has a number, and its name is in the table.
Issued ==
  \A i \in FileIndex, j \in KeyIndex : Numbered(i, j) =>
    /\ sequence[<<files[i], KeyList[j]>>] \in Nat
    /\ <<NameAt(i, j), KeyList[j]>> \in DOMAIN bases

\* Every name in the table is held by a numbered position.
Recorded ==
  \A e \in DOMAIN bases : \E i \in FileIndex, j \in KeyIndex :
    Numbered(i, j) /\ e = <<NameAt(i, j), KeyList[j]>>

Distinct ==
  \A i1, i2 \in FileIndex, j \in KeyIndex :
    Numbered(i1, j) /\ Numbered(i2, j) /\ NameAt(i1, j) = NameAt(i2, j) => i1 = i2

\* A numbered name has a cause: another position that holds the plain name.
Caused ==
  \A i \in FileIndex, j \in KeyIndex :
    Numbered(i, j) /\ sequence[<<files[i], KeyList[j]>>] # 0 =>
      \E g \in FileIndex : g # i /\ Numbered(g, j) /\ NameAt(g, j) = base[files[i]]

\* Where the loops are.
Position ==
  /\ phase \in NumberingPhase => fi <= Len(files) + 1 /\ ki <= Len(KeyList)
  /\ phase = "number" => ~hasGenerated
  /\ phase = "generate" /\ ~hasGenerated => snapshot = Len(files)
  /\ phase = "done" => snapshot = Len(files)

Tables == Issued /\ Recorded /\ Distinct /\ Caused

IInv == TypeOK /\ NoRepeats(files) /\ Position /\ (Fresh => Tables)

-----------------------------------------------------------------------------
(* Facts about the operators                                               *)

\* fcfg_mt.objname: the number 0 is not written.
LEMMA PlainName == \A b : NumberedName(b, 0) = b
BY DEF NumberedName

\* The keys of a file are visited once each.
LEMMA KeyListFacts ==
  /\ KeyList \in Seq(Key) /\ Len(KeyList) \in Nat \ {0}
  /\ \A j \in 1..Len(KeyList) : KeyList[j] \in Key
  /\ \A j1, j2 \in 1..Len(KeyList) : KeyList[j1] = KeyList[j2] => j1 = j2
  /\ \A k \in Key : \E j \in 1..Len(KeyList) : KeyList[j] = k
<1>1. KeyList \in Seq(Key) /\ Len(KeyList) = Len(ConfigList) + 1
  BY ConfigListAssumption DEF KeyList, Key
<1>2. \A j \in 1..Len(ConfigList) : KeyList[j] = ConfigList[j] /\ ConfigList[j] \in Config
  BY ConfigListAssumption DEF KeyList
<1>3. KeyList[Len(KeyList)] = Prj
  BY <1>1, ConfigListAssumption DEF KeyList
<1>4. \A j1, j2 \in 1..Len(KeyList) : KeyList[j1] = KeyList[j2] => j1 = j2
  BY <1>1, <1>2, <1>3, ConfigListAssumption
<1>5. \A k \in Key : \E j \in 1..Len(KeyList) : KeyList[j] = k
  BY <1>1, <1>2, <1>3, ConfigListAssumption DEF Key, Config
<1> QED
  BY <1>1, <1>4, <1>5, ConfigListAssumption

\* While a pass runs, the loop indices are in range.
LEMMA InRange ==
  ASSUME TypeOK, Position, Numbering
  PROVE  /\ phase \in NumberingPhase
         /\ fi \in 1..Len(files) /\ ki \in 1..Len(KeyList)
         /\ Len(files) \in Nat /\ Len(KeyList) \in Nat
         /\ files[fi] \in File /\ KeyList[ki] \in Key
<1>1. fi \in 1..Len(files) /\ Len(files) \in Nat /\ phase \in NumberingPhase
  BY DEF TypeOK, Numbering
<1>2. ki \in 1..Len(KeyList) /\ Len(KeyList) \in Nat
  BY <1>1, KeyListFacts DEF TypeOK, Position
<1> QED
  BY <1>1, <1>2, KeyListFacts DEF TypeOK

\* The step to the next key adds the current position to the visited ones.
LEMMA VisitedNextKey ==
  ASSUME TypeOK, Position, Numbering, NextKey, phase' = phase, files' = files
  PROVE  \A i, j : Visited(i, j)' <=> (Visited(i, j) \/ (i = fi /\ j = ki))
<1> DEFINE n == Len(KeyList)
           m == Len(files)
           VisitedAt(a, b, i, j) == i \in 1..m /\ j \in 1..n /\ (i < a \/ (i = a /\ j < b))
<1>1. /\ fi \in 1..m /\ ki \in 1..n /\ n \in Nat /\ m \in Nat
      /\ phase \in NumberingPhase
  BY InRange
<1>2. /\ \A i, j : Visited(i, j) <=> VisitedAt(fi, ki, i, j)
      /\ \A i, j : Visited(i, j)' <=> VisitedAt(fi', ki', i, j)
  BY <1>1 DEF Visited, KeyList
<1>3. \/ ki = n /\ fi' = fi + 1 /\ ki' = 1
      \/ ki < n /\ fi' = fi /\ ki' = ki + 1
  BY <1>1 DEF NextKey, NextFile
<1> HIDE DEF n, m
<1>4. \A i, j : VisitedAt(fi', ki', i, j) <=>
                  (VisitedAt(fi, ki, i, j) \/ (i = fi /\ j = ki))
  BY <1>1, <1>3
<1> QED
  BY <1>2, <1>4

\* The step to the next file adds all the positions of the current one.
LEMMA VisitedNextFile ==
  ASSUME TypeOK, Position, Numbering, NextFile, phase' = phase, files' = files
  PROVE  \A i, j : /\ Visited(i, j) => Visited(i, j)'
                   /\ Visited(i, j)' => Visited(i, j) \/ i = fi
<1>1. /\ fi \in 1..Len(files) /\ ki \in 1..Len(KeyList) /\ phase \in NumberingPhase
      /\ Len(KeyList) \in Nat /\ Len(files) \in Nat
  BY InRange
<1> QED
  BY <1>1 DEF NextFile, Visited, KeyList

-----------------------------------------------------------------------------
(* Type correctness                                                        *)

LEMMA InitType == Init => TypeOK /\ NoRepeats(files)
<1> SUFFICES ASSUME Init
             PROVE  TypeOK /\ NoRepeats(files)
  OBVIOUS
<1>1. PICK p \in Project :
        /\ base = p.base /\ excluded = p.excluded /\ outputs = p.outputs
        /\ files = p.files /\ member = p.member
  BY DEF Init, Inputs
<1>2. /\ base \in [File -> Name] /\ excluded \subseteq File \X Config
      /\ outputs \in [File \X Config -> Seq(File)]
      /\ files \in Seq(File) /\ member \subseteq File \X Config
      /\ NoRepeats(files)
  BY <1>1, ProjectAssumption
<1>3. sequence \in [File \X Key -> Nat \union {None}]
  BY DEF Init
<1>4. bases \in [DOMAIN bases -> Nat \ {0}]
  BY DEF Init
<1>5. hasGenerated \in BOOLEAN
  BY DEF Init
<1>6. /\ phase \in {"number", "generate", "renumber", "done"}
      /\ fi \in Nat \ {0} /\ ki \in Nat \ {0} /\ oi \in Nat \ {0} /\ snapshot \in Nat
  BY DEF Init
<1> QED
  BY <1>2, <1>3, <1>4, <1>5, <1>6 DEF TypeOK

LEMMA NextType ==
  ASSUME TypeOK, Position, [Next]_vars
  PROVE  TypeOK'
<1> USE DEF TypeOK
<1>1. CASE SkipFile
  BY <1>1 DEF SkipFile, NextFile, Numbering, inputs, tables
<1>2. CASE SkipConfig
  BY <1>2, InRange DEF SkipConfig, NextKey, NextFile, inputs, tables
<1>3. CASE Assign
  <2> DEFINE f == files[fi]
             k == KeyList[ki]
  <2>1. f \in File /\ k \in Key
    BY <1>3, InRange DEF Assign
  <2>2. fi' \in Nat \ {0} /\ ki' \in Nat \ {0}
    BY <1>3, InRange DEF Assign, NextKey, NextFile
  <2> HIDE DEF f, k
  <2>3. CASE TakeBaseName(f, k)
    <3>1. sequence' \in [File \X Key -> Nat \union {None}]
      BY <2>1, <2>3 DEF TakeBaseName
    <3>2. bases' \in [DOMAIN bases' -> Nat \ {0}]
      BY <2>3 DEF TakeBaseName
    <3> QED
      BY <1>3, <2>2, <3>1, <3>2 DEF Assign, inputs, tables
  <2>4. CASE TakeNumber(f, k)
    <3>1. bases[<<base[f], k>>] \in Nat \ {0}
      BY <2>4 DEF TakeNumber
    <3>2. sequence' \in [File \X Key -> Nat \union {None}]
      BY <2>1, <2>4, <3>1 DEF TakeNumber
    <3>3. bases' \in [DOMAIN bases' -> Nat \ {0}]
      BY <2>4, <3>1 DEF TakeNumber, Tried
    <3> QED
      BY <1>3, <2>2, <3>2, <3>3 DEF Assign, inputs, tables
  <2> QED
    BY <1>3, <2>3, <2>4 DEF Assign, f, k
<1>4. CASE Retry
  <2> DEFINE f == files[fi]
             k == KeyList[ki]
  <2>1. f \in File /\ k \in Key
    BY <1>4, InRange DEF Retry
  <2>2. Collide(f, k)
    BY <1>4 DEF Retry
  <2> HIDE DEF f, k
  <2>3. bases[<<base[f], k>>] \in Nat \ {0}
    BY <2>2 DEF Collide
  <2>4. sequence' \in [File \X Key -> Nat \union {None}]
    BY <2>1, <2>2, <2>3 DEF Collide
  <2>5. bases' \in [DOMAIN bases' -> Nat \ {0}]
    BY <2>2, <2>3 DEF Collide, Tried
  <2> QED
    BY <1>4, <2>4, <2>5 DEF Retry, inputs, tables
<1>5. CASE EndNumbering
  BY <1>5 DEF EndNumbering, inputs, tables
<1>6. CASE AddGeneratedFile
  <2> DEFINE f == files[fi]
             c == ConfigList[ki]
             o == outputs[<<f, c>>][oi]
  <2>1. <<f, c>> \in member /\ oi \in 1..Len(outputs[<<f, c>>])
    BY <1>6 DEF AddGeneratedFile, Compiles
  <2>2. <<f, c>> \in File \X Config
    BY <2>1
  <2>3. o \in File /\ c \in Config
    BY <2>1, <2>2
  <2> HIDE DEF f, c, o
  <2>4. /\ files' \in Seq(File)
        /\ member' \subseteq File \X Config
        /\ hasGenerated' \in BOOLEAN
    <3>1. CASE UNCHANGED tables
      BY <3>1 DEF tables
    <3>2. CASE /\ hasGenerated' = TRUE
               /\ files' = IF \E i \in 1..Len(files) : files[i] = o
                           THEN files ELSE Append(files, o)
               /\ member' = member \union {<<o, c>>}
      BY <2>3, <3>2
    <3> QED
      BY <1>6, <3>1, <3>2 DEF AddGeneratedFile, f, c, o
  <2> QED
    BY <1>6, <2>4 DEF AddGeneratedFile, inputs
<1>7. CASE NextNode
  BY <1>7 DEF NextNode, Generating, inputs, tables
<1>8. CASE EndGenerating
  <2>1. bases' \in [DOMAIN bases' -> Nat \ {0}]
    BY <1>8 DEF EndGenerating
  <2> QED
    BY <1>8, <2>1 DEF EndGenerating, inputs, tables
<1>9. CASE UNCHANGED vars
  BY <1>9 DEF vars, inputs, tables
<1> QED
  BY <1>1, <1>2, <1>3, <1>4, <1>5, <1>6, <1>7, <1>8, <1>9 DEF Next

-----------------------------------------------------------------------------
(* What a step does to the tables                                          *)

\* A step that numbers no new position, renames none and adds no name to bases.
Keeps ==
  /\ UNCHANGED <<base, excluded, files, member>>
  /\ \A i \in FileIndex, j \in KeyIndex : Numbered(i, j)' <=> Numbered(i, j)
  /\ \A i \in FileIndex, j \in KeyIndex : Numbered(i, j) =>
       sequence'[<<files[i], KeyList[j]>>] = sequence[<<files[i], KeyList[j]>>]
  /\ DOMAIN bases' = DOMAIN bases

\* A step that gives position a, b the number v, and with it a name that was
\* free, and records the name.
Gives(a, b, v) ==
  /\ UNCHANGED <<base, excluded, files, member>>
  /\ ~ Numbered(a, b)
  /\ \A i \in FileIndex, j \in KeyIndex :
       Numbered(i, j)' <=> (Numbered(i, j) \/ (i = a /\ j = b))
  /\ sequence' = [sequence EXCEPT ![<<files[a], KeyList[b]>>] = v]
  /\ <<NumberedName(base[files[a]], v), KeyList[b]>> \notin DOMAIN bases
  /\ DOMAIN bases' = DOMAIN bases \union
                       {<<NumberedName(base[files[a]], v), KeyList[b]>>}
  /\ v # 0 => <<base[files[a]], KeyList[b]>> \in DOMAIN bases

LEMMA KeptNames ==
  ASSUME Keeps
  PROVE  /\ FileIndex' = FileIndex /\ KeyIndex' = KeyIndex /\ KeyList' = KeyList
         /\ \A i \in FileIndex, j \in KeyIndex :
              Numbered(i, j) => NameAt(i, j)' = NameAt(i, j)
<1>1. FileIndex' = FileIndex /\ KeyIndex' = KeyIndex /\ KeyList' = KeyList
  BY DEF Keeps, FileIndex, KeyIndex, KeyList
<1> QED
  BY <1>1 DEF Keeps, NameAt, ObjName

LEMMA SameTables ==
  ASSUME Tables, Keeps
  PROVE  Tables'
<1> USE DEF Keeps
<1>1. FileIndex' = FileIndex /\ KeyIndex' = KeyIndex /\ KeyList' = KeyList
  BY KeptNames
<1>2. \A i \in FileIndex, j \in KeyIndex : Numbered(i, j) => NameAt(i, j)' = NameAt(i, j)
  BY KeptNames
<1>3. Issued'
  BY <1>1, <1>2 DEF Tables, Issued
<1>4. Recorded'
  <2>1. ASSUME NEW e \in DOMAIN bases
        PROVE  \E i \in FileIndex, j \in KeyIndex :
                 Numbered(i, j)' /\ e = <<NameAt(i, j)', KeyList[j]>>
    <3>1. PICK i \in FileIndex, j \in KeyIndex :
            Numbered(i, j) /\ e = <<NameAt(i, j), KeyList[j]>>
      BY DEF Tables, Recorded
    <3> QED
      BY <3>1, <1>2
  <2> QED
    BY <2>1, <1>1 DEF Recorded
<1>5. Distinct'
  BY <1>1, <1>2 DEF Tables, Distinct
<1>6. Caused'
  <2>1. ASSUME NEW i \in FileIndex, NEW j \in KeyIndex, Numbered(i, j),
               sequence'[<<files[i], KeyList[j]>>] # 0
        PROVE  \E g \in FileIndex : g # i /\ Numbered(g, j)' /\ NameAt(g, j)' = base[files[i]]
    <3>1. PICK g \in FileIndex : g # i /\ Numbered(g, j) /\ NameAt(g, j) = base[files[i]]
      BY <2>1 DEF Tables, Caused
    <3> QED
      BY <3>1, <1>2
  <2> QED
    BY <2>1, <1>1 DEF Caused
<1> QED
  BY <1>3, <1>4, <1>5, <1>6 DEF Tables

LEMMA GivenNames ==
  ASSUME TypeOK, NoRepeats(files),
         NEW a \in FileIndex, NEW b \in KeyIndex, NEW v \in Nat, Gives(a, b, v)
  PROVE  /\ FileIndex' = FileIndex /\ KeyIndex' = KeyIndex /\ KeyList' = KeyList
         /\ sequence'[<<files[a], KeyList[b]>>] = v
         /\ \A i \in FileIndex, j \in KeyIndex : Numbered(i, j) =>
              sequence'[<<files[i], KeyList[j]>>] = sequence[<<files[i], KeyList[j]>>]
         /\ \A i \in FileIndex, j \in KeyIndex :
              Numbered(i, j) => NameAt(i, j)' = NameAt(i, j)
         /\ NameAt(a, b)' = NumberedName(base[files[a]], v)
<1>1. FileIndex' = FileIndex /\ KeyIndex' = KeyIndex /\ KeyList' = KeyList
  BY DEF Gives, FileIndex, KeyIndex, KeyList
<1>2. \A i \in FileIndex, j \in KeyIndex : <<files[i], KeyList[j]>> \in File \X Key
  <2>1. \A i \in FileIndex : files[i] \in File
    BY DEF FileIndex, TypeOK
  <2>2. \A j \in KeyIndex : KeyList[j] \in Key
    BY KeyListFacts DEF KeyIndex
  <2> QED
    BY <2>1, <2>2
<1>3. \A i \in FileIndex, j \in KeyIndex :
        <<files[i], KeyList[j]>> = <<files[a], KeyList[b]>> => i = a /\ j = b
  <2>1. ASSUME NEW i \in FileIndex, files[i] = files[a] PROVE i = a
    BY <2>1 DEF FileIndex, NoRepeats
  <2>2. ASSUME NEW j \in KeyIndex, KeyList[j] = KeyList[b] PROVE j = b
    BY <2>2, KeyListFacts DEF KeyIndex
  <2> QED
    BY <2>1, <2>2
<1>4. /\ sequence'[<<files[a], KeyList[b]>>] = v
      /\ \A i \in FileIndex, j \in KeyIndex : Numbered(i, j) =>
           sequence'[<<files[i], KeyList[j]>>] = sequence[<<files[i], KeyList[j]>>]
  BY <1>2, <1>3 DEF Gives, TypeOK
<1>5. \A i \in FileIndex, j \in KeyIndex : Numbered(i, j) => NameAt(i, j)' = NameAt(i, j)
  BY <1>1, <1>4 DEF Gives, NameAt, ObjName
<1>6. NameAt(a, b)' = NumberedName(base[files[a]], v)
  BY <1>1, <1>4, NoneAssumption DEF Gives, NameAt, ObjName
<1> QED
  BY <1>1, <1>4, <1>5, <1>6

LEMMA NewName ==
  ASSUME TypeOK, NoRepeats(files), Tables,
         NEW a \in FileIndex, NEW b \in KeyIndex, NEW v \in Nat, Gives(a, b, v)
  PROVE  Tables'
<1>1. FileIndex' = FileIndex /\ KeyIndex' = KeyIndex /\ KeyList' = KeyList
  BY GivenNames
<1>4. /\ sequence'[<<files[a], KeyList[b]>>] = v
      /\ \A i \in FileIndex, j \in KeyIndex : Numbered(i, j) =>
           sequence'[<<files[i], KeyList[j]>>] = sequence[<<files[i], KeyList[j]>>]
  BY GivenNames
<1>5. \A i \in FileIndex, j \in KeyIndex : Numbered(i, j) => NameAt(i, j)' = NameAt(i, j)
  BY GivenNames
<1> DEFINE new == NumberedName(base[files[a]], v)
<1>6. NameAt(a, b)' = new
  BY GivenNames
<1> USE DEF Gives
<1>7. <<new, KeyList[b]>> \notin DOMAIN bases
  OBVIOUS
<1>8. DOMAIN bases' = DOMAIN bases \union {<<new, KeyList[b]>>}
  OBVIOUS
<1> HIDE DEF new
<1>9. Issued'
  BY <1>1, <1>4, <1>5, <1>6, <1>8 DEF Tables, Issued
<1>10. Recorded'
  <2>1. ASSUME NEW e \in DOMAIN bases'
        PROVE  \E i \in FileIndex, j \in KeyIndex :
                 Numbered(i, j)' /\ e = <<NameAt(i, j)', KeyList[j]>>
    <3>1. CASE e \in DOMAIN bases
      BY <3>1, <1>5 DEF Tables, Recorded
    <3>2. CASE e = <<new, KeyList[b]>>
      BY <3>2, <1>6
    <3> QED
      BY <3>1, <3>2, <1>8
  <2> QED
    BY <2>1, <1>1 DEF Recorded
<1>11. \A i \in FileIndex : Numbered(i, b) => NameAt(i, b) # new
  BY <1>7 DEF Tables, Issued
<1>12. Distinct'
  BY <1>1, <1>5, <1>6, <1>11 DEF Tables, Distinct
<1>13. Caused'
  <2>1. ASSUME NEW i \in FileIndex, NEW j \in KeyIndex, Numbered(i, j)',
               sequence'[<<files[i], KeyList[j]>>] # 0
        PROVE  \E g \in FileIndex : g # i /\ Numbered(g, j)' /\ NameAt(g, j)' = base[files[i]]
    <3>1. CASE Numbered(i, j)
      <4>1. PICK g \in FileIndex : g # i /\ Numbered(g, j) /\ NameAt(g, j) = base[files[i]]
        BY <2>1, <3>1, <1>4 DEF Tables, Caused
      <4> QED
        BY <4>1, <1>5
    <3>2. CASE i = a /\ j = b
      <4>1. <<base[files[a]], KeyList[b]>> \in DOMAIN bases
        BY <2>1, <3>2, <1>4
      <4>2. PICK g \in FileIndex, h \in KeyIndex :
              /\ Numbered(g, h)
              /\ <<base[files[a]], KeyList[b]>> = <<NameAt(g, h), KeyList[h]>>
        BY <4>1 DEF Tables, Recorded
      <4>3. h = b
        BY <4>2, KeyListFacts DEF KeyIndex
      <4>4. Numbered(g, b) /\ NameAt(g, b) = base[files[a]]
        BY <4>2, <4>3
      <4>5. g # a /\ NameAt(g, b)' = base[files[a]]
        BY <4>4, <1>5
      <4> QED
        BY <4>4, <4>5, <3>2
    <3> QED
      BY <2>1, <3>1, <3>2
  <2> QED
    BY <2>1, <1>1 DEF Caused
<1> QED
  BY <1>9, <1>10, <1>12, <1>13 DEF Tables

-----------------------------------------------------------------------------
(* The invariant                                                           *)

LEMMA InitInv == Init => IInv
<1> SUFFICES ASSUME Init
             PROVE  IInv
  OBVIOUS
<1>1. TypeOK /\ NoRepeats(files)
  BY InitType
<1>2. phase = "number" /\ fi = 1 /\ ki = 1 /\ bases = << >> /\ snapshot = 0
  BY DEF Init
<1>3. ~hasGenerated
  BY DEF Init
<1>4. Len(files) \in Nat
  BY <1>1 DEF TypeOK
<1>5. Position
  BY <1>2, <1>3, <1>4, KeyListFacts DEF Position, NumberingPhase
<1>6. \A i \in FileIndex, j \in KeyIndex : ~Numbered(i, j)
  BY <1>2, <1>4 DEF Numbered, Visited, NumberingPhase, FileIndex, KeyIndex
<1>7. DOMAIN bases = {}
  BY <1>2
<1> QED
  BY <1>1, <1>5, <1>6, <1>7
  DEF IInv, Tables, Issued, Recorded, Distinct, Caused

\* What Assign does: the current position gets a name that was free.
LEMMA AssignGives ==
  ASSUME IInv, Assign
  PROVE  /\ fi \in FileIndex /\ ki \in KeyIndex /\ phase \in NumberingPhase
         /\ phase' = phase
         /\ \E v \in Nat : Gives(fi, ki, v)
<1> DEFINE f == files[fi]
           k == KeyList[ki]
<1>1. TypeOK /\ NoRepeats(files) /\ Position /\ Numbering
  BY DEF IInv, Assign
<1>2. /\ fi \in FileIndex /\ ki \in KeyIndex /\ phase \in NumberingPhase
      /\ f \in File /\ k \in Key
  BY <1>1, InRange DEF FileIndex, KeyIndex
<1>4. UNCHANGED <<base, excluded, files, member>> /\ phase' = phase /\ NextKey
  BY DEF Assign, inputs, tables
<1>5. ~Numbered(fi, ki)
  BY <1>1, <1>2 DEF Numbered, Visited, TypeOK
<1>6. \A i \in FileIndex, j \in KeyIndex :
        Numbered(i, j)' <=> (Numbered(i, j) \/ (i = fi /\ j = ki))
  <2>1. \A i, j : Visited(i, j)' <=> (Visited(i, j) \/ (i = fi /\ j = ki))
    BY <1>1, <1>4, VisitedNextKey
  <2>2. \A i, j : Eligible(files[i], KeyList[j])' <=> Eligible(files[i], KeyList[j])
    BY DEF Assign, inputs, tables, Eligible, KeyList
  <2>3. Eligible(files[fi], KeyList[ki])
    BY DEF Assign
  <2> QED
    BY <2>1, <2>2, <2>3 DEF Numbered
<1>7. CASE TakeBaseName(f, k)
  <2>1. /\ sequence' = [sequence EXCEPT ![<<files[fi], KeyList[ki]>>] = 0]
        /\ <<NumberedName(base[files[fi]], 0), KeyList[ki]>> \notin DOMAIN bases
        /\ DOMAIN bases' = DOMAIN bases \union
                             {<<NumberedName(base[files[fi]], 0), KeyList[ki]>>}
    BY <1>7, PlainName DEF TakeBaseName
  <2>2. 0 # 0 => <<base[files[fi]], KeyList[ki]>> \in DOMAIN bases
    OBVIOUS
  <2> QED
    BY <1>2, <1>4, <1>5, <1>6, <2>1, <2>2 DEF Gives
<1>8. CASE TakeNumber(f, k)
  <2> DEFINE n == bases[<<base[f], k>>]
  <2>1. /\ sequence' = [sequence EXCEPT ![<<files[fi], KeyList[ki]>>] = n]
        /\ <<NumberedName(base[files[fi]], n), KeyList[ki]>> \notin DOMAIN bases
        /\ DOMAIN bases' = DOMAIN bases \union
                             {<<NumberedName(base[files[fi]], n), KeyList[ki]>>}
    BY <1>8 DEF TakeNumber, Tried
  <2>2. n # 0 => <<base[files[fi]], KeyList[ki]>> \in DOMAIN bases
    BY <1>8 DEF TakeNumber
  <2>3. n \in Nat
    BY <1>8, <1>1 DEF TakeNumber, TypeOK
  <2> HIDE DEF n
  <2> QED
    BY <1>2, <1>4, <1>5, <1>6, <2>1, <2>2, <2>3 DEF Gives
<1> QED
  BY <1>2, <1>4, <1>7, <1>8 DEF Assign

LEMMA AssignTables ==
  ASSUME IInv, Assign
  PROVE  Tables'
<1>1. TypeOK /\ NoRepeats(files) /\ Tables
  BY AssignGives DEF IInv, Fresh, NumberingPhase
<1> QED
  BY <1>1, AssignGives, NewName

\* What Retry does: only the current position, not numbered yet, is touched.
LEMMA RetryKeeps ==
  ASSUME IInv, Retry
  PROVE  Keeps
<1>1. TypeOK /\ NoRepeats(files) /\ Position /\ Numbering
  BY DEF IInv, Retry
<1>2. /\ fi \in FileIndex /\ ki \in KeyIndex /\ phase \in NumberingPhase
      /\ files[fi] \in File /\ KeyList[ki] \in Key
  BY <1>1, InRange DEF FileIndex, KeyIndex
<1>4. UNCHANGED <<base, excluded, files, member, phase, fi, ki, snapshot>>
  BY DEF Retry, inputs, tables
<1>5. ~Numbered(fi, ki)
  BY <1>1, <1>2 DEF Numbered, Visited, TypeOK
<1>6. \A i \in FileIndex, j \in KeyIndex : Numbered(i, j)' <=> Numbered(i, j)
  BY <1>4 DEF Numbered, Visited, Eligible, KeyList
<1>7. Collide(files[fi], KeyList[ki])
  BY DEF Retry
<1>8. DOMAIN bases' = DOMAIN bases
  BY <1>7 DEF Collide, Tried
<1>9. \A i \in FileIndex, j \in KeyIndex :
        <<files[i], KeyList[j]>> = <<files[fi], KeyList[ki]>> => i = fi /\ j = ki
  BY <1>1, <1>2, KeyListFacts DEF FileIndex, KeyIndex, NoRepeats
<1>10. \A i \in FileIndex, j \in KeyIndex : Numbered(i, j) =>
         sequence'[<<files[i], KeyList[j]>>] = sequence[<<files[i], KeyList[j]>>]
  <2> SUFFICES ASSUME NEW i \in FileIndex, NEW j \in KeyIndex, Numbered(i, j)
               PROVE  sequence'[<<files[i], KeyList[j]>>] = sequence[<<files[i], KeyList[j]>>]
    OBVIOUS
  <2>1. <<files[i], KeyList[j]>> # <<files[fi], KeyList[ki]>>
    BY <1>5, <1>9
  <2>2. files[i] \in File /\ KeyList[j] \in Key
    BY <1>1, KeyListFacts DEF TypeOK, FileIndex, KeyIndex
  <2> QED
    BY <1>1, <1>7, <2>1, <2>2 DEF Collide, TypeOK
<1> QED
  BY <1>4, <1>6, <1>8, <1>10 DEF Keeps

\* Steps that move on without numbering anything.
LEMMA OthersKeep ==
  ASSUME IInv,
         \/ SkipFile \/ SkipConfig \/ EndNumbering \/ NextNode \/ UNCHANGED vars
         \/ AddGeneratedFile /\ UNCHANGED tables
         \/ EndGenerating /\ ~hasGenerated
  PROVE  Keeps
<1>1. TypeOK /\ NoRepeats(files) /\ Position
  BY DEF IInv
<1>2. CASE SkipFile
  <2>1. UNCHANGED <<base, excluded, files, member, phase, bases, sequence>> /\ Numbering /\ NextFile
    BY <1>2 DEF SkipFile, inputs, tables
  <2>2. \A i, j : (Visited(i, j) => Visited(i, j)') /\ (Visited(i, j)' => Visited(i, j) \/ i = fi)
    BY <1>1, <2>1, VisitedNextFile
  <2>3. \A i, j : Eligible(files[i], KeyList[j])' <=> Eligible(files[i], KeyList[j])
    BY <2>1 DEF Eligible, KeyList
  <2>4. \A j : ~Eligible(files[fi], KeyList[j])
    BY <1>2 DEF SkipFile, Eligible
  <2> QED
    BY <2>1, <2>2, <2>3, <2>4 DEF Keeps, Numbered
<1>3. CASE SkipConfig
  <2>1. UNCHANGED <<base, excluded, files, member, phase, bases, sequence>> /\ Numbering /\ NextKey
    BY <1>3 DEF SkipConfig, inputs, tables
  <2>2. \A i, j : Visited(i, j)' <=> (Visited(i, j) \/ (i = fi /\ j = ki))
    BY <1>1, <2>1, VisitedNextKey
  <2>3. \A i, j : Eligible(files[i], KeyList[j])' <=> Eligible(files[i], KeyList[j])
    BY <2>1 DEF Eligible, KeyList
  <2>4. ~Eligible(files[fi], KeyList[ki])
    BY <1>3 DEF SkipConfig
  <2> QED
    BY <2>1, <2>2, <2>3, <2>4 DEF Keeps, Numbered
<1>4. CASE EndNumbering
  <2>1. UNCHANGED <<base, excluded, files, member, bases, sequence>>
    BY <1>4 DEF EndNumbering, inputs, tables
  <2>2. \A i \in FileIndex, j \in KeyIndex : Visited(i, j) /\ Visited(i, j)'
    BY <1>1, <1>4 DEF EndNumbering, Visited, FileIndex, KeyIndex, NumberingPhase, tables, TypeOK, KeyList
  <2>3. \A i, j : Eligible(files[i], KeyList[j])' <=> Eligible(files[i], KeyList[j])
    BY <2>1 DEF Eligible, KeyList
  <2> QED
    BY <2>1, <2>2, <2>3 DEF Keeps, Numbered
<1>5. CASE AddGeneratedFile /\ UNCHANGED tables
  <2>1. phase = "generate" /\ phase' = phase /\ snapshot' = snapshot
    BY <1>5 DEF AddGeneratedFile, Generating
  <2>2. UNCHANGED <<base, excluded, files, member, bases, sequence>>
    BY <1>5 DEF AddGeneratedFile, inputs, tables
  <2> QED
    BY <2>1, <2>2 DEF Keeps, Numbered, Visited, Eligible, KeyList, NumberingPhase
<1>6. CASE NextNode
  <2>1. phase = "generate" /\ phase' = phase /\ snapshot' = snapshot
    BY <1>6 DEF NextNode, Generating
  <2>2. UNCHANGED <<base, excluded, files, member, bases, sequence>>
    BY <1>6 DEF NextNode, inputs, tables
  <2> QED
    BY <2>1, <2>2 DEF Keeps, Numbered, Visited, Eligible, KeyList, NumberingPhase
<1>7. CASE EndGenerating /\ ~hasGenerated
  <2>1. /\ phase = "generate" /\ phase' = "done" /\ snapshot' = snapshot
        /\ UNCHANGED <<base, excluded, files, member, bases, sequence>>
    BY <1>7 DEF EndGenerating, inputs, tables
  <2> QED
    BY <2>1 DEF Keeps, Numbered, Visited, Eligible, KeyList, NumberingPhase
<1>8. CASE UNCHANGED vars
  <2>1. UNCHANGED <<base, excluded, files, member, phase, fi, ki, snapshot, bases, sequence>>
    BY <1>8 DEF vars, inputs, tables
  <2> QED
    BY <2>1 DEF Keeps, Numbered, Visited, Eligible, KeyList
<1> QED
  BY <1>2, <1>3, <1>4, <1>5, <1>6, <1>7, <1>8

\* The second pass starts with no position numbered.
LEMMA RestartClears ==
  ASSUME IInv, EndGenerating, hasGenerated
  PROVE  /\ phase' = "renumber" /\ DOMAIN bases' = {}
         /\ \A i, j : ~Numbered(i, j)'
<1>1. TypeOK
  BY DEF IInv
<1>2. phase' = "renumber" /\ bases' = << >> /\ fi' = 1 /\ ki' = 1 /\ files' = files
  BY DEF EndGenerating, tables
<1>3. \A i, j : ~Numbered(i, j)'
  BY <1>1, <1>2 DEF Numbered, Visited, NumberingPhase, TypeOK, KeyList
<1> QED
  BY <1>2, <1>3

\* The tables describe the files after every step that leaves them fresh.
LEMMA NextTables ==
  ASSUME IInv, [Next]_vars, Fresh'
  PROVE  Tables'
<1>1. CASE Assign
  BY <1>1, AssignTables
<1>2. CASE Retry
  <2>1. Tables
    BY <1>2 DEF IInv, Fresh, Retry, Numbering, NumberingPhase
  <2> QED
    BY <1>2, <2>1, RetryKeeps, SameTables
<1>3. CASE EndGenerating /\ hasGenerated
  BY <1>3, RestartClears DEF Tables, Issued, Recorded, Distinct, Caused
<1>4. CASE \/ SkipFile \/ SkipConfig \/ EndNumbering \/ NextNode \/ UNCHANGED vars
           \/ AddGeneratedFile
           \/ EndGenerating /\ ~hasGenerated
  <2>1. AddGeneratedFile => phase' = "generate" /\ phase = "generate"
    BY DEF AddGeneratedFile, Generating
  <2>2. AddGeneratedFile => UNCHANGED tables
    BY <2>1 DEF AddGeneratedFile, Fresh
  <2>3. Fresh
    BY <1>4, <2>1, <2>2
    DEF Fresh, SkipFile, SkipConfig, EndNumbering, NextNode, EndGenerating, vars, tables,
        Numbering, NumberingPhase, Generating
  <2> QED
    BY <1>4, <2>2, <2>3, OthersKeep, SameTables DEF IInv
<1> QED
  BY <1>1, <1>2, <1>3, <1>4 DEF Next

\* No step lists a file twice.
LEMMA FilesNoRepeats ==
  ASSUME TypeOK, NoRepeats(files), [Next]_vars
  PROVE  NoRepeats(files')
<1>1. CASE AddGeneratedFile
  <2> DEFINE o == outputs[<<files[fi], ConfigList[ki]>>][oi]
  <2>1. \/ files' = files
        \/ files' = Append(files, o) /\ ~ \E i \in 1..Len(files) : files[i] = o
    BY <1>1 DEF AddGeneratedFile, tables
  <2> HIDE DEF o
  <2>2. ASSUME files' = Append(files, o), ~ \E i \in 1..Len(files) : files[i] = o
        PROVE  NoRepeats(files')
    <3>1. files \in Seq(File)
      BY DEF TypeOK
    <3>2. /\ Len(files') = Len(files) + 1 /\ Len(files) \in Nat
          /\ files'[Len(files) + 1] = o
          /\ \A i \in 1..Len(files) : files'[i] = files[i]
      BY <2>2, <3>1
    <3> QED
      BY <2>2, <3>2 DEF NoRepeats
  <2> QED
    BY <2>1, <2>2
<1>2. CASE ~AddGeneratedFile
  <2>1. files' = files
    BY <1>2 DEF Next, SkipFile, SkipConfig, Assign, Retry, EndNumbering, NextNode,
                EndGenerating, vars, tables
  <2> QED
    BY <2>1
<1> QED
  BY <1>1, <1>2

\* Every step keeps the loop indices in range and the snapshot exact.
LEMMA NextPosition ==
  ASSUME TypeOK, Position, [Next]_vars
  PROVE  Position'
<1>1. Len(files) \in Nat /\ Len(KeyList) \in Nat \ {0} /\ KeyList' = KeyList
  BY KeyListFacts DEF TypeOK, KeyList
<1>2. CASE SkipFile
  BY <1>1, <1>2, InRange DEF SkipFile, NextFile, Numbering, NumberingPhase, Position, tables
<1>3. ASSUME Numbering, NextKey, UNCHANGED <<tables, phase, snapshot>>
      PROVE  Position'
  BY <1>1, <1>3, InRange DEF NextKey, NextFile, NumberingPhase, Position, tables
<1>4. CASE SkipConfig
  BY <1>3, <1>4 DEF SkipConfig
<1>5. CASE Assign
  BY <1>3, <1>5 DEF Assign
<1>6. CASE Retry
  BY <1>1, <1>6 DEF Retry, Position, NumberingPhase, tables
<1>7. CASE EndNumbering
  BY <1>1, <1>7 DEF EndNumbering, Position, NumberingPhase, tables
<1>8. CASE AddGeneratedFile
  <2>1. phase' = "generate" /\ snapshot' = snapshot /\ phase = "generate"
    BY <1>8 DEF AddGeneratedFile, Generating
  <2>2. ~hasGenerated' => UNCHANGED tables
    BY <1>8 DEF AddGeneratedFile
  <2> QED
    BY <2>1, <2>2 DEF Position, NumberingPhase, tables
<1>9. CASE NextNode
  BY <1>9 DEF NextNode, Generating, Position, NumberingPhase, tables
<1>10. CASE EndGenerating
  <2>1. CASE hasGenerated
    BY <1>1, <1>10, <2>1 DEF EndGenerating, Position, NumberingPhase, tables
  <2>2. CASE ~hasGenerated
    BY <1>1, <1>10, <2>2 DEF EndGenerating, Position, NumberingPhase, tables
  <2> QED
    BY <2>1, <2>2
<1>11. CASE UNCHANGED vars
  BY <1>1, <1>11 DEF vars, Position, tables
<1> QED
  BY <1>2, <1>4, <1>5, <1>6, <1>7, <1>8, <1>9, <1>10, <1>11 DEF Next

LEMMA NextInv == IInv /\ [Next]_vars => IInv'
<1> SUFFICES ASSUME IInv, [Next]_vars
             PROVE  IInv'
  OBVIOUS
<1>1. TypeOK' /\ NoRepeats(files') /\ Position'
  BY NextType, FilesNoRepeats, NextPosition DEF IInv
<1>2. NoRepeats(files)'
  BY <1>1 DEF NoRepeats
<1>3. Fresh' => Tables'
  BY NextTables
<1> QED
  BY <1>1, <1>2, <1>3 DEF IInv

-----------------------------------------------------------------------------
(* The theorems                                                            *)

LEMMA Invariance == Spec => []IInv
BY InitInv, NextInv, PTL DEF Spec

\* Type correctness of the numbering of object files.
THEOREM TypeCorrect == Spec => []TypeOK
<1>1. IInv => TypeOK
  BY DEF IInv
<1> QED
  BY <1>1, Invariance, PTL

\* For every project, whatever its files, base names and build rules: no two
\* files of a configuration (or of the project) get the same object name.
THEOREM ObjNamesUnique == Spec => []UniqueObjNames
<1>1. IInv => UniqueObjNames
  BY DEF IInv, Fresh, Tables, Distinct, UniqueObjNames, NameAt, FileIndex, KeyIndex
<1> QED
  BY <1>1, Invariance, PTL

\* Between passes and after baking, a file that compiles has been visited under
\* its key.
LEMMA PassNumbers ==
  ASSUME IInv, Fresh, phase \notin NumberingPhase,
         NEW i \in 1..Len(files), NEW k \in Key, Eligible(files[i], k)
  PROVE  \E j \in KeyIndex : KeyList[j] = k /\ Numbered(i, j)
<1>1. PICK j \in 1..Len(KeyList) : KeyList[j] = k
  BY KeyListFacts
<1>2. snapshot = Len(files) /\ Len(files) \in Nat
  BY DEF IInv, Fresh, Position, TypeOK, NumberingPhase
<1>3. Visited(i, j)
  BY <1>2 DEF Visited
<1> QED
  BY <1>1, <1>3 DEF Numbered, KeyIndex

\* A file keeps its plain name unless another one holds it.
THEOREM NumbersAreCaused == Spec => []NumberedOnlyOnCollision
<1>1. IInv => NumberedOnlyOnCollision
  <2> SUFFICES ASSUME IInv, phase = "done", NEW i \in 1..Len(files), NEW k \in Key,
                      Eligible(files[i], k), sequence[<<files[i], k>>] # 0
               PROVE  \E g \in 1..Len(files) :
                        /\ g # i /\ Eligible(files[g], k)
                        /\ ObjName(files[g], k) = base[files[i]]
    BY DEF NumberedOnlyOnCollision
  <2>1. PICK j \in KeyIndex : KeyList[j] = k /\ Numbered(i, j)
    BY PassNumbers DEF Fresh, NumberingPhase
  <2>2. PICK g \in FileIndex : g # i /\ Numbered(g, j) /\ NameAt(g, j) = base[files[i]]
    BY <2>1 DEF IInv, Fresh, Tables, Caused, FileIndex
  <2> QED
    BY <2>1, <2>2 DEF Numbered, NameAt, FileIndex
<1> QED
  BY <1>1, Invariance, PTL

-----------------------------------------------------------------------------
(* The numbering implements ObjNames.  The names of the abstract           *)
(* specification are those of the positions numbered so far, which are     *)
(* what is in the table bases, and none while a generated file waits.      *)
(* Assign is Choose, a generated file is Grow, the step to "done" is       *)
(* Finish; all other steps leave the names alone.                          *)

Pair(i, j) == <<files[i], KeyList[j]>>

-----------------------------------------------------------------------------
(* The names given so far                                                  *)

\* A numbered position is named, and bears its own name.
LEMMA PositionsNamed ==
  ASSUME TypeOK, Fresh, NEW i \in FileIndex, NEW j \in KeyIndex, Numbered(i, j)
  PROVE  Pair(i, j) \in Named /\ Names[Pair(i, j)] = NameAt(i, j)
<1>1. files[i] \in File /\ KeyList[j] \in Key
  BY KeyListFacts DEF TypeOK, FileIndex, KeyIndex
<1>2. Pair(i, j) \in Compiled
  BY <1>1 DEF Pair, Compiled, Numbered, FileIndex
<1>3. Pair(i, j) \in Named
  BY <1>2 DEF Named, Pair, Fresh, FileIndex, KeyIndex
<1> QED
  BY <1>3 DEF Names, NameAt, Pair

\* What is named is a numbered position.
LEMMA NamedPositions ==
  ASSUME NEW e \in Named
  PROVE  Fresh /\ \E i \in FileIndex, j \in KeyIndex : Numbered(i, j) /\ e = Pair(i, j)
BY DEF Named, Fresh, Pair, FileIndex, KeyIndex

\* When every position has been visited, no file that compiles is unnamed.
LEMMA AllNamed ==
  ASSUME TypeOK, Fresh, \A i \in FileIndex, j \in KeyIndex : Visited(i, j)
  PROVE  Named = Compiled
<1> SUFFICES ASSUME NEW e \in Compiled
             PROVE  e \in Named
  BY DEF Named
<1>1. PICK i \in FileIndex : files[i] = e[1]
  BY DEF Compiled, FileIndex
<1>2. PICK j \in KeyIndex : KeyList[j] = e[2]
  BY KeyListFacts DEF Compiled, KeyIndex
<1>3. e = Pair(i, j) /\ Numbered(i, j)
  BY <1>1, <1>2 DEF Compiled, Pair, Numbered
<1> QED
  BY <1>3, PositionsNamed

\* Steps that touch no numbered position keep the names.
LEMMA NamesKept ==
  ASSUME Keeps, Fresh' <=> Fresh
  PROVE  Names' = Names /\ Compiled' = Compiled
<1>1. FileIndex' = FileIndex /\ KeyIndex' = KeyIndex /\ KeyList' = KeyList
  BY KeptNames
<1>2. Compiled' = Compiled
  BY DEF Keeps, Compiled, Eligible
<1>3. Named' = Named
  <2>1. Named = {e \in Compiled : Fresh /\ \E i \in FileIndex, j \in KeyIndex :
                                    Numbered(i, j) /\ e = Pair(i, j)}
    BY DEF Named, Fresh, FileIndex, KeyIndex, Pair
  <2>2. Named' = {e \in Compiled' : Fresh' /\ \E i \in FileIndex', j \in KeyIndex' :
                                      Numbered(i, j)' /\ e = Pair(i, j)'}
    BY DEF Named, Fresh, FileIndex, KeyIndex, Pair
  <2>3. \A i, j : Pair(i, j)' = Pair(i, j)
    BY <1>1 DEF Pair, Keeps
  <2> QED
    BY <1>1, <1>2, <2>1, <2>2, <2>3 DEF Keeps
<1>4. ASSUME NEW e \in Named
      PROVE  ObjName(e[1], e[2])' = ObjName(e[1], e[2])
  <2>1. PICK i \in FileIndex, j \in KeyIndex : Numbered(i, j) /\ e = Pair(i, j)
    BY NamedPositions
  <2> QED
    BY <2>1 DEF Keeps, Pair, ObjName
<1> QED
  BY <1>2, <1>3, <1>4 DEF Names

\* Assign names one more pair.
LEMMA NamesExtended ==
  ASSUME IInv, Fresh, Fresh',
         NEW a \in FileIndex, NEW b \in KeyIndex, NEW v \in Nat, Gives(a, b, v),
         Eligible(files[a], KeyList[b])
  PROVE  /\ Compiled' = Compiled /\ Pair(a, b) \in Compiled /\ Pair(a, b) \notin Named
         /\ Named' = Named \union {Pair(a, b)}
         /\ \A d \in Named : Names'[d] = Names[d]
         /\ Names'[Pair(a, b)] = NumberedName(base[files[a]], v)
<1>1. TypeOK /\ NoRepeats(files)
  BY DEF IInv
<1>2. /\ FileIndex' = FileIndex /\ KeyIndex' = KeyIndex /\ KeyList' = KeyList
      /\ \A i, j : Pair(i, j)' = Pair(i, j)
  BY <1>1, GivenNames DEF Pair, Gives
<1>3. Compiled' = Compiled
  BY DEF Gives, Compiled, Eligible
<1>4. Pair(a, b) \in Compiled
  <2>1. files[a] \in File /\ KeyList[b] \in Key
    BY <1>1, KeyListFacts DEF TypeOK, FileIndex, KeyIndex
  <2> QED
    BY <2>1 DEF Compiled, Pair, FileIndex
<1>5. Pair(a, b) \notin Named
  <2>1. \A i \in FileIndex, j \in KeyIndex : Pair(i, j) = Pair(a, b) => i = a /\ j = b
    BY <1>1, KeyListFacts DEF FileIndex, KeyIndex, NoRepeats, Pair
  <2> QED
    BY <2>1, NamedPositions DEF Gives
<1>6. Named' = Named \union {Pair(a, b)}
  <2>1. Named = {e \in Compiled : \E i \in FileIndex, j \in KeyIndex :
                                    Numbered(i, j) /\ e = Pair(i, j)}
    BY DEF Named, Fresh, FileIndex, KeyIndex, Pair
  <2>2. Named' = {e \in Compiled' : \E i \in FileIndex', j \in KeyIndex' :
                                      Numbered(i, j)' /\ e = Pair(i, j)'}
    BY DEF Named, Fresh, FileIndex, KeyIndex, Pair
  <2> QED
    BY <1>2, <1>3, <1>4, <2>1, <2>2 DEF Gives
<1>7. \A d \in Named' : Names'[d] = ObjName(d[1], d[2])'
  BY DEF Names
<1>8. ASSUME NEW d \in Named
      PROVE  Names'[d] = Names[d]
  <2>1. PICK i \in FileIndex, j \in KeyIndex : Numbered(i, j) /\ d = Pair(i, j)
    BY NamedPositions
  <2>2. NameAt(i, j)' = NameAt(i, j) /\ Names[d] = NameAt(i, j)
    BY <1>1, <2>1, GivenNames, PositionsNamed
  <2> QED
    BY <1>2, <1>6, <1>7, <2>1, <2>2 DEF Pair, NameAt, Gives
<1>9. Names'[Pair(a, b)] = NumberedName(base[files[a]], v)
  <2>1. NameAt(a, b)' = NumberedName(base[files[a]], v)
    BY <1>1, GivenNames
  <2> QED
    BY <1>2, <1>6, <1>7, <2>1 DEF Pair, NameAt, Gives
<1> QED
  BY <1>3, <1>4, <1>5, <1>6, <1>8, <1>9

\* What bases says of a name is what the abstract specification says.
LEMMA FreeNames ==
  ASSUME IInv, Fresh, NEW n, NEW b \in KeyIndex
  PROVE  Naming!Free(n, KeyList[b]) <=> <<n, KeyList[b]>> \notin DOMAIN bases
<1>1. TypeOK /\ Tables
  BY DEF IInv
<1>2. DOMAIN Names = Named
  BY DEF Names
<1>3. ASSUME <<n, KeyList[b]>> \notin DOMAIN bases, NEW d \in Named, d[2] = KeyList[b]
      PROVE  Names[d] # n
  <2>1. PICK i \in FileIndex, j \in KeyIndex : Numbered(i, j) /\ d = Pair(i, j)
    BY NamedPositions
  <2>2. KeyList[j] = KeyList[b] /\ Names[d] = NameAt(i, j)
    BY <1>1, <1>3, <2>1, PositionsNamed DEF Pair
  <2> QED
    BY <1>1, <1>3, <2>1, <2>2 DEF Tables, Issued
<1>4. ASSUME <<n, KeyList[b]>> \in DOMAIN bases
      PROVE  \E d \in Named : d[2] = KeyList[b] /\ Names[d] = n
  <2>1. PICK i \in FileIndex, j \in KeyIndex :
          Numbered(i, j) /\ <<n, KeyList[b]>> = <<NameAt(i, j), KeyList[j]>>
    BY <1>1, <1>4 DEF Tables, Recorded
  <2>2. Pair(i, j) \in Named /\ Names[Pair(i, j)] = NameAt(i, j)
    BY <1>1, <2>1, PositionsNamed
  <2> QED
    BY <2>1, <2>2 DEF Pair
<1> QED
  BY <1>2, <1>3, <1>4 DEF Naming!Free

-----------------------------------------------------------------------------
(* The steps                                                               *)

LEMMA AssignChooses ==
  ASSUME IInv, Assign
  PROVE  Naming!Next
<1> DEFINE e == Pair(fi, ki)
<1>1. /\ fi \in FileIndex /\ ki \in KeyIndex /\ Fresh /\ Fresh'
      /\ phase # "done" /\ phase' # "done"
  BY AssignGives DEF Fresh, NumberingPhase
<1>2. PICK v \in Nat : Gives(fi, ki, v)
  BY AssignGives
<1>3. Eligible(files[fi], KeyList[ki])
  BY DEF Assign
<1>4. /\ Compiled' = Compiled /\ e \in Compiled /\ e \notin Named
      /\ Named' = Named \union {e}
      /\ \A d \in Named : Names'[d] = Names[d]
      /\ Names'[e] = NumberedName(base[files[fi]], v)
  BY <1>1, <1>2, <1>3, NamesExtended
<1>5. DOMAIN Names = Named /\ DOMAIN Names' = Named'
  BY DEF Names
<1>6. e[1] = files[fi] /\ e[2] = KeyList[ki]
  BY DEF Pair
<1>7. Naming!Free(Names'[e], e[2])
  BY <1>1, <1>2, <1>4, <1>6, FreeNames DEF Gives
<1>8. Naming!Free(base[e[1]], e[2]) => Names'[e] = base[e[1]]
  BY <1>1, <1>2, <1>4, <1>6, FreeNames, PlainName DEF Gives
<1>9. base' = base
  BY <1>2 DEF Gives
<1> HIDE DEF e
<1>10. Naming!Choose(e)
  BY <1>1, <1>4, <1>5, <1>7, <1>8, <1>9 DEF Naming!Choose
<1> QED
  BY <1>4, <1>10 DEF Naming!Next

LEMMA GeneratedGrows ==
  ASSUME IInv, AddGeneratedFile, ~ UNCHANGED tables
  PROVE  Naming!Next
<1>1. TypeOK /\ phase = "generate" /\ phase' = "generate" /\ base' = base /\ excluded' = excluded
  BY DEF IInv, AddGeneratedFile, Generating, inputs
<1>2. hasGenerated' = TRUE
  BY DEF AddGeneratedFile
<1>3. Named' = {} /\ DOMAIN Names = Named
  BY <1>1, <1>2 DEF Named, Names
<1>4. Names' = Naming!Unnamed
  BY <1>3 DEF Names, Naming!Unnamed
<1>5. Named \in {{}, Compiled}
  <2>1. CASE hasGenerated
    BY <1>1, <2>1 DEF Named
  <2>2. CASE ~hasGenerated
    <3>1. Fresh /\ snapshot = Len(files)
      BY <1>1, <2>2 DEF IInv, Position, Fresh
    <3>2. \A i \in FileIndex, j \in KeyIndex : Visited(i, j)
      BY <1>1, <3>1 DEF Visited, FileIndex, KeyIndex, NumberingPhase, TypeOK
    <3> QED
      BY <1>1, <3>1, <3>2, AllNamed
  <2> QED
    BY <2>1, <2>2
<1>6. Compiled \subseteq Compiled'
  <2>1. member \subseteq member'
    BY DEF AddGeneratedFile, tables
  <2>2. PICK o : files' = files \/ files' = Append(files, o)
    BY DEF AddGeneratedFile, tables
  <2>3. \A i \in 1..Len(files) : i \in 1..Len(files') /\ files'[i] = files[i]
    BY <1>1, <2>2 DEF TypeOK
  <2>4. ASSUME NEW e \in Compiled
        PROVE  e \in Compiled'
    <3>1. PICK i \in 1..Len(files) : files[i] = e[1]
      BY DEF Compiled
    <3>2. Eligible(e[1], e[2])'
      BY <1>1, <2>1 DEF Compiled, Eligible
    <3> QED
      BY <2>3, <3>1, <3>2 DEF Compiled
  <2> QED
    BY <2>4
<1>7. Naming!Grow
  BY <1>1, <1>3, <1>4, <1>5, <1>6 DEF Naming!Grow
<1> QED
  BY <1>7 DEF Naming!Next

\* The step to "done" comes when every position has been visited.
LEMMA DoneFinishes ==
  ASSUME IInv, phase # "done", phase' = "done", Keeps, Fresh, Fresh',
         \A i \in FileIndex, j \in KeyIndex : Visited(i, j)
  PROVE  Naming!Next
<1>1. Named = Compiled /\ DOMAIN Names = Named
  BY AllNamed DEF IInv, Names
<1>2. Names' = Names /\ Compiled' = Compiled /\ base' = base
  BY NamesKept DEF Keeps
<1>3. Naming!Finish
  BY <1>1, <1>2 DEF Naming!Finish
<1> QED
  BY <1>3 DEF Naming!Next

LEMMA KeepsStutters ==
  ASSUME Keeps, Fresh' <=> Fresh, (phase' = "done") <=> (phase = "done")
  PROVE  UNCHANGED Naming!vars
<1>1. Names' = Names /\ Compiled' = Compiled /\ base' = base
  BY NamesKept DEF Keeps
<1>2. (phase = "done")' = (phase = "done")
  OBVIOUS
<1> QED
  BY <1>1, <1>2 DEF Naming!vars

LEMMA NextMaps ==
  ASSUME IInv, [Next]_vars
  PROVE  [Naming!Next]_(Naming!vars)
<1>1. TypeOK /\ Position
  BY DEF IInv
<1>2. CASE Assign
  BY <1>2, AssignChooses
<1>3. CASE Retry
  <2>1. (Fresh' <=> Fresh) /\ ((phase' = "done") <=> (phase = "done"))
    BY <1>3 DEF Retry, tables, Fresh
  <2> QED
    BY <1>3, <2>1, RetryKeeps, KeepsStutters
<1>4. CASE SkipFile \/ SkipConfig \/ NextNode \/ UNCHANGED vars
  <2>1. (Fresh' <=> Fresh) /\ ((phase' = "done") <=> (phase = "done"))
    BY <1>4 DEF SkipFile, SkipConfig, NextNode, vars, tables, Fresh
  <2> QED
    BY <1>4, <2>1, OthersKeep, KeepsStutters
<1>5. CASE EndNumbering
  <2>1. Keeps
    BY <1>5, OthersKeep
  <2>2. Fresh /\ Fresh'
    BY <1>1, <1>5 DEF EndNumbering, Fresh, Position, NumberingPhase, tables
  <2>3. CASE phase = "number"
    BY <1>5, <2>1, <2>2, <2>3, KeepsStutters DEF EndNumbering
  <2>4. CASE phase = "renumber"
    <3>1. \A i \in FileIndex, j \in KeyIndex : Visited(i, j)
      BY <1>1, <1>5 DEF EndNumbering, Visited, FileIndex, KeyIndex, NumberingPhase, TypeOK
    <3> QED
      BY <1>5, <2>1, <2>2, <2>4, <3>1, DoneFinishes DEF EndNumbering
  <2> QED
    BY <1>5, <2>3, <2>4 DEF EndNumbering, NumberingPhase
<1>6. CASE AddGeneratedFile
  <2>1. CASE UNCHANGED tables
    <3>1. (Fresh' <=> Fresh) /\ ((phase' = "done") <=> (phase = "done"))
      BY <1>6, <2>1 DEF AddGeneratedFile, tables, Fresh
    <3> QED
      BY <1>6, <2>1, <3>1, OthersKeep, KeepsStutters
  <2>2. CASE ~ UNCHANGED tables
    BY <1>6, <2>2, GeneratedGrows
  <2> QED
    BY <2>1, <2>2
<1>7. CASE EndGenerating
  <2>1. CASE hasGenerated
    <3>1. phase = "generate" /\ phase' = "renumber" /\ UNCHANGED <<base, excluded, files, member>>
      BY <1>7, <2>1 DEF EndGenerating, inputs, tables
    <3>2. \A i, j : ~Numbered(i, j)'
      BY <1>7, <2>1, RestartClears
    <3>3. Named = {} /\ Named' = {}
      BY <2>1, <3>1, <3>2 DEF Named
    <3>4. Names' = Names
      BY <3>3 DEF Names
    <3>5. Compiled' = Compiled
      BY <3>1 DEF Compiled, Eligible
    <3>6. (phase = "done")' = (phase = "done")
      BY <3>1
    <3> QED
      BY <3>1, <3>4, <3>5, <3>6 DEF Naming!vars
  <2>2. CASE ~hasGenerated
    <3>1. phase = "generate" /\ phase' = "done" /\ Fresh /\ Fresh'
      BY <1>7, <2>2 DEF EndGenerating, Fresh
    <3>2. \A i \in FileIndex, j \in KeyIndex : Visited(i, j)
      BY <1>1, <2>2, <3>1
      DEF Position, Visited, FileIndex, KeyIndex, NumberingPhase, TypeOK
    <3> QED
      BY <1>7, <2>2, <3>1, <3>2, OthersKeep, DoneFinishes
  <2> QED
    BY <2>1, <2>2
<1> QED
  BY <1>2, <1>3, <1>4, <1>5, <1>6, <1>7 DEF Next

LEMMA InitMaps == Init => Naming!Init
<1> SUFFICES ASSUME Init
             PROVE  Naming!Init
  OBVIOUS
<1>1. phase = "number" /\ fi = 1 /\ ki = 1 /\ TypeOK
  BY InitType DEF Init
<1>2. \A i \in FileIndex, j \in KeyIndex : ~Numbered(i, j)
  BY <1>1 DEF Numbered, Visited, NumberingPhase, FileIndex, KeyIndex
<1>3. Named = {}
  BY <1>2, NamedPositions
<1>4. Names = Naming!Unnamed
  BY <1>3 DEF Names, Naming!Unnamed
<1> QED
  BY <1>1, <1>4 DEF Naming!Init

\* The numbering of object files implements ObjNames, for every project: names
\* are unique from the moment they are given, plain when they can be, given to
\* every file that compiles before baking ends, and taken back all at once.
THEOREM NumberingNames == Spec => NamesEveryFile
<1>1. Spec => Naming!Spec
  BY InitMaps, NextMaps, Invariance, PTL DEF Spec, Naming!Spec
<1> QED
  BY <1>1 DEF NamesEveryFile
=============================================================================
