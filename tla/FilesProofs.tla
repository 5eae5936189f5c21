----------------------------- MODULE FilesProofs -----------------------------
(***************************************************************************)
(* Proofs about the files of a project: which filters match them           *)
(* (Criteria), and where the tree of a project shows them (SourceTree).    *)
(* The two parts share nothing but the theorems about sequences.           *)
(*                                                                         *)
(* Filters.  The test of a filter stops at the first true word of each     *)
(* pattern.  The invariant says what is known when it has come to word j   *)
(* of pattern i: the patterns before are true, the words before j are      *)
(* false, and fileMatched tells whether the first true word of a pattern   *)
(* before matched the file.                                                *)
(*                                                                         *)
(* Trees.  While the tree is made, the names from the root to a node are   *)
(* those of the virtual folder the node was made for.  While it is trimmed *)
(* they lose names from the front: k that all files share, then m ".." of  *)
(* those that have them.  A node is made after those above it, which gives *)
(* the trimming its bounds, and induction over nodes its order.            *)
(***************************************************************************)
EXTENDS Criteria, SourceTree, SequenceTheorems, Induction, TLAPS

-----------------------------------------------------------------------------
(* Filters                                                                 *)

\* A parsed term, and the words it may hold.
Pattern == Seq(Word) \ {<< >>}

\* Every pattern up to n has a word that is true of the subject.
TrueUpTo(s, n) ==
  \A k \in 1..n : \E m \in 1..Len(patterns[k]) : TestWord(patterns[k][m], s)

\* No word of pattern k before word m is true.
FalseBefore(s, k, m) == \A q \in 1..(m - 1) : ~ TestWord(patterns[k][q], s)

\* The first true word of a pattern up to n matches the file.
Reached(s, n) ==
  \E k \in 1..n : \E m \in 1..Len(patterns[k]) :
    FalseBefore(s, k, m) /\ MatchesFile(patterns[k][m], s)

\* While the filter is parsed nothing has been tested.
Fresh ==
  subject = "parse" =>
    /\ i = 1 /\ j = 1 /\ fileMatched = FALSE
    /\ verdict["config"] = "open" /\ verdict["file"] = "open"

\* What the test of the subject has found out so far.
Progress ==
  Testing => /\ TrueUpTo(subject, i - 1)
             /\ i <= Len(patterns) => FalseBefore(subject, i, j)
             /\ fileMatched <=> Reached(subject, i - 1)

\* The verdicts, in terms of the patterns.
ConfigVerdict ==
  verdict["config"] # "open" =>
    (verdict["config"] = "matches" <=> TrueUpTo("config", Len(patterns)))

FileVerdict ==
  verdict["file"] # "open" =>
    (verdict["file"] = "matches" <=>
       /\ ~ (Prefixed /\ ~ HasFilePattern)
       /\ TrueUpTo("file", Len(patterns))
       /\ Reached("file", Len(patterns)))

IInv == /\ filter \in Filter /\ TypeOK
        /\ Fresh /\ Progress /\ ConfigVerdict /\ FileVerdict

-----------------------------------------------------------------------------
(* Facts about the operators                                               *)

\* A word that matches the file is true of it.
LEMMA FileWordIsTrue ==
  ASSUME NEW w, NEW s, MatchesFile(w, s)
  PROVE  TestWord(w, s)
BY DEF MatchesFile, TestWord, TestNoPrefix, NamesFile

\* What is known of the patterns depends on them and the context alone.
LEMMA SamePatterns ==
  ASSUME UNCHANGED <<context, patterns>>
  PROVE  /\ \A s, n : TrueUpTo(s, n)' <=> TrueUpTo(s, n)
         /\ \A s, n : Reached(s, n)' <=> Reached(s, n)
         /\ \A s, k, m : FalseBefore(s, k, m)' <=> FalseBefore(s, k, m)
         /\ Prefixed' <=> Prefixed
         /\ HasFilePattern' <=> HasFilePattern
BY DEF TrueUpTo, Reached, FalseBefore, Prefixed, HasFilePattern, TestWord, TestNoPrefix,
       TestWithPrefix, NamesFile, MatchesFile, Terms

\* So is what the test has found out, when it stands at word m of pattern n + 1.
LEMMA SameProgress ==
  ASSUME UNCHANGED <<context, patterns>>, NEW s, NEW n, NEW k, NEW m,
         subject' = s, i' - 1 = n, i' = k, j' = m
  PROVE  /\ TrueUpTo(subject, i - 1)' <=> TrueUpTo(s, n)
         /\ Reached(subject, i - 1)' <=> Reached(s, n)
         /\ FalseBefore(subject, i, j)' <=> FalseBefore(s, k, m)
<1>1. /\ TrueUpTo(subject, i - 1)' <=> TrueUpTo(s, n)'
      /\ Reached(subject, i - 1)' <=> Reached(s, n)'
      /\ FalseBefore(subject, i, j)' <=> FalseBefore(s, k, m)'
  OBVIOUS
<1> QED BY <1>1, SamePatterns

\* A term of a filter is parsed into a pattern.
LEMMA ParsedTerm ==
  ASSUME NEW f \in Filter, NEW n \in 1..Len(f.written), NEW prefix,
         \A k \in 1..Len(f.written[n]) : prefix[k] \in Field \union {NoPrefix}
  PROVE  [k \in 1..Len(f.written[n]) |-> ParsedWord(f.written[n][k], prefix[k])] \in Pattern
<1> DEFINE term == f.written[n]
<1>1. term \in Seq(WrittenWord) /\ term # << >>
  <2>1. f.written \in Seq(Seq(WrittenWord) \ {<< >>})
    BY FilterAssumption
  <2> QED BY <2>1
<1>2. Len(term) \in Nat /\ Len(term) # 0 /\ \A k \in 1..Len(term) : term[k] \in WrittenWord
  BY <1>1
<1>3. ASSUME NEW k \in 1..Len(term) PROVE ParsedWord(term[k], prefix[k]) \in Word
  <2>1. term[k].text \in Text
    BY <1>2 DEF WrittenWord
  <2>2. Selects[term[k].text] \in SUBSET Value
    BY <2>1, SelectsAssumption
  <2> QED BY <2>2 DEF ParsedWord, Word
<1> DEFINE p == [k \in 1..Len(term) |-> ParsedWord(term[k], prefix[k])]
<1> HIDE DEF term
<1>4. p \in Seq(Word) /\ Len(p) = Len(term)
  BY <1>2, <1>3
<1>5. p # << >>
  BY <1>2, <1>4
<1> QED BY <1>4, <1>5 DEF Pattern, term

\* The position of the test is one of the filter's, and its patterns have words.
LEMMA Position ==
  ASSUME TypeOK
  PROVE  /\ Len(patterns) \in Nat
         /\ i \in Nat /\ 1 <= i /\ i <= Len(patterns) + 1
         /\ j \in Nat /\ 1 <= j
         /\ \A k \in 1..Len(patterns) : patterns[k] \in Pattern /\ Len(patterns[k]) \in Nat
         /\ \A k \in 1..Len(patterns) : 1 <= Len(patterns[k])
         /\ i <= Len(patterns) => i \in 1..Len(patterns) /\ j \in 1..Len(patterns[i])
<1>1. patterns \in Seq(Pattern)
  BY DEF TypeOK, Pattern
<1>2. ASSUME NEW k \in 1..Len(patterns)
      PROVE  patterns[k] \in Pattern /\ Len(patterns[k]) \in Nat /\ 1 <= Len(patterns[k])
  <2>1. patterns[k] \in Pattern
    BY <1>1
  <2>2. patterns[k] \in Seq(Word) /\ patterns[k] # << >>
    BY <2>1 DEF Pattern
  <2> QED BY <2>1, <2>2
<1>3. Len(patterns) \in Nat
  BY <1>1
<1>4. i \in 1..(Len(patterns) + 1) /\ j \in Nat \ {0} /\ (i <= Len(patterns) => j <= Len(patterns[i]))
  BY DEF TypeOK
<1> QED BY <1>2, <1>3, <1>4

\* When a word is true the pattern is, and the file is reached in it exactly when
\* this word matches it.
LEMMA TrueWordDecides ==
  ASSUME NEW s, NEW n \in Nat, NEW m \in 1..Len(patterns[n + 1]), Len(patterns[n + 1]) \in Nat,
         TrueUpTo(s, n), FalseBefore(s, n + 1, m), TestWord(patterns[n + 1][m], s)
  PROVE  /\ TrueUpTo(s, n + 1)
         /\ Reached(s, n + 1) <=> Reached(s, n) \/ MatchesFile(patterns[n + 1][m], s)
<1>1. TrueUpTo(s, n + 1)
  <2>1. ASSUME NEW k \in 1..(n + 1)
        PROVE  \E q \in 1..Len(patterns[k]) : TestWord(patterns[k][q], s)
    <3>1. k \in 1..n \/ k = n + 1
      OBVIOUS
    <3> QED BY <3>1 DEF TrueUpTo
  <2> QED BY <2>1 DEF TrueUpTo
<1>2. ASSUME Reached(s, n) \/ MatchesFile(patterns[n + 1][m], s) PROVE Reached(s, n + 1)
  <2>1. CASE Reached(s, n)
    <3>1. 1..n \subseteq 1..(n + 1)
      OBVIOUS
    <3> QED BY <2>1, <3>1 DEF Reached
  <2>2. CASE MatchesFile(patterns[n + 1][m], s)
    <3>1. n + 1 \in 1..(n + 1)
      OBVIOUS
    <3> QED BY <2>2, <3>1 DEF Reached
  <2> QED BY <1>2, <2>1, <2>2
<1>3. ASSUME Reached(s, n + 1) PROVE Reached(s, n) \/ MatchesFile(patterns[n + 1][m], s)
  <2>0. PICK k \in 1..(n + 1) : \E q \in 1..Len(patterns[k]) :
          FalseBefore(s, k, q) /\ MatchesFile(patterns[k][q], s)
    BY <1>3 DEF Reached
  <2>1. PICK q \in 1..Len(patterns[k]) :
          FalseBefore(s, k, q) /\ MatchesFile(patterns[k][q], s)
    BY <2>0
  <2>2. ASSUME k = n + 1 PROVE q = m
    <3>1. TestWord(patterns[n + 1][q], s) /\ FalseBefore(s, n + 1, q)
      BY <2>1, <2>2, FileWordIsTrue
    <3>2. ~ m < q
      <4>1. m < q => m \in 1..(q - 1)
        BY <2>2
      <4> QED BY <3>1, <4>1 DEF FalseBefore
    <3>3. ~ q < m
      <4>1. q < m => q \in 1..(m - 1)
        BY <2>2
      <4> QED BY <3>1, <4>1 DEF FalseBefore
    <3> QED BY <2>2, <3>2, <3>3
  <2>3. k \in 1..n \/ k = n + 1
    OBVIOUS
  <2> QED BY <2>1, <2>2, <2>3 DEF Reached
<1> QED BY <1>1, <1>2, <1>3

-----------------------------------------------------------------------------
(* The invariant                                                           *)

\* What a return leaves behind, if the verdict is right.
LEMMA Returned ==
  ASSUME IInv, Testing, NEW v \in {"matches", "fails"}, ReturnVerdict(v),
         subject = "config" => (v = "matches" <=> TrueUpTo("config", Len(patterns))),
         subject = "file" => (v = "matches" <=>
           /\ ~ (Prefixed /\ ~ HasFilePattern)
           /\ TrueUpTo("file", Len(patterns))
           /\ Reached("file", Len(patterns)))
  PROVE  IInv'
<1> USE DEF ReturnVerdict
<1>1. subject \in {"config", "file"} /\ subject' \in {"file", "done"}
  BY DEF Testing
<1>2. verdict' = [verdict EXCEPT ![subject] = v] /\ UNCHANGED <<filter, context, patterns>>
  OBVIOUS
<1>3. TypeOK'
  <2>1. verdict' \in [{"config", "file"} -> {"open", "matches", "fails"}]
    BY <1>2 DEF IInv, TypeOK
  <2>2. i' \in 1..(Len(patterns) + 1) /\ (i' <= Len(patterns) => j' <= Len(patterns[i']))
    BY Position DEF IInv
  <2>3. context' \in Context /\ patterns' \in Seq(Seq(Word) \ {<< >>})
    BY <1>2 DEF IInv, TypeOK
  <2>4. j' \in Nat \ {0}
    OBVIOUS
  <2>6. fileMatched' \in BOOLEAN
    BY Zenon
  <2>5. i' \in 1..(Len(patterns') + 1) /\ (i' <= Len(patterns') => j' <= Len(patterns'[i']))
    BY <1>2, <2>2
  <2> HIDE DEF ReturnVerdict
  <2> QED BY <1>1, <2>1, <2>3, <2>4, <2>5, <2>6, Zenon DEF TypeOK
<1>4. Progress'
  <2>1. TrueUpTo(subject, i - 1)' /\ FalseBefore(subject, i, j)' /\ ~ Reached(subject, i - 1)'
    BY DEF TrueUpTo, FalseBefore, Reached
  <2> QED BY <2>1 DEF Progress
<1>5. ConfigVerdict' /\ FileVerdict'
  <2>1. Len(patterns)' = Len(patterns)
    BY <1>2
  <2>2. verdict'["config"] = (IF subject = "config" THEN v ELSE verdict["config"])
        /\ verdict'["file"] = (IF subject = "file" THEN v ELSE verdict["file"])
    BY <1>1, <1>2 DEF IInv, TypeOK
  <2> QED BY <1>1, <1>2, <2>1, <2>2, SamePatterns DEF IInv, ConfigVerdict, FileVerdict
<1> QED BY <1>1, <1>2, <1>3, <1>4, <1>5 DEF IInv, Fresh

LEMMA InitInv == Init => IInv
<1> SUFFICES ASSUME Init PROVE IInv
  OBVIOUS
<1> USE DEF Init
<1>1. TypeOK
  <2>1. Len(patterns) = 0 /\ patterns \in Seq(Seq(Word) \ {<< >>})
    OBVIOUS
  <2>2. i \in 1..(Len(patterns) + 1) /\ ~ i <= Len(patterns) /\ j \in Nat \ {0}
    BY <2>1
  <2>3. verdict \in [{"config", "file"} -> {"open", "matches", "fails"}]
    OBVIOUS
  <2>4. fileMatched \in BOOLEAN
    BY Zenon
  <2>5. context \in Context /\ subject \in {"parse", "config", "file", "done", "error"}
    OBVIOUS
  <2> QED BY <2>1, <2>2, <2>3, <2>4, <2>5, Zenon DEF TypeOK
<1> QED BY <1>1 DEF IInv, Fresh, Progress, Testing, ConfigVerdict, FileVerdict

LEMMA ParseTermInv == IInv /\ ParseTerm => IInv'
<1> SUFFICES ASSUME IInv, ParseTerm PROVE IInv'
  OBVIOUS
<1> DEFINE p == [k \in 1..Len(Term) |-> ParsedWord(Term[k], WordPrefixes(Term)[k])]
<1>1. /\ subject = "parse" /\ patterns' = Append(patterns, p)
      /\ UNCHANGED <<filter, context, subject, i, j, fileMatched, verdict>>
  BY DEF ParseTerm, Parsing
<1>2. p \in Pattern
  <2>1. Len(patterns) + 1 \in 1..Len(filter.written)
    <3>1. Len(patterns) \in Nat /\ filter.written \in Seq(Seq(WrittenWord) \ {<< >>})
      BY Position, FilterAssumption DEF IInv
    <3>2. Len(filter.written) \in Nat
      BY <3>1
    <3> QED BY <3>1, <3>2 DEF ParseTerm, Parsing
  <2> DEFINE prefix == WordPrefixes(Term)
  <2>2. \A k \in 1..Len(Term) : prefix[k] \in Field \union {NoPrefix}
    BY DEF ParseTerm
  <2> HIDE DEF prefix
  <2>3. [k \in 1..Len(Term) |-> ParsedWord(Term[k], prefix[k])] \in Pattern
    BY <2>1, <2>2, ParsedTerm DEF IInv, Term
  <2> QED BY <2>3 DEF prefix
<1> HIDE DEF p
<1>3. patterns' \in Seq(Pattern) /\ Len(patterns') = Len(patterns) + 1
  BY <1>1, <1>2 DEF IInv, TypeOK, Pattern
<1>4. i = 1 /\ j = 1
  BY <1>1 DEF IInv, Fresh
<1>5. 1 \in 1..Len(patterns') /\ 1 <= Len(patterns'[1])
  <2>1. 1 \in 1..Len(patterns')
    BY <1>3, Position DEF IInv
  <2>2. patterns'[1] \in Pattern
    BY <1>3, <2>1
  <2>3. patterns'[1] \in Seq(Word) /\ patterns'[1] # << >>
    BY <2>2 DEF Pattern
  <2> QED BY <2>1, <2>3
<1>6. TypeOK'
  <2>1. i' \in 1..(Len(patterns') + 1) /\ (i' <= Len(patterns') => j' <= Len(patterns'[i']))
    BY <1>1, <1>3, <1>4, <1>5
  <2>2. patterns' \in Seq(Seq(Word) \ {<< >>})
    BY <1>3 DEF Pattern
  <2> QED BY <1>1, <2>1, <2>2 DEF IInv, TypeOK
<1> QED BY <1>1, <1>6 DEF IInv, Fresh, Progress, Testing, ConfigVerdict, FileVerdict

LEMMA WordTrueInv == IInv /\ WordTrue => IInv'
<1> SUFFICES ASSUME IInv, WordTrue PROVE IInv'
  OBVIOUS
<1>1. /\ i <= Len(patterns) /\ TestWord(patterns[i][j], subject)
      /\ i' = i + 1 /\ j' = 1 /\ subject \in {"config", "file"}
      /\ UNCHANGED <<filter, context, patterns, subject, verdict>>
  BY DEF WordTrue, Testing
<1>2. fileMatched' = (fileMatched \/ MatchesFile(patterns[i][j], subject))
  BY DEF WordTrue
<1>3. /\ i \in 1..Len(patterns) /\ j \in 1..Len(patterns[i]) /\ Len(patterns) \in Nat
      /\ \A k \in 1..Len(patterns) : 1 <= Len(patterns[k]) /\ Len(patterns[k]) \in Nat
  BY <1>1, Position DEF IInv
<1>4. TypeOK'
  <2>1. i' \in 1..(Len(patterns') + 1) /\ (i' <= Len(patterns') => j' <= Len(patterns'[i']))
    BY <1>1, <1>3
  <2>2. fileMatched' \in BOOLEAN
    BY <1>2, Zenon
  <2>3. j' \in Nat \ {0}
    BY <1>1
  <2>4. /\ context' \in Context /\ patterns' \in Seq(Seq(Word) \ {<< >>})
        /\ subject' \in {"parse", "config", "file", "done", "error"}
        /\ verdict' \in [{"config", "file"} -> {"open", "matches", "fails"}]
    BY <1>1 DEF IInv, TypeOK
  <2> QED BY <2>1, <2>2, <2>3, <2>4, Zenon DEF TypeOK
<1>5. Progress'
  <2>1. PICK n \in Nat : i = n + 1
    BY <1>3
  <2>2. TrueUpTo(subject, n) /\ FalseBefore(subject, i, j) /\ (fileMatched <=> Reached(subject, n))
    <3>1. i - 1 = n
      BY <2>1
    <3> QED BY <1>1, <3>1 DEF IInv, Progress, Testing
  <2>3. /\ TrueUpTo(subject, n + 1)
        /\ Reached(subject, n + 1) <=> Reached(subject, n) \/ MatchesFile(patterns[i][j], subject)
    BY <1>1, <1>3, <2>1, <2>2, TrueWordDecides
  <2>4. i' - 1 = n + 1
    BY <1>1, <2>1
  <2>5. /\ TrueUpTo(subject, i - 1)' /\ FalseBefore(subject, i, j)'
        /\ Reached(subject, i - 1)' <=> Reached(subject, n + 1)
    <3>1. FalseBefore(subject, i', 1)
      BY DEF FalseBefore
    <3> QED BY <1>1, <2>3, <2>4, <3>1, SameProgress
  <2> QED BY <1>2, <2>2, <2>3, <2>5 DEF Progress
<1>6. ConfigVerdict' /\ FileVerdict' /\ Fresh'
  BY <1>1, SamePatterns DEF IInv, ConfigVerdict, FileVerdict, Fresh
<1> QED BY <1>1, <1>4, <1>5, <1>6 DEF IInv

LEMMA WordFalseInv == IInv /\ WordFalse => IInv'
<1> SUFFICES ASSUME IInv, WordFalse PROVE IInv'
  OBVIOUS
<1>1. /\ i <= Len(patterns) /\ ~ TestWord(patterns[i][j], subject)
      /\ j < Len(patterns[i]) /\ j' = j + 1 /\ subject \in {"config", "file"}
      /\ UNCHANGED <<filter, context, patterns, subject, i, verdict>>
  BY DEF WordFalse, Testing
<1>2. fileMatched' = fileMatched
  BY DEF WordFalse
<1>3. /\ i \in 1..Len(patterns) /\ j \in 1..Len(patterns[i])
      /\ Len(patterns[i]) \in Nat /\ i \in Nat
  BY <1>1, Position DEF IInv
<1>4. TypeOK'
  <2>1. i' \in 1..(Len(patterns') + 1) /\ (i' <= Len(patterns') => j' <= Len(patterns'[i']))
    BY <1>1, <1>3 DEF IInv, TypeOK
  <2>2. j' \in Nat \ {0}
    BY <1>1, <1>3
  <2>3. /\ context' \in Context /\ patterns' \in Seq(Seq(Word) \ {<< >>})
        /\ subject' \in {"parse", "config", "file", "done", "error"}
        /\ verdict' \in [{"config", "file"} -> {"open", "matches", "fails"}]
    BY <1>1 DEF IInv, TypeOK
  <2>4. fileMatched' \in BOOLEAN
    BY <1>2, Zenon DEF IInv, TypeOK
  <2> QED BY <2>1, <2>2, <2>3, <2>4, Zenon DEF TypeOK
<1>5. Progress'
  <2>1. FalseBefore(subject, i, j + 1)
    <3>1. PICK m : m = j + 1
      OBVIOUS
    <3>2. FalseBefore(subject, i, j)
      BY <1>1 DEF IInv, Progress, Testing
    <3>3. ASSUME NEW q \in 1..(m - 1) PROVE ~ TestWord(patterns[i][q], subject)
      <4>1. q \in 1..(j - 1) \/ q = j
        BY <1>3, <3>1
      <4> QED BY <1>1, <3>2, <4>1 DEF FalseBefore
    <3>4. FalseBefore(subject, i, m)
      BY <3>3 DEF FalseBefore
    <3> QED BY <3>1, <3>4
  <2>2. PICK n : n = i - 1
    OBVIOUS
  <2>3. TrueUpTo(subject, n) /\ (fileMatched <=> Reached(subject, n))
    BY <1>1, <2>2 DEF IInv, Progress, Testing
  <2>4. /\ TrueUpTo(subject, i - 1)' /\ FalseBefore(subject, i, j)'
        /\ Reached(subject, i - 1)' <=> Reached(subject, n)
    <3>1. i' - 1 = n
      BY <1>1, <2>2
    <3> QED BY <1>1, <2>1, <2>3, <3>1, SameProgress
  <2> QED BY <1>2, <2>3, <2>4 DEF Progress
<1>6. ConfigVerdict' /\ FileVerdict' /\ Fresh'
  BY <1>1, SamePatterns DEF IInv, ConfigVerdict, FileVerdict, Fresh
<1> QED BY <1>1, <1>4, <1>5, <1>6 DEF IInv

\* A pattern without a true word fails the filter.
LEMMA PatternFalseInv == IInv /\ PatternFalse => IInv'
<1> SUFFICES ASSUME IInv, PatternFalse PROVE IInv'
  OBVIOUS
<1>1. /\ Testing /\ ReturnVerdict("fails")
      /\ i <= Len(patterns) /\ ~ TestWord(patterns[i][j], subject) /\ j = Len(patterns[i])
  BY DEF PatternFalse
<1>2. i \in 1..Len(patterns) /\ j \in 1..Len(patterns[i]) /\ Len(patterns[i]) \in Nat
  BY <1>1, Position DEF IInv
<1>3. FalseBefore(subject, i, j)
  BY <1>1 DEF IInv, Progress
<1>4. ASSUME NEW q \in 1..Len(patterns[i]) PROVE ~ TestWord(patterns[i][q], subject)
  <2>1. q \in 1..(j - 1) \/ q = j
    BY <1>1, <1>2
  <2> QED BY <1>1, <1>3, <2>1 DEF FalseBefore
<1>5. ~ TrueUpTo(subject, Len(patterns))
  BY <1>2, <1>4 DEF TrueUpTo
<1> QED BY <1>1, <1>5, Returned

LEMMA EndMatchingInv == IInv /\ EndMatching => IInv'
<1> SUFFICES ASSUME IInv, EndMatching PROVE IInv'
  OBVIOUS
<1> DEFINE v == IF subject = "file" /\ ~ fileMatched THEN "fails" ELSE "matches"
<1>1. Testing /\ ~ Skipped /\ i > Len(patterns) /\ ReturnVerdict(v)
  BY DEF EndMatching
<1>2. i - 1 = Len(patterns)
  BY <1>1, Position DEF IInv
<1>3. /\ TrueUpTo(subject, Len(patterns))
      /\ fileMatched <=> Reached(subject, Len(patterns))
  BY <1>1, <1>2 DEF IInv, Progress
<1>4. subject = "file" => ~ (Prefixed /\ ~ HasFilePattern)
  BY <1>1 DEF Skipped
<1>5. v \in {"matches", "fails"} /\ (v = "matches" <=> ~ (subject = "file" /\ ~ fileMatched))
  OBVIOUS
<1> HIDE DEF v
<1>6. subject = "config" => (v = "matches" <=> TrueUpTo("config", Len(patterns)))
  BY <1>3, <1>5
<1>7. subject = "file" => (v = "matches" <=>
        /\ ~ (Prefixed /\ ~ HasFilePattern)
        /\ TrueUpTo("file", Len(patterns))
        /\ Reached("file", Len(patterns)))
  BY <1>3, <1>4, <1>5
<1> QED BY <1>1, <1>5, <1>6, <1>7, Returned

LEMMA SkipFileInv == IInv /\ SkipFile => IInv'
<1> SUFFICES ASSUME IInv, SkipFile PROVE IInv'
  OBVIOUS
<1>1. Testing /\ ReturnVerdict("fails") /\ subject = "file" /\ Prefixed /\ ~ HasFilePattern
  BY DEF SkipFile, Skipped
<1> QED BY <1>1, Returned

\* The test of the configuration starts where it may.
LEMMA EndParsingInv == IInv /\ EndParsing => IInv'
<1> SUFFICES ASSUME IInv, EndParsing PROVE IInv'
  OBVIOUS
<1>1. /\ subject = "parse" /\ subject' = "config"
      /\ UNCHANGED <<filter, context, patterns, i, j, fileMatched, verdict>>
  BY DEF EndParsing
<1>2. /\ i = 1 /\ j = 1 /\ fileMatched = FALSE
      /\ verdict["config"] = "open" /\ verdict["file"] = "open"
  BY <1>1 DEF IInv, Fresh
<1>3. TypeOK'
  BY <1>1 DEF IInv, TypeOK
<1>4. Progress'
  <2>1. TrueUpTo("config", 0) /\ ~ Reached("config", 0) /\ FalseBefore("config", 1, 1)
    BY DEF TrueUpTo, Reached, FalseBefore
  <2>2. i' - 1 = 0 /\ i' = 1 /\ j' = 1
    BY <1>1, <1>2
  <2>3. /\ TrueUpTo(subject, i - 1)' /\ FalseBefore(subject, i, j)'
        /\ ~ Reached(subject, i - 1)'
    BY <1>1, <2>1, <2>2, SameProgress
  <2> QED BY <1>1, <1>2, <2>3 DEF Progress
<1> QED BY <1>1, <1>2, <1>3, <1>4 DEF IInv, Fresh, ConfigVerdict, FileVerdict

LEMMA RejectTermInv == IInv /\ RejectTerm => IInv'
<1> SUFFICES ASSUME IInv, RejectTerm PROVE IInv'
  OBVIOUS
<1>1. /\ subject = "parse" /\ subject' = "error"
      /\ UNCHANGED <<filter, context, patterns, i, j, fileMatched, verdict>>
  BY DEF RejectTerm, Parsing
<1>2. TypeOK'
  BY <1>1 DEF IInv, TypeOK
<1> QED BY <1>1, <1>2 DEF IInv, Fresh, Progress, Testing, ConfigVerdict, FileVerdict

LEMMA StutterInv == IInv /\ UNCHANGED vars => IInv'
<1> SUFFICES ASSUME IInv, UNCHANGED vars PROVE IInv'
  OBVIOUS
<1> USE DEF vars
<1>1. TypeOK'
  BY DEF IInv, TypeOK
<1>2. Progress'
  <2>1. PICK n : n = i - 1
    OBVIOUS
  <2>2. i' - 1 = n
    BY <2>1
  <2>3. /\ TrueUpTo(subject, i - 1)' <=> TrueUpTo(subject, n)
        /\ Reached(subject, i - 1)' <=> Reached(subject, n)
        /\ FalseBefore(subject, i, j)' <=> FalseBefore(subject, i, j)
    BY <2>2, SameProgress
  <2> QED BY <2>1, <2>3 DEF IInv, Progress, Testing
<1> QED BY <1>1, <1>2, SamePatterns DEF IInv, Fresh, ConfigVerdict, FileVerdict

LEMMA Invariance == Spec => []IInv
<1>1. IInv /\ [Next]_vars => IInv'
  BY ParseTermInv, RejectTermInv, EndParsingInv, SkipFileInv, WordTrueInv, WordFalseInv,
     PatternFalseInv, EndMatchingInv, StutterInv DEF Next
<1> QED BY InitInv, <1>1, PTL DEF Spec

-----------------------------------------------------------------------------
(* What follows from it                                                    *)

\* Every reachable state is well typed (TypeOK); in particular a parsed term is
\* never empty, and the test never reads past the words of a pattern.
THEOREM TypeCorrect == Spec => []TypeOK
<1>1. IInv => TypeOK
  BY DEF IInv
<1> QED BY Invariance, <1>1, PTL

\* A filter that matches a file is true of it and one of its words matches it,
\* whatever the filter and the file (FileVerdictSound).
THEOREM FileMatchesAreMeant == Spec => []FileVerdictSound
<1>1. IInv => FileVerdictSound
  BY DEF IInv, FileVerdict, FileVerdictSound, TrueUpTo, Reached, AllTrue, SomeWordMatchesFile
<1> QED BY Invariance, <1>1, PTL

\* With the words about files first, the first true word of a pattern that matches
\* the file at all matches it.
LEMMA FirstWordReaches ==
  ASSUME TypeOK, FilesFirst, SomeWordMatchesFile
  PROVE  Reached("file", Len(patterns)) /\ HasFilePattern
<1>1. PICK k \in 1..Len(patterns) :
        \E m \in 1..Len(patterns[k]) : MatchesFile(patterns[k][m], "file")
  BY DEF SomeWordMatchesFile
<1>2. PICK m \in 1..Len(patterns[k]) : MatchesFile(patterns[k][m], "file")
  BY <1>1
<1>3. Len(patterns[k]) \in Nat
  BY Position
<1>4. patterns[k][m].prefix = Files /\ TestWord(patterns[k][m], "file")
  BY <1>2, FileWordIsTrue DEF FilesFirst, AllPrefixed, MatchesFile
<1> DEFINE T == {q \in 1..Len(patterns[k]) : TestWord(patterns[k][q], "file")}
<1>5. T \in SUBSET Nat /\ T # {}
  BY <1>3, <1>4
<1>6. PICK q \in T : \A r \in T : q <= r
  <2> HIDE DEF T
  <2> QED BY <1>5, LeastNat, Zenon
<1>7. q \in 1..Len(patterns[k]) /\ TestWord(patterns[k][q], "file") /\ q <= m
  BY <1>4, <1>6
<1>8. FalseBefore("file", k, q)
  <2>1. ASSUME NEW r \in 1..(q - 1), TestWord(patterns[k][r], "file") PROVE FALSE
    <3>1. r \in 1..Len(patterns[k]) /\ r < q
      BY <1>3, <1>7
    <3>2. r \in T
      BY <2>1, <3>1
    <3> QED BY <1>3, <1>6, <3>1, <3>2
  <2> QED BY <2>1 DEF FalseBefore
<1>9. patterns[k][q].prefix = Files
  <2>1. patterns[k][q].prefix # Files => m < q
    BY <1>4, <1>7 DEF FilesFirst
  <2> QED BY <1>3, <1>7, <2>1
<1>10. MatchesFile(patterns[k][q], "file")
  BY <1>7, <1>9, FieldAssumption DEF MatchesFile, TestWord
<1> QED BY <1>7, <1>8, <1>9, <1>10 DEF Reached, HasFilePattern

\* With the words about files first in each pattern, a filter matches a file exactly
\* when it is true of it and a word matches it (FilesFirstComplete).
THEOREM FilesFirstIsComplete == Spec => []FilesFirstComplete
<1>1. IInv => FilesFirstComplete
  <2> SUFFICES ASSUME IInv, verdict["file"] # "open", FilesFirst
               PROVE  verdict["file"] = "matches" <=> AllTrue("file") /\ SomeWordMatchesFile
    BY DEF FilesFirstComplete
  <2>1. SomeWordMatchesFile <=> Reached("file", Len(patterns)) /\ HasFilePattern
    <3>1. Reached("file", Len(patterns)) => SomeWordMatchesFile
      BY DEF Reached, SomeWordMatchesFile
    <3> QED BY <3>1, FirstWordReaches DEF IInv
  <2>2. AllTrue("file") <=> TrueUpTo("file", Len(patterns))
    BY DEF AllTrue, TrueUpTo
  <2>3. verdict["file"] = "matches" => SomeWordMatchesFile
    BY DEF IInv, FileVerdict, Reached, SomeWordMatchesFile
  <2> QED BY <2>1, <2>2, <2>3 DEF IInv, FileVerdict
<1> QED BY Invariance, <1>1, PTL

\* With the words about files last, no filter matches both a configuration and a
\* file of it (FilesLastAppliedOnce): the pattern that matches the file does so
\* when all its other words are false, of the configuration as of the file.
THEOREM FilesLastApplyOnce == Spec => []FilesLastAppliedOnce
<1>1. IInv => FilesLastAppliedOnce
  <2> SUFFICES ASSUME IInv, FilesLast, verdict["config"] = "matches", verdict["file"] = "matches"
               PROVE  FALSE
    BY DEF FilesLastAppliedOnce
  <2>1. Reached("file", Len(patterns)) /\ TrueUpTo("config", Len(patterns))
    BY DEF IInv, ConfigVerdict, FileVerdict
  <2>2. PICK k \in 1..Len(patterns) : \E m \in 1..Len(patterns[k]) :
          FalseBefore("file", k, m) /\ MatchesFile(patterns[k][m], "file")
    BY <2>1 DEF Reached
  <2>3. PICK m \in 1..Len(patterns[k]) :
          FalseBefore("file", k, m) /\ MatchesFile(patterns[k][m], "file")
    BY <2>2
  <2>4. PICK q \in 1..Len(patterns[k]) : TestWord(patterns[k][q], "config")
    BY <2>1 DEF TrueUpTo
  <2>5. /\ patterns[k][q].prefix # NoPrefix
        /\ patterns[k][m].prefix # NoPrefix /\ patterns[k][m].prefix = Files
    BY <2>3 DEF FilesLast, AllPrefixed, MatchesFile
  <2>6. patterns[k][q].prefix # Files
    BY <2>4, <2>5 DEF TestWord, TestWithPrefix
  <2>7. q < m
    BY <2>5, <2>6 DEF FilesLast
  <2>8. ~ TestWord(patterns[k][q], "file")
    <3>1. q \in 1..(m - 1)
      BY <2>7, Position DEF IInv
    <3> QED BY <2>3, <3>1 DEF FalseBefore
  <2>9. Terms("file")[patterns[k][q].prefix] = Terms("config")[patterns[k][q].prefix]
    <3>1. patterns[k] \in Seq(Word)
      BY Position DEF IInv, Pattern
    <3>2. patterns[k][q] \in Word
      BY <3>1
    <3>3. patterns[k][q].prefix \in Field
      BY <2>5, <3>2 DEF Word
    <3>4. context.terms \in [Field -> SUBSET Value]
      BY ContextAssumption DEF IInv, TypeOK
    <3> QED BY <2>6, <3>3, <3>4 DEF Terms
  <2> QED BY <2>4, <2>5, <2>6, <2>8, <2>9 DEF TestWord, TestWithPrefix
<1> QED BY Invariance, <1>1, PTL

-----------------------------------------------------------------------------
(* What a filter says of a configuration.  The prefix that criteria.new    *)
(* carries from word to word is defined by recursion, the prefix a reader  *)
(* sees is the last one written: they are the same by induction on words.  *)

\* The prefix a term starts with, and those a word may have.
Start == IF filter.unprefixed THEN NoPrefix ELSE Default
AnyPrefix == Field \union {NoPrefix, Unknown}

\* A word with a prefix among its marks has the last of them.
LEMMA PrefixOfType ==
  ASSUME NEW word \in WrittenWord, NEW prefix \in AnyPrefix
  PROVE  PrefixOf(word, prefix) \in AnyPrefix
<1> DEFINE T == {k \in 1..Len(word.marks) : word.marks[k] # Not}
<1>1. word.marks \in Seq(Field \union {Unknown, Not})
  BY DEF WrittenWord
<1>2. Len(word.marks) \in Nat /\ \A k \in 1..Len(word.marks) : word.marks[k] \in Field \union {Unknown, Not}
  BY <1>1
<1>3. CASE T = {}
  BY <1>3 DEF PrefixOf
<1>4. CASE T # {}
  <2> DEFINE x == CHOOSE k \in T : \A m \in T : m <= k
  <2>1. T \in SUBSET (1..Len(word.marks))
    OBVIOUS
  <2>2. \E k \in T : \A m \in T : m <= k
    <3> HIDE DEF T
    <3> QED BY <1>2, <1>4, <2>1, GreatestNat, Zenon
  <2>3. x \in T
    <3> HIDE DEF T
    <3> QED BY <2>2, Zenon
  <2>4. word.marks[x] \in AnyPrefix
    <3> HIDE DEF x
    <3> QED BY <1>2, <2>3 DEF AnyPrefix
  <2>5. PrefixOf(word, prefix) = word.marks[x]
    BY <1>4 DEF PrefixOf
  <2> QED BY <2>4, <2>5
<1> QED BY <1>3, <1>4

\* WordPrefixes satisfies the equations it is defined by.
LEMMA PrefixesRecursion ==
  ASSUME filter \in Filter, NEW term \in Seq(WrittenWord)
  PROVE  /\ WordPrefixes(term)[0] = Start
         /\ \A k \in 1..Len(term) : WordPrefixes(term)[k] = PrefixOf(term[k], WordPrefixes(term)[k - 1])
<1> DEFINE n == Len(term)
           Step(k, l) == PrefixOf(term[k], l)
           g == [kl \in (1..n) \X AnyPrefix |-> Step(kl[1], kl[2])]
           D(f) == f = [k \in 0..n |-> IF k = 0 THEN Start ELSE Step(k, f[k - 1])]
           F == CHOOSE f : D(f)
<1>1. n \in Nat /\ \A k \in 1..n : term[k] \in WrittenWord
  OBVIOUS
<1>2. Start \in AnyPrefix
  BY FieldAssumption DEF Start, AnyPrefix
<1>3. \A k \in 1..n, l \in AnyPrefix : Step(k, l) \in AnyPrefix
  BY <1>1, PrefixOfType
<1>4. WordPrefixes(term) = F
  BY DEF WordPrefixes, Start
<1> HIDE DEF n, Step
<1>5. g \in [(1..n) \X AnyPrefix -> AnyPrefix]
  BY <1>3
<1>6. PICK f : Recurses(f, n, AnyPrefix, Start, g)
  <2> HIDE DEF g
  <2> QED BY <1>1, <1>2, <1>5, RecursionExists
<1>7. ASSUME NEW k \in 1..n PROVE f[k] = Step(k, f[k - 1])
  <2>1. k - 1 \in 0..n
    BY <1>1
  <2>2. <<k, f[k - 1]>> \in (1..n) \X AnyPrefix
    BY <1>6, <2>1 DEF Recurses
  <2> QED BY <1>6, <2>2 DEF Recurses
<1>8. D(f)
  <2>1. \A k \in 0..n : f[k] = IF k = 0 THEN Start ELSE Step(k, f[k - 1])
    BY <1>1, <1>6, <1>7 DEF Recurses
  <2> QED BY <1>6, <2>1 DEF Recurses
<1>9. D(F)
  <2> HIDE DEF D
  <2> QED BY <1>8
<1>10. F[0] = Start /\ \A k \in 1..n : F[k] = Step(k, F[k - 1])
  <2> HIDE DEF F
  <2>1. \A k \in 0..n : F[k] = IF k = 0 THEN Start ELSE Step(k, F[k - 1])
    BY <1>9, Zenon
  <2> QED BY <2>1, <1>1
<1> HIDE DEF F
<1> QED BY <1>4, <1>10 DEF n, Step

\* The words up to k that have a prefix.
Named(term, k) == {m \in 1..k : \E q \in 1..Len(term[m].marks) : term[m].marks[q] # Not}

\* The last prefix of the last of these words.
PrefixOfLast(term, named) ==
  LET marks  == term[CHOOSE m \in named : \A q \in named : q <= m].marks
      places == {q \in 1..Len(marks) : marks[q] # Not}
  IN  marks[CHOOSE q \in places : \A r \in places : r <= q]

\* The carried prefix of a word is the last one written before its end.
LEMMA PrefixesAreWritten ==
  ASSUME filter \in Filter, NEW term \in Seq(WrittenWord), NEW k \in 0..Len(term)
  PROVE  WordPrefixes(term)[k] = WrittenPrefix(term, k)
<1> DEFINE n == Len(term)
           S == {m \in 0..n : WordPrefixes(term)[m] = WrittenPrefix(term, m)}
<1>1. n \in Nat
  OBVIOUS
<1>2. ASSUME NEW m
      PROVE  WrittenPrefix(term, m)
             = IF Named(term, m) # {} THEN PrefixOfLast(term, Named(term, m)) ELSE Start
  BY DEF WrittenPrefix, Named, PrefixOfLast, Start
<1>3. 0 \in S
  <2>1. Named(term, 0) = {}
    BY DEF Named
  <2>2. WrittenPrefix(term, 0) = Start
    BY <1>2, <2>1
  <2> QED BY <1>1, <2>2, PrefixesRecursion
<1>4. ASSUME NEW m \in 1..n, m - 1 \in S PROVE m \in S
  <2> DEFINE places == {q \in 1..Len(term[m].marks) : term[m].marks[q] # Not}
  <2>1. WordPrefixes(term)[m] = PrefixOf(term[m], WrittenPrefix(term, m - 1))
    BY <1>4, PrefixesRecursion
  <2>2. ASSUME places = {} PROVE PrefixOf(term[m], WrittenPrefix(term, m - 1)) = WrittenPrefix(term, m)
    <3>1. Named(term, m) = Named(term, m - 1)
      BY <1>1, <2>2 DEF Named
    <3>2. WrittenPrefix(term, m) = WrittenPrefix(term, m - 1)
      BY <1>2, <3>1
    <3>3. PrefixOf(term[m], WrittenPrefix(term, m - 1)) = WrittenPrefix(term, m - 1)
      BY <2>2 DEF PrefixOf
    <3> QED BY <3>2, <3>3
  <2>3. ASSUME places # {} PROVE PrefixOf(term[m], WrittenPrefix(term, m - 1)) = WrittenPrefix(term, m)
    <3> DEFINE last == CHOOSE x \in Named(term, m) : \A q \in Named(term, m) : q <= x
    <3>1. m \in Named(term, m) /\ \A q \in Named(term, m) : q <= m /\ q \in Nat
      BY <1>1, <2>3 DEF Named
    <3>2. last \in Named(term, m) /\ \A q \in Named(term, m) : q <= last
      BY <3>1, Zenon
    <3>3. last = m
      <4> HIDE DEF last
      <4>1. last <= m /\ m <= last /\ last \in Nat
        BY <3>1, <3>2
      <4> QED BY <4>1
    <3>4. WrittenPrefix(term, m)
          = term[last].marks[CHOOSE q \in {x \in 1..Len(term[last].marks) : term[last].marks[x] # Not} :
              \A r \in {x \in 1..Len(term[last].marks) : term[last].marks[x] # Not} : r <= q]
      <4>1. WrittenPrefix(term, m) = PrefixOfLast(term, Named(term, m))
        BY <1>2, <3>1
      <4> QED BY <4>1, Zenon DEF PrefixOfLast
    <3>5. PrefixOf(term[m], WrittenPrefix(term, m - 1))
          = term[m].marks[CHOOSE q \in places : \A r \in places : r <= q]
      BY <2>3, Zenon DEF PrefixOf
    <3> HIDE DEF last
    <3> QED BY <3>3, <3>4, <3>5, Zenon
  <2>4. m \in 0..n
    BY <1>1
  <2> QED BY <2>1, <2>2, <2>3, <2>4
<1>5. 0..n \subseteq S
  <2> HIDE DEF S, n
  <2> QED BY <1>1, <1>3, <1>4, InductionUpTo
<1> QED BY <1>5

-----------------------------------------------------------------------------
(* The patterns are those of the filter                                    *)

\* Pattern t is what the words of term t say, each with its written prefix.
Parsed(t) ==
  /\ t \in 1..Len(filter.written)
  /\ Len(patterns[t]) = Len(filter.written[t])
  /\ \A k \in 1..Len(patterns[t]) :
       /\ WrittenPrefix(filter.written[t], k) \in Field \union {NoPrefix}
       /\ patterns[t][k]
          = ParsedWord(filter.written[t][k], WrittenPrefix(filter.written[t], k))

ParsedInv ==
  /\ subject = "parse" => Len(patterns) <= Len(filter.written)
  /\ subject \in {"parse", "error"} => verdict["config"] = "open"
  /\ subject \notin {"parse", "error"} => Len(patterns) = Len(filter.written)
  /\ \A t \in 1..Len(patterns) : Parsed(t)

LEMMA SameParsed ==
  ASSUME UNCHANGED filter, NEW t, patterns'[t] = patterns[t], Parsed(t)
  PROVE  Parsed(t)'
<1>1. \A term, k : WrittenPrefix(term, k)' = WrittenPrefix(term, k)
  BY DEF WrittenPrefix
<1>2. \A word, prefix : ParsedWord(word, prefix)' = ParsedWord(word, prefix)
  BY DEF ParsedWord
<1> QED BY <1>1, <1>2 DEF Parsed

\* The terms of a filter are sequences of words.
LEMMA TermType ==
  ASSUME filter \in Filter
  PROVE  /\ Len(filter.written) \in Nat
         /\ \A t \in 1..Len(filter.written) :
              filter.written[t] \in Seq(WrittenWord) /\ Len(filter.written[t]) \in Nat
<1>1. filter.written \in Seq(Seq(WrittenWord) \ {<< >>})
  BY FilterAssumption
<1>2. ASSUME NEW t \in 1..Len(filter.written) PROVE filter.written[t] \in Seq(WrittenWord)
  BY <1>1
<1> QED BY <1>1, <1>2

LEMMA ParseTermParsed == IInv /\ ParsedInv /\ ParseTerm => ParsedInv'
<1> SUFFICES ASSUME IInv, ParsedInv, ParseTerm PROVE ParsedInv'
  OBVIOUS
<1> DEFINE n == Len(patterns) + 1
           p == [k \in 1..Len(Term) |-> ParsedWord(Term[k], WordPrefixes(Term)[k])]
<1>1. /\ subject = "parse" /\ patterns' = Append(patterns, p)
      /\ Len(patterns) < Len(filter.written)
      /\ \A k \in 1..Len(Term) : WordPrefixes(Term)[k] \in Field \union {NoPrefix}
      /\ UNCHANGED <<filter, context, subject, i, j, fileMatched, verdict>>
  BY DEF ParseTerm, Parsing
<1>2. /\ Len(patterns) \in Nat /\ Len(filter.written) \in Nat
      /\ n \in 1..Len(filter.written) /\ Term = filter.written[n]
      /\ Term \in Seq(WrittenWord) /\ Len(Term) \in Nat
  BY <1>1, Position, TermType DEF IInv, Term
<1>3. \A k \in 1..Len(Term) : WordPrefixes(Term)[k] = WrittenPrefix(Term, k)
  <2>1. \A k \in 1..Len(Term) : k \in 0..Len(Term)
    BY <1>2
  <2> QED BY <1>2, <2>1, PrefixesAreWritten DEF IInv
<1>4. Len(p) = Len(Term) /\ \A k \in 1..Len(Term) : p[k] = ParsedWord(Term[k], WrittenPrefix(Term, k))
  BY <1>2, <1>3
<1> HIDE DEF p
<1>5. /\ Len(patterns') = n /\ patterns'[n] = p
      /\ \A t \in 1..Len(patterns) : patterns'[t] = patterns[t]
  <2>1. patterns \in Seq(Seq(Word) \ {<< >>})
    BY DEF IInv, TypeOK
  <2> QED BY <1>1, <2>1
<1>6. ASSUME NEW t \in 1..Len(patterns) PROVE Parsed(t)'
  BY <1>1, <1>5, SameParsed DEF ParsedInv
<1>7. ASSUME NEW t, t = n PROVE Parsed(t)'
  <2>1. \A term, k : WrittenPrefix(term, k)' = WrittenPrefix(term, k)
    BY <1>1 DEF WrittenPrefix
  <2>2. \A word, prefix : ParsedWord(word, prefix)' = ParsedWord(word, prefix)
    BY DEF ParsedWord
  <2>3. t \in 1..Len(filter.written) /\ Term = filter.written[t] /\ patterns'[t] = p
    BY <1>2, <1>5, <1>7
  <2>4. \A k \in 1..Len(Term) : WrittenPrefix(Term, k) \in Field \union {NoPrefix}
    BY <1>1, <1>3
  <2> HIDE DEF n
  <2> QED BY <1>1, <1>4, <2>1, <2>2, <2>3, <2>4 DEF Parsed
<1>8. \A t \in 1..Len(patterns') : t \in 1..Len(patterns) \/ t = n
  BY <1>2, <1>5
<1>9. Len(patterns') <= Len(filter'.written)
  BY <1>1, <1>2, <1>5
<1> QED BY <1>1, <1>6, <1>7, <1>8, <1>9 DEF ParsedInv

LEMMA ParsedInvariance == Spec => []ParsedInv
<1>1. Init => ParsedInv
  <2> SUFFICES ASSUME Init PROVE ParsedInv
    OBVIOUS
  <2>1. Len(patterns) = 0 /\ Len(filter.written) \in Nat
    BY TermType DEF Init
  <2> QED BY <2>1 DEF Init, ParsedInv
<1>2. ASSUME IInv, ParsedInv, [Next]_vars PROVE ParsedInv'
  <2>1. ASSUME UNCHANGED <<filter, patterns>> PROVE \A t \in 1..Len(patterns') : Parsed(t)'
    BY <2>1, SameParsed, <1>2 DEF ParsedInv
  <2>2. CASE ParseTerm
    BY <1>2, <2>2, ParseTermParsed
  <2>3. CASE RejectTerm
    BY <1>2, <2>1, <2>3 DEF RejectTerm, Parsing, ParsedInv
  <2>4. CASE EndParsing
    BY <1>2, <2>1, <2>4 DEF EndParsing, ParsedInv
  <2>5. ASSUME Testing, NEW v, ReturnVerdict(v) PROVE ParsedInv'
    BY <1>2, <2>1, <2>5 DEF ReturnVerdict, Testing, ParsedInv
  <2>6. CASE SkipFile
    BY <2>5, <2>6 DEF SkipFile
  <2>7. CASE WordTrue
    BY <1>2, <2>1, <2>7 DEF WordTrue, Testing, ParsedInv
  <2>8. CASE WordFalse
    BY <1>2, <2>1, <2>8 DEF WordFalse, Testing, ParsedInv
  <2>9. CASE PatternFalse
    BY <2>5, <2>9 DEF PatternFalse
  <2>10. CASE EndMatching
    BY <2>5, <2>10 DEF EndMatching
  <2>11. CASE UNCHANGED vars
    BY <1>2, <2>1, <2>11 DEF vars, ParsedInv
  <2> QED BY <1>2, <2>2, <2>3, <2>4, <2>6, <2>7, <2>8, <2>9, <2>10, <2>11 DEF Next
<1> QED BY <1>1, <1>2, Invariance, PTL DEF Spec

-----------------------------------------------------------------------------
(* What a filter says of a configuration                                   *)

\* The test of a parsed word is what the word says.
LEMMA WordSays ==
  ASSUME IInv, NEW t \in 1..Len(patterns), Parsed(t), NEW k \in 1..Len(patterns[t])
  PROVE  TestWord(patterns[t][k], "config") <=> Says(filter.written[t], k)
<1> DEFINE word == filter.written[t][k]
           field == WrittenPrefix(filter.written[t], k)
           nots == {q \in 1..Len(word.marks) : word.marks[q] = Not}
           w == patterns[t][k]
<1>1. /\ field \in Field \union {NoPrefix}
      /\ w.prefix = field /\ w.values = Selects[word.text]
      /\ w.negated = (Cardinality(nots) % 2 = 1)
  <2>1. w = ParsedWord(word, field) /\ field \in Field \union {NoPrefix}
    BY DEF Parsed
  <2> HIDE DEF word, field, w
  <2>2. w.prefix = field /\ w.values = Selects[word.text]
    BY <2>1 DEF ParsedWord
  <2>3. w.negated = (Cardinality(nots) % 2 = 1)
    BY <2>1, Zenon DEF ParsedWord
  <2> QED BY <2>1, <2>2, <2>3, Zenon
<1>2. Cardinality(nots) \in Nat
  <2>1. t \in 1..Len(filter.written) /\ k \in 1..Len(filter.written[t])
    BY DEF Parsed
  <2>2. word \in WrittenWord
    BY <2>1, TermType DEF IInv
  <2>3. word.marks \in Seq(Field \union {Unknown, Not})
    BY <2>2 DEF WrittenWord
  <2>4. IsFiniteSet(1..Len(word.marks))
    <3>1. 1 \in Int /\ Len(word.marks) \in Int
      BY <2>3
    <3> HIDE DEF word
    <3> QED BY <3>1, FS_Interval
  <2>5. nots \subseteq 1..Len(word.marks)
    OBVIOUS
  <2> HIDE DEF nots
  <2> QED BY <2>4, <2>5, FS_Subset, FS_CardinalityType
<1>3. Cardinality(nots) % 2 = 0 <=> ~ w.negated
  <2>1. \A c \in Nat : c % 2 = 0 <=> ~ (c % 2 = 1)
    OBVIOUS
  <2> HIDE DEF nots, w
  <2> QED BY <1>1, <1>2, <2>1
<1>4. Terms("config") = context.terms
  BY DEF Terms
<1>5. CASE field = NoPrefix
  <2> DEFINE holds == \E f \in Field : context.terms[f] \intersect Selects[word.text] # {}
  <2>1. Says(filter.written[t], k) <=> (holds <=> Cardinality(nots) % 2 = 0)
    BY <1>5, FieldAssumption DEF Says
  <2>2. TestWord(w, "config") <=> (holds <=> ~ w.negated)
    BY <1>1, <1>4, <1>5 DEF TestWord, TestNoPrefix, NamesFile
  <2> HIDE DEF holds, nots, w
  <2>3. TestWord(w, "config") <=> Says(filter.written[t], k)
    BY <1>3, <2>1, <2>2
  <2> QED BY <2>3 DEF w
<1>6. CASE field # NoPrefix
  <2> DEFINE holds == context.terms[field] \intersect Selects[word.text] # {}
  <2>1. Says(filter.written[t], k) <=> field # Files /\ (holds <=> Cardinality(nots) % 2 = 0)
    BY <1>6 DEF Says
  <2>2. TestWord(w, "config") <=> field # Files /\ (holds <=> ~ w.negated)
    BY <1>1, <1>4, <1>6 DEF TestWord, TestWithPrefix
  <2> HIDE DEF holds, nots, w
  <2>3. TestWord(w, "config") <=> Says(filter.written[t], k)
    BY <1>3, <2>1, <2>2
  <2> QED BY <2>3 DEF w
<1> QED BY <1>5, <1>6

\* For every filter, context and length of its terms: the verdict on a configuration
\* is the conjunction of disjunctions that the filter reads as (ConfigIsFormula),
\* each word under the last prefix written before it.
THEOREM ConfigVerdictIsFormula == Spec => []ConfigIsFormula
<1>1. IInv /\ ParsedInv => ConfigIsFormula
  <2> SUFFICES ASSUME IInv, ParsedInv, verdict["config"] # "open"
               PROVE  verdict["config"] = "matches" <=>
                        \A t \in 1..Len(filter.written) :
                          \E k \in 1..Len(filter.written[t]) : Says(filter.written[t], k)
    BY DEF ConfigIsFormula
  <2>1. Len(patterns) = Len(filter.written)
    BY DEF ParsedInv
  <2>2. ASSUME NEW t \in 1..Len(patterns)
        PROVE  (\E k \in 1..Len(patterns[t]) : TestWord(patterns[t][k], "config")) <=>
               (\E k \in 1..Len(filter.written[t]) : Says(filter.written[t], k))
    <3>1. Parsed(t)
      BY DEF ParsedInv
    <3>2. Len(patterns[t]) = Len(filter.written[t])
      BY <3>1 DEF Parsed
    <3> QED BY <3>1, <3>2, WordSays
  <2>3. verdict["config"] = "matches" <=> TrueUpTo("config", Len(patterns))
    BY DEF IInv, ConfigVerdict
  <2> QED BY <2>1, <2>2, <2>3 DEF TrueUpTo
<1> QED BY <1>1, Invariance, ParsedInvariance, PTL

-----------------------------------------------------------------------------
(* Trees                                                                   *)

\* The folder of each file, and whether its folders may be trimmed.
Where     == [f \in prj.files |-> FolderOf(f)]
MayTrim(f) == f \in DOMAIN prj.source \/ VPath(f) = RelPath(f)
TrimFlags  == {MayTrim(f) : f \in prj.files}

Label == Name \union {DotDot}

TreeName == Segment \union {NoFile}

TreeNode ==
  [name : TreeName, path : Seq(TreeName) \union {NoFile},
   file : AbsPath \union {NoFile}, trim : BOOLEAN, parent : Nat, children : SUBSET Nat,
   index : UNION {[names -> Nat] : names \in SUBSET TreeName}]

\* A virtual folder: names and "..", or names below the root.
FolderPath ==
  {p \in Seq(Segment) :
     \/ p \in Seq(Label)
     \/ p # << >> /\ p[1] = Slash /\ Tail(p) \in Seq(Name)}

\* Every node was made after its parent.
Rising(tr) ==
  /\ tr \in Seq(TreeNode) /\ Len(tr) > 0
  /\ \A n \in 2..Len(tr) : tr[n].parent \in 1..(n - 1)

\* The nodes that are not taken away.
Kept(tr) == {n \in 1..Len(tr) : n = Root \/ n \in tr[tr[n].parent].children}

\* What was taken away has no nodes below.
Tree(tr) ==
  /\ Rising(tr)
  /\ \A n \in Kept(tr) \ {Root} : tr[n].parent \in Kept(tr)
  /\ \A p \in Kept(tr) : \A n \in tr[p].children : n \in 2..Len(tr) /\ tr[n].parent = p

\* The names from the root to file f
ShownAs(W, f) == Append(Below(W[f]), Last(f))

\* No file has the place of a folder; no folder is outside.
Apart(W) == \A f, g \in DOMAIN W : ~ IsPrefix(ShownAs(W, f), Below(W[g]))
Plain(W) == \A f \in DOMAIN W : W[f] \in Seq(Name)

\* The root and the nodes that tree.add made
IsFolder(tr, n) == tr[n].file = NoFile

\* What is true of all nodes, kept or not.
Nodes(tr, W, placed) ==
  /\ IsFolder(tr, Root)
  /\ \A n \in 2..Len(tr) : tr[n].name \in Label /\ (Plain(W) => tr[n].name \in Name)
  /\ \A n \in 2..Len(tr) : ~ IsFolder(tr, n) =>
       /\ tr[n].file \in placed /\ tr[n].name = Last(tr[n].file)
       /\ n \in Kept(tr) /\ tr[n].children = {}
       /\ \A c \in 2..Len(tr) : tr[c].file = tr[n].file => c = n
  /\ \A f \in placed : \E n \in 2..Len(tr) : tr[n].file = f

\* Below one node there is one folder "..", and one of each name if no folder
\* is outside.
OneOfAName(tr, W) ==
  \A a, b \in Kept(tr) \ {Root} :
    (/\ IsFolder(tr, a) /\ IsFolder(tr, b)
     /\ tr[a].parent = tr[b].parent /\ tr[a].name = tr[b].name
     /\ tr[a].name = DotDot \/ Plain(W)) => a = b

\* While the tree is made nothing is taken away, and children are found by name.
Grown(tr) ==
  /\ Tree(tr) /\ Kept(tr) = 1..Len(tr)
  /\ \A n \in 1..Len(tr) :
    /\ DOMAIN tr[n].index = {tr[c].name : c \in tr[n].children}
    /\ \A x \in DOMAIN tr[n].index : tr[n].index[x] \in tr[n].children /\ tr[tr[n].index[x]].name = x

\* The names from the root are those of the virtual folders.
Chained(tr, W) ==
  \A n \in 2..Len(tr) :
    IF IsFolder(tr, n)
    THEN /\ \E f \in DOMAIN W : \E k \in 1..Len(W[f]) : tr[n].path = SubSeq(W[f], 1, k)
         /\ Chain(tr, n) = Below(tr[n].path)
    ELSE Chain(tr, n) = ShownAs(W, tr[n].file)

Built(tr, W, placed) == Nodes(tr, W, placed) /\ OneOfAName(tr, W) /\ Chained(tr, W)

\* While it is trimmed: k folders are gone from the top, and then m "..".
Common(W, k) ==
  \A f, g \in DOMAIN W :
    k <= Len(Below(W[f])) /\ SubSeq(Below(W[f]), 1, k) = SubSeq(Below(W[g]), 1, k)

\* What is left above the files
Cut(tr, W, k, m) ==
  \A n \in 2..Len(tr) : ~ IsFolder(tr, n) =>
    Chain(tr, n) = Append(Remaining(Below(W[tr[n].file]), k, m), Last(tr[n].file))

\* The nodes above a node were made before it, those taken away too: so k and m
\* are bounded by the number of nodes.
TrimmedTo(tr, W, k, m) ==
  /\ k \in 0..Len(tr) /\ m \in 0..Len(tr) /\ Common(W, k) /\ Cut(tr, W, k, m)
  /\ \A n \in Kept(tr) \ {Root} :
       (m = 0 \/ Chain(tr, n)[1] = DotDot) => k + m + Len(Chain(tr, n)) < n

\* Folders have the flag of a file they were made for.
Flagged(tr, flags) ==
  \A n \in 2..Len(tr) : tr[n].trim \in (IF IsFolder(tr, n) THEN flags ELSE {TRUE})

\* Folders are known by the names above them.
PathsAreChains(tr) ==
  \A n \in Kept(tr) \ {Root} : IsFolder(tr, n) => tr[n].path = Chain(tr, n)

\* No folder is the only child of the root.
NoFolderAlone(tr) == \A n \in Kept(tr) : tr[n].children # {} => tr[Root].children # {n}

Making == phase \in {"files", "generated"}

\* The types, and that the nodes are a tree.
Typed ==
  /\ prj \in Project /\ todo \subseteq prj.files /\ trimmed \in BOOLEAN
  /\ phase \in {"files", "generated", "trim", "dotdot", "done"}
  /\ Tree(nodes) /\ Flagged(nodes, TrimFlags)

\* Files enter, each in the folders of its virtual path.
WhileMade ==
  Making =>
    /\ ~ trimmed /\ Grown(nodes)
    /\ phase = "generated" => todo \subseteq DOMAIN prj.source
    /\ Apart(Where) => Built(nodes, Where, prj.files \ todo)

\* What trimroot has done so far.
WhenMade ==
  ~ Making =>
    /\ todo = {}
    /\ (phase # "trim" /\ FALSE \notin TrimFlags) => NoFolderAlone(nodes)

\* Where the files are while trimroot runs and after it.
WhereShown ==
  (~ Making /\ Apart(Where)) =>
    /\ Nodes(nodes, Where, prj.files) /\ OneOfAName(nodes, Where)
    /\ (Plain(Where) /\ (phase = "done" \/ ~ trimmed)) => PathsAreChains(nodes)
    /\ \E k, m \in 0..Len(nodes) :
         /\ TrimmedTo(nodes, Where, k, m)
         /\ phase = "trim" => m = 0

TreeInv == Typed /\ WhileMade /\ WhenMade /\ WhereShown

-----------------------------------------------------------------------------
(* Paths                                                                   *)

\* Sequences that agree on their first k items have the same first part.
LEMMA SameParts ==
  ASSUME NEW S, NEW s \in Seq(S), NEW t \in Seq(S), NEW k \in Nat, k <= Len(s), k <= Len(t),
         \A l \in 1..k : s[l] = t[l]
  PROVE  SubSeq(s, 1, k) = SubSeq(t, 1, k)
OBVIOUS

\* The special segments are different, and are not names.
LEMMA Specials == DotDot \notin Name /\ Slash \notin Name /\ DotDot # Slash /\ Slash \notin Label
BY RankAssumption DEF Label

\* A sequence is one of the items it has.
LEMMA ItemsIn ==
  ASSUME NEW S, NEW T, NEW s \in Seq(S), \A l \in 1..Len(s) : s[l] \in T
  PROVE  s \in Seq(T)
<1>1. s \in [1..Len(s) -> S] /\ Len(s) \in Nat
  BY LenProperties
<1>2. s \in [1..Len(s) -> T]
  BY <1>1
<1> QED BY <1>1, <1>2, SeqDef

\* The root alone is the path of one segment that starts with it.
LEMMA OneSegment ==
  ASSUME NEW p \in Seq(Segment), Len(p) = 1, p[1] = Slash
  PROVE  p = <<Slash>>
OBVIOUS

LEMMA BelowRoot == Below(<<Slash>>) = << >>
<1>1. Tail(<<Slash>>) = << >>
  OBVIOUS
<1>2. <<Slash>> # << >> /\ <<Slash>>[1] = Slash
  OBVIOUS
<1> QED BY <1>1, <1>2 DEF Below

\* Below a root are names and "..".
LEMMA BelowType ==
  ASSUME NEW p \in FolderPath
  PROVE  Below(p) \in Seq(Label) /\ Len(Below(p)) <= Len(p)
<1>1. CASE p \in Seq(Label)
  <2>1. p # << >> => p[1] \in Label
    BY <1>1
  <2> QED BY <1>1, <2>1, Specials DEF Below
<1>2. CASE p # << >> /\ p[1] = Slash /\ Tail(p) \in Seq(Name)
  <2>1. Below(p) = Tail(p) /\ p \in Seq(Segment)
    BY <1>2 DEF Below, FolderPath
  <2>2. Tail(p) \in Seq(Label)
    BY <1>2, SeqMonotonic DEF Label
  <2>3. Len(Tail(p)) = Len(p) - 1 /\ Len(p) \in Nat
    BY <2>1, <1>2, HeadTailProperties
  <2> QED BY <2>1, <2>2, <2>3
<1> QED BY <1>1, <1>2 DEF FolderPath

\* The first folders of a virtual folder are one.
LEMMA PrefixPath ==
  ASSUME NEW p \in FolderPath, NEW k \in 0..Len(p)
  PROVE  /\ SubSeq(p, 1, k) \in FolderPath /\ Len(SubSeq(p, 1, k)) = k
         /\ \A l \in 1..k : SubSeq(p, 1, k)[l] = p[l]
<1> DEFINE q == SubSeq(p, 1, k)
<1>1. p \in Seq(Segment) /\ Len(p) \in Nat /\ k \in Nat
  BY DEF FolderPath
<1>2. Len(q) = k /\ q \in Seq(Segment) /\ \A l \in 1..k : q[l] = p[l]
  BY <1>1
<1>3. q \in FolderPath
  <2>1. CASE p \in Seq(Label)
    <3>1. q \in Seq(Label)
      BY <2>1
    <3> QED BY <3>1, <1>2 DEF FolderPath
  <2>2. CASE p # << >> /\ p[1] = Slash /\ Tail(p) \in Seq(Name)
    <3>1. CASE k = 0
      <4>1. q = << >>
        BY <3>1, <1>2
      <4> QED BY <4>1, <1>2 DEF FolderPath
    <3>2. CASE k # 0
      <4>1. q # << >> /\ q[1] = Slash
        BY <3>2, <1>1, <1>2, <2>2
      <4>2. Len(Tail(q)) = k - 1 /\ \A l \in 1..(k - 1) : Tail(q)[l] = p[l + 1]
        BY <4>1, <1>2, <1>1, HeadTailProperties
      <4>3. \A l \in 1..(Len(p) - 1) : Tail(p)[l] = p[l + 1]
        BY <1>1, <2>2, HeadTailProperties
      <4>4. Len(Tail(p)) = Len(p) - 1
        BY <1>1, <2>2, HeadTailProperties
      <4>5. \A l \in 1..(k - 1) : Tail(q)[l] \in Name
        BY <4>2, <4>3, <4>4, <2>2, ElementOfSeq
      <4>6. Tail(q) \in Seq(Segment)
        BY <4>1, <1>2, HeadTailProperties
      <4>7. Tail(q) \in Seq(Name)
        BY <4>5, <4>6, <4>2, ItemsIn
      <4> QED BY <4>1, <4>7, <1>2 DEF FolderPath
    <3> QED BY <3>1, <3>2
  <2> QED BY <2>1, <2>2 DEF FolderPath
<1> QED BY <1>2, <1>3

\* What a longer prefix of a virtual folder adds below the root.
Extends(p, k) ==
  /\ p[k] \in Label /\ Last(SubSeq(p, 1, k)) = p[k]
  /\ Below(SubSeq(p, 1, k)) = Append(Below(SubSeq(p, 1, k - 1)), p[k])

LEMMA BelowStep ==
  ASSUME NEW p \in FolderPath, NEW k \in 1..Len(p)
  PROVE  IF SubSeq(p, 1, k) = <<Slash>>
         THEN Below(SubSeq(p, 1, k)) = << >> /\ SubSeq(p, 1, k - 1) = << >>
         ELSE Extends(p, k)
<1> DEFINE q == SubSeq(p, 1, k)
           r == SubSeq(p, 1, k - 1)
<1>1. p \in Seq(Segment) /\ Len(p) \in Nat /\ k \in Nat /\ k - 1 \in 0..Len(p) /\ k \in 0..Len(p)
  BY DEF FolderPath
<1>2. /\ q \in FolderPath /\ Len(q) = k /\ \A l \in 1..k : q[l] = p[l]
      /\ r \in FolderPath /\ Len(r) = k - 1 /\ \A l \in 1..(k - 1) : r[l] = p[l]
  BY <1>1, PrefixPath
<1>3. q \in Seq(Segment) /\ r \in Seq(Segment)
  BY <1>2 DEF FolderPath
<1>4. q = Append(r, p[k]) /\ p[k] \in Segment
  BY <1>1, <1>2, <1>3
<1>5. CASE q = <<Slash>>
  <2>1. Below(q) = << >>
    BY <1>5, BelowRoot
  <2>2. r = << >>
    <3>1. Len(q) = 1
      BY <1>5
    <3>2. Len(r) = 0
      BY <3>1, <1>2, <1>1
    <3> QED BY <3>2, <1>3
  <2> QED BY <1>5, <2>1, <2>2
<1>6. CASE q # <<Slash>>
  <2>1. Last(q) = p[k]
    BY <1>1, <1>2 DEF Last
  <2>2. CASE p[1] = Slash
    <3>1. k > 1
      <4>1. k = 1 => q = <<Slash>>
        <5>1. k = 1 => Len(q) = 1 /\ q[1] = Slash
          BY <1>2, <2>2
        <5> HIDE DEF q
        <5> QED BY <5>1, <1>3, OneSegment
      <4> QED BY <4>1, <1>6, <1>1
    <3>2. r # << >> /\ q # << >> /\ r[1] = Slash /\ q[1] = Slash
      <4>1. Len(r) > 0 /\ Len(q) > 0 /\ 1 \in 1..(k - 1) /\ 1 \in 1..k
        BY <3>1, <1>2, <1>1
      <4> QED BY <4>1, <1>2, <2>2
    <3>3. Below(q) = Tail(q) /\ Below(r) = Tail(r)
      BY <3>2 DEF Below
    <3>4. Tail(q) = Append(Tail(r), p[k])
      BY <1>3, <1>4, <3>2, HeadTailAppend
    <3>5. p[k] \in Label
      <4>1. p \notin Seq(Label)
        BY <1>1, <2>2, Specials
      <4>2. Tail(p) \in Seq(Name)
        BY <4>1 DEF FolderPath
      <4>3. p # << >> /\ Len(Tail(p)) = Len(p) - 1 /\ k - 1 \in 1..Len(Tail(p)) /\ Tail(p)[k - 1] = p[k - 1 + 1]
        BY <1>1, <3>1, HeadTailProperties
      <4>4. Tail(p)[k - 1] \in Name
        BY <4>2, <4>3, ElementOfSeq
      <4> QED BY <4>3, <4>4, <1>1 DEF Label
    <3> QED BY <1>6, <2>1, <3>3, <3>4, <3>5 DEF Extends
  <2>3. CASE p[1] # Slash
    <3>1. Below(q) = q /\ Below(r) = r
      BY <2>3, <1>2, <1>1 DEF Below
    <3>2. p \in Seq(Label)
      BY <2>3 DEF FolderPath
    <3> QED BY <1>6, <2>1, <1>4, <3>1, <3>2, <1>1 DEF Extends
  <2> QED BY <2>2, <2>3
<1> QED BY <1>5, <1>6

\* What is below the root tells virtual folders apart where none is absolute, or
\* the last folder is "..".
LEMMA BelowEqual ==
  ASSUME NEW p \in FolderPath, NEW q \in FolderPath, Below(p) = Below(q), Below(p) # << >>,
         (p \in Seq(Name) /\ q \in Seq(Name)) \/ Last(Below(p)) = DotDot
  PROVE  p = q
<1>1. ASSUME NEW r \in FolderPath, Below(r) # << >>, r \in Seq(Name) \/ Last(Below(r)) = DotDot
      PROVE  Below(r) = r
  <2>1. CASE r \in Seq(Label)
    <3>1. r # << >> => r[1] \in Label
      BY <2>1
    <3> QED BY <3>1, Specials DEF Below
  <2>2. CASE r # << >> /\ r[1] = Slash /\ Tail(r) \in Seq(Name)
    <3>1. r \notin Seq(Name)
      BY <2>2, Specials
    <3>2. Below(r) = Tail(r)
      BY <2>2 DEF Below
    <3>3. Last(Below(r)) \in Name
      BY <2>2, <3>2, <1>1 DEF Last
    <3> QED BY <3>1, <3>3, <1>1, Specials
  <2> QED BY <2>1, <2>2 DEF FolderPath
<1>2. Below(p) = p
  BY <1>1
<1>3. Below(q) = q
  BY <1>1
<1> QED BY <1>2, <1>3

\* Prefixes of a virtual folder are prefixes below the root.
LEMMA BelowPrefix ==
  ASSUME NEW p \in FolderPath, NEW k \in 0..Len(p)
  PROVE  IsPrefix(Below(SubSeq(p, 1, k)), Below(p))
<1> DEFINE q == SubSeq(p, 1, k)
<1>1. p \in Seq(Segment) /\ Len(p) \in Nat
  BY DEF FolderPath
<1>2. q \in Seq(Segment) /\ Len(q) = k /\ \A l \in 1..k : q[l] = p[l]
  BY <1>1
<1>3. CASE p # << >> /\ p[1] = Slash
  <2>1. Below(p) = Tail(p)
    BY <1>3 DEF Below
  <2>2. CASE k = 0
    <3>1. q = << >>
      BY <1>2, <2>2
    <3>2. Below(q) = << >> /\ Tail(p) \in Seq(Segment)
      BY <3>1, <1>1, <1>3 DEF Below
    <3> QED BY <2>1, <3>2 DEF IsPrefix
  <2>3. CASE k # 0
    <3>1. Below(q) = Tail(q)
      BY <1>2, <1>3, <2>3 DEF Below
    <3>2. /\ Tail(q) \in Seq(Segment) /\ Len(Tail(q)) = k - 1
          /\ \A l \in 1..(k - 1) : Tail(q)[l] = q[l + 1]
      BY <1>2, <2>3, HeadTailProperties
    <3>3. /\ Tail(p) \in Seq(Segment) /\ Len(Tail(p)) = Len(p) - 1
          /\ \A l \in 1..(Len(p) - 1) : Tail(p)[l] = p[l + 1]
      BY <1>1, <1>3, HeadTailProperties
    <3>4. \A l \in 1..(k - 1) : Tail(q)[l] = Tail(p)[l]
      BY <3>2, <3>3, <1>2
    <3>5. SubSeq(Tail(q), 1, k - 1) = SubSeq(Tail(p), 1, k - 1)
      BY <3>4, <3>2, <3>3, <1>1, SameParts
    <3>6. Len(Tail(q)) <= Len(Tail(p))
      BY <3>2, <3>3, <1>1
    <3>7. IsPrefix(Tail(q), Tail(p))
      BY <3>2, <3>5, <3>6 DEF IsPrefix
    <3> QED BY <3>7, <3>1, <2>1
  <2> QED BY <2>2, <2>3
<1>4. CASE ~ (p # << >> /\ p[1] = Slash)
  <2>1. Below(p) = p /\ Below(q) = q
    BY <1>4, <1>2, <1>1 DEF Below
  <2>2. SubSeq(q, 1, k) = SubSeq(p, 1, k)
    BY <1>1, <1>2, SameParts
  <2> QED BY <2>1, <2>2, <1>2, <1>1 DEF IsPrefix
<1> QED BY <1>3, <1>4

-----------------------------------------------------------------------------
(* Virtual paths                                                           *)

\* The common beginning of two paths is one of both.
LEMMA CommonPart ==
  ASSUME NEW a \in AbsPath, NEW b \in AbsPath
  PROVE  /\ Len(LongestCommonPrefix({a, b})) \in 0..Len(a)
         /\ IsPrefix(LongestCommonPrefix({a, b}), a)
         /\ IsPrefix(LongestCommonPrefix({a, b}), b)
<1> DEFINE C == CommonPrefixes({a, b})
           T == {Len(c) : c \in C}
<1>1. \A c \in C : IsPrefix(c, a) /\ IsPrefix(c, b)
  BY DEF CommonPrefixes
<1>2. \A c \in C : Len(c) \in 0..Len(a)
  <2>1. ASSUME NEW c \in C PROVE Len(c) \in 0..Len(a)
    <3>1. PICK s \in {a, b} : c \in Prefixes(s)
      BY DEF CommonPrefixes
    <3>2. PICK l \in 0..Len(s) : c = SubSeq(s, 1, l)
      BY <3>1 DEF Prefixes
    <3>3. s \in Seq(Name)
      BY DEF AbsPath
    <3>4. Len(c) \in Nat
      BY <3>2, <3>3
    <3>5. Len(c) <= Len(a)
      BY <1>1 DEF IsPrefix
    <3> QED BY <3>4, <3>5
  <2> QED BY <2>1
<1>3. C # {}
  <2>1. SubSeq(a, 1, 0) = << >> /\ SubSeq(b, 1, 0) = << >> /\ Len(a) \in Nat /\ Len(b) \in Nat
    BY DEF AbsPath
  <2>2. << >> \in Prefixes(a)
    BY <2>1 DEF Prefixes
  <2>3. Len(<< >>) = 0 /\ SubSeq(<< >>, 1, 0) = << >>
    OBVIOUS
  <2>4. IsPrefix(<< >>, a) /\ IsPrefix(<< >>, b)
    BY <2>1, <2>3 DEF IsPrefix
  <2>5. << >> \in C
    BY <2>2, <2>4 DEF CommonPrefixes
  <2> QED BY <2>5
<1>4. \E c \in C : \A d \in C : Len(d) <= Len(c)
  <2>1. Len(a) \in Nat
    BY DEF AbsPath
  <2>2. T \in SUBSET (0..Len(a)) /\ T # {}
    BY <1>2, <1>3
  <2>3. PICK x \in T : \A y \in T : y <= x
    <3> HIDE DEF T
    <3> QED BY <2>1, <2>2, GreatestUpTo, Zenon
  <2> QED BY <2>3
<1>5. LongestCommonPrefix({a, b}) \in C
  BY <1>4 DEF LongestCommonPrefix
<1> QED BY <1>1, <1>2, <1>5

\* v is a virtual path of file f: its name in a virtual folder.
ShowsFile(v, f) ==
  /\ v \in Seq(Segment) /\ v # << >> /\ Last(v) = Last(f) /\ Front(v) \in FolderPath
  /\ (Front(v) # << >> /\ Front(v)[1] \in Name) => Front(v) \in Seq(Name)

LEMMA ShowsNames ==
  ASSUME NEW v \in Seq(Name), v # << >>, NEW f, Last(v) = Last(f)
  PROVE  ShowsFile(v, f) /\ Front(v) \in Seq(Name)
<1>1. Front(v) \in Seq(Name)
  BY DEF Front
<1>2. v \in Seq(Segment) /\ Front(v) \in Seq(Segment) /\ Front(v) \in Seq(Label)
  BY <1>1, SeqMonotonic DEF Segment, Label
<1> QED BY <1>1, <1>2 DEF ShowsFile, FolderPath

\* What is known of the files of a project.
ProjectFile(f) ==
  /\ f \in Seq(Name) /\ f # << >> /\ prj.location \in Seq(Name) /\ ~ IsPrefix(f, prj.location)

LEMMA ProjectFiles ==
  ASSUME prj \in Project, NEW f \in prj.files
  PROVE  ProjectFile(f) /\ Last(f) \in Name /\ f \in AbsPath /\ f # NoFile
<1>1. ProjectFile(f) /\ f \in AbsPath
  BY ProjectAssumption DEF AbsPath, ProjectFile
<1>2. Last(f) \in Name
  BY <1>1 DEF ProjectFile, Last
<1> QED BY <1>1, <1>2, FileAssumption

\* A file's path from the project's location.
LEMMA RelPathShows ==
  ASSUME prj \in Project, NEW f \in prj.files
  PROVE  ShowsFile(RelPath(f), f)
<1> DEFINE loc == prj.location
           common == Len(LongestCommonPrefix({loc, f}))
           L == Len(loc)
           N == Len(f)
           up == [d \in 1..L - common |-> DotDot]
           v == RelPath(f)
           w == Front(v)
<1>1. f \in Seq(Name) /\ f # << >> /\ loc \in Seq(Name) /\ ~ IsPrefix(f, loc) /\ L \in Nat /\ N \in Nat \ {0}
  BY ProjectFiles DEF ProjectFile
<1>2. common \in 0..L /\ common < N
  <2>1. /\ common \in 0..L
        /\ IsPrefix(LongestCommonPrefix({loc, f}), loc)
        /\ IsPrefix(LongestCommonPrefix({loc, f}), f)
    BY <1>1, CommonPart DEF AbsPath
  <2>2. common <= N /\ SubSeq(loc, 1, common) = SubSeq(f, 1, common)
    BY <2>1 DEF IsPrefix
  <2>3. common # N
    BY <1>1, <2>1, <2>2 DEF IsPrefix
  <2> QED BY <1>1, <2>1, <2>2, <2>3
<1>3. CASE common = 0
  <2>1. v = <<Slash>> \o f
    BY <1>3 DEF RelPath, Relative
  <2> HIDE DEF v, common
  <2>2. <<Slash>> \in Seq(Segment) /\ f \in Seq(Segment) /\ Len(<<Slash>>) = 1 /\ <<Slash>>[1] = Slash
    <3>1. f \in Seq(Segment)
      BY <1>1, SeqMonotonic DEF Segment
    <3> QED BY <3>1 DEF Segment
  <2>3. /\ v \in Seq(Segment) /\ Len(v) = N + 1 /\ v[1] = Slash
        /\ \A d \in 2..(N + 1) : v[d] = f[d - 1]
    <3>1. Len(v) = 1 + N /\ v \in Seq(Segment)
      BY <2>1, <2>2, ConcatProperties
    <3>2. \A d \in 1..(1 + N) : v[d] = IF d <= 1 THEN <<Slash>>[d] ELSE f[d - 1]
      BY <2>1, <2>2, ConcatProperties
    <3>3. v[1] = Slash
      BY <3>2, <1>1, <2>2
    <3>4. \A d \in 2..(N + 1) : v[d] = f[d - 1]
      BY <3>2, <1>1
    <3> QED BY <3>1, <3>3, <3>4, <1>1
  <2>4. v # << >> /\ Last(v) = Last(f)
    BY <2>3, <1>1 DEF Last
  <2>5. w \in Seq(Segment) /\ Len(w) = N /\ \A d \in 1..N : w[d] = v[d]
    BY <2>3, <1>1 DEF Front
  <2>6. w # << >> /\ w[1] = Slash
    BY <2>3, <2>5, <1>1
  <2>7. Tail(w) \in Seq(Name)
    <3>1. Tail(w) \in Seq(Segment) /\ Len(Tail(w)) = N - 1 /\ \A d \in 1..(N - 1) : Tail(w)[d] = w[d + 1]
      BY <2>5, <2>6, HeadTailProperties
    <3>2. \A d \in 1..(N - 1) : Tail(w)[d] = f[d]
      BY <3>1, <2>5, <2>3, <1>1
    <3>3. \A d \in 1..(N - 1) : f[d] \in Name
      BY <1>1
    <3> QED BY <3>1, <3>2, <3>3, ItemsIn
  <2>8. w \in FolderPath
    BY <2>5, <2>6, <2>7 DEF FolderPath
  <2> QED BY <2>3, <2>4, <2>6, <2>8, Specials DEF ShowsFile, v
<1>4. CASE common # 0
  <2> DEFINE rest == SubSeq(f, common + 1, N)
             U == L - common
  <2>1. v = up \o rest
    BY <1>4 DEF RelPath, Relative
  <2> HIDE DEF v, common
  <2>2. /\ rest \in Seq(Name) /\ Len(rest) = N - common
        /\ \A d \in 1..(N - common) : rest[d] = f[d + common]
    BY <1>1, <1>2
  <2>3. U \in Nat /\ up \in Seq({DotDot}) /\ Len(up) = U /\ \A d \in 1..U : up[d] = DotDot
    BY <1>1, <1>2
  <2> HIDE DEF rest, up
  <2>4. up \in Seq(Label) /\ rest \in Seq(Label)
    BY <2>2, <2>3, SeqMonotonic DEF Label
  <2> HIDE DEF U
  <2>4a. /\ up \o rest \in Seq(Label) /\ Len(up \o rest) = Len(up) + Len(rest)
         /\ \A d \in 1..(Len(up) + Len(rest)) :
              (up \o rest)[d] = IF d <= Len(up) THEN up[d] ELSE rest[d - Len(up)]
    BY <2>4, ConcatProperties
  <2>5. v \in Seq(Label) /\ Len(v) = U + (N - common)
    BY <2>1, <2>2, <2>3, <2>4a
  <2>6. \A d \in 1..(U + (N - common)) : v[d] = IF d <= U THEN up[d] ELSE rest[d - U]
    BY <2>1, <2>2, <2>3, <2>4a
  <2>7. v # << >> /\ Last(v) = Last(f)
    <3>1. Len(v) > U /\ Len(v) \in 1..(U + (N - common))
      BY <2>5, <2>3, <1>1, <1>2
    <3>2. v[Len(v)] = rest[N - common]
      <4>1. ~ (Len(v) <= U) /\ Len(v) - U = N - common
        BY <3>1, <2>5, <2>3, <1>1, <1>2
      <4> QED BY <4>1, <3>1, <2>6
    <3>3. rest[N - common] = f[N]
      BY <2>2, <1>1, <1>2
    <3>4. v # << >>
      BY <3>1, <2>3
    <3> QED BY <3>2, <3>3, <3>4 DEF Last
  <2>8. w \in Seq(Label) /\ Len(w) = Len(v) - 1 /\ \A d \in 1..(Len(v) - 1) : w[d] = v[d]
    BY <2>5, <2>7 DEF Front
  <2>9. ASSUME w # << >>, w[1] \in Name PROVE w \in Seq(Name)
    <3>1. Len(w) > 0 /\ 1 \in 1..Len(w)
      BY <2>9, <2>8
    <3>2. w[1] = v[1] /\ 1 \in 1..(U + (N - common))
      BY <3>1, <2>8, <2>5
    <3>3. U = 0
      BY <3>2, <2>6, <2>3, <2>9, Specials
    <3>4. ASSUME NEW d \in 1..Len(w) PROVE w[d] \in Name
      <4>1. w[d] = v[d] /\ v[d] = rest[d - 0] /\ d \in 1..Len(rest)
        BY <2>8, <2>6, <3>3, <2>5, <2>2
      <4> QED BY <4>1, <2>2
    <3> QED BY <3>4, <2>8, ItemsIn
  <2>10. v \in Seq(Segment) /\ w \in Seq(Segment)
    <3>1. Label \subseteq Segment
      BY DEF Label, Segment
    <3> QED BY <3>1, <2>5, <2>8, SeqMonotonic
  <2>11. w \in FolderPath
    BY <2>8, <2>10 DEF FolderPath
  <2> QED BY <2>7, <2>9, <2>10, <2>11 DEF ShowsFile, v
<1> QED BY <1>3, <1>4

\* What an entry of vpaths leaves of a path ends in the file's name.
LEMMA LeafName ==
  ASSUME NEW rule, NEW f \in Seq(Name), f # << >>, rule.from \in Seq(Name)
  PROVE  Leaf(rule, f) \in Seq(Name) /\ Leaf(rule, f) # << >> /\ Last(Leaf(rule, f)) = Last(f)
<1> DEFINE N == Len(f)
           F == Len(rule.from)
<1>1. N \in Nat \ {0} /\ F \in Nat
  OBVIOUS
<1>2. CASE rule.stars /\ F < N
  <2>1. Leaf(rule, f) = SubSeq(f, F + 1, N)
    BY <1>2 DEF Leaf
  <2> DEFINE rest == SubSeq(f, F + 1, N)
  <2> HIDE DEF F
  <2>2. /\ rest \in Seq(Name) /\ Len(rest) = N - F
        /\ \A d \in 1..(N - F) : rest[d] = f[d + F]
    BY <1>1, <1>2
  <2>3. rest[N - F] = f[N] /\ N - F > 0
    BY <2>2, <1>1, <1>2
  <2> HIDE DEF rest
  <2>4. Last(rest) = Last(f) /\ rest # << >>
    BY <2>2, <2>3, <1>1 DEF Last
  <2>5. Leaf(rule, f) = rest
    BY <2>1 DEF rest
  <2> QED BY <2>2, <2>4, <2>5
<1>3. CASE ~ (rule.stars /\ F < N)
  <2>1. Leaf(rule, f) = <<Last(f)>>
    BY <1>3 DEF Leaf
  <2>2. Last(f) \in Name
    BY <1>1 DEF Last
  <2>3. Len(<<Last(f)>>) = 1 /\ <<Last(f)>>[1] = Last(f)
    OBVIOUS
  <2>4. Last(<<Last(f)>>) = Last(f)
    BY <2>3 DEF Last
  <2> QED BY <2>1, <2>2, <2>4
<1> QED BY <1>2, <1>3

\* A virtual path is made of names unless it is the path from the location.
LEMMA VPathShows ==
  ASSUME prj \in Project, NEW f \in prj.files
  PROVE  /\ ShowsFile(VPath(f), f)
         /\ VPath(f) # RelPath(f) => Front(VPath(f)) \in Seq(Name)
<1> DEFINE matching == {r \in 1..Len(prj.vpaths) : f \in prj.vpaths[r].matches}
           first == CHOOSE r \in matching : \A s \in matching : r <= s
           rule == prj.vpaths[first]
<1>1. CASE matching = {}
  <2>1. VPath(f) = RelPath(f)
    BY <1>1 DEF VPath
  <2> QED BY <2>1, RelPathShows
<1>2. CASE matching # {}
  <2>1. first \in matching
    <3>1. matching \in SUBSET Nat
      OBVIOUS
    <3>2. \E r \in matching : \A s \in matching : r <= s
      <4> HIDE DEF matching
      <4> QED BY <3>1, <1>2, LeastNat, Zenon
    <3> QED BY <3>2
  <2>2. VPath(f) = rule.to \o Leaf(rule, f)
    BY <1>2 DEF VPath
  <2>3. rule.to \in Seq(Name) /\ rule.from \in Seq(Name)
    BY <2>1, ProjectAssumption DEF AbsPath
  <2>4. f \in Seq(Name) /\ f # << >>
    BY ProjectFiles DEF ProjectFile
  <2> HIDE DEF rule, first, matching
  <2> DEFINE leaf == Leaf(rule, f)
  <2>5. leaf \in Seq(Name) /\ leaf # << >> /\ Last(leaf) = Last(f)
    BY <2>3, <2>4, LeafName
  <2> HIDE DEF leaf
  <2>6. /\ rule.to \o leaf \in Seq(Name)
        /\ Len(rule.to \o leaf) = Len(rule.to) + Len(leaf)
        /\ \A d \in 1..(Len(rule.to) + Len(leaf)) :
             (rule.to \o leaf)[d] = IF d <= Len(rule.to) THEN rule.to[d] ELSE leaf[d - Len(rule.to)]
    BY <2>3, <2>5, ConcatProperties
  <2>7. Len(rule.to) \in Nat /\ Len(leaf) \in Nat \ {0}
    BY <2>3, <2>5
  <2>8. Last(rule.to \o leaf) = Last(leaf) /\ rule.to \o leaf # << >>
    BY <2>6, <2>7 DEF Last
  <2>9. VPath(f) \in Seq(Name) /\ VPath(f) # << >> /\ Last(VPath(f)) = Last(f)
    BY <2>2, <2>5, <2>6, <2>8 DEF leaf
  <2> QED BY <2>9, ShowsNames
<1> QED BY <1>1, <1>2

\* W gives files with a name the virtual folders they are shown in.
WellPlaced(W) ==
  \A f \in DOMAIN W : f \in AbsPath /\ f # NoFile /\ Last(f) \in Name /\ W[f] \in FolderPath

LEMMA WhereFacts ==
  ASSUME prj \in Project
  PROVE  /\ WellPlaced(Where) /\ DOMAIN Where = prj.files
         /\ \A f \in prj.files : Where[f] = FolderOf(f)
         /\ ~ Outside => Plain(Where)
<1>1. DOMAIN Where = prj.files /\ \A f \in prj.files : Where[f] = FolderOf(f)
  BY DEF Where
<1>2. ASSUME NEW f \in prj.files
      PROVE  /\ FolderOf(f) \in FolderPath
             /\ (FolderOf(f) # << >> /\ FolderOf(f)[1] \in Name) => FolderOf(f) \in Seq(Name)
  <2> DEFINE g == IF f \in DOMAIN prj.source THEN prj.source[f] ELSE f
  <2>1. g \in prj.files
    BY ProjectAssumption
  <2>2. FolderOf(f) = Front(VPath(g))
    BY DEF FolderOf
  <2> HIDE DEF g
  <2>3. ShowsFile(VPath(g), g)
    BY <2>1, VPathShows
  <2> QED BY <2>2, <2>3 DEF ShowsFile
<1>3. WellPlaced(Where)
  BY <1>1, <1>2, ProjectFiles DEF WellPlaced
<1>4. ASSUME ~ Outside PROVE Plain(Where)
  <2>1. ASSUME NEW f \in prj.files PROVE FolderOf(f) \in Seq(Name)
    <3>1. FolderOf(f) \in Seq(Segment)
      BY <1>2 DEF FolderPath
    <3>2. CASE FolderOf(f) = << >>
      BY <3>2
    <3>3. CASE FolderOf(f) # << >>
      <4>1. FolderOf(f)[1] \in Segment
        BY <3>1, <3>3
      <4>2. FolderOf(f)[1] \in Name
        BY <4>1, <3>3, <1>4 DEF Outside, Segment
      <4> QED BY <4>2, <3>3, <1>2
    <3> QED BY <3>2, <3>3
  <2> QED BY <2>1, <1>1 DEF Plain
<1> QED BY <1>1, <1>3, <1>4

-----------------------------------------------------------------------------
(* Nodes and the names above them                                          *)

\* The names from the root follow those of the parent.
Chains(tr) ==
  /\ \A n \in 1..Len(tr) : Chain(tr, n) \in Seq(TreeName)
  /\ Chain(tr, Root) = << >>
  /\ \A n \in 2..Len(tr) : Chain(tr, n) = Append(Chain(tr, tr[n].parent), tr[n].name)

LEMMA NodeTypes ==
  ASSUME NEW tr, Rising(tr), NEW n \in 1..Len(tr)
  PROVE  /\ tr[n] \in TreeNode /\ tr[n].name \in TreeName /\ tr[n].parent \in Nat
         /\ Len(tr) \in Nat /\ Root \in 1..Len(tr)
<1>1. tr[n] \in TreeNode /\ Len(tr) \in Nat /\ Len(tr) > 0
  BY DEF Rising
<1>2. tr[n].name \in TreeName /\ tr[n].parent \in Nat
  BY <1>1 DEF TreeNode, TreeName
<1> QED BY <1>1, <1>2 DEF Root

LEMMA ChainStep == ASSUME NEW tr, Rising(tr) PROVE Chains(tr)
<1> DEFINE N == Len(tr)
           V == Seq(TreeName)
           par == [n \in 1..N |-> tr[n].parent]
           g == [x \in (1..N) \X V |-> Append(x[2], tr[x[1]].name)]
<1>1. N \in Nat /\ 1 \in 1..N /\ \A n \in 1..N : tr[n].name \in TreeName
  BY NodeTypes DEF Rising
<1>2. \A n \in 2..N : par[n] \in 1..(n - 1)
  BY DEF Rising
<1>2a. \A n \in 1..N : par[n] = tr[n].parent
  OBVIOUS
<1>2b. \A n \in 1..N : \A v \in V : g[<<n, v>>] = Append(v, tr[n].name)
  OBVIOUS
<1>3. g \in [(1..N) \X V -> V] /\ << >> \in V
  BY <1>1
<1>4. PICK f : Descends(f, N, par, V, << >>, g)
  <2> HIDE DEF N, V, par, g
  <2> QED BY <1>1, <1>2, <1>3, DescentExists
<1>5. f \in [1..N -> V] /\ \A n \in 1..N : f[n] = IF n = 1 THEN << >> ELSE g[<<n, f[par[n]]>>]
  BY <1>4 DEF Descends
<1> HIDE DEF par, g
<1>6. ASSUME NEW n \in 2..N PROVE f[n] = Append(f[tr[n].parent], tr[n].name)
  <2>1. par[n] \in 1..N /\ f[par[n]] \in V /\ par[n] = tr[n].parent
    <3>1. par[n] \in 1..N /\ par[n] = tr[n].parent /\ n \in 1..N
      BY <1>1, <1>2, <1>2a
    <3> HIDE DEF N, V
    <3> QED BY <3>1, <1>5
  <2>2. f[n] = g[<<n, f[par[n]]>>]
    <3>1. n \in 1..N /\ n # 1
      BY <1>1
    <3> HIDE DEF N, V
    <3> QED BY <3>1, <1>5
  <2>3. g[<<n, f[par[n]]>>] = Append(f[par[n]], tr[n].name)
    <3>1. n \in 1..N
      BY <1>1
    <3> HIDE DEF N, V
    <3> QED BY <2>1, <3>1, <1>2b
  <2> QED BY <2>1, <2>2, <2>3
<1> DEFINE Of(To) == [n \in 1..Len(tr) |-> IF n = Root THEN << >> ELSE Append(To[tr[n].parent], tr[n].name)]
           Names == CHOOSE To : To = Of(To)
<1>7. f = Of(f)
  <2>1. \A n \in 1..N : f[n] = IF n = Root THEN << >> ELSE Append(f[tr[n].parent], tr[n].name)
    <3>1. \A n \in 1..N : n # 1 => n \in 2..N
      BY <1>1
    <3> HIDE DEF N, V
    <3> QED BY <3>1, <1>5, <1>6 DEF Root
  <2> QED BY <2>1, <1>5
<1>8. Names = Of(Names)
  <2> HIDE DEF Of
  <2> QED BY <1>7
<1>9. \A n \in 1..N : Chain(tr, n) = Names[n]
  BY DEF Chain
<1>10. Names[1] = << >> /\ \A n \in 2..N : Names[n] = Append(Names[tr[n].parent], tr[n].name)
  <2>1. \A n \in 1..N :
          Names[n] = IF n = Root THEN << >> ELSE Append(Names[tr[n].parent], tr[n].name)
    <3> HIDE DEF Names
    <3> QED BY <1>8
  <2>2. \A n \in 2..N : n # 1 /\ n \in 1..N
    BY <1>1
  <2> HIDE DEF Names, N
  <2> QED BY <2>1, <2>2, <1>1 DEF Root
<1> HIDE DEF Names, Of, N, V
<1>10a. << >> \in V /\ \A v \in V : \A n \in 1..N : Append(v, tr[n].name) \in V
  BY <1>1 DEF V
<1>11. 1..N \subseteq {n \in 1..N : Names[n] \in V}
  <2> DEFINE S == {n \in 1..N : Names[n] \in V}
  <2>1. ASSUME NEW n \in 1..N, \A m \in 1..(n - 1) : m \in S PROVE n \in S
    <3>1. CASE n = 1
      BY <3>1, <1>10, <1>10a
    <3>2. CASE n # 1
      <4>1. tr[n].parent \in S
        <5>1. par[n] \in 1..(n - 1) /\ par[n] = tr[n].parent
          BY <3>2, <1>1, <1>2, <1>2a
        <5> HIDE DEF S
        <5> QED BY <5>1, <2>1
      <4>2. n \in 2..N
        BY <3>2, <1>1
      <4> QED BY <4>1, <4>2, <1>10, <1>10a
    <3> QED BY <3>1, <3>2
  <2>2. 1..N \subseteq S
    <3> HIDE DEF S
    <3> QED BY <1>1, <2>1, StrongInduction, Zenon
  <2> QED BY <2>2
<1>12. \A n \in 2..N : tr[n].parent \in 1..N
  BY <1>1 DEF Rising, N
<1>13. /\ \A n \in 1..N : Names[n] \in V /\ Chain(tr, n) = Names[n]
       /\ 1 \in 1..N /\ \A n \in 2..N : n \in 1..N
  BY <1>1, <1>9, <1>11
<1>14. /\ \A n \in 1..N : Chain(tr, n) \in V
       /\ Chain(tr, 1) = << >>
       /\ \A n \in 2..N : Chain(tr, n) = Append(Chain(tr, tr[n].parent), tr[n].name)
  BY <1>10, <1>12, <1>13
<1> QED BY <1>14 DEF Chains, Root, N, V

\* Nodes with the same names and parents have the same names from the root.
SameNames(s, t) ==
  /\ Len(s) <= Len(t)
  /\ \A n \in 1..Len(s) : s[n].name = t[n].name /\ s[n].parent = t[n].parent

LEMMA SameChain ==
  ASSUME NEW s, NEW t, Rising(s), Rising(t), SameNames(s, t), NEW n \in 1..Len(s)
  PROVE  Chain(s, n) = Chain(t, n)
<1> DEFINE N == Len(s)
           S == {m \in 1..N : Chain(s, m) = Chain(t, m)}
<1>1. N \in Nat /\ Len(t) \in Nat
  BY NodeTypes DEF Rising
<1>2. ASSUME NEW m \in 1..N, \A l \in 1..(m - 1) : l \in S PROVE m \in S
  <2>1. Chains(s) /\ Chains(t)
    BY ChainStep
  <2>2. CASE m = 1
    BY <2>1, <2>2 DEF Chains, Root
  <2>3. CASE m # 1
    <3>1. s[m].parent \in S /\ m \in 2..Len(t) /\ m \in 2..N
      BY <1>2, <1>1, <2>3 DEF Rising, SameNames
    <3>2. Chain(s, m) = Append(Chain(s, s[m].parent), s[m].name)
      BY <3>1, <2>1 DEF Chains
    <3>3. Chain(t, m) = Append(Chain(t, t[m].parent), t[m].name)
      BY <3>1, <2>1 DEF Chains
    <3>4. s[m].name = t[m].name /\ s[m].parent = t[m].parent
      BY DEF SameNames
    <3> QED BY <3>1, <3>2, <3>3, <3>4
  <2> QED BY <2>2, <2>3
<1>3. 1..N \subseteq S
  <2> HIDE DEF S
  <2> QED BY <1>1, <1>2, StrongInduction
<1> QED BY <1>3

\* What is reached from the root is what was not taken away.
LEMMA InTreeKept ==
  ASSUME NEW tr, Tree(tr), NEW n \in 1..Len(tr)
  PROVE  InTree(tr, n) <=> n \in Kept(tr)
<1> DEFINE N == Len(tr)
           par == [m \in 1..N |-> tr[m].parent]
           g == [x \in (1..N) \X BOOLEAN |-> IF x[1] \in tr[par[x[1]]].children THEN x[2] ELSE FALSE]
<1>1. N \in Nat /\ 1 \in 1..N
  BY NodeTypes DEF Tree, Rising
<1>2. \A m \in 2..N : par[m] \in 1..(m - 1)
  BY DEF Tree, Rising
<1>2a. \A m \in 1..N : par[m] = tr[m].parent
  OBVIOUS
<1>2b. \A m \in 1..N : \A v \in BOOLEAN :
         g[<<m, v>>] = IF m \in tr[par[m]].children THEN v ELSE FALSE
  OBVIOUS
<1>3. g \in [(1..N) \X BOOLEAN -> BOOLEAN] /\ TRUE \in BOOLEAN
  OBVIOUS
<1>4. PICK f : Descends(f, N, par, BOOLEAN, TRUE, g)
  <2> HIDE DEF N, par, g
  <2> QED BY <1>1, <1>2, <1>3, DescentExists
<1>5. f \in [1..N -> BOOLEAN] /\ \A m \in 1..N : f[m] = IF m = 1 THEN TRUE ELSE g[<<m, f[par[m]]>>]
  BY <1>4 DEF Descends
<1> HIDE DEF par, g
<1> DEFINE Of(In) == [m \in 1..Len(tr) |-> m = Root \/ (m \in tr[tr[m].parent].children /\ In[tr[m].parent])]
           Reach == CHOOSE In : In = Of(In)
<1>6. ASSUME NEW m \in 1..N
      PROVE  f[m] = (m = Root \/ (m \in tr[tr[m].parent].children /\ f[tr[m].parent]))
  <2>1. CASE m = 1
    BY <2>1, <1>5 DEF Root
  <2>2. CASE m # 1
    <3>1. par[m] \in 1..N /\ f[par[m]] \in BOOLEAN /\ par[m] = tr[m].parent
      <4>1. par[m] \in 1..N /\ par[m] = tr[m].parent
        BY <1>1, <1>2, <1>2a, <2>2
      <4> HIDE DEF N
      <4> QED BY <4>1, <1>5
    <3>2. f[m] = g[<<m, f[par[m]]>>]
      BY <1>5, <2>2
    <3>3. g[<<m, f[par[m]]>>] = IF m \in tr[par[m]].children THEN f[par[m]] ELSE FALSE
      BY <3>1, <1>2b
    <3> QED BY <3>1, <3>2, <3>3, <2>2 DEF Root
  <2> QED BY <2>1, <2>2
<1>7. f = Of(f)
  BY <1>5, <1>6
<1>8. Reach = Of(Reach)
  <2> HIDE DEF Of
  <2> QED BY <1>7
<1>9. \A m \in 1..N : InTree(tr, m) <=> Reach[m]
  BY DEF InTree
<1>10. \A m \in 1..N : Reach[m] <=> (m = Root \/ (m \in tr[tr[m].parent].children /\ Reach[tr[m].parent]))
  <2> HIDE DEF Reach
  <2> QED BY <1>8
<1> HIDE DEF Reach, Of
<1>11. 1..N \subseteq {m \in 1..N : Reach[m] <=> m \in Kept(tr)}
  <2> DEFINE S == {m \in 1..N : Reach[m] <=> m \in Kept(tr)}
  <2>1. ASSUME NEW m \in 1..N, \A l \in 1..(m - 1) : l \in S PROVE m \in S
    <3>1. CASE m = 1
      BY <3>1, <1>10 DEF Kept, Root
    <3>2. CASE m # 1
      <4>1. tr[m].parent \in S
        <5>1. par[m] \in 1..(m - 1) /\ par[m] = tr[m].parent
          BY <3>2, <1>1, <1>2, <1>2a
        <5> HIDE DEF S
        <5> QED BY <5>1, <2>1
      <4>2. m \in Kept(tr) => m \in tr[tr[m].parent].children /\ tr[m].parent \in Kept(tr)
        BY <3>2 DEF Kept, Tree, Root
      <4> QED BY <4>1, <4>2, <3>2, <1>10 DEF Kept
    <3> QED BY <3>1, <3>2
  <2>2. 1..N \subseteq S
    <3> HIDE DEF S
    <3> QED BY <1>1, <2>1, StrongInduction, Zenon
  <2> QED BY <2>2
<1> QED BY <1>9, <1>11

-----------------------------------------------------------------------------
(* Nodes are added                                                         *)

Indexes == UNION {[names -> Nat] : names \in SUBSET TreeName}

\* Tree t is tree tr with one more node, below node p.
Inserted(tr, p, name, path, file, trim, t) ==
  /\ t \in Seq(TreeNode) /\ Len(t) = Len(tr) + 1
  /\ \A n \in 1..Len(tr) :
       /\ t[n].name = tr[n].name /\ t[n].path = tr[n].path /\ t[n].file = tr[n].file
       /\ t[n].trim = tr[n].trim /\ t[n].parent = tr[n].parent
       /\ n # p => t[n].children = tr[n].children /\ t[n].index = tr[n].index
  /\ t[p].children = tr[p].children \union {Len(tr) + 1}
  /\ DOMAIN t[p].index = DOMAIN tr[p].index \union {name}
  /\ \A x \in DOMAIN t[p].index : t[p].index[x] = IF x = name THEN Len(tr) + 1 ELSE tr[p].index[x]
  /\ t[Len(tr) + 1].name = name /\ t[Len(tr) + 1].path = path /\ t[Len(tr) + 1].file = file
  /\ t[Len(tr) + 1].trim = trim /\ t[Len(tr) + 1].parent = p
  /\ t[Len(tr) + 1].children = {} /\ t[Len(tr) + 1].index = << >>

LEMMA NewNodeType ==
  ASSUME NEW name \in TreeName, NEW path \in Seq(Segment) \union {NoFile},
         NEW file \in AbsPath \union {NoFile}, NEW trim \in BOOLEAN
  PROVE  NewNode(name, path, file, trim) \in TreeNode
<1>1. << >> \in Indexes
  <2>1. << >> \in [{} -> Nat]
    OBVIOUS
  <2> QED BY <2>1 DEF Indexes
<1>2. Root \in Nat
  BY DEF Root
<1>3. path \in Seq(TreeName) \union {NoFile}
  BY SeqMonotonic DEF TreeName
<1> QED BY <1>1, <1>2, <1>3 DEF NewNode, TreeNode, Indexes

LEMMA InsertFacts ==
  ASSUME NEW tr, Rising(tr), NEW p \in 1..Len(tr),
         NEW name \in TreeName, NEW path \in Seq(Segment) \union {NoFile},
         NEW file \in AbsPath \union {NoFile}, NEW trim \in BOOLEAN
  PROVE  Inserted(tr, p, name, path, file, trim, Insert(tr, p, NewNode(name, path, file, trim)))
<1> DEFINE L == Len(tr)
           node == NewNode(name, path, file, trim)
           entered == [x \in DOMAIN tr[p].index \union {name} |->
                         IF x = name THEN L + 1 ELSE tr[p].index[x]]
           kids == tr[p].children \union {L + 1}
           grown == [tr EXCEPT ![p].children = kids, ![p].index = entered]
           last == [node EXCEPT !.parent = p]
           t == Insert(tr, p, node)
<1>1. L \in Nat /\ tr \in Seq(TreeNode) /\ tr[p] \in TreeNode
  BY NodeTypes DEF Rising
<1>2. tr[p].index \in Indexes /\ tr[p].children \in SUBSET Nat
  BY <1>1 DEF TreeNode, Indexes, TreeName
<1>3. entered \in Indexes /\ DOMAIN entered = DOMAIN tr[p].index \union {name}
  <2>1. PICK names \in SUBSET TreeName : tr[p].index \in [names -> Nat]
    BY <1>2 DEF Indexes
  <2>2. entered \in [names \union {name} -> Nat] /\ names \union {name} \in SUBSET TreeName
    BY <2>1, <1>1
  <2> HIDE DEF entered
  <2>3. entered \in Indexes
    BY <2>2 DEF Indexes
  <2> QED BY <2>1, <2>2, <2>3
<1>4. \A x \in DOMAIN entered : entered[x] = IF x = name THEN L + 1 ELSE tr[p].index[x]
  OBVIOUS
<1>5. node \in TreeNode
  BY NewNodeType
<1>6. /\ node.name = name /\ node.path = path /\ node.file = file /\ node.trim = trim
      /\ node.children = {} /\ node.index = << >>
  BY DEF NewNode
<1> HIDE DEF node
<1>7. /\ last \in TreeNode
      /\ last.name = name /\ last.path = path /\ last.file = file /\ last.trim = trim
      /\ last.parent = p /\ last.children = {} /\ last.index = << >>
  <2>1. p \in Nat
    BY <1>1
  <2>2. last \in TreeNode
    BY <1>5, <2>1 DEF TreeNode
  <2>3. /\ last.name = node.name /\ last.path = node.path /\ last.file = node.file
        /\ last.trim = node.trim /\ last.parent = p
        /\ last.children = node.children /\ last.index = node.index
    BY <1>5 DEF TreeNode
  <2> QED BY <2>2, <2>3, <1>6
<1>8. kids \in SUBSET Nat
  BY <1>1, <1>2
<1>9. t = Append(grown, last)
  <2>1. node.name = name
    BY <1>6
  <2> QED BY <2>1 DEF Insert
<1> HIDE DEF entered, kids, last, t
<1>10. /\ grown \in Seq(TreeNode) /\ Len(grown) = L
       /\ \A n \in 1..L : n # p => grown[n] = tr[n]
       /\ grown[p] = [tr[p] EXCEPT !.children = kids, !.index = entered]
  <2>1. [tr[p] EXCEPT !.children = kids, !.index = entered] \in TreeNode
    BY <1>1, <1>3, <1>8 DEF TreeNode, Indexes, TreeName
  <2> DEFINE new == [tr[p] EXCEPT !.children = kids, !.index = entered]
  <2>2. grown = [tr EXCEPT ![p] = new]
    BY <1>1
  <2> HIDE DEF new, grown
  <2>3. /\ [tr EXCEPT ![p] = new] \in Seq(TreeNode) /\ Len([tr EXCEPT ![p] = new]) = L
        /\ \A n \in 1..L : [tr EXCEPT ![p] = new][n] = IF n = p THEN new ELSE tr[n]
    <3>1. new \in TreeNode
      BY <2>1 DEF new
    <3> QED BY <3>1, <1>1, ExceptSeq
  <2> QED BY <2>2, <2>3 DEF new
<1>11. /\ grown[p].children = kids /\ grown[p].index = entered
       /\ grown[p].name = tr[p].name /\ grown[p].path = tr[p].path /\ grown[p].file = tr[p].file
       /\ grown[p].trim = tr[p].trim /\ grown[p].parent = tr[p].parent
  BY <1>1, <1>10 DEF TreeNode
<1> HIDE DEF grown
<1>12. /\ t \in Seq(TreeNode) /\ Len(t) = L + 1
       /\ \A n \in 1..L : t[n] = grown[n]
       /\ t[L + 1] = last
  <2>1. last \in TreeNode /\ grown \in Seq(TreeNode) /\ Len(grown) = L
    BY <1>7, <1>10
  <2>2. /\ Append(grown, last) \in Seq(TreeNode) /\ Len(Append(grown, last)) = Len(grown) + 1
        /\ \A n \in 1..Len(grown) : Append(grown, last)[n] = grown[n]
        /\ Append(grown, last)[Len(grown) + 1] = last
    BY <2>1, AppendProperties
  <2> QED BY <2>1, <2>2, <1>9
<1>13. \A n \in 1..L :
         /\ t[n].name = tr[n].name /\ t[n].path = tr[n].path /\ t[n].file = tr[n].file
         /\ t[n].trim = tr[n].trim /\ t[n].parent = tr[n].parent
         /\ n # p => t[n].children = tr[n].children /\ t[n].index = tr[n].index
  BY <1>10, <1>11, <1>12
<1>14. t[p].children = kids /\ t[p].index = entered
  BY <1>11, <1>12
<1>15. Inserted(tr, p, name, path, file, trim, t)
  BY <1>3, <1>4, <1>7, <1>12, <1>13, <1>14 DEF Inserted, kids
<1> QED BY <1>15 DEF t, node

\* The tree stays a tree with an index.
LEMMA InsertGrown ==
  ASSUME NEW tr, NEW t, Grown(tr), NEW p \in 1..Len(tr), NEW name, NEW path, NEW file, NEW trim,
         Inserted(tr, p, name, path, file, trim, t)
  PROVE  Grown(t) /\ SameNames(tr, t)
<1> DEFINE L == Len(tr)
<1>1. /\ L \in Nat /\ L > 0 /\ Len(t) = L + 1 /\ t \in Seq(TreeNode)
      /\ Tree(tr) /\ Rising(tr) /\ Kept(tr) = 1..L
  BY NodeTypes DEF Grown, Tree, Rising, Inserted
<1>2. \A n \in 1..L : t[n].name = tr[n].name /\ t[n].parent = tr[n].parent
  BY DEF Inserted
<1>3. \A n \in 1..L : t[n].children = IF n = p THEN tr[n].children \union {L + 1} ELSE tr[n].children
  BY DEF Inserted
<1>4. t[L + 1].parent = p /\ t[L + 1].children = {} /\ t[L + 1].name = name /\ t[L + 1].index = << >>
  BY DEF Inserted
<1>5. \A n \in 1..(L + 1) : n \in 1..L \/ n = L + 1
  BY <1>1
<1>6. Rising(t)
  <2>1. ASSUME NEW n \in 2..(L + 1) PROVE t[n].parent \in 1..(n - 1)
    <3>1. CASE n = L + 1
      BY <3>1, <1>1, <1>4
    <3>2. CASE n # L + 1
      <4>1. n \in 2..L /\ n \in 1..L
        BY <3>2, <1>1
      <4>2. tr[n].parent \in 1..(n - 1)
        BY <4>1, <1>1 DEF Rising
      <4> QED BY <4>1, <4>2, <1>2
    <3> QED BY <3>1, <3>2
  <2> QED BY <1>1, <2>1 DEF Rising
<1>7. ASSUME NEW n \in 1..L, NEW c \in tr[n].children PROVE c \in 2..L /\ tr[c].parent = n
  BY <1>1 DEF Tree
<1>8. Kept(t) = 1..(L + 1)
  <2>1. ASSUME NEW n \in 1..(L + 1) PROVE n = Root \/ n \in t[t[n].parent].children
    <3>1. CASE n = L + 1
      BY <3>1, <1>3, <1>4
    <3>2. CASE n # L + 1 /\ n # Root
      <4>1. n \in 2..L /\ n \in Kept(tr)
        BY <3>2, <1>1 DEF Root
      <4>2. n \in tr[tr[n].parent].children /\ tr[n].parent \in 1..L /\ t[n].parent = tr[n].parent
        BY <4>1, <3>2, <1>1, <1>2 DEF Kept, Rising
      <4> QED BY <4>2, <1>3
    <3> QED BY <3>1, <3>2
  <2> QED BY <1>1, <2>1 DEF Kept
<1>9. ASSUME NEW n \in 1..(L + 1), NEW c \in t[n].children PROVE c \in 2..(L + 1) /\ t[c].parent = n
  <2>1. CASE n = L + 1
    BY <2>1, <1>4
  <2>2. CASE n # L + 1 /\ c \in tr[n].children
    BY <2>2, <1>1, <1>2, <1>7
  <2>3. CASE n # L + 1 /\ c \notin tr[n].children
    <3>1. n \in 1..L
      BY <2>3, <1>5
    <3>2. n = p /\ c = L + 1
      BY <3>1, <2>3, <1>3
    <3> QED BY <3>2, <1>1, <1>4
  <2> QED BY <2>1, <2>2, <2>3
<1>10. Tree(t)
  <2>1. \A n \in Kept(t) \ {Root} : t[n].parent \in Kept(t)
    <3>1. \A n \in 2..(L + 1) : t[n].parent \in 1..(L + 1)
      BY <1>1, <1>6 DEF Rising
    <3> QED BY <3>1, <1>8 DEF Root
  <2> QED BY <2>1, <1>1, <1>6, <1>8, <1>9 DEF Tree
<1>11. ASSUME NEW n \in 1..(L + 1)
       PROVE  /\ DOMAIN t[n].index = {t[c].name : c \in t[n].children}
              /\ \A x \in DOMAIN t[n].index : t[n].index[x] \in t[n].children /\ t[t[n].index[x]].name = x
  <2>1. CASE n = L + 1
    <3>1. DOMAIN t[n].index = {}
      BY <2>1, <1>4
    <3> QED BY <3>1, <2>1, <1>4
  <2>2. CASE n # L + 1
    <3>1. /\ DOMAIN tr[n].index = {tr[c].name : c \in tr[n].children}
          /\ \A x \in DOMAIN tr[n].index : tr[n].index[x] \in tr[n].children /\ tr[tr[n].index[x]].name = x
      BY <2>2 DEF Grown
    <3>2. \A c \in tr[n].children : t[c].name = tr[c].name
      BY <2>2, <1>2, <1>7, <1>1
    <3>3. CASE n # p
      <4>1. t[n].children = tr[n].children /\ t[n].index = tr[n].index
        BY <2>2, <3>3 DEF Inserted
      <4> QED BY <4>1, <3>1, <3>2
    <3>4. CASE n = p
      <4>1. /\ t[n].children = tr[n].children \union {L + 1}
            /\ DOMAIN t[n].index = DOMAIN tr[n].index \union {name}
            /\ \A x \in DOMAIN t[n].index : t[n].index[x] = IF x = name THEN L + 1 ELSE tr[n].index[x]
        BY <3>4 DEF Inserted
      <4> QED BY <4>1, <3>1, <3>2, <1>4
    <3> QED BY <3>3, <3>4
  <2> QED BY <2>1, <2>2
<1>12. SameNames(tr, t)
  BY <1>1, <1>2 DEF SameNames
<1> QED BY <1>1, <1>8, <1>10, <1>11, <1>12 DEF Grown

\* A tree in the making, and the node where the next one goes.
Standing == {s \in [tr : Seq(TreeNode), at : Nat] : Grown(s.tr) /\ s.at \in 1..Len(s.tr)}

\* What one level of tree.add does: nothing for the root of the disk, find the
\* folder among the children, or make it.
FolderAdded(s, path, trim, r) ==
  \/ path = <<Slash>> /\ r = s
  \/ /\ path # <<Slash>> /\ r.tr = s.tr /\ r.at \in s.tr[s.at].children
     /\ s.tr[r.at].name = Last(path)
  \/ /\ path # <<Slash>> /\ r.at = Len(s.tr) + 1
     /\ Inserted(s.tr, s.at, Last(path), path, NoFile, trim, r.tr)
     /\ \A c \in s.tr[s.at].children :
          s.tr[c].name = Last(path) =>
            \E d \in s.tr[s.at].children : s.tr[d].name = Last(path) /\ s.tr[d].path # path

LEMMA AddFolderFacts ==
  ASSUME NEW s \in Standing, NEW path \in Seq(Segment), path # << >>, NEW trim \in BOOLEAN
  PROVE  /\ AddFolder(s, path, trim) \in Standing
         /\ FolderAdded(s, path, trim, AddFolder(s, path, trim))
<1> DEFINE index == s.tr[s.at].index
           name == Last(path)
           r == AddFolder(s, path, trim)
           new == Insert(s.tr, s.at, NewNode(name, path, NoFile, trim))
<1>1. /\ s.tr \in Seq(TreeNode) /\ s.at \in 1..Len(s.tr) /\ Grown(s.tr) /\ Rising(s.tr) /\ Len(s.tr) \in Nat
      /\ s \in [tr : Seq(TreeNode), at : Nat]
  BY NodeTypes DEF Standing, Grown, Tree
<1>2. /\ DOMAIN index = {s.tr[c].name : c \in s.tr[s.at].children}
      /\ \A x \in DOMAIN index : index[x] \in s.tr[s.at].children /\ s.tr[index[x]].name = x
  BY <1>1 DEF Grown
<1>3. \A c \in s.tr[s.at].children : c \in 1..Len(s.tr)
  BY <1>1 DEF Grown, Tree
<1> HIDE DEF index
<1>4. CASE path = <<Slash>>
  <2>1. r = s
    BY <1>4 DEF AddFolder
  <2> QED BY <2>1, <1>4 DEF FolderAdded
<1>5. CASE path # <<Slash>> /\ name \in DOMAIN index /\ s.tr[index[name]].path = path
  <2>1. r = [s EXCEPT !.at = index[name]]
    BY <1>5 DEF AddFolder, index
  <2>2. index[name] \in s.tr[s.at].children /\ s.tr[index[name]].name = name
    BY <1>5, <1>2
  <2>3. index[name] \in 1..Len(s.tr) /\ index[name] \in Nat
    BY <2>2, <1>3, <1>1
  <2>4. r.tr = s.tr /\ r.at = index[name] /\ r \in [tr : Seq(TreeNode), at : Nat]
    BY <2>1, <2>3, <1>1
  <2> HIDE DEF r
  <2>5. r \in Standing
    BY <2>3, <2>4, <1>1 DEF Standing
  <2>6. FolderAdded(s, path, trim, r)
    BY <1>5, <2>2, <2>4 DEF FolderAdded
  <2> QED BY <2>5, <2>6 DEF r
<1>6. CASE path # <<Slash>> /\ ~ (name \in DOMAIN index /\ s.tr[index[name]].path = path)
  <2>1. r = [tr |-> new, at |-> Len(s.tr) + 1]
    BY <1>6 DEF AddFolder, index
  <2>2. name \in TreeName
    <3>1. name \in Segment
      BY DEF Last
    <3> QED BY <3>1 DEF TreeName
  <2>3. Inserted(s.tr, s.at, name, path, NoFile, trim, new)
    BY <1>1, <2>2, InsertFacts
  <2> HIDE DEF new, name
  <2>4. Grown(new)
    BY <1>1, <2>3, InsertGrown
  <2>5. new \in Seq(TreeNode) /\ Len(new) = Len(s.tr) + 1
    BY <2>3 DEF Inserted
  <2>6. r.tr = new /\ r.at = Len(s.tr) + 1 /\ r \in [tr : Seq(TreeNode), at : Nat]
    BY <2>1, <2>5, <1>1
  <2> HIDE DEF r
  <2>7. r \in Standing
    BY <2>4, <2>5, <2>6, <1>1 DEF Standing
  <2>8. ASSUME NEW c \in s.tr[s.at].children, s.tr[c].name = name
        PROVE  \E d \in s.tr[s.at].children : s.tr[d].name = name /\ s.tr[d].path # path
    <3>1. name \in DOMAIN index
      BY <2>8, <1>2
    <3> QED BY <3>1, <1>2, <1>6
  <2>9. FolderAdded(s, path, trim, r)
    BY <1>6, <2>3, <2>6, <2>8 DEF FolderAdded, name
  <2> QED BY <2>7, <2>9 DEF r
<1> QED BY <1>4, <1>5, <1>6

\* Folders get the flag that is given.
LEMMA AddFolderFlag ==
  ASSUME NEW s \in Standing, NEW path, NEW trim, NEW r, FolderAdded(s, path, trim, r),
         NEW flags, trim \in flags, Flagged(s.tr, flags)
  PROVE  Flagged(r.tr, flags)
<1>1. CASE r.tr = s.tr
  BY <1>1
<1>2. CASE Inserted(s.tr, s.at, Last(path), path, NoFile, trim, r.tr)
  <2>1. Len(s.tr) \in Nat /\ Len(r.tr) = Len(s.tr) + 1
    BY <1>2 DEF Inserted, Standing
  <2>2. \A n \in 1..Len(s.tr) : r.tr[n].trim = s.tr[n].trim /\ r.tr[n].file = s.tr[n].file
    BY <1>2 DEF Inserted
  <2>3. r.tr[Len(s.tr) + 1].trim = trim /\ r.tr[Len(s.tr) + 1].file = NoFile
    BY <1>2 DEF Inserted
  <2>4. ASSUME NEW n \in 2..Len(r.tr)
        PROVE  r.tr[n].trim \in (IF IsFolder(r.tr, n) THEN flags ELSE {TRUE})
    <3>1. CASE n = Len(s.tr) + 1
      BY <3>1, <2>3 DEF IsFolder
    <3>2. CASE n # Len(s.tr) + 1
      <4>1. n \in 2..Len(s.tr) /\ n \in 1..Len(s.tr)
        BY <3>2, <2>1
      <4> QED BY <4>1, <2>2 DEF Flagged, IsFolder
    <3> QED BY <3>1, <3>2
  <2> QED BY <2>4 DEF Flagged
<1> QED BY <1>1, <1>2 DEF FolderAdded

\* Node p of the tree is the folder that is the first k of a virtual folder.
Reaches(tr, p, path, k) == IsFolder(tr, p) /\ Chain(tr, p) = Below(SubSeq(path, 1, k))

\* A child of that folder that has the name of the next one is a folder too, and
\* if no folder is outside, or for "..", it has the next path.
LEMMA NextFolder ==
  ASSUME NEW tr, NEW W, NEW placed, Grown(tr), Built(tr, W, placed), placed \subseteq DOMAIN W,
         WellPlaced(W), Apart(W), NEW g \in DOMAIN W, NEW k \in 1..Len(W[g]),
         SubSeq(W[g], 1, k) # <<Slash>>,
         NEW p \in 1..Len(tr), Reaches(tr, p, W[g], k - 1),
         NEW c \in tr[p].children, tr[c].name = Last(SubSeq(W[g], 1, k))
  PROVE  /\ c \in 1..Len(tr) /\ Reaches(tr, c, W[g], k)
         /\ (Plain(W) \/ tr[c].name = DotDot) => tr[c].path = SubSeq(W[g], 1, k)
<1> DEFINE q == SubSeq(W[g], 1, k)
           r == SubSeq(W[g], 1, k - 1)
<1>1. W[g] \in FolderPath /\ Len(W[g]) \in Nat
  BY DEF WellPlaced, FolderPath
<1>2. Below(q) = Append(Below(r), Last(q)) /\ Last(q) \in Label
  BY <1>1, BelowStep DEF Extends
<1>3. q \in FolderPath /\ IsPrefix(Below(q), Below(W[g])) /\ k \in 0..Len(W[g])
  BY <1>1, PrefixPath, BelowPrefix
<1>4. Below(r) \in Seq(Label)
  BY <1>1, PrefixPath, BelowType
<1>5. c \in 2..Len(tr) /\ tr[c].parent = p /\ Rising(tr)
  BY DEF Grown, Tree
<1>6. Chain(tr, c) = Below(q)
  <2>1. Chain(tr, c) = Append(Chain(tr, p), tr[c].name)
    BY <1>5, ChainStep DEF Chains
  <2> QED BY <2>1, <1>2 DEF Reaches
<1>7. IsFolder(tr, c)
  <2> SUFFICES ASSUME ~ IsFolder(tr, c) PROVE FALSE
    OBVIOUS
  <2> DEFINE h == tr[c].file
  <2>1. h \in DOMAIN W
    BY <1>5 DEF Built, Nodes
  <2>2. Chain(tr, c) = ShownAs(W, h)
    BY <1>5 DEF Built, Chained
  <2> QED BY <2>1, <2>2, <1>3, <1>6 DEF Apart, ShownAs
<1>8. ASSUME Plain(W) \/ tr[c].name = DotDot PROVE tr[c].path = q
  <2>0. PICK h \in DOMAIN W :
          (\E l \in 1..Len(W[h]) : tr[c].path = SubSeq(W[h], 1, l)) /\ Chain(tr, c) = Below(tr[c].path)
    BY <1>5, <1>7 DEF Built, Chained
  <2>1. PICK l \in 1..Len(W[h]) : tr[c].path = SubSeq(W[h], 1, l) /\ Chain(tr, c) = Below(tr[c].path)
    BY <2>0
  <2>2. W[h] \in FolderPath /\ Len(W[h]) \in Nat /\ l \in 0..Len(W[h])
    BY DEF WellPlaced, FolderPath
  <2>3. tr[c].path \in FolderPath
    BY <2>1, <2>2, PrefixPath
  <2>4. Plain(W) => q \in Seq(Name) /\ tr[c].path \in Seq(Name)
    BY <2>1 DEF Plain
  <2>5. Below(q) # << >> /\ Last(Below(q)) = Last(q)
    <3>1. /\ Len(Append(Below(r), Last(q))) = Len(Below(r)) + 1
          /\ Append(Below(r), Last(q))[Len(Below(r)) + 1] = Last(q)
          /\ Append(Below(r), Last(q)) # << >>
      BY <1>2, <1>4, AppendProperties
    <3> QED BY <3>1, <1>2 DEF Last
  <2> HIDE DEF q
  <2>6. (q \in Seq(Name) /\ tr[c].path \in Seq(Name)) \/ Last(Below(q)) = DotDot
    BY <1>8, <2>4, <2>5 DEF q
  <2>7. Below(q) = Below(tr[c].path)
    BY <2>1, <1>6
  <2> QED BY <1>3, <2>3, <2>5, <2>6, <2>7, BelowEqual
<1> QED BY <1>5, <1>6, <1>7, <1>8 DEF Reaches

\* One level keeps what is known of the tree, and goes one folder down.
LEMMA AddFolderBuilt ==
  ASSUME NEW W, NEW placed, placed \subseteq DOMAIN W, WellPlaced(W), Apart(W),
         NEW g \in DOMAIN W, NEW k \in 1..Len(W[g]), NEW trim,
         NEW s \in Standing, Built(s.tr, W, placed), Reaches(s.tr, s.at, W[g], k - 1),
         NEW r \in Standing, FolderAdded(s, SubSeq(W[g], 1, k), trim, r)
  PROVE  Built(r.tr, W, placed) /\ Reaches(r.tr, r.at, W[g], k)
<1> DEFINE path == SubSeq(W[g], 1, k)
           q == SubSeq(W[g], 1, k - 1)
           tr == s.tr
           t == r.tr
           L == Len(tr)
           p == s.at
<1>1. /\ Grown(tr) /\ Grown(t) /\ p \in 1..L /\ L \in Nat /\ Rising(tr) /\ Rising(t)
      /\ W[g] \in FolderPath /\ Len(W[g]) \in Nat
  <2>1. Grown(tr) /\ Grown(t) /\ p \in 1..L
    BY DEF Standing
  <2>2. Rising(tr) /\ Rising(t)
    BY <2>1 DEF Grown, Tree
  <2>3. L \in Nat
    BY <2>2 DEF Rising
  <2>4. W[g] \in FolderPath /\ Len(W[g]) \in Nat
    BY DEF WellPlaced, FolderPath
  <2> QED BY <2>1, <2>2, <2>3, <2>4
<1>2. CASE path = <<Slash>>
  <2>1. r = s
    BY <1>2 DEF FolderAdded
  <2>2. Below(path) = << >> /\ q = << >>
    BY <1>1, <1>2, BelowStep
  <2>3. Below(q) = << >>
    BY <2>2 DEF Below
  <2> QED BY <2>1, <2>2, <2>3 DEF Reaches
<1>3. CASE path # <<Slash>> /\ t = tr /\ r.at \in tr[p].children /\ tr[r.at].name = Last(path)
  <2>1. Reaches(tr, r.at, W[g], k)
    BY <1>1, <1>3, NextFolder
  <2> QED BY <2>1, <1>3
<1>4. CASE /\ path # <<Slash>> /\ r.at = L + 1
           /\ Inserted(tr, p, Last(path), path, NoFile, trim, t)
           /\ \A c \in tr[p].children :
                tr[c].name = Last(path) =>
                  \E d \in tr[p].children : tr[d].name = Last(path) /\ tr[d].path # path
  <2>1. SameNames(tr, t) /\ Len(t) = L + 1 /\ Kept(t) = 1..(L + 1) /\ Kept(tr) = 1..L
    <3>1. SameNames(tr, t)
      BY <1>1, <1>4, InsertGrown
    <3>2. Len(t) = L + 1
      BY <1>4 DEF Inserted
    <3> QED BY <3>1, <3>2, <1>1 DEF Grown
  <2>2. \A n \in 1..L : t[n].name = tr[n].name /\ t[n].parent = tr[n].parent
                        /\ t[n].file = tr[n].file /\ t[n].path = tr[n].path
    BY <1>4 DEF Inserted
  <2>3. /\ t[L + 1].name = Last(path) /\ t[L + 1].parent = p /\ t[L + 1].path = path
        /\ t[L + 1].file = NoFile /\ \A n \in 1..L : n # p => t[n].children = tr[n].children
    BY <1>4 DEF Inserted
  <2>4. \A n \in 2..(L + 1) : n = L + 1 \/ (n \in 2..L /\ n \in 1..L)
    BY <1>1
  <2>5. Last(path) \in Label /\ Below(path) = Append(Below(q), Last(path))
    BY <1>1, <1>4, BelowStep DEF Extends
  <2>6. \A n \in 1..L : Chain(t, n) = Chain(tr, n)
    BY <1>1, <2>1, SameChain
  <2>7. Chain(t, L + 1) = Below(path)
    <3>1. L + 1 \in 2..Len(t)
      BY <1>1, <2>1
    <3>2. Chain(t, L + 1) = Append(Chain(t, p), t[L + 1].name)
      BY <1>1, <2>3, <3>1, ChainStep DEF Chains
    <3> QED BY <3>2, <2>3, <2>5, <2>6, <1>1 DEF Reaches
  <2>8. IsFolder(tr, p)
    BY DEF Reaches
  <2>9. Nodes(t, W, placed)
    <3>1. IsFolder(t, Root)
      BY <2>2, <1>1 DEF Built, Nodes, IsFolder, Root
    <3>2. Plain(W) => Last(path) \in Name
      <4>1. Plain(W) => path \in Seq(Name) /\ Len(path) = k
        BY <1>1 DEF Plain
      <4> QED BY <4>1 DEF Last
    <3>3. \A n \in 2..(L + 1) : t[n].name \in Label /\ (Plain(W) => t[n].name \in Name)
      BY <2>2, <2>3, <2>4, <2>5, <3>2 DEF Built, Nodes
    <3>4. ASSUME NEW n \in 2..(L + 1), ~ IsFolder(t, n)
          PROVE  /\ t[n].file \in placed /\ t[n].name = Last(t[n].file)
                 /\ n \in Kept(t) /\ t[n].children = {}
                 /\ \A c \in 2..(L + 1) : t[c].file = t[n].file => c = n
      <4>1. n \in 2..L /\ n \in 1..L /\ ~ IsFolder(tr, n)
        BY <3>4, <2>2, <2>3, <2>4 DEF IsFolder
      <4>2. /\ tr[n].file \in placed /\ tr[n].name = Last(tr[n].file) /\ tr[n].children = {}
            /\ \A c \in 2..L : tr[c].file = tr[n].file => c = n
        BY <4>1 DEF Built, Nodes
      <4>3. n # p
        BY <4>1, <2>8
      <4>4. t[n].file # NoFile
        BY <3>4 DEF IsFolder
      <4>5. ASSUME NEW c \in 2..(L + 1), t[c].file = t[n].file PROVE c = n
        <5>1. c # L + 1
          BY <4>4, <4>5, <2>3
        <5>2. c \in 2..L /\ c \in 1..L
          BY <5>1, <2>4
        <5> QED BY <5>2, <4>1, <4>2, <4>5, <2>2
      <4>6. n \in Kept(t)
        BY <4>1, <2>1, <1>1
      <4> QED BY <4>1, <4>2, <4>3, <4>5, <4>6, <2>2, <2>3
    <3>5. \A f \in placed : \E n \in 2..(L + 1) : t[n].file = f
      <4>1. 2..L \subseteq 2..(L + 1) /\ 2..L \subseteq 1..L
        BY <1>1
      <4> QED BY <4>1, <2>2 DEF Built, Nodes
    <3> QED BY <3>1, <3>3, <3>4, <3>5, <2>1 DEF Nodes
  <2>10. OneOfAName(t, W)
    <3>1. ASSUME NEW b \in 2..L, IsFolder(tr, b), tr[b].parent = p, tr[b].name = Last(path),
                 Last(path) = DotDot \/ Plain(W)
          PROVE  FALSE
      <4>1. b \in tr[p].children
        <5>1. b \in Kept(tr) /\ b # Root
          BY <3>1, <2>1 DEF Root
        <5> QED BY <5>1, <3>1 DEF Kept
      <4>2. PICK d \in tr[p].children : tr[d].name = Last(path) /\ tr[d].path # path
        BY <4>1, <3>1, <1>4
      <4>3. tr[d].path = path
        <5>1. /\ d \in tr[p].children /\ tr[d].name = Last(SubSeq(W[g], 1, k))
              /\ Plain(W) \/ tr[d].name = DotDot
          BY <4>2, <3>1
        <5>2. SubSeq(W[g], 1, k) # <<Slash>> /\ Reaches(tr, p, W[g], k - 1) /\ Built(tr, W, placed)
          BY <1>4
        <5> QED BY <5>1, <5>2, <1>1, NextFolder, SMTT(30)
      <4> QED BY <4>2, <4>3
    <3>2. ASSUME NEW a \in Kept(t) \ {Root}, NEW b \in Kept(t) \ {Root},
                 IsFolder(t, a), IsFolder(t, b), t[a].parent = t[b].parent,
                 t[a].name = t[b].name, t[a].name = DotDot \/ Plain(W)
          PROVE  a = b
      <4>1. a \in 2..(L + 1) /\ b \in 2..(L + 1)
        BY <2>1, <1>1 DEF Root
      <4>2. CASE a = L + 1 /\ b # L + 1
        <5>1. b \in 2..L /\ b \in 1..L
          BY <4>1, <4>2, <2>4
        <5> QED BY <5>1, <4>2, <3>1, <3>2, <2>2, <2>3 DEF IsFolder
      <4>3. CASE b = L + 1 /\ a # L + 1
        <5>1. a \in 2..L /\ a \in 1..L
          BY <4>1, <4>3, <2>4
        <5> QED BY <5>1, <4>3, <3>1, <3>2, <2>2, <2>3 DEF IsFolder
      <4>4. CASE a # L + 1 /\ b # L + 1
        <5>1. a \in 2..L /\ b \in 2..L /\ a \in 1..L /\ b \in 1..L
          BY <4>1, <4>4, <2>4
        <5>2. a \in Kept(tr) \ {Root} /\ b \in Kept(tr) \ {Root}
          BY <5>1, <2>1 DEF Root
        <5> QED BY <5>1, <5>2, <3>2, <2>2 DEF Built, OneOfAName, IsFolder
      <4> QED BY <4>2, <4>3, <4>4
    <3> QED BY <3>2 DEF OneOfAName
  <2>11. Chained(t, W)
    <3>1. ASSUME NEW n \in 2..(L + 1)
          PROVE  IF IsFolder(t, n)
                 THEN /\ \E f \in DOMAIN W : \E l \in 1..Len(W[f]) : t[n].path = SubSeq(W[f], 1, l)
                      /\ Chain(t, n) = Below(t[n].path)
                 ELSE Chain(t, n) = ShownAs(W, t[n].file)
      <4>1. CASE n = L + 1
        BY <4>1, <2>3, <2>7 DEF IsFolder
      <4>2. CASE n # L + 1
        <5>1. n \in 2..L /\ n \in 1..L
          BY <4>2, <2>4
        <5> QED BY <5>1, <2>2, <2>6 DEF Built, Chained, IsFolder
      <4> QED BY <4>1, <4>2
    <3> QED BY <3>1, <2>1 DEF Chained
  <2>12. Reaches(t, L + 1, W[g], k)
    BY <2>3, <2>7 DEF Reaches, IsFolder
  <2> QED BY <2>9, <2>10, <2>11, <2>12, <1>4 DEF Built
<1> QED BY <1>2, <1>3, <1>4 DEF FolderAdded

\* The levels of tree.add
Levels(f, tr, path, trim) ==
  /\ f \in [0..Len(path) -> Standing]
  /\ f[0] = [tr |-> tr, at |-> Root]
  /\ \A k \in 1..Len(path) : FolderAdded(f[k - 1], SubSeq(path, 1, k), trim, f[k])

LEMMA AddLevels ==
  ASSUME NEW tr, Grown(tr), NEW path \in Seq(Segment), NEW trim \in BOOLEAN
  PROVE  \E f : Levels(f, tr, path, trim) /\ Add(tr, path, trim) = f[Len(path)]
<1> DEFINE N == Len(path)
           start == [tr |-> tr, at |-> Root]
           g == [x \in (1..N) \X Standing |-> AddFolder(x[2], SubSeq(path, 1, x[1]), trim)]
<1>1. N \in Nat
  OBVIOUS
<1>2. start \in Standing
  <2>1. tr \in Seq(TreeNode) /\ Root \in 1..Len(tr) /\ Root \in Nat
    BY NodeTypes DEF Grown, Tree, Rising, Root
  <2> QED BY <2>1 DEF Standing
<1>3. ASSUME NEW k \in 1..N, NEW s \in Standing
      PROVE  /\ AddFolder(s, SubSeq(path, 1, k), trim) \in Standing
             /\ FolderAdded(s, SubSeq(path, 1, k), trim, AddFolder(s, SubSeq(path, 1, k), trim))
  <2>1. SubSeq(path, 1, k) \in Seq(Segment) /\ Len(SubSeq(path, 1, k)) = k
    OBVIOUS
  <2>2. SubSeq(path, 1, k) # << >>
    BY <2>1
  <2> QED BY <2>1, <2>2, AddFolderFacts
<1>4. g \in [(1..N) \X Standing -> Standing]
  <2>1. ASSUME NEW x \in (1..N) \X Standing
        PROVE  AddFolder(x[2], SubSeq(path, 1, x[1]), trim) \in Standing
    BY <1>3
  <2> QED BY <2>1
<1>5. \A k \in 1..N : \A s \in Standing : g[<<k, s>>] = AddFolder(s, SubSeq(path, 1, k), trim)
  OBVIOUS
<1>6. PICK f : Recurses(f, N, Standing, start, g)
  <2> HIDE DEF N, start, g
  <2> QED BY <1>1, <1>2, <1>4, RecursionExists
<1>7. f \in [0..N -> Standing] /\ f[0] = start /\ \A k \in 1..N : f[k] = g[<<k, f[k - 1]>>]
  BY <1>6 DEF Recurses
<1> HIDE DEF g
<1>8. \A k \in 1..N : f[k - 1] \in Standing /\ f[k] = AddFolder(f[k - 1], SubSeq(path, 1, k), trim)
  <2>1. ASSUME NEW k \in 1..N PROVE k - 1 \in 0..N
    BY <1>1
  <2> HIDE DEF N
  <2> QED BY <2>1, <1>5, <1>7
<1> DEFINE Of(Level) == [k \in 0..Len(path) |->
                           IF k = 0 THEN [tr |-> tr, at |-> Root]
                           ELSE AddFolder(Level[k - 1], SubSeq(path, 1, k), trim)]
           Made == CHOOSE Level : Level = Of(Level)
<1>9. f = Of(f)
  <2>1. \A k \in 0..N : f[k] = IF k = 0 THEN start ELSE AddFolder(f[k - 1], SubSeq(path, 1, k), trim)
    <3>1. \A k \in 0..N : k # 0 => k \in 1..N
      BY <1>1
    <3> HIDE DEF N, start
    <3> QED BY <3>1, <1>7, <1>8
  <2> QED BY <2>1, <1>7
<1>10. Made = Of(Made)
  <2> HIDE DEF Of
  <2> QED BY <1>9
<1>11. Add(tr, path, trim) = Made[N]
  BY DEF Add
<1>12. \A k \in 0..N : Made[k] = IF k = 0 THEN start ELSE AddFolder(Made[k - 1], SubSeq(path, 1, k), trim)
  <2> HIDE DEF Made
  <2> QED BY <1>10
<1> HIDE DEF Made, Of, start
<1> DEFINE S == {k \in 0..N : Made[k] = f[k]}
<1>13. 0..N \subseteq S
  <2>1. 0 \in S
    BY <1>1, <1>7, <1>12
  <2>2. ASSUME NEW k \in 1..N, k - 1 \in S PROVE k \in S
    <3>1. k \in 0..N /\ k # 0
      BY <1>1
    <3> HIDE DEF N
    <3> QED BY <3>1, <2>2, <1>8, <1>12
  <2> HIDE DEF S
  <2> QED BY <1>1, <2>1, <2>2, InductionUpTo
<1>14. Add(tr, path, trim) = f[N]
  BY <1>1, <1>11, <1>13
<1>15. \A k \in 1..N : FolderAdded(f[k - 1], SubSeq(path, 1, k), trim, f[k])
  <2> HIDE DEF N
  <2> QED BY <1>3, <1>8
<1>16. Levels(f, tr, path, trim)
  BY <1>7, <1>15 DEF Levels, start
<1> QED BY <1>14, <1>16

\* tree.add keeps the tree, and the flags.
LEMMA AddStands ==
  ASSUME NEW tr, Grown(tr), NEW path \in Seq(Segment), NEW trim \in BOOLEAN,
         NEW flags, trim \in flags, Flagged(tr, flags)
  PROVE  Add(tr, path, trim) \in Standing /\ Flagged(Add(tr, path, trim).tr, flags)
<1> DEFINE N == Len(path)
<1>1. PICK f : Levels(f, tr, path, trim) /\ Add(tr, path, trim) = f[N]
  BY AddLevels
<1> DEFINE S == {k \in 0..N : Flagged(f[k].tr, flags)}
<1>2. N \in Nat
  OBVIOUS
<1>3. 0 \in S
  BY <1>1, <1>2 DEF Levels
<1>4. ASSUME NEW k \in 1..N, k - 1 \in S PROVE k \in S
  <2>1. f[k - 1] \in Standing /\ FolderAdded(f[k - 1], SubSeq(path, 1, k), trim, f[k]) /\ k \in 0..N
    BY <1>1, <1>2, <1>4 DEF Levels
  <2>2. Flagged(f[k - 1].tr, flags)
    BY <1>4
  <2>3. Flagged(f[k].tr, flags)
    BY <2>1, <2>2, AddFolderFlag
  <2> QED BY <2>1, <2>3
<1>5. 0..N \subseteq S
  <2> HIDE DEF S, N
  <2> QED BY <1>2, <1>3, <1>4, InductionUpTo
<1>6. N \in S /\ f[N] \in Standing
  BY <1>1, <1>2, <1>5 DEF Levels
<1> QED BY <1>1, <1>6

\* It ends at the folder that was asked for.
LEMMA AddReaches ==
  ASSUME NEW W, NEW placed, placed \subseteq DOMAIN W, WellPlaced(W), Apart(W),
         NEW tr, Grown(tr), Built(tr, W, placed), NEW g \in DOMAIN W, NEW trim \in BOOLEAN
  PROVE  /\ Built(Add(tr, W[g], trim).tr, W, placed)
         /\ Reaches(Add(tr, W[g], trim).tr, Add(tr, W[g], trim).at, W[g], Len(W[g]))
<1> DEFINE N == Len(W[g])
<1>1. W[g] \in Seq(Segment) /\ N \in Nat
  BY DEF WellPlaced, FolderPath
<1>2. PICK f : Levels(f, tr, W[g], trim) /\ Add(tr, W[g], trim) = f[N]
  BY <1>1, AddLevels
<1> DEFINE S == {k \in 0..N : Built(f[k].tr, W, placed) /\ Reaches(f[k].tr, f[k].at, W[g], k)}
<1>3. 0 \in S
  <2>1. f[0].tr = tr /\ f[0].at = Root
    BY <1>2 DEF Levels
  <2>2. SubSeq(W[g], 1, 0) = << >>
    BY <1>1
  <2>3. Below(SubSeq(W[g], 1, 0)) = << >>
    BY <2>2 DEF Below
  <2>4. Chain(tr, Root) = << >>
    BY ChainStep DEF Chains, Grown, Tree
  <2>5. Reaches(tr, Root, W[g], 0)
    BY <2>3, <2>4 DEF Reaches, Built, Nodes
  <2> QED BY <1>1, <2>1, <2>5
<1>4. ASSUME NEW k \in 1..N, k - 1 \in S PROVE k \in S
  <2>1. /\ f[k - 1] \in Standing /\ f[k] \in Standing /\ k \in 0..N
        /\ FolderAdded(f[k - 1], SubSeq(W[g], 1, k), trim, f[k])
    BY <1>1, <1>2, <1>4 DEF Levels
  <2>2. Built(f[k - 1].tr, W, placed) /\ Reaches(f[k - 1].tr, f[k - 1].at, W[g], k - 1)
    BY <1>4
  <2>3. Built(f[k].tr, W, placed) /\ Reaches(f[k].tr, f[k].at, W[g], k)
    BY <2>1, <2>2, AddFolderBuilt
  <2> QED BY <2>1, <2>3
<1>5. 0..N \subseteq S
  <2> HIDE DEF S, N
  <2> QED BY <1>1, <1>3, <1>4, InductionUpTo
<1>6. N \in S
  BY <1>1, <1>5
<1> QED BY <1>2, <1>6

\* A file that enters is a leaf in the folders of its virtual path.
LEMMA InsertBuilt ==
  ASSUME NEW W, NEW placed, placed \subseteq DOMAIN W, WellPlaced(W),
         NEW f \in DOMAIN W, f \notin placed,
         NEW tr, Grown(tr), Built(tr, W, placed),
         NEW p \in 1..Len(tr), Reaches(tr, p, W[f], Len(W[f])),
         NEW path, NEW t, Inserted(tr, p, Last(f), path, f, TRUE, t)
  PROVE  Built(t, W, placed \union {f})
<1> DEFINE L == Len(tr)
<1>1. L \in Nat /\ Rising(tr) /\ Kept(tr) = 1..L
  BY NodeTypes DEF Grown, Tree
<1>2. Grown(t) /\ SameNames(tr, t)
  BY InsertGrown
<1>3. Len(t) = L + 1 /\ Kept(t) = 1..(L + 1) /\ Rising(t)
  BY <1>2 DEF Inserted, Grown, Tree
<1>4. \A n \in 1..L : t[n].name = tr[n].name /\ t[n].parent = tr[n].parent
                      /\ t[n].file = tr[n].file /\ t[n].path = tr[n].path
  BY DEF Inserted
<1>5. /\ t[L + 1].name = Last(f) /\ t[L + 1].parent = p /\ t[L + 1].file = f /\ t[L + 1].children = {}
      /\ \A n \in 1..L : n # p => t[n].children = tr[n].children
  BY DEF Inserted
<1>6. \A n \in 2..(L + 1) : n = L + 1 \/ (n \in 2..L /\ n \in 1..L)
  BY <1>1
<1>7. \A n \in 1..L : Chain(t, n) = Chain(tr, n)
  BY <1>1, <1>2, <1>3, SameChain
<1>8. f # NoFile /\ Last(f) \in Name /\ W[f] \in Seq(Segment)
  BY DEF WellPlaced, FolderPath
<1>9. Chain(t, L + 1) = ShownAs(W, f)
  <2>1. L + 1 \in 2..Len(t)
    BY <1>1, <1>3
  <2>2. Chain(t, L + 1) = Append(Chain(t, p), Last(f))
    <3>1. Chains(t)
      BY <1>3, ChainStep
    <3>2. Chain(t, L + 1) = Append(Chain(t, t[L + 1].parent), t[L + 1].name)
      BY <2>1, <3>1 DEF Chains
    <3> QED BY <3>2, <1>5
  <2>3. SubSeq(W[f], 1, Len(W[f])) = W[f]
    BY <1>8
  <2> QED BY <2>2, <2>3, <1>7 DEF Reaches, ShownAs
<1>10. ASSUME NEW n \in 2..L, tr[n].file = f PROVE FALSE
  <2>1. ~ IsFolder(tr, n)
    BY <1>8, <1>10 DEF IsFolder
  <2> QED BY <2>1, <1>10 DEF Built, Nodes
<1>11. Nodes(t, W, placed \union {f})
  <2>1. IsFolder(t, Root)
    BY <1>4, <1>1, NodeTypes DEF Built, Nodes, IsFolder
  <2>2. \A n \in 2..(L + 1) : t[n].name \in Label /\ (Plain(W) => t[n].name \in Name)
    BY <1>4, <1>5, <1>6, <1>8 DEF Built, Nodes, Label
  <2>3. ASSUME NEW n \in 2..(L + 1), ~ IsFolder(t, n)
        PROVE  /\ t[n].file \in placed \union {f} /\ t[n].name = Last(t[n].file)
               /\ n \in Kept(t) /\ t[n].children = {}
               /\ \A c \in 2..(L + 1) : t[c].file = t[n].file => c = n
    <3>1. n \in Kept(t)
      BY <1>1, <1>3
    <3>2. CASE n = L + 1
      <4>1. \A c \in 2..(L + 1) : t[c].file = f => c = n
        BY <3>2, <1>4, <1>6, <1>10
      <4> QED BY <3>1, <3>2, <4>1, <1>5
    <3>3. CASE n # L + 1
      <4>1. n \in 2..L /\ n \in 1..L /\ ~ IsFolder(tr, n)
        BY <2>3, <3>3, <1>4, <1>6 DEF IsFolder
      <4>2. /\ tr[n].file \in placed /\ tr[n].name = Last(tr[n].file) /\ tr[n].children = {}
            /\ \A c \in 2..L : tr[c].file = tr[n].file => c = n
        BY <4>1 DEF Built, Nodes
      <4>3. n # p
        BY <4>1 DEF Reaches
      <4>4. ASSUME NEW c \in 2..(L + 1), t[c].file = t[n].file PROVE c = n
        <5>1. c # L + 1
          BY <4>1, <4>2, <4>4, <1>4, <1>5
        <5>2. c \in 2..L /\ c \in 1..L
          BY <5>1, <1>6
        <5> QED BY <5>2, <4>1, <4>2, <4>4, <1>4
      <4> QED BY <3>1, <4>1, <4>2, <4>3, <4>4, <1>4, <1>5
    <3> QED BY <3>2, <3>3
  <2>4. \A h \in placed \union {f} : \E n \in 2..(L + 1) : t[n].file = h
    <3>1. 2..L \subseteq 2..(L + 1) /\ 2..L \subseteq 1..L /\ L + 1 \in 2..(L + 1)
      BY <1>1, NodeTypes DEF Rising
    <3>2. \A h \in placed : \E n \in 2..L : tr[n].file = h
      BY DEF Built, Nodes
    <3> QED BY <3>1, <3>2, <1>4, <1>5
  <2> QED BY <2>1, <2>2, <2>3, <2>4, <1>3 DEF Nodes
<1>12. OneOfAName(t, W)
  <2>1. ASSUME NEW a \in Kept(t) \ {Root}, IsFolder(t, a)
        PROVE  a \in Kept(tr) \ {Root} /\ IsFolder(tr, a) /\ a \in 1..L
    <3>1. a # L + 1
      BY <2>1, <1>5, <1>8 DEF IsFolder
    <3>2. a \in 1..L
      BY <3>1, <1>1, <1>3
    <3> QED BY <3>2, <2>1, <1>1, <1>4 DEF IsFolder
  <2> QED BY <2>1, <1>4 DEF Built, OneOfAName
<1>13. Chained(t, W)
  <2>1. ASSUME NEW n \in 2..(L + 1)
        PROVE  IF IsFolder(t, n)
               THEN /\ \E h \in DOMAIN W : \E l \in 1..Len(W[h]) : t[n].path = SubSeq(W[h], 1, l)
                    /\ Chain(t, n) = Below(t[n].path)
               ELSE Chain(t, n) = ShownAs(W, t[n].file)
    <3>1. CASE n = L + 1
      BY <3>1, <1>5, <1>8, <1>9 DEF IsFolder
    <3>2. CASE n # L + 1
      <4>1. n \in 2..L /\ n \in 1..L
        BY <3>2, <1>6
      <4> QED BY <4>1, <1>4, <1>7 DEF Built, Chained, IsFolder
    <3> QED BY <3>1, <3>2
  <2> QED BY <2>1, <1>3 DEF Chained
<1> QED BY <1>11, <1>12, <1>13 DEF Built

-----------------------------------------------------------------------------
(* The inductive invariant: while the tree is made                         *)

\* The project does not change, and with it neither do the virtual folders.
LEMMA SameWhere == ASSUME prj' = prj PROVE Where' = Where /\ TrimFlags' = TrimFlags
<1>1. Where' = Where
  BY DEF Where, FolderOf, VPath, RelPath, Relative, Leaf
<1>2. TrimFlags' = TrimFlags
  BY DEF TrimFlags, MayTrim, VPath, RelPath, Relative, Leaf
<1> QED BY <1>1, <1>2

LEMMA TreeStart == ASSUME TreeInit PROVE TreeInv
<1>1. /\ nodes = NewTree /\ todo = prj.files /\ phase = "files" /\ trimmed = FALSE /\ prj \in Project
  BY DEF TreeInit
<1> DEFINE root == NewNode(NoFile, NoFile, NoFile, TRUE)
<1>2. root \in TreeNode
  BY NewNodeType DEF TreeName
<1>3. nodes \in Seq(TreeNode) /\ Len(nodes) = 1 /\ nodes[1] = root
  <2>1. nodes = <<root>>
    BY <1>1 DEF NewTree
  <2> HIDE DEF root
  <2> QED BY <2>1, <1>2
<1>4. root.children = {} /\ root.index = << >> /\ root.file = NoFile
  BY DEF NewNode
<1> HIDE DEF root
<1>5. Rising(nodes) /\ Kept(nodes) = {1}
  BY <1>3 DEF Rising, Kept, Root
<1>6. Tree(nodes)
  BY <1>3, <1>4, <1>5 DEF Tree, Root
<1>7. Grown(nodes)
  <2>1. DOMAIN nodes[1].index = {}
    BY <1>3, <1>4
  <2> QED BY <2>1, <1>3, <1>4, <1>5, <1>6 DEF Grown
<1>8. Flagged(nodes, TrimFlags)
  BY <1>3 DEF Flagged
<1>9. Built(nodes, Where, prj.files \ todo)
  <2>1. Nodes(nodes, Where, prj.files \ todo)
    BY <1>1, <1>3, <1>4 DEF Nodes, IsFolder, Root
  <2>2. OneOfAName(nodes, Where)
    BY <1>5 DEF OneOfAName, Root
  <2>3. Chained(nodes, Where)
    BY <1>3 DEF Chained
  <2> QED BY <2>1, <2>2, <2>3 DEF Built
<1> QED BY <1>1, <1>6, <1>7, <1>8, <1>9 DEF TreeInv, Typed, WhileMade, WhenMade, WhereShown, Making

LEMMA PlaceInv ==
  ASSUME TreeInv, Making, NEW f \in todo, NEW trim \in BOOLEAN, trim \in TrimFlags, Place(f, trim)
  PROVE  TreeInv'
<1> DEFINE W == Where
           folder == Add(nodes, FolderOf(f), trim)
           placed == prj.files \ todo
<1>1. /\ prj \in Project /\ f \in prj.files /\ todo \subseteq prj.files
      /\ Grown(nodes) /\ Flagged(nodes, TrimFlags) /\ ~ trimmed
  BY DEF TreeInv, Typed, WhileMade
<1>2. /\ WellPlaced(W) /\ DOMAIN W = prj.files /\ W[f] = FolderOf(f)
      /\ FolderOf(f) \in FolderPath /\ FolderOf(f) \in Seq(Segment)
  BY <1>1, WhereFacts DEF WellPlaced, FolderPath
<1>3. folder \in Standing /\ Flagged(folder.tr, TrimFlags)
  BY <1>1, <1>2, AddStands
<1>4. /\ Last(VPath(f)) = Last(f)
      /\ RelPath(f) \in Seq(Segment) /\ Last(f) \in Name /\ f \in AbsPath /\ f # NoFile
  <2>1. Last(VPath(f)) = Last(f)
    <3>1. ShowsFile(VPath(f), f)
      BY <1>1, VPathShows
    <3> QED BY <3>1 DEF ShowsFile
  <2>2. RelPath(f) \in Seq(Segment)
    BY <1>1, RelPathShows DEF ShowsFile
  <2> QED BY <2>1, <2>2, <1>1, ProjectFiles
<1> HIDE DEF folder, W
<1>5. /\ Grown(folder.tr) /\ folder.at \in 1..Len(folder.tr)
      /\ Rising(folder.tr) /\ Len(folder.tr) \in Nat
  BY <1>3, NodeTypes DEF Standing, Grown, Tree
<1>6. /\ nodes' = Insert(folder.tr, folder.at, NewNode(Last(f), RelPath(f), f, TRUE))
      /\ todo' = todo \ {f} /\ prj' = prj /\ phase' = phase /\ trimmed' = trimmed
  BY <1>4 DEF Place, folder
<1>7. Inserted(folder.tr, folder.at, Last(f), RelPath(f), f, TRUE, nodes')
  <2>1. Last(f) \in TreeName
    BY <1>4 DEF TreeName, Segment
  <2> QED BY <2>1, <1>4, <1>5, <1>6, InsertFacts
<1>8. Grown(nodes')
  BY <1>5, <1>7, InsertGrown
<1>9. Where' = W /\ TrimFlags' = TrimFlags
  BY <1>6, SameWhere DEF W
<1>10. Flagged(nodes', TrimFlags)
  <2>1. Len(nodes') = Len(folder.tr) + 1
    BY <1>7 DEF Inserted
  <2>2. ASSUME NEW n \in 2..Len(nodes')
        PROVE  nodes'[n].trim \in (IF IsFolder(nodes', n) THEN TrimFlags ELSE {TRUE})
    <3>1. CASE n = Len(folder.tr) + 1
      <4>1. nodes'[n].trim = TRUE /\ nodes'[n].file = f
        BY <3>1, <1>7 DEF Inserted
      <4> QED BY <4>1, <1>4 DEF IsFolder
    <3>2. CASE n # Len(folder.tr) + 1
      <4>1. n \in 2..Len(folder.tr) /\ n \in 1..Len(folder.tr)
        BY <3>2, <2>1, <1>5
      <4>2. nodes'[n].trim = folder.tr[n].trim /\ nodes'[n].file = folder.tr[n].file
        BY <4>1, <1>7 DEF Inserted
      <4> QED BY <4>1, <4>2, <1>3 DEF Flagged, IsFolder
    <3> QED BY <3>1, <3>2
  <2> QED BY <2>2 DEF Flagged
<1>11. ASSUME Apart(W) PROVE Built(nodes', W, placed \union {f})
  <2>1. Built(nodes, W, placed)
    BY <1>11 DEF TreeInv, WhileMade, W
  <2>2. Built(folder.tr, W, placed) /\ Reaches(folder.tr, folder.at, W[f], Len(W[f]))
    BY <1>1, <1>2, <1>11, <2>1, AddReaches DEF folder
  <2> QED BY <1>1, <1>2, <1>5, <1>7, <2>2, InsertBuilt
<1>12. prj'.files \ todo' = placed \union {f}
  BY <1>1, <1>6
<1>13. Typed'
  <2>1. Tree(nodes')
    BY <1>8 DEF Grown
  <2> QED BY <2>1, <1>1, <1>6, <1>9, <1>10 DEF TreeInv, Typed
<1>14. WhileMade'
  <2>1. phase' = "generated" => todo' \subseteq DOMAIN prj'.source
    BY <1>6 DEF TreeInv, WhileMade
  <2>2. Apart(Where)' => Built(nodes, Where, prj.files \ todo)'
    BY <1>9, <1>11, <1>12
  <2> QED BY <2>1, <2>2, <1>1, <1>6, <1>8 DEF WhileMade
<1>15. WhenMade' /\ WhereShown'
  BY <1>6 DEF WhenMade, WhereShown, Making
<1> QED BY <1>13, <1>14, <1>15 DEF TreeInv

\* The flags that getsourcetree gives are those of its files.
LEMMA AddFileInv == ASSUME TreeInv, NEW f \in todo, AddFile(f) PROVE TreeInv'
<1>1. f \in prj.files /\ f \notin DOMAIN prj.source
  BY DEF TreeInv, Typed, AddFile, Listed
<1>2. CASE VPath(f) = RelPath(f)
  <2>1. Place(f, TRUE)
    BY <1>2 DEF AddFile
  <2>2. TRUE \in TrimFlags
    BY <1>1, <1>2 DEF TrimFlags, MayTrim
  <2> QED BY <2>1, <2>2, PlaceInv DEF AddFile, Making
<1>3. CASE VPath(f) # RelPath(f)
  <2>1. Place(f, FALSE)
    <3>1. (VPath(f) = RelPath(f)) = FALSE
      BY <1>3
    <3>2. Place(f, VPath(f) = RelPath(f))
      BY DEF AddFile
    <3> QED BY <3>1, <3>2
  <2>2. FALSE \in TrimFlags
    <3>1. MayTrim(f) = FALSE
      BY <1>1, <1>3 DEF MayTrim
    <3> QED BY <3>1, <1>1 DEF TrimFlags
  <2> QED BY <2>1, <2>2, PlaceInv DEF AddFile, Making
<1> QED BY <1>2, <1>3

LEMMA AddGeneratedInv == ASSUME TreeInv, NEW f \in todo, AddGenerated(f) PROVE TreeInv'
<1>1. f \in prj.files /\ f \in DOMAIN prj.source
  BY DEF TreeInv, Typed, WhileMade, Making, AddGenerated
<1>2. TRUE \in TrimFlags
  BY <1>1 DEF TrimFlags, MayTrim
<1> QED BY <1>2, PlaceInv DEF AddGenerated, Making

LEMMA EndFilesInv == ASSUME TreeInv, EndFiles PROVE TreeInv'
<1>1. /\ phase = "files" /\ phase' = "generated" /\ todo \subseteq DOMAIN prj.source
      /\ prj' = prj /\ todo' = todo /\ nodes' = nodes /\ trimmed' = trimmed
  BY DEF EndFiles, Listed
<1>2. Where' = Where /\ TrimFlags' = TrimFlags
  BY <1>1, SameWhere
<1> QED BY <1>1, <1>2 DEF TreeInv, Typed, WhileMade, WhenMade, WhereShown, Making

-----------------------------------------------------------------------------
(* What is left of a virtual path                                          *)

\* Leading ".." of a path from level k + 1 on, m at most
Dots(path, k, m) ==
  {n \in 0..m : k + n <= Len(path) /\ \A l \in 1..n : path[k + l] = DotDot}

Gone(path, k, m) == CHOOSE n \in Dots(path, k, m) : \A l \in Dots(path, k, m) : l <= n

LEMMA RemainingGone ==
  ASSUME NEW path, NEW k, NEW m
  PROVE  Remaining(path, k, m) = SubSeq(path, k + Gone(path, k, m) + 1, Len(path))
BY DEF Remaining, Gone, Dots

LEMMA GoneMost ==
  ASSUME NEW path \in Seq(Label), NEW k \in 0..Len(path), NEW m \in Nat
  PROVE  /\ Gone(path, k, m) \in Dots(path, k, m)
         /\ \A l \in Dots(path, k, m) : l <= Gone(path, k, m)
<1>1. 0 \in Dots(path, k, m) /\ Dots(path, k, m) \in SUBSET (0..m)
  BY DEF Dots
<1>2. PICK n \in Dots(path, k, m) : \A l \in Dots(path, k, m) : l <= n
  BY <1>1, GreatestUpTo
<1> QED BY <1>2 DEF Gone

\* With one more ".." allowed, a leading one goes, and nothing else does.
RemainingSteps(path, k, m) ==
  LET rest == Remaining(path, k, m)
  IN  /\ rest \in Seq(Label)
      /\ Remaining(path, k, m + 1) = IF rest # << >> /\ rest[1] = DotDot THEN Tail(rest) ELSE rest

LEMMA RemainingStep ==
  ASSUME NEW path \in Seq(Label), NEW k \in 0..Len(path), NEW m \in Nat
  PROVE  RemainingSteps(path, k, m)
<1> DEFINE g == Gone(path, k, m)
           h == Gone(path, k, m + 1)
           N == Len(path)
           rest == Remaining(path, k, m)
<1>1. N \in Nat /\ m + 1 \in Nat /\ k \in Nat
  OBVIOUS
<1>2. g \in Dots(path, k, m) /\ \A l \in Dots(path, k, m) : l <= g
  BY GoneMost
<1>3. h \in Dots(path, k, m + 1) /\ \A l \in Dots(path, k, m + 1) : l <= h
  BY <1>1, GoneMost
<1>4. rest = SubSeq(path, k + g + 1, N) /\ Remaining(path, k, m + 1) = SubSeq(path, k + h + 1, N)
  BY RemainingGone
<1> HIDE DEF g, h, rest
<1>5. /\ g \in 0..m /\ k + g <= N /\ \A l \in 1..g : path[k + l] = DotDot
      /\ h \in 0..(m + 1) /\ k + h <= N /\ \A l \in 1..h : path[k + l] = DotDot
  BY <1>2, <1>3 DEF Dots
<1>6. /\ rest \in Seq(Label) /\ Len(rest) = N - (k + g)
      /\ \A l \in 1..(N - (k + g)) : rest[l] = path[l + (k + g)]
  <2> DEFINE a == k + g + 1
  <2>1. a \in Int /\ N \in Int /\ N - a + 1 = N - (k + g) /\ a \in 1..(N + 1)
    BY <1>1, <1>5
  <2>2. \A l \in 1..(N - (k + g)) : a + l - 1 = l + (k + g)
    BY <1>1, <1>5
  <2>3. IF a <= N THEN N - a + 1 = N - (k + g) ELSE N - (k + g) = 0
    BY <1>1, <1>5
  <2> HIDE DEF a
  <2>4. \A l \in a..N : path[l] \in Label
    BY <2>1, <1>1
  <2>5. /\ SubSeq(path, a, N) \in Seq(Label)
        /\ Len(SubSeq(path, a, N)) = IF a <= N THEN N - a + 1 ELSE 0
        /\ \A l \in 1..(N - a + 1) : SubSeq(path, a, N)[l] = path[a + l - 1]
    BY <2>1, <2>4, SubSeqProperties
  <2>6. rest = SubSeq(path, a, N)
    BY <1>4 DEF a
  <2> QED BY <2>1, <2>2, <2>3, <2>5, <2>6
<1>7. CASE rest # << >> /\ rest[1] = DotDot
  <2>1. k + g + 1 <= N /\ path[k + (g + 1)] = DotDot
    <3>1. Len(rest) > 0
      BY <1>6, <1>7
    <3> QED BY <3>1, <1>5, <1>6, <1>7
  <2>2. \A l \in 1..(g + 1) : path[k + l] = DotDot
    <3>1. \A l \in 1..(g + 1) : l \in 1..g \/ l = g + 1
      BY <1>5
    <3> QED BY <3>1, <2>1, <1>5
  <2>3. g = m
    <3>1. g < m => g + 1 \in Dots(path, k, m)
      BY <2>1, <2>2, <1>5 DEF Dots
    <3>2. ~ (g + 1 <= g)
      BY <1>5
    <3> QED BY <3>1, <3>2, <1>2, <1>5
  <2>4. h = g + 1
    <3>1. g + 1 \in Dots(path, k, m + 1)
      BY <2>1, <2>2, <2>3, <1>1, <1>5 DEF Dots
    <3> QED BY <3>1, <2>3, <1>3, <1>5
  <2>5. SubSeq(path, k + h + 1, N) = Tail(rest)
    <3>1. /\ Tail(rest) \in Seq(Label) /\ Len(Tail(rest)) = N - (k + g) - 1
          /\ \A l \in 1..(N - (k + g) - 1) : Tail(rest)[l] = rest[l + 1]
      BY <1>6, <1>7, HeadTailProperties
    <3> DEFINE s == SubSeq(path, k + h + 1, N)
    <3>2. /\ s \in Seq(Label) /\ Len(s) = N - (k + h)
          /\ \A l \in 1..(N - (k + h)) : s[l] = path[l + (k + h)]
      BY <1>1, <1>5
    <3> HIDE DEF s
    <3>3. ASSUME NEW l \in 1..Len(s) PROVE s[l] = Tail(rest)[l]
      <4>1. l \in 1..(N - (k + h)) /\ l + (k + h) = (l + 1) + (k + g) /\ l \in 1..(N - (k + g) - 1)
            /\ l + 1 \in 1..(N - (k + g))
        BY <3>2, <2>4, <1>1, <1>5
      <4>2. s[l] = path[l + (k + h)] /\ Tail(rest)[l] = rest[l + 1] /\ rest[l + 1] = path[(l + 1) + (k + g)]
        BY <4>1, <3>1, <3>2, <1>6
      <4> QED BY <4>1, <4>2
    <3>4. Len(s) = Len(Tail(rest))
      BY <3>1, <3>2, <2>4, <1>5, <1>1
    <3>5. s = Tail(rest)
      BY <3>1, <3>2, <3>3, <3>4, SeqEqual
    <3> QED BY <3>5 DEF s
  <2> QED BY <2>5, <1>4, <1>6, <1>7 DEF RemainingSteps, rest
<1>8. CASE ~ (rest # << >> /\ rest[1] = DotDot)
  <2>1. k + g + 1 <= N => path[k + (g + 1)] # DotDot
    <3>1. ASSUME k + g + 1 <= N PROVE rest # << >> /\ rest[1] = path[k + (g + 1)]
      <4>1. Len(rest) > 0 /\ 1 \in 1..(N - (k + g)) /\ 1 + (k + g) = k + (g + 1)
        BY <3>1, <1>1, <1>5, <1>6
      <4> QED BY <4>1, <1>6
    <3> QED BY <3>1, <1>8
  <2>2. h <= g
    <3>1. SUFFICES ASSUME g < h PROVE FALSE
      BY <1>5
    <3>2. g + 1 \in 1..h /\ k + g + 1 <= N
      BY <3>1, <1>5
    <3> QED BY <3>2, <2>1, <1>5
  <2>3. g \in Dots(path, k, m + 1)
    BY <1>5 DEF Dots
  <2>4. h = g
    BY <2>2, <2>3, <1>3, <1>5
  <2> QED BY <2>4, <1>4, <1>6, <1>8 DEF RemainingSteps, rest
<1> QED BY <1>7, <1>8

LEMMA RemainingNone ==
  ASSUME NEW path \in Seq(Label), NEW k \in 0..Len(path)
  PROVE  Remaining(path, k, 0) = SubSeq(path, k + 1, Len(path))
<1>1. Gone(path, k, 0) \in Dots(path, k, 0)
  BY GoneMost
<1>2. Gone(path, k, 0) = 0
  BY <1>1 DEF Dots
<1> QED BY <1>2, RemainingGone

-----------------------------------------------------------------------------
(* The inductive invariant: when the tree is made                          *)

\* A node is made after those above it.
LEMMA ChainShort ==
  ASSUME NEW tr, Rising(tr), NEW n \in 1..Len(tr)
  PROVE  Len(Chain(tr, n)) < n /\ Len(Chain(tr, n)) \in Nat
<1> DEFINE N == Len(tr)
           S == {m \in 1..N : Len(Chain(tr, m)) < m}
<1>1. N \in Nat /\ Chains(tr)
  BY NodeTypes, ChainStep DEF Rising
<1>2. ASSUME NEW m \in 1..N, \A l \in 1..(m - 1) : l \in S PROVE m \in S
  <2>1. CASE m = 1
    <3>1. Len(Chain(tr, m)) = 0
      BY <1>1, <2>1 DEF Chains, Root
    <3> QED BY <2>1, <3>1
  <2>2. CASE m # 1
    <3>1. tr[m].parent \in 1..(m - 1) /\ m \in 2..N
      BY <2>2, <1>1 DEF Rising
    <3>2. Len(Chain(tr, tr[m].parent)) < tr[m].parent /\ tr[m].parent \in 1..N
      BY <3>1, <1>2
    <3>3. Chain(tr, m) = Append(Chain(tr, tr[m].parent), tr[m].name) /\ Chain(tr, tr[m].parent) \in Seq(TreeName)
      BY <1>1, <3>1, <3>2 DEF Chains
    <3>4. Len(Chain(tr, m)) = Len(Chain(tr, tr[m].parent)) + 1
      BY <3>3
    <3> QED BY <3>1, <3>2, <3>3, <3>4
  <2> QED BY <2>1, <2>2
<1>3. 1..N \subseteq S
  <2> HIDE DEF S
  <2> QED BY <1>1, <1>2, StrongInduction
<1>4. Chain(tr, n) \in Seq(TreeName)
  BY <1>1 DEF Chains
<1> QED BY <1>3, <1>4

\* Nothing is trimmed yet.
LEMMA BuiltUntrimmed ==
  ASSUME NEW tr, NEW W, NEW placed, placed \subseteq DOMAIN W, WellPlaced(W), Grown(tr), Built(tr, W, placed)
  PROVE  TrimmedTo(tr, W, 0, 0) /\ (Plain(W) => PathsAreChains(tr))
<1> DEFINE L == Len(tr)
<1>1. L \in Nat /\ Rising(tr) /\ Kept(tr) = 1..L
  BY NodeTypes DEF Grown, Tree, Rising
<1>2. \A f \in DOMAIN W : Below(W[f]) \in Seq(Label)
  BY BelowType DEF WellPlaced
<1>3. Common(W, 0)
  <2>1. ASSUME NEW f \in DOMAIN W
        PROVE  0 <= Len(Below(W[f])) /\ SubSeq(Below(W[f]), 1, 0) = << >>
    <3>1. Below(W[f]) \in Seq(Label)
      BY <1>2
    <3> QED BY <3>1
  <2> QED BY <2>1 DEF Common
<1>4. Cut(tr, W, 0, 0)
  <2>1. ASSUME NEW n \in 2..L, ~ IsFolder(tr, n)
        PROVE  Chain(tr, n) = Append(Remaining(Below(W[tr[n].file]), 0, 0), Last(tr[n].file))
    <3> DEFINE B == Below(W[tr[n].file])
    <3>1. tr[n].file \in DOMAIN W
      BY <2>1 DEF Built, Nodes
    <3>2. B \in Seq(Label)
      BY <1>2, <3>1
    <3> HIDE DEF B
    <3>3. Remaining(B, 0, 0) = SubSeq(B, 0 + 1, Len(B))
      <4>1. 0 \in 0..Len(B)
        BY <3>2
      <4> QED BY <3>2, <4>1, RemainingNone
    <3>4. Remaining(B, 0, 0) = B
      BY <3>2, <3>3
    <3>5. Chain(tr, n) = ShownAs(W, tr[n].file)
      BY <2>1 DEF Built, Chained
    <3> QED BY <3>4, <3>5 DEF ShownAs, B
  <2> QED BY <2>1 DEF Cut
<1>5. \A n \in Kept(tr) \ {Root} : 0 + 0 + Len(Chain(tr, n)) < n
  <2>1. ASSUME NEW n \in Kept(tr) PROVE 0 + 0 + Len(Chain(tr, n)) < n
    <3>1. Len(Chain(tr, n)) < n /\ Len(Chain(tr, n)) \in Nat /\ n \in Nat
      BY <1>1, ChainShort
    <3> QED BY <3>1
  <2> QED BY <2>1
<1>6. ASSUME Plain(W) PROVE PathsAreChains(tr)
  <2>1. ASSUME NEW n \in Kept(tr) \ {Root}, IsFolder(tr, n) PROVE tr[n].path = Chain(tr, n)
    <3>1. n \in 2..L
      BY <1>1 DEF Root
    <3>2. /\ \E f \in DOMAIN W : \E k \in 1..Len(W[f]) : tr[n].path = SubSeq(W[f], 1, k)
          /\ Chain(tr, n) = Below(tr[n].path)
      BY <2>1, <3>1 DEF Built, Chained
    <3>3. tr[n].path \in Seq(Name)
      BY <1>6, <3>2 DEF Plain
    <3>4. tr[n].path # << >> => tr[n].path[1] \in Name
      BY <3>3
    <3>5. Below(tr[n].path) = tr[n].path
      BY <3>4, Specials DEF Below
    <3> QED BY <3>2, <3>5
  <2> QED BY <2>1 DEF PathsAreChains
<1> QED BY <1>1, <1>3, <1>4, <1>5, <1>6 DEF TrimmedTo

LEMMA EndGeneratedInv == ASSUME TreeInv, EndGenerated PROVE TreeInv'
<1>1. /\ phase = "generated" /\ phase' = "trim" /\ todo = {}
      /\ prj' = prj /\ todo' = todo /\ nodes' = nodes /\ trimmed' = trimmed
  BY DEF EndGenerated
<1>2. Where' = Where /\ TrimFlags' = TrimFlags
  BY <1>1, SameWhere
<1>3. ~ trimmed /\ Grown(nodes) /\ prj \in Project /\ Len(nodes) \in Nat
  BY <1>1, NodeTypes DEF TreeInv, Typed, WhileMade, Making, Tree, Rising
<1>4. ASSUME Apart(Where)
      PROVE  /\ Nodes(nodes, Where, prj.files) /\ OneOfAName(nodes, Where)
             /\ Plain(Where) => PathsAreChains(nodes)
             /\ TrimmedTo(nodes, Where, 0, 0)
  <2>1. Built(nodes, Where, prj.files \ todo) /\ prj.files \ todo = prj.files
    BY <1>1, <1>4 DEF TreeInv, WhileMade, Making
  <2>2. Built(nodes, Where, prj.files)
    BY <2>1
  <2>3. WellPlaced(Where) /\ DOMAIN Where = prj.files
    BY <1>3, WhereFacts
  <2> QED BY <2>2, <2>3, <1>3, BuiltUntrimmed DEF Built
<1>5. WhereShown'
  <2>1. ASSUME Apart(Where) PROVE \E k, m \in 0..Len(nodes) : TrimmedTo(nodes, Where, k, m) /\ m = 0
    <3>1. 0 \in 0..Len(nodes)
      BY <1>3
    <3> QED BY <3>1, <2>1, <1>4
  <2> QED BY <2>1, <1>1, <1>2, <1>3, <1>4 DEF WhereShown
<1> QED BY <1>1, <1>2, <1>5 DEF TreeInv, Typed, WhileMade, WhenMade, Making

-----------------------------------------------------------------------------
(* Nodes are taken away                                                    *)

\* Tree t is tree tr with the children of node n in its place.
IsLift(tr, n, t) ==
  /\ t \in Seq(TreeNode) /\ Len(t) = Len(tr)
  /\ \A x \in 1..Len(tr) :
       /\ t[x].name = tr[x].name /\ t[x].path = tr[x].path /\ t[x].file = tr[x].file
       /\ t[x].trim = tr[x].trim
  /\ t[Root].children = (tr[Root].children \ {n}) \union tr[n].children
  /\ \A x \in 2..Len(tr) :
       /\ t[x].children = tr[x].children
       /\ t[x].parent = IF x \in tr[n].children THEN Root ELSE tr[x].parent

LEMMA LiftedFacts ==
  ASSUME Rising(nodes), NEW n \in 1..Len(nodes)
  PROVE  IsLift(nodes, n, Lifted(n))
<1> DEFINE L == Len(nodes)
           kids == (nodes[Root].children \ {n}) \union nodes[n].children
           Moved(x) == IF x = Root THEN [nodes[x] EXCEPT !.children = kids]
                       ELSE IF x \in nodes[n].children THEN [nodes[x] EXCEPT !.parent = Root]
                       ELSE nodes[x]
<1>1. /\ L \in Nat /\ \A x \in 1..L : nodes[x] \in TreeNode
      /\ Root \in 1..L /\ Root \in Nat
  BY NodeTypes DEF Rising, Root
<1>2. kids \in SUBSET Nat
  BY <1>1 DEF TreeNode
<1> HIDE DEF kids
<1>3. ASSUME NEW x \in 1..L
      PROVE  /\ Moved(x) \in TreeNode
             /\ Moved(x).name = nodes[x].name /\ Moved(x).path = nodes[x].path
             /\ Moved(x).file = nodes[x].file /\ Moved(x).trim = nodes[x].trim
             /\ Moved(x).children = IF x = Root THEN kids ELSE nodes[x].children
             /\ x # Root => Moved(x).parent = IF x \in nodes[n].children THEN Root ELSE nodes[x].parent
  <2>1. nodes[x] \in TreeNode
    BY <1>1
  <2> QED BY <2>1, <1>1, <1>2 DEF TreeNode
<1>4. Lifted(n) = [x \in 1..L |-> Moved(x)]
  BY DEF Lifted, kids
<1> HIDE DEF Moved
<1>5. Lifted(n) \in Seq(TreeNode) /\ Len(Lifted(n)) = L /\ \A x \in 1..L : Lifted(n)[x] = Moved(x)
  BY <1>1, <1>3, <1>4
<1>6. \A x \in 2..L : x \in 1..L /\ x # Root
  BY <1>1 DEF Root
<1> HIDE DEF L
<1>7. /\ \A x \in 1..L :
           /\ Lifted(n)[x].name = nodes[x].name /\ Lifted(n)[x].path = nodes[x].path
           /\ Lifted(n)[x].file = nodes[x].file /\ Lifted(n)[x].trim = nodes[x].trim
      /\ Lifted(n)[Root].children = kids
      /\ \A x \in 2..L :
           /\ Lifted(n)[x].children = nodes[x].children
           /\ Lifted(n)[x].parent = IF x \in nodes[n].children THEN Root ELSE nodes[x].parent
  BY <1>1, <1>3, <1>5, <1>6
<1> QED BY <1>5, <1>7 DEF IsLift, kids, L

\* Only node n leaves the tree.
LEMMA LiftTree ==
  ASSUME NEW tr, NEW t, Tree(tr), NEW n \in tr[Root].children, IsLift(tr, n, t)
  PROVE  /\ Tree(t) /\ Kept(t) = Kept(tr) \ {n}
         /\ n \in 2..Len(tr) /\ n \in Kept(tr) /\ tr[n].parent = Root
<1> DEFINE L == Len(tr)
<1>1. L \in Nat /\ L > 0 /\ Rising(tr) /\ Root \in Kept(tr) /\ Root = 1
  BY NodeTypes DEF Tree, Rising, Kept, Root
<1>2. n \in 2..L /\ tr[n].parent = Root /\ n \in Kept(tr) /\ n # Root
  <2>1. n \in 2..L /\ tr[n].parent = Root
    BY <1>1 DEF Tree
  <2> QED BY <2>1, <1>1 DEF Kept
<1>3. \A x \in tr[n].children : x \in 2..L /\ tr[x].parent = n
  BY <1>2 DEF Tree
<1>4. \A x \in 2..L : /\ t[x].parent = IF x \in tr[n].children THEN Root ELSE tr[x].parent
                      /\ t[x].children = tr[x].children
                      /\ tr[x].parent \in 1..(x - 1)
  BY <1>1 DEF IsLift, Rising
<1>5. t[Root].children = (tr[Root].children \ {n}) \union tr[n].children /\ t \in Seq(TreeNode) /\ Len(t) = L
  BY DEF IsLift
<1>6. n \notin tr[n].children
  BY <1>2, <1>3, <1>1
<1>7. ASSUME NEW x \in 2..L PROVE x \in t[t[x].parent].children <=> (x \in tr[tr[x].parent].children /\ x # n)
  <2>1. CASE x \in tr[n].children
    BY <2>1, <1>3, <1>4, <1>5, <1>6
  <2>2. CASE x \notin tr[n].children /\ tr[x].parent = Root
    BY <2>2, <1>2, <1>4, <1>5
  <2>3. CASE x \notin tr[n].children /\ tr[x].parent # Root
    <3>1. tr[x].parent \in 2..L /\ x # n /\ t[x].parent = tr[x].parent
      BY <2>3, <1>1, <1>2, <1>4
    <3> QED BY <3>1, <1>4
  <2> QED BY <2>1, <2>2, <2>3
<1>8. Kept(t) = Kept(tr) \ {n}
  <2>1. \A x \in 1..L : x = Root \/ x \in 2..L
    BY <1>1
  <2> QED BY <2>1, <1>2, <1>5, <1>7 DEF Kept
<1>9. Rising(t)
  <2>1. ASSUME NEW x \in 2..L PROVE t[x].parent \in 1..(x - 1)
    <3>1. t[x].parent = Root \/ t[x].parent = tr[x].parent
      BY <1>4
    <3>2. Root \in 1..(x - 1)
      BY <1>1
    <3> QED BY <3>1, <3>2, <1>4
  <2> QED BY <2>1, <1>1, <1>5 DEF Rising
<1>10. ASSUME NEW x \in Kept(t) \ {Root} PROVE t[x].parent \in Kept(t)
  <2>1. x \in 2..L /\ x \in Kept(tr)
    BY <1>1, <1>5, <1>8 DEF Kept
  <2>2. CASE x \in tr[n].children
    BY <2>1, <2>2, <1>1, <1>2, <1>4, <1>8
  <2>3. CASE x \notin tr[n].children
    <3>1. tr[x].parent \in Kept(tr)
      BY <2>1, <1>10 DEF Tree
    <3>2. tr[x].parent # n
      BY <2>1, <2>3, <1>10 DEF Kept
    <3> QED BY <3>1, <3>2, <2>1, <2>3, <1>4, <1>8
  <2> QED BY <2>2, <2>3
<1>11. ASSUME NEW p \in Kept(t), NEW c \in t[p].children PROVE c \in 2..L /\ t[c].parent = p
  <2>1. p \in Kept(tr) /\ p # n /\ p \in 1..L
    BY <1>8 DEF Kept
  <2>2. CASE p = Root
    <3>1. CASE c \in tr[n].children
      BY <3>1, <2>2, <1>3, <1>4
    <3>2. CASE c \notin tr[n].children
      <4>1. c \in tr[Root].children
        BY <3>2, <2>2, <1>5
      <4>2. c \in 2..L /\ tr[c].parent = Root
        BY <4>1, <1>1 DEF Tree
      <4> QED BY <4>2, <3>2, <2>2, <1>4
    <3> QED BY <3>1, <3>2
  <2>3. CASE p # Root
    <3>1. p \in 2..L /\ c \in tr[p].children
      BY <2>1, <2>3, <1>1, <1>4
    <3>2. c \in 2..L /\ tr[c].parent = p
      BY <2>1, <3>1 DEF Tree
    <3>3. c \notin tr[n].children
      BY <3>2, <2>1, <1>3
    <3> QED BY <3>2, <3>3, <1>4
  <2> QED BY <2>2, <2>3
<1>12. Tree(t)
  BY <1>5, <1>9, <1>10, <1>11 DEF Tree
<1> QED BY <1>2, <1>8, <1>12

\* An item in front stays in front.
LEMMA AppendBehind ==
  ASSUME NEW S, NEW a \in S, NEW s \in Seq(S), NEW e \in S
  PROVE  Append(<<a>> \o s, e) = <<a>> \o Append(s, e)
<1>1. <<a>> \in Seq(S) /\ <<e>> \in Seq(S)
  OBVIOUS
<1>2. <<a>> \o s \in Seq(S)
  BY <1>1
<1>3. Append(<<a>> \o s, e) = (<<a>> \o s) \o <<e>> /\ Append(s, e) = s \o <<e>>
  BY <1>2, AppendIsConcat
<1> QED BY <1>1, <1>3, ConcatAssociative

LEMMA TwoNames ==
  ASSUME NEW S, NEW a \in S, NEW b \in S
  PROVE  Append(Append(<< >>, a), b) = <<a>> \o Append(<< >>, b)
<1>1. << >> \in Seq(S) /\ <<a>> \in Seq(S) /\ Append(<< >>, a) = <<a>>
  OBVIOUS
<1>2. <<a>> \o << >> = <<a>>
  BY <1>1, ConcatEmptySeq
<1>3. Append(<<a>> \o << >>, b) = <<a>> \o Append(<< >>, b)
  BY <1>1, AppendBehind
<1> QED BY <1>1, <1>2, <1>3

\* The chains lose the name of n, or start with another folder below the root.
LiftedChain(tr, n, t, x) ==
  \/ Chain(tr, x) = <<tr[n].name>> \o Chain(t, x)
  \/ /\ Chain(t, x) = Chain(tr, x)
     /\ \E r \in tr[Root].children \ {n} : Chain(tr, x)[1] = tr[r].name

LEMMA LiftChains ==
  ASSUME NEW tr, NEW t, Tree(tr), NEW n \in tr[Root].children, IsLift(tr, n, t)
  PROVE  \A x \in Kept(t) \ {Root} : LiftedChain(tr, n, t, x) /\ Chain(t, x) # << >>
<1> DEFINE L == Len(tr)
           S == {x \in 1..L : x \in Kept(t) \ {Root} => LiftedChain(tr, n, t, x) /\ Chain(t, x) # << >>}
<1>1. /\ Tree(t) /\ Kept(t) = Kept(tr) \ {n} /\ Rising(tr) /\ Rising(t) /\ Len(t) = L /\ L \in Nat
      /\ n \in 2..L /\ tr[n].parent = Root
  <2>1. Tree(t) /\ Kept(t) = Kept(tr) \ {n} /\ n \in 2..L /\ tr[n].parent = Root
    BY LiftTree
  <2>2. Len(t) = L
    BY DEF IsLift
  <2>3. Rising(tr) /\ Rising(t) /\ L \in Nat
    BY <2>1, NodeTypes DEF Tree, Rising
  <2> QED BY <2>1, <2>2, <2>3
<1>2. Chains(tr) /\ Chains(t)
  BY <1>1, ChainStep
<1>3. \A x \in 2..L : /\ t[x].parent = IF x \in tr[n].children THEN Root ELSE tr[x].parent
                      /\ t[x].name = tr[x].name /\ tr[x].name \in TreeName
  <2>1. \A x \in 2..L : x \in 1..L
    BY <1>1
  <2> QED BY <2>1, <1>1, NodeTypes DEF IsLift
<1>4. \A x \in tr[n].children : x \in 2..L /\ tr[x].parent = n
  BY <1>1, LiftTree DEF Tree
<1>5. Chain(tr, n) = Append(<< >>, tr[n].name) /\ tr[n].name \in TreeName
  BY <1>1, <1>2, <1>3 DEF Chains
<1>6. ASSUME NEW x \in 1..L, \A l \in 1..(x - 1) : l \in S PROVE x \in S
  <2> SUFFICES ASSUME x \in Kept(t) \ {Root}
               PROVE  LiftedChain(tr, n, t, x) /\ Chain(t, x) # << >>
    OBVIOUS
  <2> DEFINE p == tr[x].parent
  <2>1. x \in 2..L /\ x \in Kept(tr) /\ x # n /\ p \in 1..(x - 1)
    <3>1. x \in 2..L
      BY <1>1 DEF Root
    <3> QED BY <3>1, <1>1 DEF Rising
  <2>2. /\ Chain(tr, x) = Append(Chain(tr, p), tr[x].name) /\ Chain(tr, p) \in Seq(TreeName)
        /\ Chain(t, x) = Append(Chain(t, t[x].parent), tr[x].name) /\ Chain(t, t[x].parent) \in Seq(TreeName)
    <3>1. t[x].parent \in 1..(x - 1) /\ p \in 1..L
      BY <2>1, <1>1 DEF Rising
    <3>2. x \in 2..Len(t) /\ p \in 1..Len(tr) /\ t[x].parent \in 1..Len(t) /\ t[x].name = tr[x].name
      BY <3>1, <2>1, <1>1, <1>3
    <3>3. Chain(tr, x) = Append(Chain(tr, p), tr[x].name) /\ Chain(tr, p) \in Seq(TreeName)
      BY <3>2, <2>1, <1>2 DEF Chains
    <3>4. Chain(t, x) = Append(Chain(t, t[x].parent), t[x].name) /\ Chain(t, t[x].parent) \in Seq(TreeName)
      BY <3>2, <1>2 DEF Chains
    <3> QED BY <3>2, <3>3, <3>4
  <2>3. Chain(t, x) # << >>
    BY <2>1, <2>2, <1>3, AppendProperties
  <2>4. CASE x \in tr[n].children
    <3>1. Chain(tr, x) = Append(Append(<< >>, tr[n].name), tr[x].name)
      BY <2>2, <2>4, <1>4, <1>5
    <3>2. Chain(t, x) = Append(<< >>, tr[x].name)
      BY <2>1, <2>2, <2>4, <1>2, <1>3 DEF Chains
    <3>3. Append(Append(<< >>, tr[n].name), tr[x].name) = <<tr[n].name>> \o Append(<< >>, tr[x].name)
      BY <1>3, <1>5, <2>1, TwoNames
    <3> QED BY <2>3, <3>1, <3>2, <3>3 DEF LiftedChain
  <2>5. CASE x \notin tr[n].children /\ p = Root
    <3>1. x \in tr[Root].children \ {n}
      BY <2>1, <2>5 DEF Kept, Root
    <3>2. Chain(t, x) = Chain(tr, x) /\ Chain(tr, x) = Append(<< >>, tr[x].name)
      BY <2>1, <2>2, <2>5, <1>2, <1>3 DEF Chains
    <3>3. Append(<< >>, tr[x].name)[1] = tr[x].name
      OBVIOUS
    <3> QED BY <2>3, <3>1, <3>2, <3>3 DEF LiftedChain
  <2>6. CASE x \notin tr[n].children /\ p # Root
    <3>1. p # n
      BY <2>1, <2>6 DEF Kept, Root
    <3>2. p \in Kept(tr)
      BY <2>1, <2>6 DEF Tree, Root
    <3>3. p \in S /\ p \in Kept(t) \ {Root}
      BY <3>1, <3>2, <2>1, <2>6, <1>1, <1>6
    <3>4. LiftedChain(tr, n, t, p) /\ Chain(t, p) # << >>
      BY <3>3
    <3>5. Chain(t, x) = Append(Chain(t, p), tr[x].name) /\ Chain(t, p) \in Seq(TreeName)
      BY <2>1, <2>2, <2>6, <1>3
    <3>6. CASE Chain(tr, p) = <<tr[n].name>> \o Chain(t, p)
      <4>1. Append(<<tr[n].name>> \o Chain(t, p), tr[x].name) = <<tr[n].name>> \o Append(Chain(t, p), tr[x].name)
        BY <3>5, <1>3, <1>5, <2>1, AppendBehind
      <4> QED BY <4>1, <3>5, <3>6, <2>2, <2>3 DEF LiftedChain
    <3>7. CASE /\ Chain(t, p) = Chain(tr, p)
               /\ \E r \in tr[Root].children \ {n} : Chain(tr, p)[1] = tr[r].name
      <4>1. Chain(t, x) = Chain(tr, x)
        BY <3>5, <3>7, <2>2
      <4>2. Chain(tr, x)[1] = Chain(tr, p)[1]
        <5>1. Len(Chain(tr, p)) > 0
          BY <3>4, <3>7, <2>2
        <5> QED BY <5>1, <2>2
      <4> QED BY <4>1, <4>2, <3>7, <2>3 DEF LiftedChain
    <3> QED BY <3>4, <3>6, <3>7 DEF LiftedChain
  <2> QED BY <2>4, <2>5, <2>6
<1>7. 1..L \subseteq S
  <2> HIDE DEF S
  <2> QED BY <1>1, <1>6, StrongInduction
<1>8. \A x \in Kept(t) : x \in 1..L
  BY <1>1 DEF Kept
<1> QED BY <1>7, <1>8

LEMMA TreeSize ==
  ASSUME NEW tr, Tree(tr)
  PROVE  /\ Rising(tr) /\ Len(tr) \in Nat /\ Root \in 1..Len(tr) /\ Root \in Kept(tr)
         /\ \A x \in 2..Len(tr) : x \in 1..Len(tr) /\ x # Root
<1>1. Rising(tr) /\ Len(tr) \in Nat /\ Len(tr) > 0
  BY DEF Tree, Rising
<1> QED BY <1>1 DEF Kept, Root

\* Files stay, flags stay.
LEMMA LiftNodes ==
  ASSUME NEW tr, NEW t, Tree(tr), NEW n \in tr[Root].children, tr[n].children # {}, IsLift(tr, n, t),
         NEW W, NEW placed, Nodes(tr, W, placed)
  PROVE  Nodes(t, W, placed)
<1> DEFINE L == Len(tr)
<1>1. /\ L \in Nat /\ Root \in 1..L /\ Len(t) = L /\ Kept(t) = Kept(tr) \ {n}
      /\ \A x \in 2..L : x \in 1..L
  BY LiftTree, TreeSize DEF IsLift
<1>2. /\ \A x \in 1..L : t[x].name = tr[x].name /\ t[x].file = tr[x].file
      /\ \A x \in 2..L : t[x].children = tr[x].children
  BY DEF IsLift
<1>3. IsFolder(t, Root)
  BY <1>1, <1>2 DEF Nodes, IsFolder
<1>4. \A x \in 2..L : t[x].name \in Label /\ (Plain(W) => t[x].name \in Name)
  BY <1>1, <1>2 DEF Nodes
<1>5. ASSUME NEW x \in 2..L, ~ IsFolder(t, x)
      PROVE  /\ t[x].file \in placed /\ t[x].name = Last(t[x].file)
             /\ x \in Kept(t) /\ t[x].children = {}
             /\ \A c \in 2..L : t[c].file = t[x].file => c = x
  <2>1. ~ IsFolder(tr, x)
    BY <1>1, <1>2, <1>5 DEF IsFolder
  <2>2. /\ tr[x].file \in placed /\ tr[x].name = Last(tr[x].file)
        /\ x \in Kept(tr) /\ tr[x].children = {}
        /\ \A c \in 2..L : tr[c].file = tr[x].file => c = x
    BY <2>1 DEF Nodes
  <2>3. x \in Kept(t)
    BY <2>2, <1>1
  <2> QED BY <2>2, <2>3, <1>1, <1>2
<1>6. \A f \in placed : \E x \in 2..L : t[x].file = f
  BY <1>1, <1>2 DEF Nodes
<1> QED BY <1>1, <1>3, <1>4, <1>5, <1>6 DEF Nodes

LEMMA LiftFlagged ==
  ASSUME NEW tr, NEW t, NEW n, IsLift(tr, n, t), Rising(tr), NEW flags, Flagged(tr, flags)
  PROVE  Flagged(t, flags)
<1>1. Len(tr) \in Nat /\ Len(t) = Len(tr)
  BY NodeTypes DEF IsLift, Rising
<1>2. \A x \in 2..Len(tr) : t[x].trim = tr[x].trim /\ t[x].file = tr[x].file
  BY <1>1 DEF IsLift
<1> QED BY <1>1, <1>2 DEF Flagged, IsFolder

\* Only one folder below the root has the name of n, if others are there: "..".
LEMMA LiftOneOfAName ==
  ASSUME NEW tr, NEW t, Tree(tr), NEW n \in tr[Root].children, tr[n].children # {}, IsLift(tr, n, t),
         NEW W, NEW placed, WellPlaced(W), placed \subseteq DOMAIN W,
         Nodes(tr, W, placed), OneOfAName(tr, W),
         tr[Root].children = {n} \/ tr[n].name = DotDot
  PROVE  /\ OneOfAName(t, W)
         /\ \A r \in tr[Root].children \ {n} : tr[r].name # DotDot
<1> DEFINE L == Len(tr)
<1>1. /\ L \in Nat /\ Kept(t) = Kept(tr) \ {n} /\ Root \in Kept(tr)
      /\ n \in 2..L /\ n \in Kept(tr) /\ tr[n].parent = Root
  BY LiftTree, TreeSize
<1>2. \A x \in 2..L : /\ t[x].name = tr[x].name /\ t[x].file = tr[x].file
                      /\ t[x].parent = IF x \in tr[n].children THEN Root ELSE tr[x].parent
  <2>1. \A x \in 2..L : x \in 1..L
    BY <1>1
  <2> QED BY <2>1 DEF IsLift
<1>3. IsFolder(tr, n)
  BY <1>1 DEF Nodes
<1>4. ASSUME NEW r \in tr[Root].children \ {n}
      PROVE  r \in 2..L /\ tr[r].parent = Root /\ r \in Kept(tr) /\ tr[r].name # DotDot
  <2>1. r \in 2..L /\ tr[r].parent = Root
    BY <1>1 DEF Tree
  <2>2. r \in Kept(tr)
    BY <2>1 DEF Kept
  <2>3. ASSUME tr[r].name = DotDot PROVE FALSE
    <3>1. tr[n].name = DotDot
      BY <1>4
    <3>2. IsFolder(tr, r)
      <4>1. ~ IsFolder(tr, r) => tr[r].file \in DOMAIN W /\ tr[r].name = Last(tr[r].file)
        BY <2>1 DEF Nodes
      <4> QED BY <4>1, <2>3, Specials DEF WellPlaced
    <3> QED BY <1>1, <1>3, <1>4, <2>1, <2>2, <2>3, <3>1, <3>2 DEF OneOfAName, Root
  <2> QED BY <2>1, <2>2, <2>3
<1>5. ASSUME NEW a \in Kept(t) \ {Root}, NEW b \in Kept(t) \ {Root},
             IsFolder(t, a), IsFolder(t, b), t[a].parent = t[b].parent,
             t[a].name = t[b].name, t[a].name = DotDot \/ Plain(W)
      PROVE  a = b
  <2>1. a \in 2..L /\ b \in 2..L /\ a \in Kept(tr) \ {Root} /\ b \in Kept(tr) \ {Root} /\ a # n /\ b # n
    BY <1>1 DEF Kept, Root
  <2>2. /\ IsFolder(tr, a) /\ IsFolder(tr, b) /\ tr[a].name = tr[b].name
        /\ tr[a].name = DotDot \/ Plain(W)
    BY <1>2, <1>5, <2>1 DEF IsFolder
  <2>3. CASE tr[a].parent = tr[b].parent
    BY <2>1, <2>2, <2>3 DEF OneOfAName
  <2>4. ASSUME NEW c \in {a, b}, NEW r \in {a, b}, c \in tr[n].children, r \notin tr[n].children,
               tr[r].parent = Root
        PROVE  FALSE
    <3>1. r \in tr[Root].children \ {n}
      BY <2>1, <2>4 DEF Kept
    <3>2. tr[r].name # DotDot /\ tr[n].name = DotDot
      BY <3>1, <1>4
    <3>3. Plain(W)
      BY <2>2, <3>2
    <3>4. tr[n].name \in Name
      BY <1>1, <3>3 DEF Nodes
    <3> QED BY <3>2, <3>4, Specials
  <2>5. CASE tr[a].parent # tr[b].parent
    <3>1. \A x \in tr[n].children : tr[x].parent = n
      BY <1>1 DEF Tree
    <3>2. ~ (a \in tr[n].children /\ b \in tr[n].children)
      BY <2>5, <3>1
    <3>3. a \in tr[n].children \/ b \in tr[n].children
      BY <2>1, <2>5, <1>2, <1>5
    <3>4. CASE a \in tr[n].children /\ b \notin tr[n].children
      <4>1. tr[b].parent = Root
        BY <2>1, <3>4, <1>2, <1>5
      <4> QED BY <4>1, <3>4, <2>4
    <3>5. CASE b \in tr[n].children /\ a \notin tr[n].children
      <4>1. tr[a].parent = Root
        BY <2>1, <3>5, <1>2, <1>5
      <4> QED BY <4>1, <3>5, <2>4
    <3> QED BY <3>2, <3>3, <3>4, <3>5
  <2> QED BY <2>3, <2>5
<1> QED BY <1>4, <1>5 DEF OneOfAName

\* What follows the first name.
Peels(s, e, a, c) == Append(s, e) = <<a>> \o c

LEMMA PeelOff ==
  ASSUME NEW S, NEW s \in Seq(S), NEW e \in S, NEW a \in S, NEW c \in Seq(S), c # << >>,
         Peels(s, e, a, c)
  PROVE  s # << >> /\ s[1] = a /\ c = Append(Tail(s), e)
<1>0. Append(s, e) = <<a>> \o c
  BY DEF Peels
<1>1. /\ Head(Append(s, e)) = IF s = << >> THEN e ELSE Head(s)
      /\ Tail(Append(s, e)) = IF s = << >> THEN << >> ELSE Append(Tail(s), e)
  BY HeadTailAppend
<1>2. Head(<<a>> \o c) = a /\ Tail(<<a>> \o c) = c
  <2>1. <<a>> \in Seq(S) /\ Len(<<a>>) = 1
    OBVIOUS
  <2>2. /\ <<a>> \o c \in Seq(S) /\ Len(<<a>> \o c) = 1 + Len(c)
        /\ \A l \in 1..(1 + Len(c)) : (<<a>> \o c)[l] = IF l <= 1 THEN <<a>>[l] ELSE c[l - 1]
    BY <2>1, ConcatProperties
  <2> DEFINE d == <<a>> \o c
  <2>3. d # << >> /\ d[1] = a /\ Len(c) \in Nat
    BY <2>2
  <2> HIDE DEF d
  <2>4. d \in Seq(S) /\ Len(d) = 1 + Len(c) /\ \A l \in 1..Len(c) : d[l + 1] = c[l]
    <3>1. \A l \in 1..Len(c) : l + 1 \in 1..(1 + Len(c)) /\ ~ (l + 1 <= 1) /\ (l + 1) - 1 = l
      BY <2>3
    <3> QED BY <3>1, <2>2 DEF d
  <2>5. Tail(d) \in Seq(S) /\ Len(Tail(d)) = Len(c) /\ \A l \in 1..Len(c) : Tail(d)[l] = d[l + 1]
    BY <2>3, <2>4, HeadTailProperties
  <2>6. Tail(d) = c
    BY <2>4, <2>5, SeqEqual
  <2>7. Head(d) = a
    BY <2>3, <2>4
  <2> QED BY <2>6, <2>7 DEF d
<1>3. s # << >>
  BY <1>0, <1>1, <1>2
<1>4. s[1] = a
  <2>1. Head(s) = a
    BY <1>0, <1>1, <1>2, <1>3
  <2> QED BY <2>1, <1>3
<1> QED BY <1>0, <1>1, <1>2, <1>3, <1>4

\* Where a file is after a lift, and where it was.
FileLifted(tr, n, t, W, f, rest) ==
  \/ rest # << >> /\ rest[1] = tr[n].name
     /\ \A x \in 2..Len(tr) : tr[x].file = f => Chain(t, x) = Append(Tail(rest), Last(f))
  \/ /\ rest # << >> => \E r \in tr[Root].children \ {n} : rest[1] = tr[r].name
     /\ tr[Root].children # {n}
     /\ \A x \in 2..Len(tr) : tr[x].file = f => Chain(t, x) = Append(rest, Last(f))

LEMMA FileLift ==
  ASSUME NEW tr, NEW t, Tree(tr), NEW n \in tr[Root].children, tr[n].children # {}, IsLift(tr, n, t),
         NEW W, WellPlaced(W), Nodes(tr, W, DOMAIN W), NEW k, NEW m, Cut(tr, W, k, m),
         NEW f \in DOMAIN W, Remaining(Below(W[f]), k, m) \in Seq(Label)
  PROVE  FileLifted(tr, n, t, W, f, Remaining(Below(W[f]), k, m))
<1> DEFINE L == Len(tr)
           R == Remaining(Below(W[f]), k, m)
<1>1. PICK x \in 2..L : tr[x].file = f
  BY DEF Nodes
<1>2. f # NoFile /\ Last(f) \in TreeName
  BY DEF WellPlaced, TreeName, Segment
<1>3. /\ ~ IsFolder(tr, x) /\ x \in Kept(tr) /\ tr[x].children = {}
      /\ \A y \in 2..L : tr[y].file = f => y = x
  BY <1>1, <1>2 DEF Nodes, IsFolder
<1>4. x \in Kept(t) \ {Root} /\ x \in 1..L /\ L \in Nat
  BY <1>1, <1>3, LiftTree, TreeSize
<1>5. LiftedChain(tr, n, t, x) /\ Chain(t, x) # << >>
  BY <1>4, LiftChains
<1>6. Chain(tr, x) = Append(R, Last(f))
  BY <1>1, <1>3 DEF Cut
<1>7. R \in Seq(TreeName)
  BY SeqMonotonic DEF Label, TreeName, Segment
<1>8. Chain(t, x) \in Seq(TreeName) /\ tr[n].name \in TreeName
  <2>1. Rising(t) /\ Len(t) = L /\ n \in 1..L /\ Rising(tr)
    BY LiftTree, TreeSize DEF Tree, IsLift
  <2> QED BY <2>1, <1>4, ChainStep, NodeTypes DEF Chains
<1> HIDE DEF R
<1>9. CASE Chain(tr, x) = <<tr[n].name>> \o Chain(t, x)
  <2>1. Append(R, Last(f)) = <<tr[n].name>> \o Chain(t, x)
    BY <1>6, <1>9
  <2>2. R # << >> /\ R[1] = tr[n].name /\ Chain(t, x) = Append(Tail(R), Last(f))
    <3> DEFINE c == Chain(t, x)
               a == tr[n].name
               e == Last(f)
    <3>1. /\ c \in Seq(TreeName) /\ c # << >> /\ a \in TreeName /\ e \in TreeName
          /\ Peels(R, e, a, c)
      BY <2>1, <1>2, <1>5, <1>8 DEF Peels
    <3> HIDE DEF c, a, e
    <3>2. R # << >> /\ R[1] = a /\ c = Append(Tail(R), e)
      BY <3>1, <1>7, PeelOff
    <3> QED BY <3>2 DEF c, a, e
  <2> QED BY <2>2, <1>3 DEF FileLifted, R
<1>10. CASE /\ Chain(t, x) = Chain(tr, x)
            /\ \E r \in tr[Root].children \ {n} : Chain(tr, x)[1] = tr[r].name
  <2>1. R # << >> => Append(R, Last(f))[1] = R[1]
    BY <1>2, <1>7
  <2>2. tr[Root].children # {n}
    BY <1>10
  <2> QED BY <2>1, <2>2, <1>3, <1>6, <1>10 DEF FileLifted, R
<1> QED BY <1>5, <1>9, <1>10 DEF LiftedChain

\* A child of n, two names from the root
LEMMA LiftRoom ==
  ASSUME NEW tr, Tree(tr), NEW n \in tr[Root].children, tr[n].children # {}
  PROVE  \E c \in Kept(tr) \ {Root} : /\ c \in 2..Len(tr) /\ Len(Chain(tr, c)) = 2
                                     /\ Chain(tr, c)[1] = tr[n].name
<1> DEFINE L == Len(tr)
<1>1. /\ Rising(tr) /\ L \in Nat /\ Root \in Kept(tr) /\ Chains(tr)
  BY TreeSize, ChainStep
<1>2. n \in 2..L /\ tr[n].parent = Root
  BY <1>1 DEF Tree
<1>3. n \in Kept(tr)
  BY <1>2 DEF Kept
<1>4. PICK c \in tr[n].children : TRUE
  OBVIOUS
<1>5. c \in 2..L /\ tr[c].parent = n
  BY <1>3 DEF Tree
<1>6. c \in Kept(tr) \ {Root}
  BY <1>4, <1>5 DEF Kept, Root
<1>7. Chain(tr, n) = Append(<< >>, tr[n].name) /\ Chain(tr, c) = Append(Chain(tr, n), tr[c].name)
  BY <1>1, <1>2, <1>5 DEF Chains
<1>8. Len(Chain(tr, c)) = 2 /\ Chain(tr, c)[1] = tr[n].name
  BY <1>7
<1> QED BY <1>5, <1>6, <1>8

\* The folder below the first k.
NextIs(W, k, name) == \A f \in DOMAIN W : Below(W[f])[k + 1] = name

\* The first loop of trimroot takes a folder that all files share.
LEMMA LiftCommon ==
  ASSUME NEW tr, NEW t, Tree(tr), NEW n \in tr[Root].children, tr[n].children # {}, IsLift(tr, n, t),
         tr[Root].children = {n},
         NEW W, WellPlaced(W), Nodes(tr, W, DOMAIN W), NEW k, TrimmedTo(tr, W, k, 0)
  PROVE  TrimmedTo(t, W, k + 1, 0) /\ NextIs(W, k, tr[n].name)
<1> DEFINE L == Len(tr)
<1>1. /\ L \in Nat /\ Len(t) = L /\ k \in Nat /\ Rising(t) /\ Rising(tr)
      /\ Kept(t) = Kept(tr) \ {n}
  <2>1. Tree(t) /\ Kept(t) = Kept(tr) \ {n}
    BY LiftTree
  <2>2. Rising(t) /\ Rising(tr) /\ L \in Nat
    BY <2>1, TreeSize
  <2>3. Len(t) = L
    BY DEF IsLift
  <2> QED BY <2>1, <2>2, <2>3 DEF TrimmedTo
<1>2. ASSUME NEW f \in DOMAIN W
      PROVE  /\ Below(W[f]) \in Seq(Label) /\ k + 1 <= Len(Below(W[f]))
             /\ Below(W[f])[k + 1] = tr[n].name
             /\ Remaining(Below(W[f]), k + 1, 0) = Tail(Remaining(Below(W[f]), k, 0))
             /\ \A x \in 2..L : tr[x].file = f =>
                  Chain(t, x) = Append(Tail(Remaining(Below(W[f]), k, 0)), Last(f))
  <2> DEFINE B == Below(W[f])
             R == Remaining(B, k, 0)
  <2>1. B \in Seq(Label)
    BY BelowType DEF WellPlaced
  <2>2. k <= Len(B) /\ k \in 0..Len(B) /\ Len(B) \in Nat
    BY <2>1, <1>1 DEF TrimmedTo, Common
  <2>3. R = SubSeq(B, k + 1, Len(B))
    <3> HIDE DEF B
    <3> QED BY <2>1, <2>2, RemainingNone
  <2>4. R \in Seq(Label) /\ Len(R) = Len(B) - k /\ \A l \in 1..(Len(B) - k) : R[l] = B[l + k]
    <3> HIDE DEF B, R
    <3> QED BY <2>1, <2>2, <2>3
  <2>5. FileLifted(tr, n, t, W, f, R)
    BY <2>4, FileLift DEF TrimmedTo
  <2>6. /\ R # << >> /\ R[1] = tr[n].name
        /\ \A x \in 2..L : tr[x].file = f => Chain(t, x) = Append(Tail(R), Last(f))
    BY <2>5 DEF FileLifted
  <2> HIDE DEF B, R
  <2>7. k + 1 <= Len(B) /\ B[k + 1] = tr[n].name
    <3>1. Len(R) > 0 /\ 1 \in 1..(Len(B) - k) /\ 1 + k = k + 1
      BY <2>2, <2>4, <2>6, <1>1
    <3> QED BY <3>1, <2>2, <2>4, <2>6, <1>1
  <2>8. Remaining(B, k + 1, 0) = Tail(R)
    <3>1. k + 1 \in 0..Len(B)
      BY <2>2, <2>7, <1>1
    <3>2. Remaining(B, k + 1, 0) = SubSeq(B, (k + 1) + 1, Len(B))
      BY <2>1, <3>1, RemainingNone
    <3>3. Tail(SubSeq(B, k + 1, Len(B))) = SubSeq(B, (k + 1) + 1, Len(B))
      <4>1. k + 1 \in 1..Len(B) /\ Len(B) \in (k + 1)..Len(B)
        BY <2>2, <2>7, <1>1
      <4> QED BY <2>1, <4>1, HeadTailOfSubSeq, SMTT(30)
    <3> QED BY <3>2, <3>3, <2>3
  <2> QED BY <2>1, <2>6, <2>7, <2>8 DEF B, R
<1>3. Common(W, k + 1)
  <2>1. ASSUME NEW f \in DOMAIN W, NEW g \in DOMAIN W
        PROVE  SubSeq(Below(W[f]), 1, k + 1) = SubSeq(Below(W[g]), 1, k + 1)
    <3> DEFINE a == Below(W[f])
               b == Below(W[g])
    <3>1. /\ a \in Seq(Label) /\ b \in Seq(Label) /\ k + 1 <= Len(a) /\ k + 1 <= Len(b)
          /\ a[k + 1] = b[k + 1] /\ SubSeq(a, 1, k) = SubSeq(b, 1, k)
      BY <1>2 DEF TrimmedTo, Common
    <3> HIDE DEF a, b
    <3>2. \A l \in 1..k : SubSeq(a, 1, k)[l] = a[l] /\ SubSeq(b, 1, k)[l] = b[l]
      BY <3>1, <1>1
    <3>3. \A l \in 1..(k + 1) : a[l] = b[l]
      BY <3>1, <3>2, <1>1
    <3>4. SubSeq(a, 1, k + 1) = SubSeq(b, 1, k + 1)
      BY <3>1, <3>3, <1>1, SameParts
    <3> QED BY <3>4 DEF a, b
  <2> QED BY <2>1, <1>2 DEF Common
<1>4. Cut(t, W, k + 1, 0)
  <2>1. ASSUME NEW x \in 2..L, ~ IsFolder(t, x)
        PROVE  Chain(t, x) = Append(Remaining(Below(W[t[x].file]), k + 1, 0), Last(t[x].file))
    <3>1. t[x].file = tr[x].file /\ ~ IsFolder(tr, x)
      BY <2>1, <1>1 DEF IsLift, IsFolder
    <3>2. tr[x].file \in DOMAIN W
      BY <3>1 DEF Nodes
    <3> QED BY <3>1, <3>2, <1>2
  <2> QED BY <2>1, <1>1 DEF Cut
<1>5. k + 1 \in 0..L /\ 0 \in 0..L
  <2>1. PICK c \in Kept(tr) \ {Root} : c \in 2..L /\ Len(Chain(tr, c)) = 2
    BY LiftRoom
  <2>2. k + 0 + 2 < c
    BY <2>1 DEF TrimmedTo
  <2> QED BY <2>1, <2>2, <1>1
<1>6. ASSUME NEW x \in Kept(t) \ {Root} PROVE (k + 1) + 0 + Len(Chain(t, x)) < x
  <2>1. x \in Kept(tr) \ {Root} /\ x \in 1..L
    BY <1>1 DEF Kept
  <2>2. Chain(tr, x) = <<tr[n].name>> \o Chain(t, x)
    <3>1. LiftedChain(tr, n, t, x)
      BY LiftChains
    <3> QED BY <3>1 DEF LiftedChain
  <2>3. Chain(t, x) \in Seq(TreeName) /\ tr[n].name \in TreeName
    <3>1. n \in 1..L
      BY LiftTree, TreeSize
    <3> QED BY <3>1, <2>1, <1>1, ChainStep, NodeTypes DEF Chains
  <2>4. Len(Chain(tr, x)) = 1 + Len(Chain(t, x)) /\ Len(Chain(t, x)) \in Nat
    BY <2>2, <2>3
  <2>5. k + 0 + Len(Chain(tr, x)) < x
    BY <2>1 DEF TrimmedTo
  <2> QED BY <2>1, <2>4, <2>5, <1>1
<1> QED BY <1>1, <1>2, <1>3, <1>4, <1>5, <1>6 DEF TrimmedTo, NextIs

\* The second one takes a leading ".." from the files that have one.
LEMMA LiftDots ==
  ASSUME NEW tr, NEW t, Tree(tr), NEW n \in tr[Root].children, tr[n].children # {}, IsLift(tr, n, t),
         tr[n].name = DotDot, \A r \in tr[Root].children \ {n} : tr[r].name # DotDot,
         NEW W, WellPlaced(W), Nodes(tr, W, DOMAIN W), NEW k, NEW m, TrimmedTo(tr, W, k, m)
  PROVE  TrimmedTo(t, W, k, m + 1)
<1> DEFINE L == Len(tr)
<1>1. /\ L \in Nat /\ Len(t) = L /\ k \in Nat /\ m \in Nat /\ k \in 0..L
      /\ Rising(t) /\ Rising(tr) /\ Kept(t) = Kept(tr) \ {n}
  <2>1. Tree(t) /\ Kept(t) = Kept(tr) \ {n}
    BY LiftTree
  <2>2. Rising(t) /\ Rising(tr) /\ L \in Nat
    BY <2>1, TreeSize
  <2>3. Len(t) = L
    BY DEF IsLift
  <2> QED BY <2>1, <2>2, <2>3 DEF TrimmedTo
<1>2. ASSUME NEW f \in DOMAIN W, NEW x \in 2..L, tr[x].file = f
      PROVE  Chain(t, x) = Append(Remaining(Below(W[f]), k, m + 1), Last(f))
  <2> DEFINE B == Below(W[f])
             R == Remaining(B, k, m)
  <2>1. B \in Seq(Label) /\ k \in 0..Len(B)
    <3>1. B \in Seq(Label)
      BY BelowType DEF WellPlaced
    <3> QED BY <3>1, <1>1 DEF TrimmedTo, Common
  <2>2. RemainingSteps(B, k, m)
    <3> HIDE DEF B
    <3> QED BY <2>1, <1>1, RemainingStep
  <2>3. /\ R \in Seq(Label)
        /\ Remaining(B, k, m + 1) = IF R # << >> /\ R[1] = DotDot THEN Tail(R) ELSE R
    BY <2>2 DEF RemainingSteps
  <2>4. FileLifted(tr, n, t, W, f, R)
    BY <2>3, FileLift DEF TrimmedTo
  <2> HIDE DEF R, B
  <2>5. Chain(t, x) = Append(Remaining(B, k, m + 1), Last(f))
    BY <2>3, <2>4, <1>2 DEF FileLifted
  <2> QED BY <2>5 DEF B
<1>3. Cut(t, W, k, m + 1)
  <2>1. ASSUME NEW x \in 2..L, ~ IsFolder(t, x)
        PROVE  Chain(t, x) = Append(Remaining(Below(W[t[x].file]), k, m + 1), Last(t[x].file))
    <3>1. t[x].file = tr[x].file /\ ~ IsFolder(tr, x)
      BY <2>1, <1>1 DEF IsLift, IsFolder
    <3>2. tr[x].file \in DOMAIN W
      BY <3>1 DEF Nodes
    <3> QED BY <3>1, <3>2, <1>2
  <2> QED BY <2>1, <1>1 DEF Cut
<1>4. m + 1 \in 0..L
  <2>1. PICK c \in Kept(tr) \ {Root} : c \in 2..L /\ Len(Chain(tr, c)) = 2 /\ Chain(tr, c)[1] = DotDot
    BY LiftRoom
  <2>2. k + m + 2 < c
    BY <2>1 DEF TrimmedTo
  <2> QED BY <2>1, <2>2, <1>1
<1>5. ASSUME NEW x \in Kept(t) \ {Root}, Chain(t, x)[1] = DotDot
      PROVE  k + (m + 1) + Len(Chain(t, x)) < x
  <2>1. x \in Kept(tr) \ {Root} /\ x \in 1..L
    BY <1>1 DEF Kept
  <2>2. Chain(tr, x) = <<DotDot>> \o Chain(t, x)
    <3>1. LiftedChain(tr, n, t, x)
      BY LiftChains
    <3> QED BY <3>1, <1>5 DEF LiftedChain
  <2>3. Chain(t, x) \in Seq(TreeName)
    BY <2>1, <1>1, ChainStep DEF Chains
  <2>4. Len(Chain(tr, x)) = 1 + Len(Chain(t, x)) /\ Len(Chain(t, x)) \in Nat /\ Chain(tr, x)[1] = DotDot
    <3>1. <<DotDot>> \in Seq(TreeName) /\ Len(<<DotDot>>) = 1 /\ <<DotDot>>[1] = DotDot
      BY DEF TreeName, Segment
    <3>2. Len(Chain(t, x)) \in Nat
      BY <2>3
    <3> QED BY <2>2, <2>3, <3>1, <3>2, ConcatProperties
  <2>5. k + m + Len(Chain(tr, x)) < x
    BY <2>1, <2>4 DEF TrimmedTo
  <2> QED BY <2>1, <2>4, <2>5, <1>1
<1>6. Common(W, k) /\ m + 1 # 0
  BY <1>1 DEF TrimmedTo
<1> QED BY <1>1, <1>3, <1>4, <1>5, <1>6 DEF TrimmedTo

\* Nodes that have children are folders, with one of the flags.
LEMMA FolderTrim ==
  ASSUME TreeInv, ~ Making, NEW n \in nodes[Root].children, nodes[n].children # {}
  PROVE  /\ n \in 2..Len(nodes) /\ n \in 1..Len(nodes) /\ n \in Kept(nodes)
         /\ Apart(Where) => nodes[n].trim \in TrimFlags
<1>1. Tree(nodes) /\ Flagged(nodes, TrimFlags)
  BY DEF TreeInv, Typed
<1>2. Root \in Kept(nodes) /\ \A x \in 2..Len(nodes) : x \in 1..Len(nodes) /\ x # Root
  BY <1>1, TreeSize
<1>3. n \in 2..Len(nodes) /\ nodes[n].parent = Root
  BY <1>1, <1>2 DEF Tree
<1>4. n \in Kept(nodes)
  BY <1>2, <1>3 DEF Kept
<1>5. ASSUME Apart(Where) PROVE nodes[n].trim \in TrimFlags
  <2>1. Nodes(nodes, Where, prj.files)
    BY <1>5 DEF TreeInv, WhereShown
  <2>2. IsFolder(nodes, n)
    BY <2>1, <1>3 DEF Nodes
  <2> QED BY <2>2, <1>1, <1>3 DEF Flagged
<1> QED BY <1>2, <1>3, <1>4, <1>5

\* What a lift leaves true.
LEMMA LiftTyped ==
  ASSUME TreeInv, ~ Making, NEW n \in nodes[Root].children, nodes[n].children # {},
         nodes' = Lifted(n), trimmed' = TRUE, prj' = prj, todo' = todo, phase' = phase
  PROVE  /\ Typed' /\ WhileMade' /\ IsLift(nodes, n, nodes')
         /\ Where' = Where /\ TrimFlags' = TrimFlags
         /\ Len(nodes') = Len(nodes)
<1>1. Tree(nodes) /\ Flagged(nodes, TrimFlags) /\ prj \in Project /\ todo \subseteq prj.files
  BY DEF TreeInv, Typed
<1>2. Where' = Where /\ TrimFlags' = TrimFlags
  BY SameWhere
<1>3. n \in 1..Len(nodes) /\ Rising(nodes)
  BY <1>1, FolderTrim DEF Tree
<1>4. IsLift(nodes, n, nodes')
  BY <1>3, LiftedFacts
<1>5. Tree(nodes')
  BY <1>1, <1>4, LiftTree
<1>6. Flagged(nodes', TrimFlags)
  BY <1>1, <1>3, <1>4, LiftFlagged
<1>7. phase \in {"files", "generated", "trim", "dotdot", "done"}
  BY DEF TreeInv, Typed
<1>8. Typed'
  BY <1>1, <1>2, <1>5, <1>6, <1>7 DEF Typed
<1>9. WhileMade'
  BY DEF WhileMade, Making
<1> QED BY <1>2, <1>4, <1>8, <1>9 DEF IsLift

LEMMA TrimRootInv == ASSUME TreeInv, TrimRoot PROVE TreeInv'
<1>1. /\ phase = "trim" /\ phase' = phase /\ trimmed' = TRUE /\ prj' = prj /\ todo' = todo
      /\ \E n \in Superfluous : nodes' = Lifted(n)
  BY DEF TrimRoot
<1>2. PICK n \in Superfluous : nodes' = Lifted(n)
  BY <1>1
<1>3. /\ n \in nodes[Root].children /\ nodes[Root].children = {n}
      /\ nodes[n].children # {} /\ nodes[n].trim
  BY DEF Superfluous
<1>4. ~ Making /\ ~ Making'
  BY <1>1 DEF Making
<1>5. /\ Typed' /\ WhileMade' /\ IsLift(nodes, n, nodes')
      /\ Where' = Where /\ TrimFlags' = TrimFlags /\ Len(nodes') = Len(nodes)
  BY <1>1, <1>2, <1>3, <1>4, LiftTyped
<1>6. WhenMade'
  BY <1>1, <1>4 DEF TreeInv, WhenMade
<1>7. ASSUME Apart(Where)
      PROVE  /\ Nodes(nodes', Where, prj.files) /\ OneOfAName(nodes', Where)
             /\ \E k \in 0..Len(nodes) : TrimmedTo(nodes', Where, k, 0)
  <2>1. /\ Tree(nodes) /\ Nodes(nodes, Where, prj.files) /\ OneOfAName(nodes, Where)
        /\ WellPlaced(Where) /\ DOMAIN Where = prj.files
    BY <1>4, <1>7, WhereFacts DEF TreeInv, Typed, WhereShown
  <2>2. Nodes(nodes', Where, prj.files)
    BY <2>1, <1>3, <1>5, LiftNodes
  <2>3. OneOfAName(nodes', Where)
    BY <2>1, <1>3, <1>5, LiftOneOfAName
  <2>4. PICK k \in 0..Len(nodes) : \E m \in 0..Len(nodes) : TrimmedTo(nodes, Where, k, m) /\ m = 0
    BY <1>1, <1>4, <1>7 DEF TreeInv, WhereShown
  <2>5. TrimmedTo(nodes, Where, k, 0) /\ Nodes(nodes, Where, DOMAIN Where)
    BY <2>4, <2>1
  <2>6. TrimmedTo(nodes', Where, k + 1, 0)
    BY <2>1, <2>5, <1>3, <1>5, LiftCommon
  <2>7. k + 1 \in 0..Len(nodes)
    BY <2>6, <1>5 DEF TrimmedTo
  <2> QED BY <2>2, <2>3, <2>6, <2>7
<1>8. WhereShown'
  <2>1. Len(nodes) \in Nat
    BY TreeSize DEF TreeInv, Typed
  <2>2. 0 \in 0..Len(nodes')
    BY <2>1, <1>5
  <2>3. ASSUME Apart(Where)
        PROVE  \E k, m \in 0..Len(nodes') : TrimmedTo(nodes', Where, k, m) /\ m = 0
    BY <2>2, <2>3, <1>5, <1>7
  <2> QED BY <2>3, <1>1, <1>5, <1>7 DEF WhereShown
<1> QED BY <1>5, <1>6, <1>8 DEF TreeInv

\* What has one child does not leave it alone if it was not alone.
LEMMA LiftAlone ==
  ASSUME NEW tr, NEW t, Tree(tr), NEW n \in tr[Root].children, tr[n].children # {}, IsLift(tr, n, t),
         NoFolderAlone(tr)
  PROVE  NoFolderAlone(t)
<1>1. n \in Kept(tr) /\ tr[n].parent = Root /\ Root # n
  <2>1. n \in Kept(tr) /\ tr[n].parent = Root /\ n \in 2..Len(tr)
    BY LiftTree
  <2> QED BY <2>1, TreeSize
<1>2. tr[Root].children # {n}
  BY <1>1 DEF NoFolderAlone
<1>3. Root \in Kept(tr)
  BY TreeSize
<1>4. PICK r \in tr[Root].children : r # n
  BY <1>2
<1>5. PICK c \in tr[n].children : TRUE
  OBVIOUS
<1>6. tr[r].parent = Root /\ tr[c].parent = n
  BY <1>1, <1>3 DEF Tree
<1>7. r # c /\ r \in t[Root].children /\ c \in t[Root].children
  BY <1>1, <1>4, <1>5, <1>6 DEF IsLift
<1> QED BY <1>7 DEF NoFolderAlone

LEMMA DropDotDotInv == ASSUME TreeInv, DropDotDot PROVE TreeInv'
<1>1. /\ phase = "dotdot" /\ phase' = phase /\ trimmed' = TRUE /\ prj' = prj /\ todo' = todo
      /\ \E n \in DotDots : nodes' = Lifted(n)
  BY DEF DropDotDot
<1>2. PICK n \in DotDots : nodes' = Lifted(n)
  BY <1>1
<1>3. ~ Making /\ ~ Making'
  BY <1>1 DEF Making
<1>4. Tree(nodes) /\ Root \in Kept(nodes)
  BY TreeSize DEF TreeInv, Typed
<1>5. /\ n \in nodes[Root].children /\ nodes[n].name = DotDot
      /\ nodes[n].children # {}
  <2>1. n \in nodes[Root].children /\ nodes[n].name = DotDot /\ Cardinality(nodes[n].children) = 1
    BY DEF DotDots
  <2>2. nodes[n].children # {}
    BY <2>1, FS_EmptySet
  <2> QED BY <2>1, <2>2
<1>6. /\ Typed' /\ WhileMade' /\ IsLift(nodes, n, nodes')
      /\ Where' = Where /\ TrimFlags' = TrimFlags /\ Len(nodes') = Len(nodes)
  BY <1>1, <1>2, <1>3, <1>5, LiftTyped
<1>7. WhenMade'
  <2>1. ASSUME FALSE \notin TrimFlags PROVE NoFolderAlone(nodes')
    <3>1. NoFolderAlone(nodes)
      BY <2>1, <1>1, <1>3 DEF TreeInv, WhenMade
    <3> QED BY <3>1, <1>4, <1>5, <1>6, LiftAlone
  <2> QED BY <2>1, <1>1, <1>3, <1>6 DEF TreeInv, WhenMade
<1>8. ASSUME Apart(Where)
      PROVE  /\ Nodes(nodes', Where, prj.files) /\ OneOfAName(nodes', Where)
             /\ \E k, m \in 0..Len(nodes) : TrimmedTo(nodes', Where, k, m)
  <2>1. /\ Nodes(nodes, Where, prj.files) /\ OneOfAName(nodes, Where)
        /\ WellPlaced(Where) /\ DOMAIN Where = prj.files
    BY <1>3, <1>8, WhereFacts DEF TreeInv, Typed, WhereShown
  <2>2. Nodes(nodes', Where, prj.files)
    BY <2>1, <1>4, <1>5, <1>6, LiftNodes
  <2>3. OneOfAName(nodes', Where) /\ \A r \in nodes[Root].children \ {n} : nodes[r].name # DotDot
    BY <2>1, <1>4, <1>5, <1>6, LiftOneOfAName
  <2>4. PICK k \in 0..Len(nodes) : \E m \in 0..Len(nodes) : TrimmedTo(nodes, Where, k, m)
    BY <1>3, <1>8 DEF TreeInv, WhereShown
  <2>5. PICK m \in 0..Len(nodes) : TrimmedTo(nodes, Where, k, m)
    BY <2>4
  <2>6. Nodes(nodes, Where, DOMAIN Where)
    BY <2>1
  <2>7. TrimmedTo(nodes', Where, k, m + 1)
    BY <2>1, <2>3, <2>5, <2>6, <1>4, <1>5, <1>6, LiftDots
  <2>8. m + 1 \in 0..Len(nodes)
    BY <2>7, <1>6 DEF TrimmedTo
  <2> QED BY <2>2, <2>3, <2>7, <2>8
<1>9. WhereShown'
  BY <1>1, <1>6, <1>8 DEF WhereShown
<1> QED BY <1>6, <1>7, <1>9 DEF TreeInv

LEMMA EndTrimInv == ASSUME TreeInv, EndTrim PROVE TreeInv'
<1>1. /\ phase = "trim" /\ phase' = "dotdot" /\ Superfluous = {}
      /\ prj' = prj /\ todo' = todo /\ nodes' = nodes /\ trimmed' = trimmed
  BY DEF EndTrim
<1>2. Where' = Where /\ TrimFlags' = TrimFlags
  BY <1>1, SameWhere
<1>3. ~ Making /\ ~ Making'
  BY <1>1 DEF Making
<1>4. Tree(nodes) /\ Flagged(nodes, TrimFlags)
  BY DEF TreeInv, Typed
<1>5. ASSUME FALSE \notin TrimFlags PROVE NoFolderAlone(nodes)
  <2>1. SUFFICES ASSUME NEW n \in Kept(nodes), nodes[n].children # {}, nodes[Root].children = {n}
                 PROVE  FALSE
    BY DEF NoFolderAlone
  <2>2. n \in nodes[Root].children
    BY <2>1
  <2>3. n \in 2..Len(nodes) /\ n \in 1..Len(nodes)
    BY <2>1, <2>2, <1>3, FolderTrim
  <2>4. nodes[n].trim \in TrimFlags \union {TRUE}
    BY <2>3, <1>4 DEF Flagged
  <2>5. nodes[n].trim
    <3>1. nodes[n].trim \in BOOLEAN
      BY <2>4 DEF TrimFlags, MayTrim
    <3> QED BY <3>1, <2>4, <1>5
  <2> QED BY <2>1, <2>2, <2>5, <1>1 DEF Superfluous
<1>6. Typed' /\ WhileMade'
  BY <1>1, <1>2, <1>3 DEF TreeInv, Typed, WhileMade
<1>7. WhenMade'
  BY <1>1, <1>2, <1>3, <1>5 DEF TreeInv, WhenMade
<1>8. WhereShown'
  BY <1>1, <1>2, <1>3 DEF TreeInv, WhereShown
<1> QED BY <1>6, <1>7, <1>8 DEF TreeInv

\* Tree t is tree tr with other paths.
Repathed(tr, t) ==
  /\ t \in Seq(TreeNode) /\ Len(t) = Len(tr)
  /\ \A x \in 1..Len(tr) :
       /\ t[x].name = tr[x].name /\ t[x].file = tr[x].file /\ t[x].trim = tr[x].trim
       /\ t[x].parent = tr[x].parent /\ t[x].children = tr[x].children

\* Only the paths of nodes change at the end.
LEMMA FinishFacts ==
  ASSUME Tree(nodes), Finish
  PROVE  /\ Repathed(nodes, nodes')
         /\ \A x \in Kept(nodes) \ {Root} :
              nodes'[x].path = IF trimmed THEN Chain(nodes, x) ELSE nodes[x].path
<1> DEFINE L == Len(nodes)
           New(x) == IF trimmed /\ x # Root /\ InTree(nodes, x)
                     THEN [nodes[x] EXCEPT !.path = Chain(nodes, x)] ELSE nodes[x]
<1>1. Rising(nodes) /\ L \in Nat /\ nodes \in Seq(TreeNode)
  BY TreeSize DEF Rising
<1>2. Chains(nodes)
  BY <1>1, ChainStep
<1>3. ASSUME NEW x \in 1..L
      PROVE  /\ New(x) \in TreeNode
             /\ New(x).name = nodes[x].name /\ New(x).file = nodes[x].file /\ New(x).trim = nodes[x].trim
             /\ New(x).parent = nodes[x].parent /\ New(x).children = nodes[x].children
             /\ x \in Kept(nodes) \ {Root} =>
                  New(x).path = IF trimmed THEN Chain(nodes, x) ELSE nodes[x].path
  <2>1. nodes[x] \in TreeNode /\ Chain(nodes, x) \in Seq(TreeName)
    BY <1>1, <1>2 DEF Chains
  <2>2. InTree(nodes, x) <=> x \in Kept(nodes)
    BY InTreeKept
  <2> DEFINE c == Chain(nodes, x)
  <2> HIDE DEF c
  <2>3. New(x) = IF trimmed /\ x # Root /\ x \in Kept(nodes) THEN [nodes[x] EXCEPT !.path = c] ELSE nodes[x]
    BY <2>2 DEF c
  <2>4. c \in Seq(TreeName)
    BY <2>1 DEF c
  <2> HIDE DEF New
  <2>5. New(x) \in TreeNode /\ New(x).name = nodes[x].name /\ New(x).file = nodes[x].file /\ New(x).trim = nodes[x].trim
        /\ New(x).parent = nodes[x].parent /\ New(x).children = nodes[x].children
    BY <2>1, <2>3, <2>4 DEF TreeNode
  <2>6. x \in Kept(nodes) \ {Root} => New(x).path = IF trimmed THEN c ELSE nodes[x].path
    BY <2>1, <2>3 DEF TreeNode
  <2> QED BY <2>5, <2>6 DEF c
<1>4. nodes' = [x \in 1..L |-> New(x)]
  BY DEF Finish
<1> HIDE DEF New
<1>5. nodes' \in Seq(TreeNode) /\ Len(nodes') = L /\ \A x \in 1..L : nodes'[x] = New(x)
  BY <1>1, <1>3, <1>4
<1>6. \A x \in Kept(nodes) : x \in 1..L
  BY DEF Kept
<1>7. Repathed(nodes, nodes')
  BY <1>3, <1>5 DEF Repathed
<1> QED BY <1>3, <1>5, <1>6, <1>7

LEMMA RepathedTree ==
  ASSUME NEW tr, NEW t, Tree(tr), Repathed(tr, t)
  PROVE  /\ Tree(t) /\ Kept(t) = Kept(tr)
         /\ \A x \in 1..Len(tr) : Chain(t, x) = Chain(tr, x)
<1>1. /\ Rising(tr) /\ Len(tr) \in Nat /\ Root \in 1..Len(tr) /\ Root \in Kept(tr)
      /\ \A x \in 2..Len(tr) : x \in 1..Len(tr) /\ tr[x].parent \in 1..Len(tr)
  BY TreeSize DEF Rising
<1>2. Rising(t)
  BY <1>1 DEF Rising, Repathed
<1>3. Kept(t) = Kept(tr)
  <2>1. ASSUME NEW x \in 1..Len(tr), x # Root PROVE tr[x].parent \in 1..Len(tr)
    <3>1. x \in 2..Len(tr)
      BY <2>1, <1>1 DEF Root
    <3> QED BY <3>1, <1>1
  <2> QED BY <2>1, <1>1 DEF Kept, Repathed
<1>4. SameNames(t, tr)
  BY <1>1 DEF SameNames, Repathed
<1>5. ASSUME NEW x \in 1..Len(tr) PROVE Chain(t, x) = Chain(tr, x)
  BY <1>1, <1>2, <1>4, SameChain DEF Repathed
<1>6. \A x \in Kept(tr) : x \in 1..Len(tr)
  BY DEF Kept
<1>7. Tree(t)
  <2>1. \A x \in Kept(tr) : t[x].parent = tr[x].parent /\ t[x].children = tr[x].children
    BY <1>6 DEF Repathed
  <2>2. \A x \in 2..Len(tr) : t[x].parent = tr[x].parent
    BY <1>1 DEF Repathed
  <2>3. Len(t) = Len(tr)
    BY DEF Repathed
  <2> QED BY <1>2, <1>3, <2>1, <2>2, <2>3 DEF Tree
<1> QED BY <1>3, <1>5, <1>7

\* All that the invariant says of names, files and children stays.
LEMMA RepathedShows ==
  ASSUME NEW tr, NEW t, Tree(tr), Repathed(tr, t), NEW W, NEW placed, NEW flags, NEW k, NEW m
  PROVE  /\ Nodes(tr, W, placed) => Nodes(t, W, placed)
         /\ OneOfAName(tr, W) => OneOfAName(t, W)
         /\ Flagged(tr, flags) => Flagged(t, flags)
         /\ NoFolderAlone(tr) => NoFolderAlone(t)
         /\ TrimmedTo(tr, W, k, m) => TrimmedTo(t, W, k, m)
<1>1. /\ Len(tr) \in Nat /\ Root \in 1..Len(tr) /\ Root \in Kept(tr)
      /\ \A x \in 2..Len(tr) : x \in 1..Len(tr)
  BY TreeSize
<1>2. Kept(t) = Kept(tr) /\ Len(t) = Len(tr) /\ \A x \in Kept(tr) : x \in 1..Len(tr)
  BY RepathedTree DEF Repathed, Kept
<1>3. \A x \in 1..Len(tr) :
        /\ t[x].name = tr[x].name /\ t[x].file = tr[x].file /\ t[x].trim = tr[x].trim
        /\ t[x].parent = tr[x].parent /\ t[x].children = tr[x].children
        /\ Chain(t, x) = Chain(tr, x)
  BY RepathedTree DEF Repathed
<1>4. Nodes(tr, W, placed) => Nodes(t, W, placed)
  <2>1. /\ IsFolder(t, Root) <=> IsFolder(tr, Root)
        /\ \A x \in 2..Len(tr) : /\ t[x].name = tr[x].name /\ t[x].file = tr[x].file
                                 /\ t[x].children = tr[x].children
                                 /\ IsFolder(t, x) <=> IsFolder(tr, x)
    BY <1>1, <1>3 DEF IsFolder
  <2> QED BY <2>1, <1>2 DEF Nodes
<1>5. OneOfAName(tr, W) => OneOfAName(t, W)
  BY <1>2, <1>3 DEF OneOfAName, IsFolder
<1>6. Flagged(tr, flags) => Flagged(t, flags)
  BY <1>1, <1>2, <1>3 DEF Flagged, IsFolder
<1>7. NoFolderAlone(tr) => NoFolderAlone(t)
  BY <1>1, <1>2, <1>3 DEF NoFolderAlone
<1>8. TrimmedTo(tr, W, k, m) => TrimmedTo(t, W, k, m)
  <2>1. Cut(tr, W, k, m) => Cut(t, W, k, m)
    BY <1>1, <1>2, <1>3 DEF Cut, IsFolder
  <2> QED BY <2>1, <1>2, <1>3 DEF TrimmedTo
<1> QED BY <1>4, <1>5, <1>6, <1>7, <1>8

LEMMA FinishInv == ASSUME TreeInv, Finish PROVE TreeInv'
<1>1. /\ phase = "dotdot" /\ phase' = "done" /\ DotDots = {}
      /\ prj' = prj /\ todo' = todo /\ trimmed' = trimmed
  BY DEF Finish
<1>2. Where' = Where /\ TrimFlags' = TrimFlags
  BY <1>1, SameWhere
<1>3. ~ Making /\ ~ Making'
  BY <1>1 DEF Making
<1>4. Tree(nodes) /\ Flagged(nodes, TrimFlags)
  BY DEF TreeInv, Typed
<1>5. /\ Repathed(nodes, nodes')
      /\ \A x \in Kept(nodes) \ {Root} :
           nodes'[x].path = IF trimmed THEN Chain(nodes, x) ELSE nodes[x].path
  BY <1>4, FinishFacts
<1>6. /\ Tree(nodes') /\ Kept(nodes') = Kept(nodes) /\ Len(nodes') = Len(nodes)
      /\ \A x \in 1..Len(nodes) : Chain(nodes', x) = Chain(nodes, x)
  BY <1>4, <1>5, RepathedTree DEF Repathed
<1>7. Typed' /\ WhileMade'
  <2>1. Flagged(nodes', TrimFlags)
    BY <1>4, <1>5, RepathedShows
  <2> QED BY <2>1, <1>1, <1>2, <1>3, <1>6 DEF TreeInv, Typed, WhileMade
<1>8. WhenMade'
  <2>1. ASSUME FALSE \notin TrimFlags PROVE NoFolderAlone(nodes')
    <3>1. NoFolderAlone(nodes)
      BY <2>1, <1>1, <1>3 DEF TreeInv, WhenMade
    <3> QED BY <3>1, <1>4, <1>5, RepathedShows
  <2> QED BY <2>1, <1>1, <1>2, <1>3 DEF TreeInv, WhenMade
<1>9. ASSUME Apart(Where)
       PROVE  /\ Nodes(nodes', Where, prj.files) /\ OneOfAName(nodes', Where)
              /\ Plain(Where) => PathsAreChains(nodes')
              /\ \E k, m \in 0..Len(nodes) : TrimmedTo(nodes', Where, k, m)
  <2>1. /\ Nodes(nodes, Where, prj.files) /\ OneOfAName(nodes, Where)
        /\ (Plain(Where) /\ ~ trimmed) => PathsAreChains(nodes)
    BY <1>1, <1>3, <1>9 DEF TreeInv, WhereShown
  <2>2. Nodes(nodes', Where, prj.files) /\ OneOfAName(nodes', Where)
    BY <2>1, <1>4, <1>5, RepathedShows
  <2>3. ASSUME Plain(Where) PROVE PathsAreChains(nodes')
    <3>1. ASSUME NEW x \in Kept(nodes) \ {Root}, IsFolder(nodes', x)
          PROVE  nodes'[x].path = Chain(nodes', x)
      <4>1. x \in 1..Len(nodes)
        BY DEF Kept
      <4>2. IsFolder(nodes, x) /\ Chain(nodes', x) = Chain(nodes, x)
        BY <3>1, <4>1, <1>5, <1>6 DEF IsFolder, Repathed
      <4>3. ~ trimmed => nodes[x].path = Chain(nodes, x)
        BY <4>2, <2>1, <2>3 DEF PathsAreChains
      <4> QED BY <4>2, <4>3, <1>5
    <3> QED BY <3>1, <1>6 DEF PathsAreChains
  <2>4. PICK k \in 0..Len(nodes) : \E m \in 0..Len(nodes) : TrimmedTo(nodes, Where, k, m)
    BY <1>3, <1>9 DEF TreeInv, WhereShown
  <2>5. PICK m \in 0..Len(nodes) : TrimmedTo(nodes, Where, k, m)
    BY <2>4
  <2>6. TrimmedTo(nodes', Where, k, m)
    BY <2>5, <1>4, <1>5, RepathedShows
  <2> QED BY <2>1, <2>2, <2>3, <2>5, <2>6
<1>10. WhereShown'
  BY <1>1, <1>2, <1>6, <1>9 DEF WhereShown
<1> QED BY <1>7, <1>8, <1>10 DEF TreeInv

LEMMA TreeStutter == ASSUME TreeInv, UNCHANGED treeVars PROVE TreeInv'
<1>1. prj' = prj /\ todo' = todo /\ nodes' = nodes /\ phase' = phase /\ trimmed' = trimmed
  BY DEF treeVars
<1>2. Where' = Where /\ TrimFlags' = TrimFlags
  BY <1>1, SameWhere
<1>3. Typed' /\ WhileMade'
  BY <1>1, <1>2 DEF TreeInv, Typed, WhileMade, Making
<1>4. WhenMade' /\ WhereShown'
  BY <1>1, <1>2 DEF TreeInv, WhenMade, WhereShown, Making, DotDots
<1> QED BY <1>3, <1>4 DEF TreeInv

\* TreeInv holds of a tree that is made, trimmed and done.
THEOREM TreeInvariance == TreeSpec => []TreeInv
<1>1. TreeInit => TreeInv
  BY TreeStart
<1>2. TreeInv /\ [TreeNext]_treeVars => TreeInv'
  <2>1. SUFFICES ASSUME TreeInv, [TreeNext]_treeVars PROVE TreeInv'
    OBVIOUS
  <2>2. CASE TreeNext
    BY <2>1, <2>2, AddFileInv, AddGeneratedInv, EndFilesInv, EndGeneratedInv, TrimRootInv, EndTrimInv,
       DropDotDotInv, FinishInv DEF TreeNext
  <2>3. CASE UNCHANGED treeVars
    BY <2>1, <2>3, TreeStutter
  <2> QED BY <2>1, <2>2, <2>3
<1> QED BY <1>1, <1>2, PTL DEF TreeSpec

-----------------------------------------------------------------------------
(* What the tree shows                                                     *)

\* The nodes of the tree that is done are those that were kept.
LEMMA NodesKept ==
  ASSUME TreeInv
  PROVE  Node = Kept(nodes) \ {Root} /\ Node \subseteq 2..Len(nodes)
<1>1. Tree(nodes) /\ Len(nodes) \in Nat
  BY TreeSize DEF TreeInv, Typed
<1>2. \A n \in 1..Len(nodes) : InTree(nodes, n) <=> n \in Kept(nodes)
  BY <1>1, InTreeKept
<1>3. Node = Kept(nodes) \ {Root}
  BY <1>2 DEF Node, Kept
<1> QED BY <1>1, <1>3 DEF Node, Root

LEMMA ShownApartWhere ==
  ASSUME prj \in Project, ShownApart
  PROVE  Apart(Where) /\ \A f \in prj.files : Below(Where[f]) = FolderNames(f)
<1>1. DOMAIN Where = prj.files /\ \A f \in prj.files : Where[f] = FolderOf(f)
  BY WhereFacts
<1> QED BY <1>1 DEF ShownApart, Apart, ShownAs, FolderNames

\* Each file has one leaf.
LEMMA LeafOfFile ==
  ASSUME TreeInv, ~ Making, ShownApart, NEW f \in prj.files
  PROVE  \E n \in Leaves(f) :
           /\ Leaves(f) = {n} /\ nodes[n].children = {}
           /\ n \in 2..Len(nodes) /\ ~ IsFolder(nodes, n) /\ nodes[n].file = f
<1>1. prj \in Project
  BY DEF TreeInv, Typed
<1>2. Nodes(nodes, Where, prj.files)
  BY <1>1, ShownApartWhere DEF TreeInv, WhereShown
<1>3. PICK n \in 2..Len(nodes) : nodes[n].file = f
  BY <1>2 DEF Nodes
<1>4. ~ IsFolder(nodes, n)
  BY <1>1, <1>3, ProjectFiles DEF IsFolder
<1>5. /\ n \in Kept(nodes) /\ nodes[n].children = {}
      /\ \A c \in 2..Len(nodes) : nodes[c].file = f => c = n
  BY <1>2, <1>3, <1>4 DEF Nodes
<1>6. Node = Kept(nodes) \ {Root} /\ Node \subseteq 2..Len(nodes) /\ n # Root
  BY <1>3, NodesKept, TreeSize DEF TreeInv, Typed
<1>7. Leaves(f) = {n}
  BY <1>3, <1>5, <1>6 DEF Leaves
<1> QED BY <1>3, <1>4, <1>5, <1>7

\* PlacedByVirtualPath: every file is in the tree once, below the folders of its
\* virtual path without those that trimroot took from all files and the ".."
\* that it took after them.
THEOREM Placement == TreeSpec => []PlacedByVirtualPath
<1>1. TreeInv => PlacedByVirtualPath
  <2>1. SUFFICES ASSUME TreeInv, phase = "done", ShownApart
        PROVE  \E k, m \in 0..Len(nodes) :
          /\ \A f, g \in prj.files :
               k <= Len(FolderNames(f)) /\ SubSeq(FolderNames(f), 1, k) = SubSeq(FolderNames(g), 1, k)
          /\ \A f \in prj.files : \E n \in Leaves(f) :
               /\ Leaves(f) = {n} /\ nodes[n].children = {}
               /\ Chain(nodes, n) = Append(Remaining(FolderNames(f), k, m), Last(f))
    BY DEF PlacedByVirtualPath
  <2>2. ~ Making /\ prj \in Project
    BY <2>1 DEF Making, TreeInv, Typed
  <2>3. Apart(Where) /\ \A f \in prj.files : Below(Where[f]) = FolderNames(f)
    BY <2>1, <2>2, ShownApartWhere
  <2>4. DOMAIN Where = prj.files
    BY <2>2, WhereFacts
  <2>5. PICK k \in 0..Len(nodes) : \E m \in 0..Len(nodes) : TrimmedTo(nodes, Where, k, m)
    BY <2>1, <2>2, <2>3 DEF TreeInv, WhereShown
  <2>6. PICK m \in 0..Len(nodes) : TrimmedTo(nodes, Where, k, m)
    BY <2>5
  <2>7. \A f, g \in prj.files :
          k <= Len(FolderNames(f)) /\ SubSeq(FolderNames(f), 1, k) = SubSeq(FolderNames(g), 1, k)
    BY <2>3, <2>4, <2>6 DEF TrimmedTo, Common
  <2>8. ASSUME NEW f \in prj.files
        PROVE  \E n \in Leaves(f) :
                 /\ Leaves(f) = {n} /\ nodes[n].children = {}
                 /\ Chain(nodes, n) = Append(Remaining(FolderNames(f), k, m), Last(f))
    <3>1. PICK n \in Leaves(f) :
            /\ Leaves(f) = {n} /\ nodes[n].children = {}
            /\ n \in 2..Len(nodes) /\ ~ IsFolder(nodes, n) /\ nodes[n].file = f
      BY <2>1, <2>2, LeafOfFile
    <3>2. Chain(nodes, n) = Append(Remaining(Below(Where[f]), k, m), Last(f))
      BY <3>1, <2>6 DEF TrimmedTo, Cut
    <3> QED BY <3>1, <3>2, <2>3
  <2> QED BY <2>7, <2>8
<1> QED BY <1>1, TreeInvariance, PTL

Appends(u, s, a) == u = Append(s, a)

\* Sequences are the same if one more item makes them so.
LEMMA AppendEqual ==
  ASSUME NEW S, NEW s \in Seq(S), NEW t \in Seq(S), NEW a \in S, NEW b \in S,
         NEW u, Appends(u, s, a), Appends(u, t, b)
  PROVE  s = t /\ a = b
<1>1. /\ Len(u) = Len(s) + 1 /\ u[Len(s) + 1] = a /\ \A l \in 1..Len(s) : u[l] = s[l]
      /\ Len(u) = Len(t) + 1 /\ u[Len(t) + 1] = b /\ \A l \in 1..Len(t) : u[l] = t[l]
  <2>1. ASSUME NEW q \in Seq(S), NEW e \in S, Appends(u, q, e)
        PROVE  Len(u) = Len(q) + 1 /\ u[Len(q) + 1] = e /\ \A l \in 1..Len(q) : u[l] = q[l]
    <3>1. u = Append(q, e)
      BY <2>1 DEF Appends
    <3>2. /\ Len(Append(q, e)) = Len(q) + 1 /\ Append(q, e)[Len(q) + 1] = e
          /\ \A l \in 1..Len(q) : Append(q, e)[l] = q[l]
      BY AppendProperties
    <3> QED BY <3>1, <3>2, Zenon
  <2> QED BY <2>1, Zenon
<1>2. Len(s) = Len(t)
  <2>1. Len(s) \in Nat /\ Len(t) \in Nat
    OBVIOUS
  <2> QED BY <1>1, <2>1
<1>3. \A l \in 1..Len(s) : s[l] = t[l]
  BY <1>1, <1>2
<1>4. s = t
  BY <1>2, <1>3, SeqEqual
<1> QED BY <1>1, <1>2, <1>4

\* Two folders of a tree without "..", reached by the same names, are one.
LEMMA UniqueChain ==
  ASSUME NEW tr, Tree(tr), NEW W, NEW placed, Plain(W), Nodes(tr, W, placed), OneOfAName(tr, W),
         NEW a \in Kept(tr), NEW b \in Kept(tr), IsFolder(tr, a), IsFolder(tr, b),
         Chain(tr, a) = Chain(tr, b)
  PROVE  a = b
<1> DEFINE N == Len(tr)
           Alone(x) == \A y \in Kept(tr) : (IsFolder(tr, y) /\ Chain(tr, x) = Chain(tr, y)) => x = y
           S == {x \in 1..N : (x \in Kept(tr) /\ IsFolder(tr, x)) => Alone(x)}
<1>1. /\ Rising(tr) /\ N \in Nat /\ Root \in 1..N /\ Root \in Kept(tr) /\ Chains(tr)
      /\ \A x \in Kept(tr) : x \in 1..N
  BY TreeSize, ChainStep DEF Kept
<1>2. ASSUME NEW x \in Kept(tr) \ {Root}
      PROVE  /\ x \in 2..N /\ tr[x].parent \in Kept(tr) /\ IsFolder(tr, tr[x].parent)
             /\ tr[x].parent \in 1..(x - 1) /\ tr[x].parent \in 1..N
             /\ tr[x].name \in TreeName
             /\ Chain(tr, tr[x].parent) \in Seq(TreeName)
             /\ Chain(tr, x) = Append(Chain(tr, tr[x].parent), tr[x].name)
             /\ Chain(tr, x) # << >>
  <2>1. x \in 1..N /\ x \in 2..N /\ x \in tr[tr[x].parent].children
    BY <1>1 DEF Kept, Root
  <2>2. tr[x].parent \in Kept(tr) /\ tr[x].parent \in 1..(x - 1) /\ tr[x].parent \in 1..N
    BY <2>1, <1>1 DEF Tree, Rising
  <2>3. IsFolder(tr, tr[x].parent)
    <3>1. CASE tr[x].parent = Root
      BY <3>1 DEF Nodes
    <3>2. CASE tr[x].parent # Root
      <4>1. tr[x].parent \in 2..N
        BY <2>2, <3>2, <1>1 DEF Root
      <4> QED BY <4>1, <2>1 DEF Nodes
    <3> QED BY <3>1, <3>2
  <2>4. tr[x].name \in TreeName /\ Chain(tr, tr[x].parent) \in Seq(TreeName)
    BY <2>1, <2>2, <1>1, NodeTypes DEF Chains
  <2>5. Chain(tr, x) = Append(Chain(tr, tr[x].parent), tr[x].name)
    BY <2>1, <1>1 DEF Chains
  <2>6. Chain(tr, x) # << >>
    BY <2>4, <2>5
  <2> QED BY <2>1, <2>2, <2>3, <2>4, <2>5, <2>6
<1>3. Chain(tr, Root) = << >>
  BY <1>1 DEF Chains
<1>4. ASSUME NEW x \in 1..N, \A l \in 1..(x - 1) : l \in S PROVE x \in S
  <2>1. SUFFICES ASSUME x \in Kept(tr), IsFolder(tr, x),
                        NEW y \in Kept(tr), IsFolder(tr, y), Chain(tr, x) = Chain(tr, y)
                 PROVE  x = y
    OBVIOUS
  <2>2. CASE x = Root \/ y = Root
    BY <2>1, <2>2, <1>2, <1>3
  <2>3. CASE x # Root /\ y # Root
    <3>1. x \in Kept(tr) \ {Root} /\ y \in Kept(tr) \ {Root}
      BY <2>1, <2>3
    <3>2. Chain(tr, tr[x].parent) = Chain(tr, tr[y].parent) /\ tr[x].name = tr[y].name
      <4> DEFINE u == Chain(tr, x)
                 s == Chain(tr, tr[x].parent)
                 v == Chain(tr, tr[y].parent)
                 d == tr[x].name
                 e == tr[y].name
      <4>1. /\ s \in Seq(TreeName) /\ v \in Seq(TreeName) /\ d \in TreeName /\ e \in TreeName
            /\ Appends(u, s, d)
        BY <3>1, <1>2 DEF Appends
      <4>2. Appends(u, v, e)
        BY <3>1, <1>2, <2>1 DEF Appends
      <4> HIDE DEF u, s, v, d, e
      <4>3. s = v /\ d = e
        BY <4>1, <4>2, AppendEqual
      <4> QED BY <4>3 DEF s, v, d, e
    <3>3. tr[x].parent = tr[y].parent
      <4>1. tr[x].parent \in S
        BY <3>1, <1>2, <1>4
      <4> QED BY <4>1, <3>1, <3>2, <1>2
    <3> QED BY <3>1, <3>2, <3>3, <2>1 DEF OneOfAName
  <2> QED BY <2>2, <2>3
<1>5. 1..N \subseteq S
  <2> HIDE DEF S
  <2> QED BY <1>1, <1>4, StrongInduction
<1> QED BY <1>1, <1>5

\* FoldersInsideDiffer: in a project whose files are shown inside its location no
\* two folders have one path.
THEOREM InsideFoldersDiffer == TreeSpec => []FoldersInsideDiffer
<1>1. TreeInv => FoldersInsideDiffer
  <2>1. SUFFICES ASSUME TreeInv, ShownApart, ~ Outside, phase = "done",
                        NEW n1 \in Folder, NEW n2 \in Folder, nodes[n1].path = nodes[n2].path
                 PROVE  n1 = n2
    BY DEF FoldersInsideDiffer, FoldersDiffer
  <2>2. ~ Making /\ prj \in Project /\ Tree(nodes)
    BY <2>1 DEF Making, TreeInv, Typed
  <2>3. Plain(Where) /\ Apart(Where)
    BY <2>1, <2>2, WhereFacts, ShownApartWhere
  <2>4. Nodes(nodes, Where, prj.files) /\ OneOfAName(nodes, Where) /\ PathsAreChains(nodes)
    BY <2>1, <2>2, <2>3 DEF TreeInv, WhereShown
  <2>5. ASSUME NEW n \in Folder
        PROVE  n \in Kept(nodes) \ {Root} /\ IsFolder(nodes, n) /\ nodes[n].path = Chain(nodes, n)
    <3>1. n \in Kept(nodes) \ {Root} /\ n \in 2..Len(nodes) /\ nodes[n].children # {}
      BY <2>1, NodesKept DEF Folder
    <3>2. IsFolder(nodes, n)
      BY <3>1, <2>4 DEF Nodes
    <3> QED BY <3>1, <3>2, <2>4 DEF PathsAreChains
  <2>6. Chain(nodes, n1) = Chain(nodes, n2)
    BY <2>1, <2>5
  <2> QED BY <2>2, <2>3, <2>4, <2>5, <2>6, UniqueChain
<1> QED BY <1>1, TreeInvariance, PTL

-----------------------------------------------------------------------------
(* Which folders stay                                                      *)

\* What decides which folders are trimmed: where the files are, which are listed
\* and which are listed before a file, and the flag each gives to its folders.
View ==
  [where  |-> Where, listed |-> prj.files \ DOMAIN prj.source,
   trim   |-> [f \in prj.files |-> MayTrim(f)],
   before |-> [f \in prj.files |-> {g \in prj.files : Before(VPath(g), VPath(f))}]]

\* Folder p may have been made with the flag: by a generated file that is alone
\* there, or by a listed one that none there precedes.
Opened(V, p, flag) ==
  \E g \in DOMAIN V.where :
    /\ IsPrefix(p, V.where[g]) /\ V.trim[g] = flag
    /\ \A h \in V.listed : IsPrefix(p, V.where[h]) => g \in V.listed /\ h \notin V.before[g]

\* Every folder was, while the tree is made.
AllOpened(tr, V) ==
  \A n \in 2..Len(tr) : IsFolder(tr, n) => Opened(V, Chain(tr, n), tr[n].trim)

\* After k folders of all files are gone: those and the ones that are left.
GoneOpened(V, k) == \A f \in DOMAIN V.where : \A l \in 1..k : Opened(V, SubSeq(V.where[f], 1, l), TRUE)
LeftOpened(tr, V, k) ==
  \A n \in Kept(tr) \ {Root} : IsFolder(tr, n) =>
    \A f \in DOMAIN V.where : Opened(V, SubSeq(V.where[f], 1, k) \o Chain(tr, n), tr[n].trim)

OpenInv ==
  (Apart(Where) /\ Plain(Where)) =>
    IF Making THEN AllOpened(nodes, View)
    ELSE \E k \in 0..Len(nodes) :
           /\ TrimmedTo(nodes, Where, k, 0) /\ GoneOpened(View, k) /\ LeftOpened(nodes, View, k)
           /\ phase # "trim" => Superfluous = {}

LEMMA ViewFacts ==
  ASSUME prj \in Project
  PROVE  /\ View.where = Where /\ DOMAIN View.where = prj.files
         /\ View.listed = prj.files \ DOMAIN prj.source /\ View.listed \subseteq prj.files
         /\ \A f \in prj.files : View.where[f] = FolderOf(f) /\ View.trim[f] = MayTrim(f)
         /\ \A f, g \in prj.files : g \in View.before[f] <=> Before(VPath(g), VPath(f))
<1>1. DOMAIN Where = prj.files /\ \A f \in prj.files : Where[f] = FolderOf(f)
  BY WhereFacts
<1> QED BY <1>1 DEF View

LEMMA SameView == ASSUME prj' = prj PROVE View' = View
<1>1. Where' = Where
  BY SameWhere
<1> QED BY <1>1 DEF View, MayTrim, VPath, RelPath, Relative, Leaf

\* Above a node there is one for each part of its chain.
LEMMA NodeAbove ==
  ASSUME NEW tr, Tree(tr), NEW c \in Kept(tr), NEW k \in 0..Len(Chain(tr, c))
  PROVE  \E a \in Kept(tr) : Chain(tr, a) = SubSeq(Chain(tr, c), 1, k)
<1> DEFINE N == Len(tr)
           Above(x) == \A l \in 0..Len(Chain(tr, x)) :
                         \E a \in Kept(tr) : Chain(tr, a) = SubSeq(Chain(tr, x), 1, l)
           S == {x \in 1..N : x \in Kept(tr) => Above(x)}
<1>1. /\ Rising(tr) /\ N \in Nat /\ Root \in Kept(tr) /\ Chains(tr)
      /\ \A x \in Kept(tr) : x \in 1..N
  BY TreeSize, ChainStep DEF Kept
<1>2. ASSUME NEW x \in 1..N, \A l \in 1..(x - 1) : l \in S PROVE x \in S
  <2>1. SUFFICES ASSUME x \in Kept(tr), NEW l \in 0..Len(Chain(tr, x))
                 PROVE  \E a \in Kept(tr) : Chain(tr, a) = SubSeq(Chain(tr, x), 1, l)
    OBVIOUS
  <2>2. Chain(tr, x) \in Seq(TreeName)
    BY <1>1 DEF Chains
  <2> DEFINE u == Chain(tr, x)
  <2>3. CASE l = Len(u)
    <3>1. SubSeq(u, 1, l) = u
      <4> HIDE DEF u
      <4> QED BY <2>2, <2>3 DEF u
    <3> QED BY <3>1, <2>1
  <2>4. CASE l # Len(u)
    <3>1. x # Root
      <4>1. Len(u) # 0
        BY <2>1, <2>2, <2>4
      <4> QED BY <4>1, <1>1 DEF Chains
    <3>2. x \in 2..N
      BY <3>1, <1>1 DEF Root
    <3> DEFINE p == tr[x].parent
               s == Chain(tr, p)
    <3>3. p \in 1..(x - 1) /\ p \in Kept(tr) /\ p \in 1..N
      BY <2>1, <3>1, <3>2, <1>1 DEF Tree, Rising
    <3>4. s \in Seq(TreeName) /\ tr[x].name \in TreeName /\ u = Append(s, tr[x].name)
      BY <3>2, <3>3, <1>1, NodeTypes DEF Chains
    <3>5. Above(p)
      BY <3>3, <1>2
    <3>6. l \in 0..Len(s) /\ SubSeq(u, 1, l) = SubSeq(s, 1, l)
      <4>1. l \in 0..Len(u) /\ l # Len(u)
        BY <2>1, <2>4
      <4> HIDE DEF u, s, p
      <4> QED BY <4>1, <3>4
    <3> QED BY <3>5, <3>6
  <2> QED BY <2>3, <2>4
<1>3. 1..N \subseteq S
  <2> HIDE DEF S
  <2> QED BY <1>1, <1>2, StrongInduction
<1> QED BY <1>1, <1>3

\* A folder that is not found among the children has no file of the tree.
LEMMA NoneThere ==
  ASSUME NEW W, NEW placed, placed \subseteq DOMAIN W, WellPlaced(W), Apart(W), Plain(W),
         NEW g \in DOMAIN W, NEW k \in 1..Len(W[g]),
         NEW tr, Grown(tr), Built(tr, W, placed),
         NEW p \in 1..Len(tr), Reaches(tr, p, W[g], k - 1),
         \A c \in tr[p].children : tr[c].name # Last(SubSeq(W[g], 1, k)),
         NEW h \in placed
  PROVE  ~ IsPrefix(SubSeq(W[g], 1, k), W[h])
<1> SUFFICES ASSUME IsPrefix(SubSeq(W[g], 1, k), W[h]) PROVE FALSE
  OBVIOUS
<1> DEFINE q == SubSeq(W[g], 1, k)
           r == SubSeq(W[g], 1, k - 1)
           w == W[h]
           e == W[g]
           u == Append(w, Last(h))
<1>1. /\ h \in DOMAIN W /\ e \in Seq(Name) /\ w \in Seq(Name) /\ Last(h) \in Name
      /\ Tree(tr) /\ Kept(tr) = 1..Len(tr) /\ Chains(tr) /\ Rising(tr)
  BY ChainStep DEF Plain, WellPlaced, Grown, Tree
<1>2. \A v \in Seq(Name) : Below(v) = v
  <2>1. \A v \in Seq(Name) : v # << >> => v[1] \in Name
    OBVIOUS
  <2> QED BY <2>1, Specials DEF Below
<1>3. /\ q \in Seq(Name) /\ r \in Seq(Name) /\ Len(q) = k /\ k \in Nat \ {0}
      /\ q = Append(r, Last(q)) /\ Last(q) \in Name
  BY <1>1 DEF Last
<1>4. u \in Seq(Name) /\ k \in 0..Len(u) /\ SubSeq(u, 1, k) = q
  <2>1. Len(q) <= Len(w) /\ SubSeq(q, 1, Len(q)) = SubSeq(w, 1, Len(q))
    BY DEF IsPrefix
  <2> HIDE DEF q, w
  <2>2. SubSeq(w, 1, k) = q
    BY <2>1, <1>3
  <2> QED BY <2>1, <2>2, <1>1, <1>3
<1>5. PICK c \in 2..Len(tr) : tr[c].file = h
  BY DEF Built, Nodes
<1>6. Chain(tr, c) = u /\ c \in Kept(tr)
  <2>1. ~ IsFolder(tr, c)
    BY <1>1, <1>5 DEF IsFolder, WellPlaced
  <2> QED BY <2>1, <1>1, <1>2, <1>5 DEF Built, Chained, ShownAs, Nodes
<1>7. PICK a \in Kept(tr) : Chain(tr, a) = q
  <2> HIDE DEF u, q
  <2>1. k \in 0..Len(Chain(tr, c))
    BY <1>4, <1>6
  <2> QED BY <2>1, <1>1, <1>4, <1>6, NodeAbove
<1>8. a \in Kept(tr) \ {Root} /\ a \in 2..Len(tr)
  <2>1. a # Root
    BY <1>1, <1>3, <1>7 DEF Chains
  <2> QED BY <2>1, <1>1 DEF Root
<1> DEFINE b == tr[a].parent
<1>9. b \in Kept(tr) /\ IsFolder(tr, b) /\ a \in tr[b].children
  <2>1. b \in Kept(tr) /\ a \in tr[b].children /\ b \in 1..Len(tr)
    BY <1>1, <1>8 DEF Kept, Tree
  <2>2. IsFolder(tr, b)
    <3>1. CASE b = Root
      BY <3>1 DEF Built, Nodes
    <3>2. CASE b # Root
      <4>1. b \in 2..Len(tr)
        BY <2>1, <3>2 DEF Root
      <4> QED BY <4>1, <2>1 DEF Built, Nodes
    <3> QED BY <3>1, <3>2
  <2> QED BY <2>1, <2>2
<1>10. Chain(tr, b) = r /\ tr[a].name = Last(q)
  <2>1. Appends(q, Chain(tr, b), tr[a].name)
    BY <1>1, <1>7, <1>8 DEF Appends, Chains
  <2>2. Appends(q, r, Last(q))
    BY <1>3 DEF Appends
  <2>3. Chain(tr, b) \in Seq(TreeName) /\ tr[a].name \in TreeName
    BY <1>1, <1>8, <1>9, NodeTypes DEF Chains
  <2>4. r \in Seq(TreeName) /\ Last(q) \in TreeName
    <3>1. Name \subseteq TreeName
      BY DEF TreeName, Segment
    <3> QED BY <3>1, <1>3, SeqMonotonic
  <2> HIDE DEF q, r, b
  <2> QED BY <2>1, <2>2, <2>3, <2>4, AppendEqual
<1>11. b = p
  <2>1. IsFolder(tr, p) /\ Chain(tr, p) = r /\ p \in Kept(tr)
    BY <1>1, <1>2, <1>3 DEF Reaches
  <2> HIDE DEF b, r
  <2> QED BY <2>1, <1>1, <1>9, <1>10, UniqueChain DEF Built
<1> QED BY <1>9, <1>10, <1>11

\* One level of tree.add keeps it that every folder was opened, if the file may
\* open a folder that no file of the tree is in.
MayOpen(V, placed, path, flag) ==
  (\A h \in placed : ~ IsPrefix(path, V.where[h])) => Opened(V, path, flag)

Views(V, W) == V.where = W

LEMMA AddFolderOpens ==
  ASSUME NEW V, NEW W, Views(V, W), NEW placed, placed \subseteq DOMAIN W,
         WellPlaced(W), Apart(W), Plain(W),
         NEW g \in DOMAIN W, NEW k \in 1..Len(W[g]), NEW trim,
         MayOpen(V, placed, SubSeq(W[g], 1, k), trim),
         NEW s \in Standing, Built(s.tr, W, placed), Reaches(s.tr, s.at, W[g], k - 1),
         NEW r \in Standing, FolderAdded(s, SubSeq(W[g], 1, k), trim, r), AllOpened(s.tr, V)
  PROVE  AllOpened(r.tr, V)
<1> DEFINE path == SubSeq(W[g], 1, k)
           tr == s.tr
           t == r.tr
           L == Len(tr)
           p == s.at
<1>1. /\ Grown(tr) /\ Grown(t) /\ p \in 1..L /\ L \in Nat /\ Rising(tr) /\ Rising(t)
  BY TreeSize DEF Standing, Grown
<1>2. path \in Seq(Name) /\ path # << >> /\ path # <<Slash>> /\ Below(path) = path
  <2>1. path \in Seq(Name) /\ Len(path) = k
    BY DEF Plain
  <2>2. path # << >> /\ path[1] \in Name
    BY <2>1
  <2>3. path # <<Slash>>
    <3>1. <<Slash>>[1] = Slash
      OBVIOUS
    <3> QED BY <3>1, <2>2, Specials
  <2> QED BY <2>1, <2>2, <2>3, Specials DEF Below
<1>3. CASE t = tr
  BY <1>3
<1>4. CASE /\ r.at = L + 1
           /\ Inserted(tr, p, Last(path), path, NoFile, trim, t)
           /\ \A c \in tr[p].children :
                tr[c].name = Last(path) =>
                  \E d \in tr[p].children : tr[d].name = Last(path) /\ tr[d].path # path
  <2>1. ASSUME NEW c \in tr[p].children, tr[c].name = Last(path) PROVE FALSE
    <3>1. PICK d \in tr[p].children : tr[d].name = Last(path) /\ tr[d].path # path
      BY <2>1, <1>4
    <3>2. tr[d].path = path
      <4>1. d \in tr[p].children /\ tr[d].name = Last(SubSeq(W[g], 1, k))
        BY <3>1
      <4>2. SubSeq(W[g], 1, k) # <<Slash>> /\ Reaches(tr, p, W[g], k - 1) /\ Built(tr, W, placed)
        BY <1>2
      <4> QED BY <4>1, <4>2, <1>1, NextFolder, SMTT(30)
    <3> QED BY <3>1, <3>2
  <2>2. ASSUME NEW h \in placed PROVE ~ IsPrefix(path, W[h])
    BY <2>1, <1>1, NoneThere, SMTT(30)
  <2>3. Opened(V, path, trim)
    BY <2>2 DEF MayOpen, Views
  <2>4. Len(t) = L + 1 /\ SameNames(tr, t)
    <3>1. SameNames(tr, t)
      BY <1>1, <1>4, InsertGrown
    <3> QED BY <3>1, <1>4 DEF Inserted
  <2>5. \A n \in 1..L : Chain(t, n) = Chain(tr, n)
    BY <1>1, <2>4, SameChain
  <2>6. Chain(t, L + 1) = path
    <3>1. Reaches(t, r.at, W[g], k)
      BY AddFolderBuilt
    <3> QED BY <3>1, <1>2, <1>4 DEF Reaches
  <2>7. ASSUME NEW n \in 2..(L + 1), IsFolder(t, n) PROVE Opened(V, Chain(t, n), t[n].trim)
    <3>1. CASE n = L + 1
      <4>1. t[n].trim = trim
        BY <3>1, <1>4 DEF Inserted
      <4> QED BY <4>1, <3>1, <2>3, <2>6
    <3>2. CASE n # L + 1
      <4>1. n \in 2..L /\ n \in 1..L
        BY <3>2, <1>1
      <4>2. t[n].trim = tr[n].trim /\ t[n].file = tr[n].file
        BY <4>1, <1>4 DEF Inserted
      <4> QED BY <4>1, <4>2, <2>5, <2>7 DEF AllOpened, IsFolder
    <3> QED BY <3>1, <3>2
  <2> QED BY <2>4, <2>7 DEF AllOpened
<1> QED BY <1>2, <1>3, <1>4 DEF FolderAdded

\* And so does all of it.
LEMMA AddOpens ==
  ASSUME NEW V, NEW W, Views(V, W), NEW placed, placed \subseteq DOMAIN W,
         WellPlaced(W), Apart(W), Plain(W),
         NEW tr, Grown(tr), Built(tr, W, placed), NEW g \in DOMAIN W, NEW trim \in BOOLEAN,
         \A k \in 1..Len(W[g]) : MayOpen(V, placed, SubSeq(W[g], 1, k), trim), AllOpened(tr, V)
  PROVE  AllOpened(Add(tr, W[g], trim).tr, V)
<1> DEFINE N == Len(W[g])
<1>1. W[g] \in Seq(Segment) /\ N \in Nat
  BY DEF WellPlaced, FolderPath
<1>2. PICK f : Levels(f, tr, W[g], trim) /\ Add(tr, W[g], trim) = f[N]
  BY <1>1, AddLevels
<1> DEFINE S == {k \in 0..N : /\ Built(f[k].tr, W, placed) /\ Reaches(f[k].tr, f[k].at, W[g], k)
                              /\ AllOpened(f[k].tr, V)}
<1>3. 0 \in S
  <2>1. f[0].tr = tr /\ f[0].at = Root
    BY <1>2 DEF Levels
  <2>2. SubSeq(W[g], 1, 0) = << >>
    BY <1>1
  <2>3. Below(SubSeq(W[g], 1, 0)) = << >>
    BY <2>2 DEF Below
  <2>4. Chain(tr, Root) = << >>
    BY ChainStep DEF Chains, Grown, Tree
  <2>5. Reaches(tr, Root, W[g], 0)
    BY <2>3, <2>4 DEF Reaches, Built, Nodes
  <2> QED BY <1>1, <2>1, <2>5
<1>4. ASSUME NEW k \in 1..N, k - 1 \in S PROVE k \in S
  <2>1. /\ f[k - 1] \in Standing /\ f[k] \in Standing /\ k \in 0..N
        /\ FolderAdded(f[k - 1], SubSeq(W[g], 1, k), trim, f[k])
    BY <1>1, <1>2, <1>4 DEF Levels
  <2>2. /\ Built(f[k - 1].tr, W, placed) /\ Reaches(f[k - 1].tr, f[k - 1].at, W[g], k - 1)
        /\ AllOpened(f[k - 1].tr, V)
    BY <1>4
  <2>3. Built(f[k].tr, W, placed) /\ Reaches(f[k].tr, f[k].at, W[g], k)
    BY <2>1, <2>2, AddFolderBuilt
  <2>4. MayOpen(V, placed, SubSeq(W[g], 1, k), trim)
    BY <1>4
  <2>5. AllOpened(f[k].tr, V)
    <3>1. k \in 1..Len(W[g])
      BY <1>4
    <3>2. Built(f[k - 1].tr, W, placed) /\ Reaches(f[k - 1].tr, f[k - 1].at, W[g], k - 1)
      BY <2>2
    <3> HIDE DEF N, S
    <3> QED BY <3>1, <3>2, <2>1, <2>2, <2>4, AddFolderOpens
  <2> QED BY <2>1, <2>3, <2>5
<1>5. 0..N \subseteq S
  <2> HIDE DEF S, N
  <2> QED BY <1>1, <1>3, <1>4, InductionUpTo
<1>6. N \in S
  BY <1>1, <1>5
<1> QED BY <1>2, <1>6

\* The file that enters comes before all that are still listed: what it opens
\* was its to open.
LEMMA PlaceOpens ==
  ASSUME TreeInv, OpenInv, Making, NEW f \in todo, Place(f, MayTrim(f)),
         \A h \in Listed : f \notin DOMAIN prj.source /\ ~ Before(VPath(h), VPath(f))
  PROVE  OpenInv'
<1> DEFINE W == Where
           V == View
           trim == MayTrim(f)
           folder == Add(nodes, FolderOf(f), trim)
           placed == prj.files \ todo
<1>1. /\ prj \in Project /\ f \in prj.files /\ todo \subseteq prj.files
      /\ Grown(nodes) /\ trim \in BOOLEAN
  BY DEF TreeInv, Typed, WhileMade, MayTrim
<1>2. /\ WellPlaced(W) /\ DOMAIN W = prj.files /\ W[f] = FolderOf(f)
      /\ FolderOf(f) \in Seq(Segment)
  BY <1>1, WhereFacts DEF WellPlaced, FolderPath
<1>3. /\ Views(V, W) /\ V.where = W /\ V.listed = prj.files \ DOMAIN prj.source /\ V.trim[f] = trim
      /\ \A g \in prj.files : g \in V.before[f] <=> Before(VPath(g), VPath(f))
  BY <1>1, ViewFacts DEF Views
<1>4. /\ prj' = prj /\ phase' = phase /\ Making'
      /\ nodes' = Insert(folder.tr, folder.at, NewNode(Last(VPath(f)), RelPath(f), f, TRUE))
  BY DEF Place, Making
<1>5. Where' = W /\ View' = V
  BY <1>4, SameWhere, SameView
<1>6. SUFFICES ASSUME Apart(W), Plain(W) PROVE AllOpened(nodes', V)
  BY <1>4, <1>5 DEF OpenInv
<1>7. AllOpened(nodes, V) /\ Built(nodes, W, placed)
  BY <1>6 DEF OpenInv, TreeInv, WhileMade
<1>8. ASSUME NEW k \in 1..Len(W[f]) PROVE MayOpen(V, placed, SubSeq(W[f], 1, k), trim)
  <2> DEFINE p == SubSeq(W[f], 1, k)
  <2>1. SUFFICES ASSUME \A h \in placed : ~ IsPrefix(p, W[h]) PROVE Opened(V, p, trim)
    BY <1>3 DEF MayOpen
  <2>2. IsPrefix(p, W[f])
    <3> DEFINE w == W[f]
    <3>1. w \in Seq(Segment) /\ k \in 1..Len(w)
      BY <1>2
    <3> HIDE DEF w
    <3>2. SubSeq(w, 1, k) \in Seq(Segment) /\ Len(SubSeq(w, 1, k)) = k
      BY <3>1
    <3>3. SubSeq(SubSeq(w, 1, k), 1, k) = SubSeq(w, 1, k) /\ k <= Len(w)
      BY <3>1, <3>2
    <3> QED BY <3>2, <3>3 DEF IsPrefix, w
  <2>3. ASSUME NEW h \in V.listed, IsPrefix(p, W[h]) PROVE f \in V.listed /\ h \notin V.before[f]
    <3>1. h \in Listed
      BY <2>1, <2>3, <1>3 DEF Listed
    <3>2. h \in prj.files
      BY <2>3, <1>3
    <3> QED BY <3>1, <3>2, <1>1, <1>3
  <2> HIDE DEF p, W, V, trim
  <2> QED BY <2>2, <2>3, <1>1, <1>2, <1>3 DEF Opened
<1> HIDE DEF W, V, trim
<1>9. AllOpened(folder.tr, V)
  <2>1. placed \subseteq DOMAIN W /\ f \in DOMAIN W
    BY <1>1, <1>2
  <2>2. AllOpened(Add(nodes, W[f], trim).tr, V)
    <3> HIDE DEF placed
    <3> QED BY <2>1, <1>1, <1>2, <1>3, <1>6, <1>7, <1>8, AddOpens
  <2> QED BY <2>2, <1>2
<1>10. /\ Grown(folder.tr) /\ folder.at \in 1..Len(folder.tr)
       /\ Rising(folder.tr) /\ Len(folder.tr) \in Nat
  <2>1. Flagged(nodes, BOOLEAN)
    <3>1. Flagged(nodes, TrimFlags) /\ TrimFlags \subseteq BOOLEAN
      BY DEF TreeInv, Typed, TrimFlags, MayTrim
    <3> QED BY <3>1 DEF Flagged
  <2>2. folder \in Standing
    BY <2>1, <1>1, <1>2, AddStands
  <2> QED BY <2>2, TreeSize DEF Standing, Grown
<1>11. Inserted(folder.tr, folder.at, Last(VPath(f)), RelPath(f), f, TRUE, nodes') /\ f # NoFile
  <2>1. Last(VPath(f)) = Last(f) /\ Last(f) \in TreeName /\ f \in AbsPath /\ f # NoFile
    <3>1. ShowsFile(VPath(f), f)
      BY <1>1, VPathShows
    <3> QED BY <3>1, <1>1, ProjectFiles DEF ShowsFile, TreeName, Segment
  <2>2. RelPath(f) \in Seq(Segment)
    BY <1>1, RelPathShows DEF ShowsFile
  <2> HIDE DEF folder
  <2> QED BY <2>1, <2>2, <1>4, <1>10, InsertFacts
<1> HIDE DEF folder
<1>12. Len(nodes') = Len(folder.tr) + 1 /\ SameNames(folder.tr, nodes') /\ Rising(nodes')
  <2>1. Grown(nodes') /\ SameNames(folder.tr, nodes')
    BY <1>10, <1>11, InsertGrown
  <2>2. Rising(nodes') /\ Len(nodes') = Len(folder.tr) + 1
    BY <2>1, <1>11 DEF Grown, Tree, Inserted
  <2> QED BY <2>1, <2>2
<1>13. \A n \in 1..Len(folder.tr) : Chain(nodes', n) = Chain(folder.tr, n)
  BY <1>10, <1>12, SameChain
<1>14. ASSUME NEW n \in 2..Len(nodes'), IsFolder(nodes', n)
       PROVE  Opened(V, Chain(nodes', n), nodes'[n].trim)
  <2>1. n # Len(folder.tr) + 1
    BY <1>11, <1>14 DEF Inserted, IsFolder
  <2>2. n \in 2..Len(folder.tr) /\ n \in 1..Len(folder.tr)
    BY <2>1, <1>10, <1>12
  <2>3. nodes'[n].trim = folder.tr[n].trim /\ nodes'[n].file = folder.tr[n].file
    BY <2>2, <1>11 DEF Inserted
  <2> QED BY <2>2, <2>3, <1>9, <1>13, <1>14 DEF AllOpened, IsFolder
<1> QED BY <1>14 DEF AllOpened

LEMMA PlacesOpen == ASSUME TreeInv, OpenInv, NEW f \in todo, AddFile(f) \/ AddGenerated(f) PROVE OpenInv'
<1>1. CASE AddFile(f)
  <2>1. f \notin DOMAIN prj.source /\ Place(f, VPath(f) = RelPath(f)) /\ Making
    BY <1>1 DEF AddFile, Listed, Making
  <2>2. MayTrim(f) = (VPath(f) = RelPath(f))
    BY <2>1 DEF MayTrim
  <2>3. Place(f, MayTrim(f))
    BY <2>1, <2>2, Zenon
  <2>4. \A h \in Listed : ~ Before(VPath(h), VPath(f))
    BY <1>1 DEF AddFile
  <2> QED BY <2>1, <2>3, <2>4, PlaceOpens
<1>2. CASE AddGenerated(f)
  <2>1. Making /\ phase = "generated" /\ Place(f, TRUE)
    BY <1>2 DEF AddGenerated, Making
  <2>2. todo \subseteq DOMAIN prj.source
    BY <2>1 DEF TreeInv, WhileMade
  <2>3. Listed = {} /\ f \in DOMAIN prj.source
    BY <2>2 DEF Listed
  <2>4. Place(f, MayTrim(f))
    <3>1. MayTrim(f) = TRUE
      BY <2>3 DEF MayTrim
    <3> QED BY <3>1, <2>1
  <2> QED BY <2>1, <2>3, <2>4, PlaceOpens
<1> QED BY <1>1, <1>2

\* When all files are in, nothing is gone yet.
LEMMA EndsOpen == ASSUME TreeInv, OpenInv, EndGenerated PROVE OpenInv'
<1>1. /\ phase = "generated" /\ phase' = "trim" /\ todo = {}
      /\ prj' = prj /\ nodes' = nodes
  BY DEF EndGenerated
<1>2. Where' = Where /\ View' = View
  BY <1>1, SameWhere, SameView
<1>3. /\ Making /\ ~ Making' /\ prj \in Project /\ Grown(nodes) /\ Tree(nodes) /\ Kept(nodes) = 1..Len(nodes)
      /\ Len(nodes) \in Nat
  BY <1>1, TreeSize DEF Making, TreeInv, Typed, WhileMade, Grown
<1>4. ASSUME Apart(Where), Plain(Where)
      PROVE  TrimmedTo(nodes, Where, 0, 0) /\ GoneOpened(View, 0) /\ LeftOpened(nodes, View, 0)
  <2>1. Built(nodes, Where, prj.files) /\ AllOpened(nodes, View)
    <3>1. prj.files \ todo = prj.files
      BY <1>1
    <3>2. Built(nodes, Where, prj.files \ todo)
      BY <1>3, <1>4 DEF TreeInv, WhileMade
    <3>3. AllOpened(nodes, View)
      BY <1>3, <1>4 DEF OpenInv
    <3> QED BY <3>1, <3>2, <3>3
  <2>2. /\ WellPlaced(Where) /\ DOMAIN Where = prj.files
        /\ View.where = Where
    BY <1>3, WhereFacts, ViewFacts
  <2>3. TrimmedTo(nodes, Where, 0, 0)
    BY <2>1, <2>2, <1>3, BuiltUntrimmed
  <2>4. ASSUME NEW n \in Kept(nodes) \ {Root}, IsFolder(nodes, n), NEW f \in DOMAIN Where
        PROVE  Opened(View, SubSeq(Where[f], 1, 0) \o Chain(nodes, n), nodes[n].trim)
    <3> DEFINE c == Chain(nodes, n)
    <3>1. n \in 2..Len(nodes) /\ n \in 1..Len(nodes)
      BY <1>3 DEF Root
    <3>2. SubSeq(Where[f], 1, 0) = << >>
      BY <1>4 DEF Plain
    <3>3. c \in Seq(TreeName)
      BY <3>1, <1>3, TreeSize, ChainStep DEF Chains
    <3> HIDE DEF c
    <3>4. << >> \o c = c
      BY <3>3, ConcatEmptySeq
    <3> QED BY <3>1, <3>2, <3>4, <2>1, <2>4 DEF AllOpened, c
  <2>5. LeftOpened(nodes, View, 0)
    BY <2>2, <2>4 DEF LeftOpened
  <2> QED BY <2>3, <2>5 DEF GoneOpened
<1>5. 0 \in 0..Len(nodes)
  BY <1>3
<1> QED BY <1>1, <1>2, <1>3, <1>4, <1>5 DEF OpenInv

\* Once more item makes the first k the first k + 1.
LEMMA PartStep ==
  ASSUME NEW S, NEW w \in Seq(S), NEW k \in Nat, k + 1 <= Len(w), NEW c \in Seq(S)
  PROVE  /\ SubSeq(w, 1, k) \o <<w[k + 1]>> = SubSeq(w, 1, k + 1)
         /\ SubSeq(w, 1, k) \o (<<w[k + 1]>> \o c) = SubSeq(w, 1, k + 1) \o c
<1> DEFINE a == SubSeq(w, 1, k)
           b == <<w[k + 1]>>
<1>1. a \in Seq(S) /\ Len(a) = k /\ \A l \in 1..k : a[l] = w[l]
  OBVIOUS
<1>2. w[k + 1] \in S /\ b \in Seq(S) /\ Len(b) = 1 /\ b[1] = w[k + 1]
  OBVIOUS
<1>3. SubSeq(w, 1, k + 1) \in Seq(S) /\ Len(SubSeq(w, 1, k + 1)) = k + 1
      /\ \A l \in 1..(k + 1) : SubSeq(w, 1, k + 1)[l] = w[l]
  OBVIOUS
<1> HIDE DEF a, b
<1>4. a \in Seq(S) /\ b \in Seq(S)
  BY <1>1, <1>2
<1>5. a \o b = SubSeq(w, 1, k + 1)
  <2>1. /\ a \o b \in Seq(S) /\ Len(a \o b) = Len(a) + Len(b)
        /\ \A l \in 1..(Len(a) + Len(b)) : (a \o b)[l] = IF l <= Len(a) THEN a[l] ELSE b[l - Len(a)]
    BY <1>4, ConcatProperties
  <2> DEFINE d == a \o b
             e == SubSeq(w, 1, k + 1)
  <2>2. d \in Seq(S) /\ Len(d) = k + 1 /\ \A l \in 1..(k + 1) : d[l] = w[l]
    <3>1. ASSUME NEW l \in 1..(k + 1) PROVE d[l] = w[l]
      <4>1. d[l] = IF l <= k THEN a[l] ELSE b[l - k]
        BY <2>1, <1>1, <1>2
      <4>2. CASE l <= k
        BY <4>1, <4>2, <1>1
      <4>3. CASE l = k + 1
        BY <4>1, <4>3, <1>2
      <4>4. l <= k \/ l = k + 1
        OBVIOUS
      <4> HIDE DEF d
      <4> QED BY <4>2, <4>3, <4>4
    <3>2. d \in Seq(S) /\ Len(d) = k + 1
      BY <2>1, <1>1, <1>2
    <3> HIDE DEF d
    <3> QED BY <3>1, <3>2
  <2>3. e \in Seq(S) /\ Len(e) = k + 1 /\ \A l \in 1..(k + 1) : e[l] = w[l]
    BY <1>3
  <2> HIDE DEF d, e
  <2>4. d = e
    BY <2>2, <2>3, SeqEqual
  <2> QED BY <2>4 DEF d, e
<1>6. a \o (b \o c) = (a \o b) \o c
  <2>1. c \in Seq(S)
    OBVIOUS
  <2> QED BY <2>1, <1>4, ConcatAssociative
<1> QED BY <1>5, <1>6 DEF a, b

\* The folder that is alone at the top is the next one of every file.
LEMMA NextGone ==
  ASSUME TreeInv, ~ Making, Apart(Where), Plain(Where), NEW n \in nodes[Root].children,
         nodes[Root].children = {n}, nodes[n].children # {},
         NEW k \in 0..Len(nodes), TrimmedTo(nodes, Where, k, 0)
  PROVE  /\ n \in Kept(nodes) \ {Root} /\ IsFolder(nodes, n) /\ Chain(nodes, n) = <<nodes[n].name>>
         /\ TrimmedTo(Lifted(n), Where, k + 1, 0)
         /\ \A f \in prj.files : k + 1 <= Len(Where[f]) /\ Where[f][k + 1] = nodes[n].name
<1>1. /\ prj \in Project /\ Tree(nodes) /\ Rising(nodes) /\ Chains(nodes)
  BY TreeSize, ChainStep DEF TreeInv, Typed
<1>2. /\ n \in 2..Len(nodes) /\ n \in 1..Len(nodes) /\ n \in Kept(nodes) /\ n # Root
      /\ nodes[n].parent = Root
  BY <1>1, FolderTrim, TreeSize DEF Tree
<1>3. /\ WellPlaced(Where) /\ DOMAIN Where = prj.files /\ Nodes(nodes, Where, prj.files)
  BY <1>1, WhereFacts DEF TreeInv, WhereShown
<1>4. IsFolder(nodes, n)
  BY <1>2, <1>3 DEF Nodes
<1>5. Chain(nodes, n) = <<nodes[n].name>>
  <2>1. Chain(nodes, n) = Append(<< >>, nodes[n].name)
    BY <1>1, <1>2 DEF Chains
  <2> QED BY <2>1
<1>6. IsLift(nodes, n, Lifted(n))
  BY <1>1, <1>2, LiftedFacts
<1>7. TrimmedTo(Lifted(n), Where, k + 1, 0) /\ NextIs(Where, k, nodes[n].name)
  <2>1. Nodes(nodes, Where, DOMAIN Where)
    BY <1>3
  <2> QED BY <2>1, <1>1, <1>3, <1>6, LiftCommon
<1>8. \A f \in prj.files : Below(Where[f]) = Where[f]
  <2>1. ASSUME NEW f \in prj.files PROVE Below(Where[f]) = Where[f]
    <3>1. Where[f] \in Seq(Name)
      BY <1>3 DEF Plain
    <3>2. Where[f] # << >> => Where[f][1] \in Name
      BY <3>1
    <3> QED BY <3>2, Specials DEF Below
  <2> QED BY <2>1
<1>9. \A f \in DOMAIN Where : k + 1 <= Len(Below(Where[f]))
  BY <1>7 DEF TrimmedTo, Common
<1> QED BY <1>2, <1>3, <1>4, <1>5, <1>7, <1>8, <1>9 DEF NextIs

LEMMA TrimOpen == ASSUME TreeInv, OpenInv, TrimRoot PROVE OpenInv'
<1>1. /\ phase = "trim" /\ phase' = phase /\ prj' = prj /\ ~ Making /\ ~ Making'
      /\ \E n \in Superfluous : nodes' = Lifted(n)
  BY DEF TrimRoot, Making
<1>2. PICK n \in Superfluous : nodes' = Lifted(n)
  BY <1>1
<1>3. /\ n \in nodes[Root].children /\ nodes[Root].children = {n}
      /\ nodes[n].children # {} /\ nodes[n].trim
  BY DEF Superfluous
<1>4. Where' = Where /\ View' = View
  BY <1>1, SameWhere, SameView
<1>5. /\ prj \in Project /\ Tree(nodes) /\ Rising(nodes) /\ Chains(nodes) /\ Len(nodes) \in Nat
  BY TreeSize, ChainStep DEF TreeInv, Typed
<1>6. View.where = Where /\ DOMAIN Where = prj.files
  BY <1>5, ViewFacts
<1>7. SUFFICES ASSUME Apart(Where), Plain(Where)
               PROVE  \E k \in 0..Len(nodes') :
                        /\ TrimmedTo(nodes', Where, k, 0) /\ GoneOpened(View, k)
                        /\ LeftOpened(nodes', View, k)
  BY <1>1, <1>4 DEF OpenInv
<1>8. PICK k \in 0..Len(nodes) :
        TrimmedTo(nodes, Where, k, 0) /\ GoneOpened(View, k) /\ LeftOpened(nodes, View, k)
  BY <1>1, <1>7 DEF OpenInv
<1>9. /\ n \in Kept(nodes) \ {Root} /\ IsFolder(nodes, n) /\ Chain(nodes, n) = <<nodes[n].name>>
      /\ TrimmedTo(nodes', Where, k + 1, 0)
      /\ \A f \in prj.files : k + 1 <= Len(Where[f]) /\ Where[f][k + 1] = nodes[n].name
  BY <1>1, <1>2, <1>3, <1>7, <1>8, NextGone
<1>10. IsLift(nodes, n, nodes') /\ Kept(nodes') = Kept(nodes) \ {n} /\ Tree(nodes') /\ Len(nodes') = Len(nodes)
  <2>1. n \in 1..Len(nodes)
    BY <1>9 DEF Kept
  <2>2. IsLift(nodes, n, nodes')
    BY <2>1, <1>2, <1>5, LiftedFacts
  <2> QED BY <2>2, <1>3, <1>5, LiftTree DEF IsLift
<1>11. k + 1 \in 0..Len(nodes') /\ k \in Nat
  BY <1>5, <1>8, <1>9 DEF TrimmedTo
<1>12. \A f \in prj.files : Where[f] \in Seq(TreeName)
  <2>1. Name \subseteq TreeName
    BY DEF TreeName, Segment
  <2>2. \A f \in prj.files : Where[f] \in Seq(Name)
    BY <1>6, <1>7 DEF Plain
  <2> QED BY <2>1, <2>2, SeqMonotonic
<1>13. GoneOpened(View, k + 1)
  <2>1. ASSUME NEW f \in prj.files, NEW l \in 1..(k + 1) PROVE Opened(View, SubSeq(Where[f], 1, l), TRUE)
    <3>1. CASE l # k + 1
      <4>1. l \in 1..k
        BY <3>1, <1>11
      <4> QED BY <4>1, <1>6, <1>8 DEF GoneOpened
    <3>2. CASE l = k + 1
      <4>1. Opened(View, SubSeq(Where[f], 1, k) \o Chain(nodes, n), nodes[n].trim)
        BY <1>6, <1>8, <1>9 DEF LeftOpened
      <4>2. SubSeq(Where[f], 1, k) \o <<Where[f][k + 1]>> = SubSeq(Where[f], 1, k + 1)
        BY <1>9, <1>11, <1>12, PartStep
      <4>3. nodes[n].trim = TRUE
        <5>1. nodes[n].trim \in BOOLEAN
          <6>1. nodes[n] \in TreeNode
            BY <1>5, <1>9, NodeTypes DEF Kept
          <6> QED BY <6>1 DEF TreeNode
        <5> QED BY <5>1, <1>3
      <4> QED BY <4>1, <4>2, <4>3, <3>2, <1>9
    <3> QED BY <3>1, <3>2
  <2> QED BY <2>1, <1>6 DEF GoneOpened
<1>14. LeftOpened(nodes', View, k + 1)
  <2>1. ASSUME NEW x \in Kept(nodes') \ {Root}, IsFolder(nodes', x), NEW f \in prj.files
        PROVE  Opened(View, SubSeq(Where[f], 1, k + 1) \o Chain(nodes', x), nodes'[x].trim)
    <3> DEFINE c == Chain(nodes', x)
    <3>1. x \in Kept(nodes) \ {Root} /\ x \in 1..Len(nodes)
      BY <1>10 DEF Kept
    <3>2. IsFolder(nodes, x) /\ nodes'[x].trim = nodes[x].trim
      BY <3>1, <2>1, <1>10 DEF IsLift, IsFolder
    <3>3. Chain(nodes, x) = <<nodes[n].name>> \o c
      <4>1. LiftedChain(nodes, n, nodes', x)
        BY <2>1, <1>3, <1>5, <1>10, LiftChains
      <4> QED BY <4>1, <1>3 DEF LiftedChain
    <3>4. c \in Seq(TreeName)
      BY <3>1, <1>10, TreeSize, ChainStep DEF Chains
    <3>5. Opened(View, SubSeq(Where[f], 1, k) \o Chain(nodes, x), nodes[x].trim)
      BY <3>1, <3>2, <1>6, <1>8 DEF LeftOpened
    <3>6. SubSeq(Where[f], 1, k) \o (<<Where[f][k + 1]>> \o c) = SubSeq(Where[f], 1, k + 1) \o c
      <4> HIDE DEF c
      <4>1. Where[f] \in Seq(TreeName) /\ k \in Nat /\ k + 1 <= Len(Where[f])
        BY <1>9, <1>11, <1>12
      <4> QED BY <3>4, <4>1, PartStep
    <3> HIDE DEF c
    <3> QED BY <3>2, <3>3, <3>5, <3>6, <1>9 DEF c
  <2> QED BY <2>1, <1>6 DEF LeftOpened
<1> QED BY <1>9, <1>11, <1>13, <1>14

\* Files and folders stay as they are in the other steps.
LEMMA OtherOpens ==
  ASSUME TreeInv, OpenInv, EndFiles \/ EndTrim \/ DropDotDot \/ Finish \/ UNCHANGED treeVars
  PROVE  OpenInv'
<1>1. CASE EndFiles \/ UNCHANGED treeVars
  <2>1. prj' = prj /\ nodes' = nodes
    BY <1>1 DEF EndFiles, treeVars
  <2>2. (Making' /\ Making) \/ (~ Making' /\ ~ Making /\ phase' = phase)
    BY <1>1 DEF EndFiles, treeVars, Making
  <2>3. Superfluous' = Superfluous
    BY <2>1 DEF Superfluous
  <2>4. Where' = Where /\ View' = View
    BY <2>1, SameWhere, SameView
  <2> QED BY <2>1, <2>2, <2>3, <2>4 DEF OpenInv
<1>2. CASE EndTrim
  <2>1. /\ prj' = prj /\ nodes' = nodes /\ ~ Making' /\ ~ Making /\ Superfluous = {}
    BY <1>2 DEF EndTrim, Making
  <2>2. Where' = Where /\ View' = View /\ Superfluous' = Superfluous
    BY <2>1, SameWhere, SameView DEF Superfluous
  <2> QED BY <2>1, <2>2 DEF OpenInv
<1>3. CASE DropDotDot
  <2>1. ~ Making /\ prj' = prj /\ Tree(nodes)
    BY <1>3 DEF DropDotDot, Making, TreeInv, Typed
  <2>2. SUFFICES ASSUME Apart(Where), Plain(Where) PROVE FALSE
    <3>1. Where' = Where
      BY <2>1, SameWhere
    <3> QED BY <2>2, <3>1 DEF OpenInv
  <2>3. PICK n \in DotDots : TRUE
    BY <1>3 DEF DropDotDot
  <2>4. n \in nodes[Root].children /\ nodes[n].name = DotDot
    BY DEF DotDots
  <2>5. n \in 2..Len(nodes)
    BY <2>1, <2>4, TreeSize DEF Tree
  <2>6. nodes[n].name \in Name
    BY <2>1, <2>2, <2>5 DEF TreeInv, WhereShown, Nodes
  <2> QED BY <2>4, <2>6, Specials
<1>4. CASE Finish
  <2>1. /\ phase = "dotdot" /\ phase' = "done" /\ prj' = prj /\ ~ Making /\ ~ Making'
        /\ Tree(nodes)
    BY <1>4 DEF Finish, Making, TreeInv, Typed
  <2>2. Where' = Where /\ View' = View
    BY <2>1, SameWhere, SameView
  <2>3. Repathed(nodes, nodes')
    BY <1>4, <2>1, FinishFacts
  <2>4. /\ Kept(nodes') = Kept(nodes) /\ Len(nodes') = Len(nodes)
        /\ \A x \in 1..Len(nodes) : Chain(nodes', x) = Chain(nodes, x)
    BY <2>1, <2>3, RepathedTree DEF Repathed
  <2>5. /\ Root \in 1..Len(nodes) /\ \A x \in Kept(nodes) : x \in 1..Len(nodes)
        /\ \A x \in nodes[Root].children : x \in 1..Len(nodes)
    <3>1. Root \in Kept(nodes) /\ Root \in 1..Len(nodes) /\ \A x \in 2..Len(nodes) : x \in 1..Len(nodes)
      BY <2>1, TreeSize
    <3> QED BY <3>1, <2>1 DEF Tree, Kept
  <2>6. Superfluous' = Superfluous
    BY <2>3, <2>5 DEF Superfluous, Repathed
  <2>7. SUFFICES ASSUME Apart(Where), Plain(Where)
                 PROVE  \E k \in 0..Len(nodes) :
                          /\ TrimmedTo(nodes', Where, k, 0) /\ GoneOpened(View, k)
                          /\ LeftOpened(nodes', View, k) /\ Superfluous = {}
    BY <2>1, <2>2, <2>4, <2>6 DEF OpenInv
  <2>8. PICK k \in 0..Len(nodes) :
          /\ TrimmedTo(nodes, Where, k, 0) /\ GoneOpened(View, k) /\ LeftOpened(nodes, View, k)
          /\ Superfluous = {}
    BY <2>1, <2>7 DEF OpenInv
  <2>9. TrimmedTo(nodes', Where, k, 0)
    BY <2>1, <2>3, <2>8, RepathedShows
  <2>10. LeftOpened(nodes', View, k)
    <3>1. \A x \in Kept(nodes) : /\ IsFolder(nodes', x) <=> IsFolder(nodes, x)
                                 /\ nodes'[x].trim = nodes[x].trim
                                 /\ Chain(nodes', x) = Chain(nodes, x)
      BY <2>3, <2>4, <2>5 DEF Repathed, IsFolder
    <3> QED BY <3>1, <2>4, <2>8 DEF LeftOpened
  <2> QED BY <2>8, <2>9, <2>10
<1> QED BY <1>1, <1>2, <1>3, <1>4

\* OpenInv holds of a tree that is made, trimmed and done.
THEOREM OpenInvariance == TreeSpec => []OpenInv
<1>1. TreeInit => OpenInv
  <2>1. SUFFICES ASSUME TreeInit PROVE OpenInv
    OBVIOUS
  <2>2. Making
    BY <2>1 DEF TreeInit, Making
  <2>3. Len(nodes) = 1
    BY <2>1 DEF TreeInit, NewTree
  <2>4. AllOpened(nodes, View)
    BY <2>3 DEF AllOpened
  <2> QED BY <2>2, <2>4 DEF OpenInv
<1>2. TreeInv /\ OpenInv /\ [TreeNext]_treeVars => OpenInv'
  <2>1. SUFFICES ASSUME TreeInv, OpenInv, [TreeNext]_treeVars PROVE OpenInv'
    OBVIOUS
  <2> QED BY <2>1, PlacesOpen, EndsOpen, TrimOpen, OtherOpens DEF TreeNext
<1> QED BY <1>1, <1>2, TreeInvariance, PTL DEF TreeSpec

\* Who has opened a folder.
LEMMA WhoOpened ==
  ASSUME prj \in Project, NEW p, NEW flag, Opened(View, p, flag)
  PROVE  IF flag THEN ~ AskedFor(p) ELSE MayBeAskedFor(p)
<1> DEFINE V == View
<1>1. /\ DOMAIN V.where = prj.files /\ V.listed = prj.files \ DOMAIN prj.source
      /\ \A f \in prj.files : V.where[f] = FolderOf(f) /\ V.trim[f] = MayTrim(f)
      /\ \A f, g \in prj.files : g \in V.before[f] <=> Before(VPath(g), VPath(f))
  BY ViewFacts
<1> HIDE DEF V
<1>2. PICK g \in prj.files :
        /\ IsPrefix(p, FolderOf(g)) /\ MayTrim(g) = flag
        /\ \A h \in V.listed : IsPrefix(p, V.where[h]) => g \in V.listed /\ h \notin V.before[g]
  BY <1>1 DEF Opened, V
<1>3. ASSUME NEW h \in prj.files \ DOMAIN prj.source, IsPrefix(p, FolderOf(h))
      PROVE  g \in prj.files \ DOMAIN prj.source /\ ~ Before(VPath(h), VPath(g))
  BY <1>1, <1>2, <1>3
<1>4. \A h \in FirstIn(p) : h \in prj.files \ DOMAIN prj.source /\ IsPrefix(p, FolderOf(h))
  BY DEF FirstIn
<1>5. g \in prj.files \ DOMAIN prj.source => g \in FirstIn(p)
  BY <1>2, <1>3 DEF FirstIn
<1>6. ASSUME flag, AskedFor(p) PROVE FALSE
  <2>1. g \in prj.files \ DOMAIN prj.source
    BY <1>3, <1>4, <1>6 DEF AskedFor
  <2>2. VPath(g) = RelPath(g)
    BY <2>1, <1>2, <1>6 DEF MayTrim
  <2> QED BY <2>1, <2>2, <1>5, <1>6 DEF AskedFor
<1>7. ASSUME ~ flag PROVE MayBeAskedFor(p)
  <2>1. ~ MayTrim(g)
    BY <1>2, <1>7
  <2>2. g \in prj.files \ DOMAIN prj.source /\ VPath(g) # RelPath(g)
    BY <2>1 DEF MayTrim
  <2> QED BY <2>2, <1>5 DEF MayBeAskedFor
<1> QED BY <1>6, <1>7

\* OnlyNeededFolders: of a project whose files are shown inside its location, the
\* folders that trimroot takes were not asked for by the vpaths of the first file
\* in them, and a single one that it leaves at the top was.  Without vpaths it
\* leaves none there.
THEOREM FoldersNeeded == TreeSpec => []OnlyNeededFolders
<1>1. TreeInv /\ OpenInv => OnlyNeededFolders
  <2>1. SUFFICES ASSUME TreeInv, OpenInv, phase = "done" PROVE OnlyNeededFolders
    BY DEF OnlyNeededFolders
  <2>2. ~ Making /\ prj \in Project /\ Tree(nodes)
    BY <2>1 DEF Making, TreeInv, Typed
  <2>3. ASSUME ShownApart, ~ Outside, NEW f \in prj.files
        PROVE  \E a \in 1..Len(FolderOf(f)) + 1 :
                 /\ ShownFrom(f, a)
                 /\ \A l \in 1..a - 1 : ~ AskedFor(SubSeq(FolderOf(f), 1, l))
                 /\ (\E n \in Folder : nodes[Root].children = {n}) =>
                      a <= Len(FolderOf(f)) /\ MayBeAskedFor(SubSeq(FolderOf(f), 1, a))
    <3> DEFINE w == FolderOf(f)
    <3>1. /\ Apart(Where) /\ Plain(Where) /\ DOMAIN Where = prj.files /\ Where[f] = w
          /\ View.where = Where
      BY <2>2, <2>3, WhereFacts, ShownApartWhere, ViewFacts
    <3>2. w \in Seq(Name) /\ Below(w) = w
      <4>1. w \in Seq(Name)
        BY <3>1 DEF Plain
      <4>2. w # << >> => w[1] \in Name
        BY <4>1
      <4> QED BY <4>1, <4>2, Specials DEF Below
    <3>3. PICK k \in 0..Len(nodes) :
            /\ TrimmedTo(nodes, Where, k, 0) /\ GoneOpened(View, k) /\ LeftOpened(nodes, View, k)
            /\ Superfluous = {}
      BY <2>1, <2>2, <3>1 DEF OpenInv
    <3>4. k \in 0..Len(w)
      BY <3>1, <3>2, <3>3 DEF TrimmedTo, Common
    <3>5. ShownFrom(f, k + 1)
      <4>1. PICK n \in Leaves(f) : n \in 2..Len(nodes) /\ ~ IsFolder(nodes, n) /\ nodes[n].file = f
        BY <2>1, <2>2, <2>3, LeafOfFile
      <4>2. Chain(nodes, n) = Append(Remaining(w, k, 0), Last(f))
        BY <4>1, <3>1, <3>2, <3>3 DEF TrimmedTo, Cut
      <4>3. Remaining(w, k, 0) = SubSeq(w, k + 1, Len(w))
        <5>1. w \in Seq(Label)
          BY <3>2, SeqMonotonic DEF Label
        <5> HIDE DEF w
        <5> QED BY <5>1, <3>4, RemainingNone
      <4> QED BY <4>2, <4>3 DEF ShownFrom
    <3>6. ASSUME NEW l \in 1..k PROVE ~ AskedFor(SubSeq(w, 1, l))
      <4>1. Opened(View, SubSeq(w, 1, l), TRUE)
        BY <3>1, <3>3 DEF GoneOpened
      <4> HIDE DEF w
      <4> QED BY <4>1, <2>2, WhoOpened
    <3>7. ASSUME NEW n \in Folder, nodes[Root].children = {n}
          PROVE  k + 1 <= Len(w) /\ MayBeAskedFor(SubSeq(w, 1, k + 1))
      <4>1. n \in nodes[Root].children /\ nodes[n].children # {} /\ ~ nodes[n].trim
        BY <3>3, <3>7 DEF Folder, Superfluous
      <4>2. /\ n \in Kept(nodes) \ {Root} /\ IsFolder(nodes, n) /\ Chain(nodes, n) = <<nodes[n].name>>
            /\ k + 1 <= Len(w) /\ w[k + 1] = nodes[n].name
        BY <4>1, <2>1, <2>2, <3>1, <3>3, <3>7, NextGone
      <4>3. Opened(View, SubSeq(w, 1, k) \o <<w[k + 1]>>, nodes[n].trim)
        BY <4>2, <3>1, <3>3 DEF LeftOpened
      <4>4. SubSeq(w, 1, k) \o <<w[k + 1]>> = SubSeq(w, 1, k + 1)
        <5> HIDE DEF w
        <5>1. k \in Nat /\ << >> \in Seq(Name)
          BY <3>4
        <5> QED BY <5>1, <4>2, <3>2, PartStep
      <4>5. MayBeAskedFor(SubSeq(w, 1, k + 1))
        <5> HIDE DEF w
        <5>1. Opened(View, SubSeq(w, 1, k + 1), nodes[n].trim)
          BY <4>3, <4>4
        <5> QED BY <5>1, <4>1, <2>2, WhoOpened
      <4> QED BY <4>2, <4>5
    <3>8. k + 1 \in 1..Len(w) + 1 /\ (k + 1) - 1 = k
      <4>1. Len(w) \in Nat
        BY <3>2
      <4> QED BY <4>1, <3>4
    <3> QED BY <3>5, <3>6, <3>7, <3>8
  <2>4. ASSUME \A f \in prj.files : VPath(f) = RelPath(f), NEW n \in Folder
        PROVE  nodes[Root].children # {n}
    <3>1. FALSE \notin TrimFlags
      BY <2>4 DEF TrimFlags, MayTrim
    <3>2. NoFolderAlone(nodes)
      BY <2>1, <2>2, <3>1 DEF TreeInv, WhenMade
    <3>3. n \in Kept(nodes) /\ nodes[n].children # {}
      BY <2>1, NodesKept DEF Folder
    <3> QED BY <3>2, <3>3 DEF NoFolderAlone
  <2> QED BY <2>3, <2>4 DEF OnlyNeededFolders
<1> QED BY <1>1, TreeInvariance, OpenInvariance, PTL
=============================================================================
