------------------------------ MODULE Criteria ------------------------------
(***************************************************************************)
(* Criteria: a filter, as a script writes it, and the test whether it      *)
(* matches (criteria.new, and criteria_matches in C).                      *)
(*                                                                         *)
(* A filter is a list of terms, all of which must match.  A term is a list *)
(* of words joined by "or".  A word is a text after any number of "not"    *)
(* and of field prefixes; a prefix also holds for the words after it.      *)
(* filter takes prefixes, "configurations" if there is none; the older     *)
(* configuration takes none, and compares a text with every field.         *)
(*                                                                         *)
(* The same block of settings is tested for a configuration, and later for *)
(* each file of it, whose terms are those of the configuration and a file  *)
(* name.  A file should receive just what is said of files: so a filter    *)
(* matches a file only if a word about files took part in the decision.    *)
(*                                                                         *)
(* Letter case, aliases and wildcards are in Selects.                      *)
(***************************************************************************)
EXTENDS Naturals, Sequences, FiniteSets

CONSTANTS
  Field,     \* the valid prefixes
  Files,     \* "files" and
  Default,   \* "configurations", two of them
  Unknown,   \* a prefix that is not valid
  NoPrefix,  \* the prefix of words of the older style
  Not,       \* "not "
  Text,      \* texts of words
  Value,     \* values of fields, file names included
  Selects,   \* Selects[x]: the values that text x matches
  Filter,    \* the filters considered, as written, and their style
  Context    \* the terms of a configuration, and the name of one of its files

\* A word as it is written, and after parsing.
WrittenWord == [marks : Seq(Field \union {Unknown, Not}), text : Text]
Word == [prefix : Field \union {NoPrefix}, values : SUBSET Value, negated : BOOLEAN]

ASSUME FieldAssumption ==
  /\ Files \in Field /\ Default \in Field /\ Files # Default
  /\ {Unknown, NoPrefix, Not} \intersect Field = {}
ASSUME SelectsAssumption == Selects \in [Text -> SUBSET Value]
ASSUME FilterAssumption == \A f \in Filter :
  /\ f.written \in Seq(Seq(WrittenWord) \ {<< >>})
  /\ f.unprefixed \in BOOLEAN
ASSUME ContextAssumption == \A c \in Context :
  /\ c.terms \in [Field -> SUBSET Value] /\ c.terms[Files] = {}
  /\ c.file \in Value

VARIABLES
  filter, context,  \* what is given (never changes)
  patterns,    \* the terms that are parsed
  subject,     \* what is tested: "parse" (nothing yet), "config", "file",
               \* "done" (nothing any more), or "error"
  i, j,        \* the next pattern, the next word of it
  fileMatched,
  verdict      \* of each subject: "matches", "fails", or "open"

vars == <<filter, context, patterns, subject, i, j, fileMatched, verdict>>

-----------------------------------------------------------------------------
(* Parsing                                                                 *)

\* The prefix of a word, when the word before it has the given one.
PrefixOf(word, prefix) ==
  LET named == {k \in 1..Len(word.marks) : word.marks[k] # Not}
  IN  IF named = {} THEN prefix
      ELSE word.marks[CHOOSE k \in named : \A m \in named : m <= k]

\* Mutant of WordPrefixes: each word starts from the default.
WordPrefixesDefault(term) ==
  [k \in 0..Len(term) |-> IF k = 0 THEN Default ELSE PrefixOf(term[k], Default)]

\* The prefix of each word of a term; of word 0, the one a term starts with.
WordPrefixes(term) ==
  LET P[k \in 0..Len(term)] ==
        IF k = 0 THEN (IF filter.unprefixed THEN NoPrefix ELSE Default)
        ELSE PrefixOf(term[k], P[k - 1])
  IN  P

\* criteria._word
ParsedWord(word, prefix) ==
  [prefix  |-> prefix,
   values  |-> Selects[word.text],
   negated |-> Cardinality({k \in 1..Len(word.marks) : word.marks[k] = Not}) % 2 = 1]

Parsing == subject = "parse" /\ Len(patterns) < Len(filter.written)

Term == filter.written[Len(patterns) + 1]

ParseTerm ==
  /\ Parsing
  /\ \A k \in 1..Len(Term) : WordPrefixes(Term)[k] \in Field \union {NoPrefix}
  /\ patterns' = Append(patterns,
       [k \in 1..Len(Term) |-> ParsedWord(Term[k], WordPrefixes(Term)[k])])
  /\ UNCHANGED <<filter, context, subject, i, j, fileMatched, verdict>>

\* "Invalid field prefix"
RejectTerm ==
  /\ Parsing
  /\ \E k \in 1..Len(Term) : WordPrefixes(Term)[k] \notin Field \union {NoPrefix}
  /\ subject' = "error"
  /\ UNCHANGED <<filter, context, patterns, i, j, fileMatched, verdict>>

EndParsing ==
  /\ subject = "parse" /\ Len(patterns) = Len(filter.written)
  /\ subject' = "config"
  /\ UNCHANGED <<filter, context, patterns, i, j, fileMatched, verdict>>

-----------------------------------------------------------------------------
(* Testing a word                                                          *)

\* The terms of a subject.
Terms(s) ==
  IF s = "file" THEN [context.terms EXCEPT ![Files] = {context.file}] ELSE context.terms

\* Mutant of TestWithPrefix: a word about files is tested without a file.
TestWithPrefixAnyway(w, s) ==
  w.values \intersect Terms(s)[w.prefix] # {} <=> ~ w.negated

\* testWithPrefix: without a file, a word about files is false, negated or not
TestWithPrefix(w, s) ==
  /\ w.prefix = Files => s = "file"
  /\ w.values \intersect Terms(s)[w.prefix] # {} <=> ~ w.negated

\* The word names the file, in the older style.
NamesFile(w, s) == s = "file" /\ ~ w.negated /\ context.file \in w.values

\* testNoPrefix
TestNoPrefix(w, s) ==
  \/ NamesFile(w, s)
  \/ (\E f \in Field : w.values \intersect Terms(s)[f] # {}) <=> ~ w.negated

TestWord(w, s) == IF w.prefix = NoPrefix THEN TestNoPrefix(w, s) ELSE TestWithPrefix(w, s)

\* Mutant of MatchesFile: a negated word does not count.
MatchesFilePlain(w, s) ==
  IF w.prefix = NoPrefix THEN NamesFile(w, s)
  ELSE w.prefix = Files /\ ~ w.negated /\ TestWithPrefix(w, s)

\* Whether the test of a word sets fileMatched.
MatchesFile(w, s) ==
  IF w.prefix = NoPrefix THEN NamesFile(w, s)
  ELSE w.prefix = Files /\ TestWithPrefix(w, s)

-----------------------------------------------------------------------------
(* criteria_matches                                                        *)

\* The call for the subject returns; the next one is made.
ReturnVerdict(v) ==
  /\ verdict' = [verdict EXCEPT ![subject] = v]
  /\ subject' = IF subject = "config" THEN "file" ELSE "done"
  /\ i' = 1 /\ j' = 1 /\ fileMatched' = FALSE
  /\ UNCHANGED <<filter, context, patterns>>

Testing == subject \in {"config", "file"}

\* patterns->prefixed and patterns->filePatterns
Prefixed == \E k \in 1..Len(patterns) : patterns[k][1].prefix # NoPrefix
HasFilePattern ==
  \E k \in 1..Len(patterns) : \E m \in 1..Len(patterns[k]) : patterns[k][m].prefix = Files

Skipped == subject = "file" /\ Prefixed /\ ~ HasFilePattern

\* Nothing in the filter is about files.
SkipFile == Testing /\ Skipped /\ ReturnVerdict("fails")

\* A word is true: the pattern matches, whatever its other words say.
WordTrue ==
  /\ Testing /\ ~ Skipped /\ i <= Len(patterns)
  /\ TestWord(patterns[i][j], subject)
  /\ fileMatched' = (fileMatched \/ MatchesFile(patterns[i][j], subject))
  /\ i' = i + 1 /\ j' = 1
  /\ UNCHANGED <<filter, context, patterns, subject, verdict>>

\* A word is false: the next one is tried.  (It cannot have matched the file.)
WordFalse ==
  /\ Testing /\ ~ Skipped /\ i <= Len(patterns)
  /\ ~ TestWord(patterns[i][j], subject)
  /\ j < Len(patterns[i])
  /\ j' = j + 1
  /\ UNCHANGED <<filter, context, patterns, subject, i, fileMatched, verdict>>

\* No word of the pattern is true.
PatternFalse ==
  /\ Testing /\ ~ Skipped /\ i <= Len(patterns)
  /\ ~ TestWord(patterns[i][j], subject)
  /\ j = Len(patterns[i])
  /\ ReturnVerdict("fails")

\* Mutant of EndMatching: a file needs no word of its own.
EndMatchingLoose ==
  /\ Testing /\ ~ Skipped /\ i > Len(patterns)
  /\ ReturnVerdict("matches")

\* "if a file name was provided in the context, it must be matched"
EndMatching ==
  /\ Testing /\ ~ Skipped /\ i > Len(patterns)
  /\ ReturnVerdict(IF subject = "file" /\ ~ fileMatched THEN "fails" ELSE "matches")

-----------------------------------------------------------------------------
(* Specification                                                           *)

Init ==
  /\ filter \in Filter /\ context \in Context
  /\ patterns = << >>
  /\ subject = "parse"
  /\ i = 1 /\ j = 1 /\ fileMatched = FALSE
  /\ verdict = [s \in {"config", "file"} |-> "open"]

Next ==
  \/ ParseTerm \/ RejectTerm \/ EndParsing
  \/ SkipFile \/ WordTrue \/ WordFalse \/ PatternFalse \/ EndMatching

Spec == Init /\ [][Next]_vars

-----------------------------------------------------------------------------
(* Properties                                                              *)

TypeOK ==
  /\ context \in Context
  /\ patterns \in Seq(Seq(Word) \ {<< >>})
  /\ subject \in {"parse", "config", "file", "done", "error"}
  /\ i \in 1..(Len(patterns) + 1)
  /\ j \in Nat \ {0} /\ (i <= Len(patterns) => j <= Len(patterns[i]))
  /\ fileMatched \in BOOLEAN
  /\ verdict \in [{"config", "file"} -> {"open", "matches", "fails"}]

\* The prefix of word k of a term as it is written: the last one in the term up
\* to that word, "configurations" if there is none.
WrittenPrefix(term, k) ==
  LET named == {m \in 1..k : \E q \in 1..Len(term[m].marks) : term[m].marks[q] # Not}
  IN  IF named # {}
      THEN LET marks == term[CHOOSE m \in named : \A q \in named : q <= m].marks
               places == {q \in 1..Len(marks) : marks[q] # Not}
           IN  marks[CHOOSE q \in places : \A r \in places : r <= q]
      ELSE IF filter.unprefixed THEN NoPrefix ELSE Default

\* What such a word says of a configuration.
Says(term, k) ==
  LET field == WrittenPrefix(term, k)
      nots  == {q \in 1..Len(term[k].marks) : term[k].marks[q] = Not}
      holds == IF field = NoPrefix
               THEN \E f \in Field : context.terms[f] \intersect Selects[term[k].text] # {}
               ELSE context.terms[field] \intersect Selects[term[k].text] # {}
  IN  field # Files /\ (holds <=> Cardinality(nots) % 2 = 0)

\* "When all of the keywords in this list match the current context, the
\* settings that follow the filter statement will be applied" (filter.md): for
\* a configuration a filter is the conjunction of disjunctions it reads as,
\* words about files being false.
ConfigIsFormula ==
  verdict["config"] # "open" =>
    (verdict["config"] = "matches" <=>
       \A t \in 1..Len(filter.written) : \E k \in 1..Len(filter.written[t]) :
         Says(filter.written[t], k))

\* All patterns are true of the subject.
AllTrue(s) == \A k \in 1..Len(patterns) : \E m \in 1..Len(patterns[k]) : TestWord(patterns[k][m], s)

SomeWordMatchesFile ==
  \E k \in 1..Len(patterns) : \E m \in 1..Len(patterns[k]) : MatchesFile(patterns[k][m], "file")

\* A filter that matches a file is true of it, and one of its words matches
\* the file: settings of a configuration are not repeated for its files.
FileVerdictSound ==
  verdict["file"] = "matches" => AllTrue("file") /\ SomeWordMatchesFile

\* The words about files come before (after) the others, in each pattern.
AllPrefixed == \A k \in 1..Len(patterns) : \A m \in 1..Len(patterns[k]) :
                 patterns[k][m].prefix # NoPrefix

FilesFirst ==
  AllPrefixed /\ \A k \in 1..Len(patterns) : \A m, q \in 1..Len(patterns[k]) :
    patterns[k][m].prefix = Files /\ patterns[k][q].prefix # Files => m < q

FilesLast ==
  AllPrefixed /\ \A k \in 1..Len(patterns) : \A m, q \in 1..Len(patterns[k]) :
    patterns[k][m].prefix = Files /\ patterns[k][q].prefix # Files => q < m

\* The test of a pattern stops at the first true word, and a word that is not
\* reached cannot match the file.  With the words about files first nothing is
\* missed: a filter that is true of a file, one of whose words matches it,
\* matches.
FilesFirstComplete ==
  (verdict["file"] # "open" /\ FilesFirst) =>
    (verdict["file"] = "matches" <=> AllTrue("file") /\ SomeWordMatchesFile)

\* With the words about files last nothing is applied twice: a block that
\* applies to a configuration does not apply to its files once more.
FilesLastAppliedOnce ==
  (verdict["file"] # "open" /\ FilesLast) =>
    ~ (verdict["config"] = "matches" /\ verdict["file"] = "matches")
=============================================================================
