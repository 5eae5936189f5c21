----------------------------- MODULE MCCriteria -----------------------------
(* An instance of Criteria for TLC.                                        *)
EXTENDS Criteria

CONSTANTS system, windows, linux, core, other, debug, win, cor, notcor

MCField == {system, Files, Default}
MCText  == {win, cor, notcor}
MCValue == {windows, linux, core, other, debug}

\* "notcor" is a wildcard that matches every value but core.
MCSelects == [x \in MCText |-> IF x = win THEN {windows} ELSE IF x = cor THEN {core}
                               ELSE MCValue \ {core}]

W(marks, text) == [marks |-> marks, text |-> text]

MCWord == {W(<<system>>, win), W(<<Not, system>>, win), W(<<system, Not>>, win),
           W(<<Files>>, cor), W(<<Files, Not>>, cor), W(<<Not, Files>>, notcor),
           W(<< >>, cor), W(<<Not>>, win), W(<<Unknown>>, win)}

\* Words of the older style have no prefix.
MCOldWord == {W(<< >>, win), W(<< >>, cor), W(<<Not>>, win), W(<<Not, Not>>, cor),
              W(<<Not>>, notcor)}

TermsUpTo(words, n) == UNION {[1..k -> words] : k \in 1..n}

\* Filters of a single term of three words, or of two terms of two words.
Written(words) ==
  {<< >>} \union {<<t>> : t \in TermsUpTo(words, 3)}
          \union {<<t, u>> : t, u \in TermsUpTo(words, 2)}

MCFilter ==
  {[written |-> w, unprefixed |-> FALSE] : w \in Written(MCWord)}
  \union {[written |-> w, unprefixed |-> TRUE] : w \in Written(MCOldWord)}

MCContext ==
  {[terms |-> [x \in MCField |-> IF x = system THEN {s} ELSE IF x = Default THEN {debug} ELSE {}],
    file  |-> f] : s \in {windows, linux}, f \in {core, other}}
=============================================================================
