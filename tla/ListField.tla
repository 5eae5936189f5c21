----------------------------- MODULE ListField -----------------------------
(***************************************************************************)
(* Lists, and the values of a list field, which is kept like a set: a      *)
(* value that is given again moves to the end.                             *)
(***************************************************************************)
EXTENDS Naturals, Sequences

Elements(s) == {s[i] : i \in 1..Len(s)}

NoRepeats(s) == \A i, j \in 1..Len(s) : s[i] = s[j] => i = j

\* The items that are not in set T, in their order.
Without(list, T) ==
  LET Kept[i \in 0..Len(list)] ==
        IF i = 0 THEN << >>
        ELSE IF list[i] \in T THEN Kept[i - 1] ELSE Append(Kept[i - 1], list[i])
  IN  Kept[Len(list)]

\* storeListItem
StoreListItem(list, v) == Append(Without(list, {v}), v)

\* storeList and mergeList
StoreList(list, values) ==
  LET Stored[i \in 0..Len(values)] ==
        IF i = 0 THEN list ELSE StoreListItem(Stored[i - 1], values[i])
  IN  Stored[Len(values)]

\* The lists, one after the other.
Concat(ss) ==
  LET Joined[i \in 0..Len(ss)] == IF i = 0 THEN << >> ELSE Joined[i - 1] \o ss[i]
  IN  Joined[Len(ss)]

\* table.unique: the first of equal items stays
Unique(s) ==
  LET Kept[i \in 0..Len(s)] ==
        IF i = 0 THEN << >>
        ELSE IF \E j \in 1..(i - 1) : s[j] = s[i] THEN Kept[i - 1]
        ELSE Append(Kept[i - 1], s[i])
  IN  Kept[Len(s)]
=============================================================================
