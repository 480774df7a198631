------------------------------- MODULE SeqOps ------------------------------
(***************************************************************************)
(* The operations of std::list that the components use, on sequences.      *)
(***************************************************************************)
EXTENDS Naturals, Sequences

InSeq(e, s) == \E i \in 1 .. Len(s) : s[i] = e

\* s.erase of the i-th element.
DropAt(s, i) ==
  [j \in 1 .. Len(s) - 1 |-> IF j < i THEN s[j] ELSE s[j + 1]]

\* s without e, where e occurs at most once.
Without(s, e) ==
  IF InSeq(e, s) THEN DropAt(s, CHOOSE i \in 1 .. Len(s) : s[i] = e) ELSE s

NoDuplicates(s) == \A i, j \in 1 .. Len(s) : s[i] = s[j] => i = j
=============================================================================
