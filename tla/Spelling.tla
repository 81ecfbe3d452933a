------------------------------ MODULE Spelling ------------------------------
(***************************************************************************)
(* What the packages ask of a name: strings.HasPrefix, strings.Contains    *)
(* and the conversions that end up inside one.  Names that are judged are  *)
(* in upper case, as the classifier and the document read them.            *)
(***************************************************************************)
EXTENDS Naturals, Sequences

HasPrefix(name, part) ==
  Len(part) <= Len(name) /\ SubSeq(name, 1, Len(part)) = part
Contains(name, part) ==
  \E k \in 1..Len(name) : HasPrefix(SubSeq(name, k, Len(name)), part)

Digits == <<"0", "1", "2", "3", "4", "5", "6", "7", "8", "9">>
HexDigits == Digits \o <<"A", "B", "C", "D", "E", "F">>

\* fmt's %04x of a codepoint.
Hex4(n) ==
  LET digit(unit) == HexDigits[1 + ((n \div unit) % 16)]
  IN "0X" \o digit(4096) \o digit(256) \o digit(16) \o digit(1)

\* What stands behind the last mark of a name: the name itself without one.
AfterLast(name, mark) ==
  LET marks == {k \in 1..Len(name) : SubSeq(name, k, k) = mark}
      last == IF marks = {} THEN 0 ELSE CHOOSE k \in marks : \A l \in marks : l <= k
  IN SubSeq(name, last + 1, Len(name))
=============================================================================
