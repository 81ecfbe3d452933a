------------------------------- MODULE Lists --------------------------------
(***************************************************************************)
(* A loop that keeps the elements of a list it has a use for, in their     *)
(* order, written as a function so that it can be reasoned about.          *)
(***************************************************************************)
EXTENDS Naturals, Sequences

Seqs == INSTANCE SequencesExt

\* The elements of s that are in S.
Only(s, S) ==
  LET upTo[k \in 0..Len(s)] ==
        IF k = 0 THEN << >>
        ELSE IF s[k] \in S THEN Append(upTo[k - 1], s[k]) ELSE upTo[k - 1]
  IN upTo[Len(s)]
=============================================================================
