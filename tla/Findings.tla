------------------------------ MODULE Findings ------------------------------
(***************************************************************************)
(* A finding as every package passes it on: asset.Asset, with where it     *)
(* stands and what was seen there.  The classifier's fields are set when   *)
(* it has judged the finding.                                              *)
(*                                                                         *)
(* Names are in upper case, which is what the classifier and the document  *)
(* make of them.  Evidence is the words of the sentence that vary; a field *)
(* that is not set holds "", or 0.                                         *)
(***************************************************************************)
EXTENDS Assets, Spelling, Lists, TLC

InFile(path, line) == [file |-> path, line |-> line, host |-> ""]
AtHost(address) == [file |-> "", line |-> 0, host |-> address]

\* Location.String.
Position(l) ==
  CASE l.file # "" /\ l.line > 0            -> l.file \o ":" \o ToString(l.line)
    [] l.file # "" /\ l.line = 0            -> l.file
    [] l.file = "" /\ l.host # ""           -> l.host
    [] l.file = "" /\ l.host = ""           -> "unknown"

Finding(name, kind, primitive, algorithm, location, evidence) ==
  [name |-> name, kind |-> kind, primitive |-> primitive, algorithm |-> algorithm,
   keySize |-> 0, curve |-> "", mode |-> "",
   location |-> location, module |-> "", evidence |-> evidence,
   posture |-> "", citation |-> ""]

\* What a finding is judged by: its family, or its name where it has none.
family(a) == IF a.algorithm # "" THEN a.algorithm ELSE a.name

Algorithm(name, primitive, algorithm, location, evidence) ==
  Finding(name, "algorithm", primitive, algorithm, location, evidence)
=============================================================================
