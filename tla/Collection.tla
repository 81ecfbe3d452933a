----------------------------- MODULE Collection -----------------------------
(***************************************************************************)
(* What reading the sources promises gather (cmd/cbomscope/main.go:138),   *)
(* without how the trees are walked: it returns once, and then every       *)
(* module go.mod requires was either read or is named as missing, and      *)
(* nothing is attributed to a module that was not read.                    *)
(***************************************************************************)
EXTENDS Naturals

CONSTANTS
  Required,    \* the modules go.mod requires
  FirstParty   \* what a finding in the directory itself is attributed to

VARIABLES
  status,      \* "collecting", "returned" or "failed"
  read,        \* the modules whose source was read
  missing,     \* the modules whose source is not on disk
  attributed   \* what the findings are attributed to

cvars == <<status, read, missing, attributed>>

Init ==
  /\ status = "collecting"
  /\ read = {}
  /\ missing = {}
  /\ attributed = {}

Return ==
  /\ status = "collecting"
  /\ status' = "returned"
  /\ missing' \subseteq Required
  /\ read' = Required \ missing'
  /\ attributed' \subseteq read' \cup {FirstParty}

\* A failure returns nothing of what was collected.
Fail ==
  /\ status = "collecting"
  /\ status' = "failed"
  /\ UNCHANGED <<read, missing, attributed>>

Next == Return \/ Fail

Spec == Init /\ [][Next]_cvars
=============================================================================
