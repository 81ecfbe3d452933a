----------------------------- MODULE Inventory -----------------------------
(***************************************************************************)
(* What an invocation promises whoever started it, without how it works:   *)
(* the exit codes of the usage text (main.go:55-59).  A run hands over at  *)
(* most one inventory, whole, and only then answers 0 or 1, by what that   *)
(* inventory holds; a run that fails has handed over none.                 *)
(***************************************************************************)
EXTENDS Gate

CONSTANT Assets   \* what an inventory can hold: records with a posture

VARIABLES
  asks,        \* "inventory", or "reference" for help and the table
  threshold,   \* the rung of -fail-on, or GateOff
  published,   \* the inventories handed over: none or one
  verdict      \* how the run ended

ivars == <<asks, threshold, published, verdict>>

TypeOK ==
  /\ asks \in {"inventory", "reference"}
  /\ threshold \in Rungs \cup {GateOff}
  /\ published \subseteq Seq(Assets)
  /\ verdict \in {"running", "clean", "tripped", "failed", "killed"}

Init ==
  /\ asks \in {"inventory", "reference"}
  /\ threshold \in Rungs \cup {GateOff}
  /\ published = {}
  /\ verdict = "running"

Publish ==
  /\ verdict = "running"
  /\ asks = "inventory"
  /\ published = {}
  /\ published' # {}
  /\ published' \subseteq Seq(Assets)
  /\ \A one, other \in published' : one = other
  /\ UNCHANGED <<asks, threshold, verdict>>

Answer ==
  /\ verdict = "running"
  /\ published # {}
  /\ \A inventory \in published :
       verdict' = IF tripped(inventory, threshold) = {} THEN "clean" ELSE "tripped"
  /\ UNCHANGED <<asks, threshold, published>>

\* A command that takes no inventory: help, and the classification table.
Refer ==
  /\ verdict = "running"
  /\ asks = "reference"
  /\ verdict' = "clean"
  /\ UNCHANGED <<asks, threshold, published>>

Fail ==
  /\ verdict = "running"
  /\ published = {}
  /\ verdict' = "failed"
  /\ UNCHANGED <<asks, threshold, published>>

Kill ==
  /\ verdict = "running"
  /\ verdict' = "killed"
  /\ UNCHANGED <<asks, threshold, published>>

Next == Publish \/ Answer \/ Refer \/ Fail \/ Kill

Spec == Init /\ [][Next]_ivars

\* What a caller waiting for the exit code relies on.
Ends == <>(verdict # "running")

FairSpec == Spec /\ Ends
=============================================================================
