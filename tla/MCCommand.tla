----------------------------- MODULE MCCommand -----------------------------
(***************************************************************************)
(* Small instances of Command: four findings, one on each side of every    *)
(* decision of the gate, and command lines that reach every branch.        *)
(***************************************************************************)
EXTENDS Command

CONSTANTS md5, novel, aes128, mlkem, modA, modB

MCFindings == {md5, novel, aes128, mlkem}
MCBroken == {md5}
MCModules == {modA, modB}
MCOneModule == {modA}

MCVerdict ==
  [f \in Findings |->
     CASE f = md5    -> "broken"
       [] f = novel  -> "unknown"
       [] f = aes128 -> "quantum_reduced"
       [] f = mlkem  -> "hybrid"]

\* Well-formed lines: every command with every flag it reads.
MCWellFormed ==
  {l \in CommandLine :
     /\ l.cmd \in InventoryCommands \cup {"table"}
     /\ l.flags \subseteq FlagsOf(l.cmd)
     /\ "timeout" \notin l.flags
     /\ ~l.malformed
     /\ l.positional = IF l.cmd = "table" THEN 0 ELSE 1
     /\ IF "fail-on" \in l.flags THEN l.failOn \in {"unknown", "none"}
                                 ELSE l.failOn = "broken"}

\* Every line, the ones nobody should write included.
MCAnyLine == {l \in CommandLine : "timeout" \notin l.flags}
=============================================================================
