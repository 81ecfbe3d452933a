-------------------------------- MODULE Gate --------------------------------
(***************************************************************************)
(* The exit code policy of cmd/cbomscope/main.go: the ladder -fail-on      *)
(* names a rung of, how the flag is read, and which assets trip it.        *)
(***************************************************************************)
EXTENDS Assets

\* Severity, worst first.
gateLadder == <<"broken", "quantum_vulnerable", "unknown", "quantum_reduced">>

Rungs == {gateLadder[i] : i \in DOMAIN gateLadder}

\* slices.Index(gateLadder, posture), for a posture that is a rung.
RungOf(posture) == CHOOSE i \in DOMAIN gateLadder : gateLadder[i] = posture

\* What a person may write after -fail-on: a posture, the two spellings of
\* "no gate", or a word that is no posture at all.
GateWords == Postures \cup {"", "none", "misspelled"}

GateOff == ""

GateAccepts(failOn) == failOn \in {"", "none"} \cup Rungs

\* The rung an accepted word names.
parseGate(failOn) == IF failOn \in {"", "none"} THEN GateOff ELSE failOn

AtOrAbove(posture, threshold) ==
  /\ threshold # GateOff
  /\ posture \in Rungs
  /\ RungOf(posture) <= RungOf(threshold)

\* The positions of the assets that stand at or above the threshold.
tripped(assets, threshold) ==
  {i \in DOMAIN assets : AtOrAbove(assets[i].posture, threshold)}
=============================================================================
