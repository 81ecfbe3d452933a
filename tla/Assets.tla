------------------------------- MODULE Assets -------------------------------
(***************************************************************************)
(* The vocabulary every package shares: internal/asset/asset.go.           *)
(*                                                                         *)
(* A finding of a collector has no posture yet; the classifier gives it    *)
(* one, and the gate, the ranking and the documents read only that.        *)
(***************************************************************************)
EXTENDS Naturals, Sequences

Kinds == {"algorithm", "protocol", "certificate"}

Primitives ==
  {"pke", "signature", "kem", "key-agree", "block-cipher", "stream-cipher",
   "ae", "hash", "mac", "unknown"}

Postures ==
  {"broken", "quantum_vulnerable", "quantum_reduced", "quantum_safe",
   "hybrid", "not_applicable", "unknown"}

\* The postures that imply no migration work.
Settling == {"quantum_safe", "hybrid", "not_applicable"}
=============================================================================
