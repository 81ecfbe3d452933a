------------------------------- MODULE MCPlan -------------------------------
(***************************************************************************)
(* Small inventories for Plan: every posture and none, every factor of     *)
(* the score, equal scores under different names, and one name at two      *)
(* positions.                                                              *)
(***************************************************************************)
EXTENDS Plan

\* Names in their order: AES, ECDSA, KYBER, MD5, RSA, SERPENT, SHA-256, TLS.
Found(name, posture, primitive) ==
  [name |-> name, location |-> 1, posture |-> posture, primitive |-> primitive,
   host |-> FALSE, module |-> FALSE]
Dependency(a) == [a EXCEPT !.module = TRUE, !.location = 2]
Endpoint(a) == [a EXCEPT !.host = TRUE, !.location = 3]

MCAssets ==
  {Found(4, "broken", "hash"),                              \* 16
   Found(5, "quantum_vulnerable", "signature"),             \*  9
   Dependency(Found(5, "quantum_vulnerable", "signature")), \*  6
   Endpoint(Found(5, "quantum_vulnerable", "pke")),         \* 18
   Dependency(Found(6, "unknown", "block-cipher")),         \*  6
   Found(6, "unknown", "block-cipher"),                     \*  8
   Endpoint(Found(2, "unknown", "signature")),              \*  8
   Found(6, NotClassified, "mac"),                          \*  8
   Found(7, "quantum_reduced", "hash"),                     \*  4
   [Found(7, "quantum_reduced", "hash") EXCEPT !.location = 2],
   Endpoint(Found(1, "quantum_reduced", "ae")),             \*  5
   Endpoint(Found(8, "not_applicable", "")),
   Endpoint(Found(3, "hybrid", "key-agree")),
   Dependency(Found(3, "quantum_safe", "kem"))}

MCInventories == UNION {[1..n -> MCAssets] : n \in 0..3}
=============================================================================
