------------------------ MODULE ClassificationTable ------------------------
(***************************************************************************)
(* The rows of internal/classify/table.go, in its order.                   *)
(***************************************************************************)
EXTENDS Sequences

Judged(family, posture) ==
  [family |-> family, protocol |-> FALSE, matcher |-> FALSE, verdict |-> posture]
Version(family, posture) == [Judged(family, posture) EXCEPT !.protocol = TRUE]
Hybrid(family) == [Judged(family, "hybrid") EXCEPT !.matcher = TRUE]

postQuantumRows ==
  <<Judged("ML-KEM", "quantum_safe"), Judged("MLKEM", "quantum_safe"),
    Judged("KYBER", "quantum_safe"), Judged("ML-DSA", "quantum_safe"),
    Judged("DILITHIUM", "quantum_safe"), Judged("SLH-DSA", "quantum_safe"),
    Judged("SPHINCS", "quantum_safe"), Judged("XMSS", "quantum_safe"),
    Judged("LMS", "quantum_safe")>>

shorRows ==
  <<Judged("RSA", "quantum_vulnerable"), Judged("DSA", "quantum_vulnerable"),
    Judged("DH", "quantum_vulnerable"), Judged("ECDSA", "quantum_vulnerable"),
    Judged("ECDH", "quantum_vulnerable"), Judged("EDDSA", "quantum_vulnerable"),
    Judged("ED25519", "quantum_vulnerable"), Judged("ED448", "quantum_vulnerable"),
    Judged("X25519", "quantum_vulnerable"), Judged("X448", "quantum_vulnerable")>>

brokenRows ==
  <<Judged("MD5", "broken"), Judged("SHA-1", "broken"), Judged("SHA1", "broken"),
    Judged("RC4", "broken"), Judged("DES", "broken"), Judged("3DES", "broken"),
    Judged("TRIPLEDES", "broken")>>

sizedRows ==
  <<Judged("AES", "symmetricSize"), Judged("CHACHA", "symmetricSize"),
    Judged("SHA", "digestSize"), Judged("HMAC", "quantum_reduced")>>

versionRows ==
  <<Version("SSL", "broken"), Version("TLS 1.0", "broken"),
    Version("TLS 1.1", "broken"), Version("TLS 1.2", "not_applicable"),
    Version("TLS 1.3", "not_applicable")>>

classificationTable ==
  <<Hybrid("X25519MLKEM768")>>
    \o postQuantumRows \o shorRows \o brokenRows \o sizedRows \o versionRows
=============================================================================
