----------------------------- MODULE MCClassify -----------------------------
(***************************************************************************)
(* The classifier over its own table: the names the collectors write, the  *)
(* spellings in deployment, and names no row was written for.              *)
(***************************************************************************)
EXTENDS Classify, ClassificationTable

MCNames ==
  {"RSA", "RSA-PSS", "DSA", "ECDSA", "ECDH-P256", "ED25519", "X25519", "X448",
   "ML-KEM-768", "MLKEM1024", "KYBER768", "ML-DSA-65", "SLH-DSA-SHA2-128S",
   "X25519MLKEM768", "SECP256R1MLKEM768", "X25519KYBER768DRAFT00",
   "MD5", "SHA-1", "SHA1", "SHA", "SHA-3", "SHA-512/256", "SHA-224", "SHA-256", "SHA3-384", "SHA-512",
   "RC4", "DES", "3DES", "AES", "AES-128", "AES-256", "AES-1305",
   "AES-1128", "AES-256-GCM", "AES256",
   "CHACHA20-POLY1305", "CHACHA20-128", "HMAC", "HMAC-MD5",
   "TLS 1.0", "TLS 1.2", "TLS 1.3", "SSLV3", "QUICV1",
   "TLS (UNRECOGNISED VERSION 0X0305)", "SERPENT",
   "KEY EXCHANGE GROUP 0X11EE", "UNSTATED CIPHER SUITE"}

MCKeySizes == {0, 128, 192, 256, 512}

\* What ClassifyProofs asks of a table holds of this one.
ASSUME TableKeepsItsRules ==
  VersionsHaveTheirOwnRows /\ HybridsAreMatched /\ RowsAnswer /\ NumbersAreRead
=============================================================================
