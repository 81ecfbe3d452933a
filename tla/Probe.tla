------------------------------- MODULE Probe --------------------------------
(***************************************************************************)
(* What a handshake state is read as: fromState of internal/probe/tls.go   *)
(* and its readers, and the readings of crypto/tls constants that          *)
(* internal/probe/config.go shares with the reader of source code.         *)
(*                                                                         *)
(* A suite is the name tls.CipherSuiteName gives it, a group or a version  *)
(* its codepoint, in decimal as IANA lists them.  A reader that may have   *)
(* nothing to say returns a set with at most one finding.                  *)
(***************************************************************************)
EXTENDS Findings

TLS10 == 769
TLS11 == 770
TLS12 == 771
TLS13 == 772

versionName(version) ==
  CASE version = TLS13 -> "TLS 1.3"
    [] version = TLS12 -> "TLS 1.2"
    [] version = TLS11 -> "TLS 1.1"
    [] version = TLS10 -> "TLS 1.0"
    [] OTHER -> "TLS (UNRECOGNISED VERSION " \o Hex4(version) \o ")"

-----------------------------------------------------------------------------
\* The key exchange.

Classical(name) == [name |-> name, postQuantum |-> FALSE]
PostQuantum(name) == [name |-> name, postQuantum |-> TRUE]

CurveP256 == 23
CurveP384 == 24
CurveP521 == 25
X25519 == 29
X25519MLKEM768 == 4588

groups ==
  CurveP256 :> Classical("ECDH-P256") @@ CurveP384 :> Classical("ECDH-P384")
  @@ CurveP521 :> Classical("ECDH-P521") @@ X25519 :> Classical("X25519")
  @@ 30 :> Classical("X448")
  @@ X25519MLKEM768 :> PostQuantum("X25519MLKEM768")
  @@ 4587 :> PostQuantum("SECP256R1MLKEM768")
  @@ 4589 :> PostQuantum("SECP384R1MLKEM1024")
  @@ 512 :> PostQuantum("MLKEM512") @@ 513 :> PostQuantum("MLKEM768")
  @@ 514 :> PostQuantum("MLKEM1024")
  @@ 25497 :> PostQuantum("X25519KYBER768DRAFT00")
  @@ 25498 :> PostQuantum("SECP256R1KYBER768DRAFT00")

offeredGroups == <<X25519MLKEM768, X25519, CurveP256, CurveP384, CurveP521>>
Offered == [k \in DOMAIN offeredGroups |-> groups[offeredGroups[k]].name]

\* A bug: what has no entry in the table is taken to be classical.
keyExchangeClassicalByDefault(id) ==
  CASE id = 0 -> [group |-> "", reading |-> "none"]
    [] id # 0 /\ id \in DOMAIN groups ->
         [group |-> groups[id].name,
          reading |-> IF groups[id].postQuantum THEN "post_quantum" ELSE "classical"]
    [] id # 0 /\ id \notin DOMAIN groups ->
         [group |-> "KEY EXCHANGE GROUP " \o Hex4(id), reading |-> "classical"]

keyExchange(id) ==
  CASE id = 0 -> [group |-> "", reading |-> "none"]
    [] id # 0 /\ id \in DOMAIN groups ->
         [group |-> groups[id].name,
          reading |-> IF groups[id].postQuantum THEN "post_quantum" ELSE "classical"]
    [] id # 0 /\ id \notin DOMAIN groups ->
         [group |-> "KEY EXCHANGE GROUP " \o Hex4(id), reading |-> "unknown"]

groupAsset(state, at) ==
  LET name == keyExchange(state.group).group
  IN Algorithm(name, "key-agree", name, at,
               <<"negotiated key exchange group", Hex4(state.group)>> \o Offered)

KeyTransport == "RSA KEY TRANSPORT"

\* With a TLS_RSA_ suite the premaster secret is encrypted to the certificate.
keyTransportAsset(suite, chain, at) ==
  IF ~HasPrefix(suite, "TLS_RSA_") THEN {}
  ELSE {[Algorithm(KeyTransport, "pke", "RSA", at, <<"key exchange of suite", suite>>)
           EXCEPT !.keySize =
             IF chain # << >> /\ Head(chain).key.type = "rsa"
             THEN Head(chain).key.bits ELSE 0]}

-----------------------------------------------------------------------------
\* The suite.

\* What the probe offers for TLS 1.2 and below.
offeredSuites ==
  <<"TLS_ECDHE_ECDSA_WITH_AES_256_GCM_SHA384", "TLS_ECDHE_RSA_WITH_AES_256_GCM_SHA384",
    "TLS_ECDHE_ECDSA_WITH_CHACHA20_POLY1305_SHA256",
    "TLS_ECDHE_RSA_WITH_CHACHA20_POLY1305_SHA256",
    "TLS_ECDHE_ECDSA_WITH_AES_128_GCM_SHA256", "TLS_ECDHE_RSA_WITH_AES_128_GCM_SHA256",
    "TLS_ECDHE_ECDSA_WITH_AES_256_CBC_SHA", "TLS_ECDHE_RSA_WITH_AES_256_CBC_SHA",
    "TLS_ECDHE_ECDSA_WITH_AES_128_CBC_SHA256", "TLS_ECDHE_RSA_WITH_AES_128_CBC_SHA256",
    "TLS_ECDHE_ECDSA_WITH_AES_128_CBC_SHA", "TLS_ECDHE_RSA_WITH_AES_128_CBC_SHA",
    "TLS_RSA_WITH_AES_256_GCM_SHA384", "TLS_RSA_WITH_AES_128_GCM_SHA256",
    "TLS_RSA_WITH_AES_256_CBC_SHA", "TLS_RSA_WITH_AES_128_CBC_SHA256",
    "TLS_RSA_WITH_AES_128_CBC_SHA",
    "TLS_ECDHE_RSA_WITH_3DES_EDE_CBC_SHA", "TLS_RSA_WITH_3DES_EDE_CBC_SHA",
    "TLS_ECDHE_ECDSA_WITH_RC4_128_SHA", "TLS_ECDHE_RSA_WITH_RC4_128_SHA",
    "TLS_RSA_WITH_RC4_128_SHA">>

\* TLS 1.3 has its own three, which are not negotiable.
suitesOfTLS13 ==
  {"TLS_AES_256_GCM_SHA384", "TLS_CHACHA20_POLY1305_SHA256", "TLS_AES_128_GCM_SHA256"}

cipherMode(suite) ==
  CASE Contains(suite, "GCM") -> "gcm"
    [] Contains(suite, "CCM") -> "ccm"
    [] Contains(suite, "CBC") -> "cbc"
    [] OTHER                  -> ""

Cipher(part, algorithm, bits, primitive) ==
  [part |-> part, algorithm |-> algorithm, bits |-> bits, primitive |-> primitive]

\* The bulk ciphers a suite's name may hold; no name holds two of them.
ciphers ==
  {Cipher("AES_256", "AES", 256, "block-cipher"),
   Cipher("AES_128", "AES", 128, "block-cipher"),
   Cipher("CHACHA20", "CHACHA20-POLY1305", 256, "ae"),
   Cipher("3DES", "3DES", 168, "block-cipher"),
   Cipher("RC4", "RC4", 128, "stream-cipher")}

cipherAsset(suite, at) ==
  LET named == {c \in ciphers : Contains(suite, c.part)}
      cipher == IF named = {} THEN Cipher("", suite, 0, "block-cipher")
                ELSE CHOOSE c \in named : TRUE
      mode == cipherMode(suite)
      primitive == IF mode \in {"gcm", "ccm"} THEN "ae" ELSE cipher.primitive
  IN [Algorithm(suite, primitive, cipher.algorithm, at, <<"negotiated suite", suite>>)
        EXCEPT !.keySize = cipher.bits, !.mode = mode]

-----------------------------------------------------------------------------
\* The certificate.

\* signatureFamily: what the classifier judges of "SHA256-RSA".
signatureFamily(name) ==
  CASE Contains(name, "ED25519") -> "ED25519"
    [] Contains(name, "ECDSA")   -> "ECDSA"
    [] Contains(name, "RSA")     -> "RSA"
    [] OTHER -> IF Contains(name, "DSA") THEN "DSA" ELSE name

certificateSubject(cert) ==
  CASE cert.commonName # "" -> cert.commonName
    [] cert.commonName = "" /\ cert.dnsNames # << >> -> Head(cert.dnsNames)
    [] OTHER -> "unnamed certificate"

certificateKey(cert, at) ==
  LET key == cert.key
      seen == <<"public key of", certificateSubject(cert)>>
      Key(name, algorithm) == Algorithm(name, "signature", algorithm, at, seen)
  IN CASE key.type = "rsa" ->
            [Key("RSA-" \o ToString(key.bits), "RSA") EXCEPT !.keySize = key.bits]
       [] key.type = "ecdsa" ->
            [Key("ECDSA-" \o key.curve, "ECDSA")
               EXCEPT !.keySize = key.bits, !.curve = key.curve]
       [] key.type = "ed25519" -> [Key("ED25519", "ED25519") EXCEPT !.keySize = 256]

certificateAssets(cert, at) ==
  <<certificateKey(cert, at),
    Finding(cert.signature, "certificate", "signature", signatureFamily(cert.signature),
            at, <<"signature of", certificateSubject(cert)>>)>>

\* There the curve of the key is the scheme.
ecdsaSchemes ==
  "P-256" :> "ECDSA_SECP256R1_SHA256" @@ "P-384" :> "ECDSA_SECP384R1_SHA384"
  @@ "P-521" :> "ECDSA_SECP521R1_SHA512"

\* The signature as far as the leaf's key and the version pin it.
signatureAsset(cert, version, at) ==
  LET key == cert.key
      scheme == CASE key.type = "ed25519" -> "ED25519"
                  [] key.type = "ecdsa" ->
                       IF version = TLS13 /\ key.curve \in DOMAIN ecdsaSchemes
                       THEN ecdsaSchemes[key.curve] ELSE "ECDSA"
                  [] key.type = "rsa" -> IF version = TLS13 THEN "RSA-PSS" ELSE "RSA"
      algorithm == certificateKey(cert, at).algorithm
  IN [Algorithm(scheme, "signature", algorithm, at,
                <<"handshake signature", versionName(version)>>)
        EXCEPT !.keySize = certificateKey(cert, at).keySize, !.curve = key.curve]

-----------------------------------------------------------------------------
\* What one handshake said.

fromState(address, state) ==
  LET at == AtHost(address)
      named == keyExchange(state.group)
      transport == keyTransportAsset(state.suite, state.chain, at)
      exchange == CASE named.group # "" -> <<groupAsset(state, at)>>
                    [] named.group = "" /\ transport # {} -> <<CHOOSE a \in transport : TRUE>>
                    [] OTHER -> << >>
      signed == state.chain # << >>
      signature == signatureAsset(Head(state.chain), state.version, at)
  IN [version     |-> versionName(state.version),
      group       |-> IF transport # {} /\ named.group = "" THEN KeyTransport
                      ELSE named.group,
      keyExchange |-> IF transport # {} /\ named.group = "" THEN "classical"
                      ELSE named.reading,
      signature   |-> IF signed THEN signature.name ELSE "",
      assets      |->
        <<Finding(versionName(state.version), "protocol", "", "", at,
                  <<"negotiated protocol version">>),
          cipherAsset(state.suite, at)>>
        \o exchange
        \o (IF signed THEN Append(certificateAssets(Head(state.chain), at), signature)
            ELSE << >>)]

-----------------------------------------------------------------------------
\* config.go: the same readings for a constant as a source file spells it.

versionConstants ==
  "VersionTLS10" :> TLS10 @@ "VersionTLS11" :> TLS11
  @@ "VersionTLS12" :> TLS12 @@ "VersionTLS13" :> TLS13

curveConstants ==
  "CurveP256" :> CurveP256 @@ "CurveP384" :> CurveP384 @@ "CurveP521" :> CurveP521
  @@ "X25519" :> X25519 @@ "X25519MLKEM768" :> X25519MLKEM768

\* What crypto/tls lists, secure and insecure: the legacy spellings of the two
\* ChaCha20 suites, without _SHA256, are not among them.
suiteConstants == {offeredSuites[k] : k \in DOMAIN offeredSuites} \cup suitesOfTLS13

VersionAsset(constant, at) ==
  {Finding(versionName(versionConstants[c]), "protocol", "", "", at,
           <<"protocol version", c>>) : c \in {constant} \cap DOMAIN versionConstants}

SuiteAsset(constant, at) ==
  {[cipherAsset(c, at) EXCEPT !.evidence = <<"cipher suite", c>>] :
     c \in {constant} \cap suiteConstants}

\* A bug: a group of a configuration is called what its constant is called.
GroupAssetByConstant(constant, at) ==
  {Algorithm(c, "key-agree", c, at, <<"key exchange group", c, Hex4(curveConstants[c])>>) :
     c \in {constant} \cap DOMAIN curveConstants}

GroupAsset(constant, at) ==
  {LET name == keyExchange(curveConstants[c]).group
   IN Algorithm(name, "key-agree", name, at,
                <<"key exchange group", c, Hex4(curveConstants[c])>>) :
     c \in {constant} \cap DOMAIN curveConstants}
=============================================================================
