----------------------------- MODULE MCArtifact -----------------------------
(***************************************************************************)
(* Small sources and real handshakes for Artifact.  The sources are the    *)
(* shapes the readers tell apart; the handshakes are those crypto/tls can  *)
(* complete with what the probe offers.                                    *)
(***************************************************************************)
EXTENDS Artifact

Import(path) == [path |-> path, name |-> ""]
As(name, path) == [path |-> path, name |-> name]

FileOf(path, imports, body) ==
  [path |-> path, module |-> "", imports |-> imports, body |-> body]

Ident == Other(1, << >>)   \* a variable, rand.Reader, a string
InFunc(line, body) == Other(line, body)

-----------------------------------------------------------------------------
\* An alias, a package nobody watches whose last element is a watched one's,
\* calls inside calls, and a function that is passed on without being called.
MCNested ==
  FileOf("nested.go",
    <<As("weak", "crypto/md5"), Import("crypto/sha256"), Import("crypto/rsa"),
      Import("example.com/ours/sha1"), Import("crypto/hmac"),
      Import("golang.org/x/crypto/chacha20poly1305")>>,
    <<InFunc(3,
        <<Call(4, "weak", "New", << >>), Call(5, "md5", "New", << >>),
          Call(6, "rsa", "SignPSS", <<Ident, Call(6, "sha256", "Sum256", <<Ident>>)>>),
          Call(7, "", "", <<Call(7, "hmac", "New", <<Selector(7, "sha256", "New"), Ident>>),
                            Call(7, "sha1", "New", << >>)>>)>>),
      Call(9, "chacha20poly1305", "NewX", <<Ident>>),
      Call(10, "sha256", "BlockSize", << >>)>>)

\* Key sizes that are literals, variables, zero, and curves.
MCSizes ==
  FileOf("sizes.go",
    <<Import("crypto/rsa"), Import("crypto/ecdsa"), As("ec", "crypto/elliptic"),
      Import("crypto/aes"), Import("crypto/mlkem"), Import("crypto/ed25519")>>,
    <<Call(3, "rsa", "GenerateKey", <<Ident, IntLit(3, 3072)>>),
      Call(4, "rsa", "GenerateKey", <<Ident, Ident>>),
      Call(5, "rsa", "GenerateKey", <<Ident, IntLit(5, 0)>>),
      Call(6, "ecdsa", "GenerateKey", <<Call(6, "ec", "P384", << >>), Ident>>),
      Call(7, "ecdsa", "GenerateKey", <<Call(7, "elliptic", "P256", << >>), Ident>>),
      Call(8, "ecdsa", "GenerateKey", <<Ident, Ident>>),
      Call(9, "aes", "NewCipher", <<Ident>>), Call(9, "ed25519", "Sign", <<Ident>>),
      Call(10, "mlkem", "GenerateKey768", << >>)>>)

\* What is broken or has a size of its own, and curves that share a line.
MCOld ==
  FileOf("old.go",
    <<Import("crypto/des"), Import("crypto/rc4"), Import("crypto/sha1"),
      Import("crypto/sha512"), Import("crypto/ecdh")>>,
    <<Call(3, "des", "NewCipher", <<Ident>>), Call(4, "des", "NewTripleDESCipher", <<Ident>>),
      Call(5, "rc4", "NewCipher", <<Ident>>), Call(6, "sha1", "Sum", <<Ident>>),
      Call(7, "sha512", "New", << >>), Call(7, "sha512", "Sum384", <<Ident>>),
      Call(8, "ecdh", "P256", << >>), Call(8, "ecdh", "P384", << >>)>>)

\* A blank and a dot import give no call site.
MCUnnamed ==
  FileOf("unnamed.go", <<As("_", "crypto/md5"), As(".", "crypto/sha1")>>,
    <<Call(3, "md5", "New", << >>), Call(4, "", "New", << >>)>>)

\* Configurations: constants, older constants, variables, lists that are no
\* literals, a call inside a field, a configuration inside another literal, and a
\* literal that is no tls.Config.
MCConfig ==
  FileOf("config.go", <<Import("crypto/tls"), Import("crypto/sha256")>>,
    <<Other(3, <<Literal(3, "tls", "Config",
        <<Field(4, "MinVersion", Selector(4, "tls", "VersionTLS12")),
          Field(4, "MaxVersion", Selector(4, "tls", "VersionTLS13")),
          Field(5, "CipherSuites", Literal(5, "", "",
            <<Selector(6, "tls", "TLS_ECDHE_RSA_WITH_AES_128_GCM_SHA256"),
              Selector(7, "tls", "TLS_RSA_WITH_3DES_EDE_CBC_SHA"),
              Selector(8, "tls", "TLS_ECDHE_RSA_WITH_CHACHA20_POLY1305_SHA256"),
              Selector(8, "tls", "TLS_ECDHE_RSA_WITH_CHACHA20_POLY1305"),
              Selector(8, "tls", "TLS_AES_128_GCM_SHA256"), Ident>>)),
          Field(9, "CurvePreferences", Literal(9, "", "",
            <<Selector(9, "tls", "X25519MLKEM768"), Selector(9, "tls", "X25519"),
              Selector(10, "tls", "CurveP256"), Ident>>)),
          Field(11, "Rand", Call(11, "sha256", "New", << >>))>>)>>),
      Literal(12, "", "", <<Field(12, "tls", Literal(12, "tls", "Config",
        <<Field(12, "MinVersion", Other(12, << >>)),
          Field(12, "MaxVersion", Selector(12, "tls", "VersionSSL30")),
          Field(13, "CipherSuites", Call(13, "", "", << >>)),
          Field(14, "CurvePreferences", Selector(14, "ours", "Curves"))>>))>>),
      Literal(15, "ours", "Config", <<Field(15, "MinVersion", Ident)>>),
      Literal(16, "tls", "Certificate", << >>)>>)

MCAliasedConfig ==
  FileOf("aliased.go", <<As("stdtls", "crypto/tls")>>,
    <<Literal(3, "stdtls", "Config",
        <<Field(3, "MinVersion", Selector(3, "stdtls", "VersionTLS10")),
          Field(3, "MinVersion", Selector(3, "tls", "VersionTLS13"))>>),
      Literal(4, "tls", "Config", <<Field(4, "MinVersion", Ident)>>)>>)

\* Two calls on one line.
MCTwice ==
  FileOf("twice.go", <<Import("crypto/sha256")>>,
    <<Call(3, "sha256", "Sum256", <<Ident>>), Call(3, "sha256", "Sum256", <<Ident>>)>>)

MCFiles == {MCNested, MCSizes, MCOld, MCUnnamed, MCConfig, MCAliasedConfig, MCTwice}

\* The same file in a module the tree depends on.
InModule(f) == [f EXCEPT !.module = "example.com/dep@v1.2.0"]

-----------------------------------------------------------------------------
Certificate(type, bits, curve, signature) ==
  [commonName |-> "example.com", dnsNames |-> << >>, signature |-> signature,
   key |-> [type |-> type, bits |-> bits, curve |-> curve]]

RSACertificates ==
  {Certificate("rsa", 2048, "", "SHA256-RSA"), Certificate("rsa", 4096, "", "SHA1-RSA")}
ECCertificates ==
  {[Certificate("ecdsa", 256, "P-256", "ECDSA-SHA256") EXCEPT !.commonName = "",
                                                    !.dnsNames = <<"example.com">>],
   Certificate("ecdsa", 384, "P-384", "SHA256-RSA")}
EdCertificates == {[Certificate("ed25519", 256, "", "ED25519") EXCEPT !.commonName = ""]}

State(version, suite, group, cert) ==
  [version |-> version, suite |-> suite, group |-> group, chain |-> <<cert>>]

HandshakesOfTLS13 ==
  {State(TLS13, suite, offeredGroups[g], cert) :
     suite \in suitesOfTLS13, g \in DOMAIN offeredGroups,
     cert \in RSACertificates \cup ECCertificates \cup EdCertificates}

\* An AEAD and a SHA-2 MAC need TLS 1.2, and so does Ed25519.
VersionsOf(suite) ==
  IF Contains(suite, "_SHA256") \/ Contains(suite, "_SHA384") THEN {TLS12}
  ELSE {TLS10, TLS11, TLS12}

Before13(suites, gs, certs) ==
  {State(version, suite, group, cert) :
     version \in {TLS10, TLS11, TLS12}, suite \in suites, group \in gs, cert \in certs}

Offering(part) ==
  {s \in {offeredSuites[k] : k \in DOMAIN offeredSuites} : HasPrefix(s, part)}

HandshakesBefore13 ==
  {s \in Before13(Offering("TLS_ECDHE_RSA_"), {X25519, CurveP384}, RSACertificates)
         \cup Before13(Offering("TLS_ECDHE_ECDSA_"), {CurveP256}, ECCertificates)
         \cup Before13(Offering("TLS_RSA_"), {0}, RSACertificates) :
     s.version \in VersionsOf(s.suite)}
  \cup {State(TLS12, s, X25519, c) :
          s \in Offering("TLS_ECDHE_ECDSA_WITH_AES"), c \in EdCertificates}

MCHandshakes == HandshakesOfTLS13 \cup HandshakesBefore13

-----------------------------------------------------------------------------
Input(files, handshake) == [files |-> files, handshake |-> handshake]

\* One tree of two files with a dependency, and a configuration with every
\* handshake.
MCInputs ==
  {Input(<<f, InModule(g)>>, {}) : f \in MCFiles, g \in MCFiles}
  \cup {Input(<<f, g>>, {}) : f \in {MCOld}, g \in MCFiles}
  \cup {Input(<<MCConfig>>, {h}) : h \in MCHandshakes}

MCTwiceOnly == {Input(<<MCTwice>>, {})}

MCEndpoints == {Input(<<MCUnnamed>>, {h}) : h \in MCHandshakes}
=============================================================================
