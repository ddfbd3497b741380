----------------------------- MODULE JWTVerify -----------------------------
(***************************************************************************)
(* Package jwtx without the network: key pairs, JSON web keys, signing and *)
(* Verify.  Signatures are ideal: one made with a private key verifies     *)
(* under the public key of the same id and the same algorithm only.  Time  *)
(* is counted in half seconds, so that the truncation of the time claims   *)
(* to seconds is visible.                                                  *)
(***************************************************************************)
EXTENDS Integers, Sequences, FiniteSets

NoKey == [type |-> "none", id |-> 0]
Key(type, id) == [type |-> type, id |-> id]

\* A key is named by a digest of its DER encoding; digests do not collide.
ComputeKID(pub) == pub.id
NoKid == 0

\* "" stands for the error of an unsupported key type.
DetectAlgorithm(pub) ==
  CASE pub.type = "RSA" -> "RS256" [] pub.type = "Ed" -> "EdDSA" [] OTHER -> ""

NoPair == [priv |-> NoKey, pub |-> NoKey, alg |-> "", kid |-> NoKid]

\* Nothing compares the two halves of a pair that is read from files.
ParseKeyPairPEM(priv, pub) ==
  IF priv = NoKey \/ pub = NoKey \/ DetectAlgorithm(pub) = "" THEN NoPair
  ELSE [priv |-> priv, pub |-> pub, alg |-> DetectAlgorithm(pub), kid |-> ComputeKID(pub)]

generate(type, id) == ParseKeyPairPEM(Key(type, id), Key(type, id))

GenerateKeyPair(alg, id) ==
  CASE alg = "EdDSA" -> generate("Ed", id) [] alg = "RS256" -> generate("RSA", id) [] OTHER -> NoPair

\* material is FALSE when a coordinate does not decode.
NoJWK == [kty |-> "", kid |-> NoKid, use |-> "", alg |-> "", id |-> 0, material |-> FALSE]

NewJWKFromPublicKey(pub) ==
  CASE pub.type = "Ed" -> [kty |-> "OKP", kid |-> ComputeKID(pub), use |-> "sig", alg |-> "EdDSA",
                           id |-> pub.id, material |-> TRUE]
    [] pub.type = "RSA" -> [kty |-> "RSA", kid |-> ComputeKID(pub), use |-> "sig", alg |-> "RS256",
                            id |-> pub.id, material |-> TRUE]
    [] OTHER -> NoJWK

\* One key that cannot be published fails the whole set.
NewJWKS(pubs) ==
  LET jwks == [i \in DOMAIN pubs |-> NewJWKFromPublicKey(pubs[i])]
  IN  IF \E i \in DOMAIN jwks : jwks[i] = NoJWK THEN <<>> ELSE jwks

JWKToPublicKey(jwk) ==
  IF ~jwk.material THEN NoKey
  ELSE CASE jwk.kty = "RSA" -> Key("RSA", jwk.id)
         [] jwk.kty = "EC" -> Key("EC", jwk.id)
         [] jwk.kty = "OKP" -> Key("Ed", jwk.id)
         [] OTHER -> NoKey

\* The first key that fits the header.
matchKey(keys, kid, alg) ==
  LET fits == {i \in DOMAIN keys : /\ kid = NoKid \/ keys[i].kid = kid
                                   /\ keys[i].alg \in {"", alg}
                                   /\ keys[i].use \in {"", "sig"}}
  IN  IF fits = {} THEN NoJWK ELSE keys[CHOOSE i \in fits : \A j \in fits : i <= j]

-----------------------------------------------------------------------------
Absent == [kind |-> "absent", n |-> 0]
Number(n) == [kind |-> "number", n |-> n]
Other == [kind |-> "other", n |-> 0]

\* NewNumericDate and int64 both drop the fraction of a second.
Seconds(t) == 2 * (t \div 2)

\* A claim of another JSON type counts as missing.
numericClaim(c) == IF c.kind = "number" THEN Number(Seconds(c.n)) ELSE Absent

\* The subject claim: a string, which may be empty, or nothing that is one.
NoSubject == [string |-> FALSE, name |-> ""]
Subject(name) == [string |-> TRUE, name |-> name]

NoToken == [broken |-> "parts", alg |-> "", kid |-> NoKid, sig |-> [by |-> 0, alg |-> ""],
            exp |-> Absent, nbf |-> Absent, iss |-> "", aud |-> {}, sub |-> NoSubject]

\* signingMethodAndKey and SignedString: the method must fit the private key.
CanSign(kp) == kp # NoPair /\ DetectAlgorithm(kp.priv) = kp.alg

Sign(kp, claims) ==
  IF ~CanSign(kp) THEN NoToken
  ELSE [claims EXCEPT !.broken = "", !.alg = kp.alg, !.kid = kp.kid,
                      !.sig = [by |-> kp.priv.id, alg |-> kp.alg]]

\* The one extra claim that the callers here set is sub.
SignWithConfig(kp, cfg, sub, t) ==
  Sign(kp, [NoToken EXCEPT !.exp = Number(Seconds(t + cfg.ttl)), !.nbf = Number(Seconds(t)),
                           !.iss = cfg.iss, !.aud = cfg.aud, !.sub = Subject(sub)])

\* Algorithms of one family need a key of its type and a hash that exists.
algToHash(alg) == alg \in {"RS256", "RS384", "RS512", "ES256", "ES384", "ES512"}
IsRS(alg) == alg \in {"RS256", "RS384", "RS512", "RSX"}
IsES(alg) == alg \in {"ES256", "ES384", "ES512", "ESX"}

verifySig(alg, pub, sig) ==
  /\ \/ IsRS(alg) /\ pub.type = "RSA" /\ algToHash(alg)
     \/ IsES(alg) /\ pub.type = "EC" /\ algToHash(alg)
     \/ alg = "EdDSA" /\ pub.type = "Ed"
  /\ sig = [by |-> pub.id, alg |-> alg]

audienceContains(aud, target) == target \in aud

TimesHold(tok, skew, t) ==
  /\ LET exp == numericClaim(tok.exp) IN exp = Absent \/ t <= exp.n + skew
  /\ LET nbf == numericClaim(tok.nbf) IN nbf = Absent \/ t >= nbf.n - skew

\* Mutated: the audience is not compared.
VerifyUnaimed(tok, pub, cfg, t) ==
  /\ tok.broken \notin {"parts", "header"} /\ tok.alg # "none"
  /\ cfg.algs = {} \/ tok.alg \in cfg.algs
  /\ pub # NoKey /\ tok.broken # "signature" /\ verifySig(tok.alg, pub, tok.sig)
  /\ tok.broken # "payload" /\ TimesHold(tok, cfg.skew, t)
  /\ cfg.iss = "" \/ tok.iss = cfg.iss

\* Verify at time t, with the key that keyFunc gave for the token's header.
Verify(tok, pub, cfg, t) ==
  /\ tok.broken \notin {"parts", "header"} /\ tok.alg # "none"
  /\ cfg.algs = {} \/ tok.alg \in cfg.algs
  /\ pub # NoKey /\ tok.broken # "signature" /\ verifySig(tok.alg, pub, tok.sig)
  /\ tok.broken # "payload" /\ TimesHold(tok, cfg.skew, t)
  /\ cfg.iss = "" \/ tok.iss = cfg.iss
  /\ cfg.aud = "" \/ audienceContains(tok.aud, cfg.aud)
=============================================================================
