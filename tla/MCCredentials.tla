--------------------------- MODULE MCCredentials ---------------------------
(***************************************************************************)
(* The components that obtain, cache, write and check credentials, on      *)
(* small instances.  "part" says which of them is at work in a behaviour;  *)
(* the router client rests in its initial state otherwise, and the others  *)
(* are off.                                                                *)
(***************************************************************************)
EXTENDS RouterClient, Sequences

CONSTANTS Resolvers   \* callers of ResolveToken

VARIABLES part,
          mintNow, mintState, mintFlight, mintTokens, mintRet, mintLast,
          profConfig, profPc, profDns, profMoves, profIps, profReached, profParams, profErr,
          jwksNow, jwksPublished, jwksRotations, jwksCache, jwksCall, jwksGone,
          iamNow, iamMode, iamToken, iamFlight, iamCall, iamOut,
          grpcNow, grpcSetup, grpcSrc, grpcSigned, grpcWire, grpcLast,
          fmtPc, fmtRaw, fmtWmode, fmtObj, fmtRmode, fmtDecoded

mintVars == <<mintNow, mintState, mintFlight, mintTokens, mintRet, mintLast>>
profVars == <<profConfig, profPc, profDns, profMoves, profIps, profReached, profParams, profErr>>
jwksVars == <<jwksNow, jwksPublished, jwksRotations, jwksCache, jwksCall, jwksGone>>
iamVars == <<iamNow, iamMode, iamToken, iamFlight, iamCall, iamOut>>
grpcVars == <<grpcNow, grpcSetup, grpcSrc, grpcSigned, grpcWire, grpcLast>>
fmtVars == <<fmtPc, fmtRaw, fmtWmode, fmtObj, fmtRmode, fmtDecoded>>
credVars == <<part, vars, mintVars, profVars, jwksVars, iamVars, grpcVars, fmtVars>>

-----------------------------------------------------------------------------
(* The token minter: one pair of a profile; the others only draw on the    *)
(* limiter.  Every branch of the classification of an answer.              *)

Client == INSTANCE GrantClient WITH DefaultExpiresIn <- 6

NoHint == [kind |-> "none", n |-> 0]

MintAnswers ==
  {Client!Grant(Client!Expires("number", 6, TRUE)), Client!Grant(Client!NoExpires),
   Client!Grant(Client!Expires("numeric", 0, FALSE)),
   [Client!Grant(Client!Expires("number", 6, FALSE)) EXCEPT !.over = TRUE],
   Client!Broken("refused"), Client!Broken("cut"),
   Client!Refusal(401, "", NoHint), Client!Refusal(400, "invalid_client", NoHint),
   Client!Refusal(400, "invalid_request", NoHint),
   Client!Refusal(503, "", [kind |-> "seconds", n |-> 3]),
   Client!Refusal(429, "", [kind |-> "date", n |-> 9])}

Mint == INSTANCE TokenMint WITH
  now <- mintNow, state <- mintState, flight <- mintFlight, tokens <- mintTokens,
  ret <- mintRet, last <- mintLast, Keys <- {"k1"}, Answers <- MintAnswers, MaxTime <- 12,
  DefaultExpiresIn <- 6, HaircutNum <- 2, HaircutDen <- 3, RefreshMargin <- 2,
  MinRefreshInterval <- 2, ErrorBackoffBase <- 2, ErrorBackoffMax <- 4, AuthErrorBackoff <- 3,
  IdleTTL <- 4, Timeout <- 2, Burst <- 1

\* A grant's lifetime exceeds what the minter uses of it by the time that a
\* request may take.  It does not for the shortest ones: an expires_in below one
\* second is truncated to 0, and the token is dead when Mint returns it.
ASSUME MintInstance == Mint!MintConstants /\ Mint!lifetime(6) + 2 <= 6

\* Durations around the defaults of 5 and 15 minutes, haircuts around 0 and 1.
Prof == INSTANCE MintConfig WITH
  config <- profConfig, pc <- profPc, dns <- profDns, moves <- profMoves, ips <- profIps,
  reached <- profReached, params <- profParams, err <- profErr,
  Minutes <- {0, 4, 20}, Haircuts <- {0, 10, 11}, MaxMoves <- 1

-----------------------------------------------------------------------------
(* Remote keys: before, during and after a rotation; the encryption key    *)
(* matches no token.                                                       *)

JWT == INSTANCE JWTVerify

Jwk(id) == JWT!NewJWKFromPublicKey(JWT!Key("RSA", id))
KeySets == {<<Jwk(1)>>, <<Jwk(1), Jwk(2)>>, <<[Jwk(2) EXCEPT !.use = "enc"], Jwk(2)>>}

Jwks == INSTANCE RemoteJWKS WITH
  now <- jwksNow, published <- jwksPublished, rotations <- jwksRotations, cache <- jwksCache,
  call <- jwksCall, gone <- jwksGone, KeySets <- KeySets, Kids <- {1, 2},
  TTL <- 2, FetchTime <- 1, MaxRotations <- 2, MaxTime <- 5

ASSUME JwksInstance == Jwks!JWKSConstants

\* Every mode, complete and not; only the complete ones give a resolver.
IamConfigs ==
  [mode : {"iam_token", "oauth_token", "metadata", "service_account", "static"},
   has : SUBSET {"iam", "oauth", "keyfile"}, keyfile : {"parses", "broken"}]

Iam == INSTANCE IAMToken WITH
  now <- iamNow, mode <- iamMode, token <- iamToken, flight <- iamFlight, call <- iamCall,
  out <- iamOut, Callers <- Resolvers, Configs <- IamConfigs,
  Life <- 5, Margin <- 2, DefaultLife <- 4, Timeout <- 2, MaxTime <- 9

ASSUME IamInstance == Iam!IAMConstants

-----------------------------------------------------------------------------
(* gRPC calls, in half seconds: tokens of 2 s and 3.5 s, refreshed 1.5 s   *)
(* early; key pairs with halves of two pairs and of two types.             *)

rsa == JWT!GenerateKeyPair("RS256", 1)
ed == JWT!GenerateKeyPair("EdDSA", 2)
mixed == JWT!ParseKeyPairPEM(JWT!Key("RSA", 1), JWT!Key("RSA", 3))
crossed == JWT!ParseKeyPairPEM(JWT!Key("RSA", 1), JWT!Key("Ed", 2))

\* A set with an encryption key of the same kid and a key without algorithm.
JWKSOf(kp) ==
  <<[Jwk(9) EXCEPT !.kid = kp.kid, !.use = "enc"], [Jwk(8) EXCEPT !.kty = "EC", !.alg = ""]>>
  \o JWT!NewJWKS(<<kp.pub>>)

SetupFor(kp, jwks, ttl, offset, skew) ==
  [kp |-> kp, jwks |-> IF jwks THEN JWKSOf(kp) ELSE <<>>,
   file |-> IF jwks THEN JWT!NoKey ELSE kp.pub,
   sign |-> [iss |-> "i", aud |-> {"a", "b"}, ttl |-> ttl],
   verify |-> [algs |-> {}, iss |-> "i", aud |-> "a", skew |-> skew], offset |-> offset]

GrpcSetups ==
  {SetupFor(kp, kp = rsa, ttl, offset, skew) :
     kp \in {rsa, ed}, ttl \in {4, 7}, offset \in {-1, 1}, skew \in {0, 2}}
  \cup {SetupFor(kp, TRUE, 7, 0, 0) : kp \in {mixed, crossed}}

Foreign == JWT!SignWithConfig(rsa, [iss |-> "i", aud |-> {"a"}, ttl |-> 6], "other", 2)
Bearer(tok) == [auth |-> "token", tok |-> tok]

\* Calls of services that sign for another audience, issuer or time, that use
\* another key, or that send no usable token at all.
GrpcStrangers ==
  {[auth |-> "none", tok |-> JWT!NoToken], [auth |-> "empty", tok |-> JWT!NoToken]}
  \cup {Bearer(t) : t \in
    {Foreign, [Foreign EXCEPT !.aud = {"b"}], [Foreign EXCEPT !.iss = "j"],
     [Foreign EXCEPT !.sub = JWT!NoSubject], [Foreign EXCEPT !.sub = JWT!Subject("")],
     [Foreign EXCEPT !.exp = JWT!Absent, !.nbf = JWT!Other],
     [Foreign EXCEPT !.alg = "RSX", !.sig.alg = "RSX"], [Foreign EXCEPT !.alg = "ES256"],
     [Foreign EXCEPT !.alg = "none"], [Foreign EXCEPT !.broken = "payload"],
     [Foreign EXCEPT !.sig.by = 9, !.kid = JWT!NoKid]}}

Grpc == INSTANCE GRPCAuth WITH
  now <- grpcNow, setup <- grpcSetup, src <- grpcSrc, signed <- grpcSigned, wire <- grpcWire,
  last <- grpcLast, Setups <- GrpcSetups, Strangers <- GrpcStrangers,
  Buffer <- 3, SignTime <- 1, Transit <- 2, MaxTime <- 11

\* Token objects: every combination of fields, good and bad.
HandWritten ==
  [enc : {"", "dGV4dA==", "%"}, key : {"", "k"}, plain : {"", "text"},
   kind : {"", "oauth2_client_credentials", "unknown"},
   profile : {"", " ", "ozon"}, id : {"", "a"}, secret : {"", "a", "b"}]

Format == INSTANCE TokenFormat WITH
  pc <- fmtPc, raw <- fmtRaw, wmode <- fmtWmode, obj <- fmtObj, rmode <- fmtRmode,
  decoded <- fmtDecoded, Raws <- {"", "text", "binary"},
  HandWritten <- HandWritten

-----------------------------------------------------------------------------
Parts == {"router", "mint", "profile", "jwks", "iam", "grpc", "format"}

Off == 0

\* A component that is not at work.
mintOff ==
  /\ mintNow = Off /\ mintState = Off /\ mintFlight = Off /\ mintTokens = Off
  /\ mintRet = Off /\ mintLast = Off
profOff ==
  /\ profConfig = Off /\ profPc = Off /\ profDns = Off /\ profMoves = Off
  /\ profIps = Off /\ profReached = Off /\ profParams = Off /\ profErr = Off
jwksOff ==
  /\ jwksNow = Off /\ jwksPublished = Off /\ jwksRotations = Off /\ jwksCache = Off
  /\ jwksCall = Off /\ jwksGone = Off
iamOff ==
  /\ iamNow = Off /\ iamMode = Off /\ iamToken = Off /\ iamFlight = Off /\ iamCall = Off
  /\ iamOut = Off
grpcOff ==
  /\ grpcNow = Off /\ grpcSetup = Off /\ grpcSrc = Off /\ grpcSigned = Off
  /\ grpcWire = Off /\ grpcLast = Off
fmtOff ==
  /\ fmtPc = Off /\ fmtRaw = Off /\ fmtWmode = Off /\ fmtObj = Off /\ fmtRmode = Off
  /\ fmtDecoded = Off

CredInit ==
  /\ part \in Parts
  /\ Init
  /\ IF part = "mint" THEN Mint!Init ELSE mintOff
  /\ IF part = "profile" THEN Prof!Init ELSE profOff
  /\ IF part = "jwks" THEN Jwks!Init ELSE jwksOff
  /\ IF part = "iam" THEN Iam!Init ELSE iamOff
  /\ IF part = "grpc" THEN Grpc!Init ELSE grpcOff
  /\ IF part = "format" THEN Format!Init ELSE fmtOff

\* Everything but the component at work stays as it is.
Still(p) ==
  /\ UNCHANGED part
  /\ IF p = "router" THEN TRUE ELSE UNCHANGED vars
  /\ IF p = "mint" THEN TRUE ELSE UNCHANGED mintVars
  /\ IF p = "profile" THEN TRUE ELSE UNCHANGED profVars
  /\ IF p = "jwks" THEN TRUE ELSE UNCHANGED jwksVars
  /\ IF p = "iam" THEN TRUE ELSE UNCHANGED iamVars
  /\ IF p = "grpc" THEN TRUE ELSE UNCHANGED grpcVars
  /\ IF p = "format" THEN TRUE ELSE UNCHANGED fmtVars

CredNext ==
  \/ part = "router" /\ Next /\ Still("router")
  \/ part = "mint" /\ Mint!Next /\ Still("mint")
  \/ part = "profile" /\ Prof!Next /\ Still("profile")
  \/ part = "jwks" /\ Jwks!Next /\ Still("jwks")
  \/ part = "iam" /\ Iam!Next /\ Still("iam")
  \/ part = "grpc" /\ Grpc!Next /\ Still("grpc")
  \/ part = "format" /\ Format!Next /\ Still("format")

CredSpec == CredInit /\ [][CredNext]_credVars

CredSymmetry == Symmetry \cup Permutations(Resolvers)

-----------------------------------------------------------------------------
(* Properties; SpentBounded, UnsafeSentOnce and TokenAlive of the router   *)
(* client are its own.                                                     *)

\* What is handed out or honoured is alive.  Minter.Mint: a token that is
\* returned is still accepted by its endpoint, although the fallback is chosen
\* with the time read before the request.  RemoteJWKS.getJWKS: a withdrawn key is
\* honoured for the lifetime of the cache and one fetch at most, whatever late
\* answers are stored.  ResolveToken: a token from the cache, or late from a
\* flight, is still accepted.  ServiceTokenSource: no call fails for the age of
\* its token, at a server that knows the key and within the margins.  The type
\* invariants of the five components hold.
NothingDead ==
  CASE part = "router" -> TypeOK
    [] part = "mint" -> Mint!TypeOK /\ Mint!ServedAlive
    [] part = "jwks" -> Jwks!TypeOK /\ Jwks!WithdrawnKeyDies
    [] part = "iam" -> Iam!TypeOK /\ Iam!TokenAlive
    [] part = "grpc" -> Grpc!TypeOK /\ Grpc!AttachedAccepted
    [] OTHER -> TRUE

\* Faults stay invisible where they can.  Minter.Mint: while a pair has a usable
\* token no call fails, whatever the endpoint, the limiter and the gates do.
\* RemoteJWKS.findKey: a lookup finds a key that is published throughout it, if
\* its fetch works and no other fetch is under way.
Dependable ==
  CASE part = "mint" -> Mint!OutageInvisible
    [] part = "jwks" -> Jwks!RotationFoundAlone
    [] OTHER -> TRUE

\* What is trusted was checked.  The interceptor: a call that carries a token runs
\* only if a trusted key made that token for this issuer, audience and time, and
\* with the subject that the token names; an empty name is one too.
\* dialContext: without allow_private the credentials reach only addresses that
\* passed the check, however the name is moved meanwhile.  ParseTokenObject and
\* DecodeToken: no unknown kind becomes a static token, a reader never gets a
\* plaintext for a ciphertext, and what was written in its mode is read back.
Vouched ==
  CASE part = "grpc" -> Grpc!SubjectVouched
    [] part = "profile" -> Prof!TypeOK /\ Prof!CheckedIsDialled
    [] part = "format" -> Format!NoDowngrade /\ Format!ModeHeeded /\ Format!ReadBack
    [] OTHER -> TRUE

\* No step hands out a dead token, asks too early or takes back what was accepted.
\* Token of routerclient: also a cached token still lives, up to what its answer
\* took.  Minter.Mint: two
\* requests for a pair are at least MinRefreshInterval apart, and a failed one is
\* followed by the silence its answer asks for, except for a pair whose entry
\* Sweep took from under the earlier request.  refreshToken: no request is sent
\* for a token that the cache holds.  ServiceTokenSource: a token is signed only
\* when the cached one is within the refresh buffer of its end.  Validate: what
\* it accepted passes every check that a request makes of the profile.
Disciplined ==
  /\ TokenAlive
  /\ [][CASE part = "mint" -> Mint!FloorKept
          [] part = "iam" -> Iam!NoNeedlessRequest
          [] part = "grpc" -> Grpc!SignedSparingly
          [] part = "profile" -> Prof!StartsOrRefuses
          [] OTHER -> TRUE]_credVars

\* profile.go: MinRefreshInterval is "the hard floor between two mints for the
\* same credential pair, regardless of demand".
HardFloor == [][part = "mint" => Mint!HardFloor]_credVars

\* RemoteJWKS.findKey ("On a kid cache miss it refetches once to handle key
\* rotation"): a lookup finds a published key when other lookups run.
RotationFound == part = "jwks" => Jwks!RotationFound
=============================================================================
