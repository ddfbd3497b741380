------------------------------ MODULE GRPCAuth ------------------------------
(***************************************************************************)
(* grpcjwt: a client attaches a cached, self-signed token to its calls     *)
(* (ServiceTokenSource); after some transit the server's interceptor       *)
(* validates it with its own clock.                                        *)
(***************************************************************************)
EXTENDS JWTVerify

CONSTANTS Setups,     \* deployments: the pair, both configurations, the clock offset
          Strangers,  \* metadata that other clients send
          Buffer,     \* tokenRefreshBuffer
          SignTime,   \* bound on the time that a signature takes
          Transit,    \* bound on the time between attaching and validating
          MaxTime

VARIABLES now, setup,
          src,     \* ServiceTokenSource: token and expiry; signing holds the mutex
          signed,  \* the signature under way, NoToken when there is none
          wire,    \* calls on their way: metadata and when they were sent
          last     \* what the interceptor did with the last call

vars == <<now, setup, src, signed, wire, last>>

\* Incoming metadata.
NoMetadata == [auth |-> "none", tok |-> NoToken]
Bearer(tok) == [auth |-> "token", tok |-> tok]

NoCall == [md |-> NoMetadata, own |-> FALSE, ran |-> FALSE, subject |-> NoSubject, at |-> 0]

Init ==
  /\ now = 0 /\ setup \in Setups
  /\ src = [token |-> NoToken, expiry |-> 0]
  /\ signed = [tok |-> NoToken, at |-> 0]
  /\ wire = {} /\ last = NoCall

Send(md, own) == wire' = wire \cup {[md |-> md, own |-> own, at |-> now]}

CacheHolds == src.token # NoToken /\ now < src.expiry

\* GetRequestMetadata with a token in the cache.
Attach ==
  /\ signed.tok = NoToken /\ wire = {}
  /\ CacheHolds
  /\ Send(Bearer(src.token), TRUE)
  /\ last' = NoCall
  /\ UNCHANGED <<now, setup, src, signed>>

\* GetRequestMetadata without: SignWithConfig reads the clock before it signs.
\* A pair that cannot sign makes the call fail.
StartSign ==
  /\ signed.tok = NoToken /\ wire = {}
  /\ ~CacheHolds
  /\ signed' = [tok |-> SignWithConfig(setup.kp, setup.sign, "svc", now), at |-> now]
  /\ signed'.tok # NoToken
  /\ last' = NoCall
  /\ UNCHANGED <<now, setup, src, wire>>

ExpiryAt(t) == t + setup.sign.ttl - Buffer

\* cachedToken stores the token and reads the clock again.
Signed ==
  /\ signed.tok # NoToken
  /\ src' = [token |-> signed.tok, expiry |-> ExpiryAt(now)]
  /\ signed' = [tok |-> NoToken, at |-> 0]
  /\ Send(Bearer(signed.tok), TRUE)
  /\ last' = NoCall
  /\ UNCHANGED <<now, setup>>

\* One call at a time is on its way.
Stranger ==
  /\ signed.tok = NoToken /\ wire = {}
  /\ \E md \in Strangers : Send(md, FALSE)
  /\ last' = NoCall
  /\ UNCHANGED <<now, setup, src, signed>>

\* NewValidator: the key set before the key file.
KeyFunc(kid, alg) ==
  IF setup.jwks # <<>> THEN JWKToPublicKey(matchKey(setup.jwks, kid, alg)) ELSE setup.file

\* The subject claim, which may be the empty string, or an error: of Verify, no
\* claim, or a claim of another type.
ValidateToken(tok, t) ==
  LET ok == Verify(tok, KeyFunc(tok.kid, tok.alg), setup.verify, t) /\ tok.sub.string
  IN  [err |-> ~ok, subject |-> IF ok THEN tok.sub ELSE NoSubject]

\* A call without authorization metadata goes through without a subject in its
\* context, an empty token is refused, and a validated one brings its subject.
UnaryInterceptor(call) ==
  LET validated == IF call.md.auth = "token"
                   THEN ValidateToken(call.md.tok, now + setup.offset)
                   ELSE [err |-> call.md.auth = "empty", subject |-> NoSubject]
  IN  [md |-> call.md, own |-> call.own, at |-> now + setup.offset,
       ran |-> ~validated.err, subject |-> validated.subject]

Receive ==
  \E call \in wire :
    /\ last' = UnaryInterceptor(call)
    /\ wire' = wire \ {call}
    /\ UNCHANGED <<now, setup, src, signed>>

Tick ==
  /\ now < MaxTime
  /\ \A call \in wire : now - call.at < Transit
  /\ signed.tok # NoToken => now - signed.at < SignTime
  /\ now' = now + 1
  /\ last' = NoCall
  /\ UNCHANGED <<setup, src, signed, wire>>

Next == Attach \/ StartSign \/ Signed \/ Stranger \/ Receive \/ Tick

Spec == Init /\ [][Next]_vars

-----------------------------------------------------------------------------
\* The margins suffice: the refresh buffer, or the whole lifetime of a token
\* that is shorter, covers signing, transit and the server's clock being
\* ahead; the tolerance covers it being behind.
Covered ==
  /\ SignTime + Transit + setup.offset <= Buffer + setup.verify.skew
  /\ SignTime + Transit + setup.offset + 1 <= setup.sign.ttl + setup.verify.skew
  /\ setup.offset + setup.verify.skew >= 0

\* The server knows the pair's public key and asks for what the client signs.
Aligned ==
  /\ setup.kp.priv = setup.kp.pub
  /\ setup.kp.pub \in {setup.file} \cup {JWKToPublicKey(setup.jwks[i]) : i \in DOMAIN setup.jwks}
  /\ setup.verify.iss \in {"", setup.sign.iss}
  /\ setup.verify.aud \in {""} \cup setup.sign.aud
  /\ setup.verify.algs = {} \/ setup.kp.alg \in setup.verify.algs

TypeOK ==
  /\ now \in 0..MaxTime
  /\ Cardinality(wire) <= 1
  /\ src.expiry <= now + setup.sign.ttl - Buffer \/ src.token = NoToken

\* No call fails for its token: whatever the age of the cached token when it
\* was attached, it is still valid when the interceptor of an aligned server
\* reads it, and the handler sees the service's name.
AttachedAccepted ==
  last.own /\ Aligned /\ Covered => last.ran /\ last.subject = Subject("svc")

\* What a subject vouches for, said without the order of Verify: a key that
\* the server trusts for signatures made the token, it names this issuer and
\* this audience, and the server's clock is in its lifetime.
Trusted(tok) ==
  /\ \E k \in {setup.file} \cup {JWKToPublicKey(setup.jwks[i]) :
                 i \in {j \in DOMAIN setup.jwks : setup.jwks[j].use # "enc"}} :
       k # NoKey /\ tok.sig.by = k.id
  /\ setup.verify.iss \in {"", tok.iss} /\ setup.verify.aud \in {""} \cup tok.aud
  /\ tok.exp.kind = "number" => last.at <= tok.exp.n + setup.verify.skew
  /\ tok.nbf.kind = "number" => last.at + setup.verify.skew + 1 >= tok.nbf.n

\* A handler runs for a call that carries a token only if that token vouches for
\* its subject, which is then in the context as the token says it, if only as an
\* empty string; and a call without metadata runs without a subject.
SubjectVouched ==
  /\ last.ran /\ last.md.auth # "none" => /\ Trusted(last.md.tok)
                                         /\ last.subject = last.md.tok.sub
                                         /\ last.subject.string
  /\ last.subject.string => last.ran /\ last.md.auth = "token"

\* A token is signed only when the cached one has at most the refresh buffer
\* (and the time its own signature took) left to live.
SignedSparingly ==
  signed.tok = NoToken /\ signed'.tok # NoToken /\ src.token # NoToken
  => now + Buffer + 1 >= src.token.exp.n
=============================================================================
