----------------------------- MODULE RemoteJWKS -----------------------------
(***************************************************************************)
(* jwtx.RemoteJWKS: concurrent key lookups over one cached key set, and an *)
(* issuer that rotates its keys.                                           *)
(***************************************************************************)
EXTENDS JWTVerify, TLC

CONSTANTS Callers, KeySets,  \* what the issuer may publish: sequences of JWKs
          Kids,              \* key ids that tokens name
          TTL,               \* RemoteJWKS.ttl
          FetchTime,         \* client.Timeout
          MaxRotations, MaxTime

VARIABLES now,
          published,  \* the set that the issuer serves now
          rotations,
          cache,      \* RemoteJWKS.cache
          call,       \* findKey of each caller
          gone        \* ghost: when the issuer last withdrew a kid

vars == <<now, published, rotations, cache, call, gone>>

NoCache == [keys |-> <<>>, at |-> 0, here |-> FALSE]

\* tries counts the calls of getJWKS.  The rest are ghosts: whether the kid
\* has been published, and no other call has been fetching, all along.
Idle == [pc |-> "idle", kid |-> NoKid, tries |-> 0, keys |-> <<>>, start |-> 0,
         held |-> TRUE, alone |-> TRUE, got |-> "", key |-> NoKid]

KidsOf(keys) == {keys[i].kid : i \in DOMAIN keys}
Never == -1

JWKSConstants == {TTL, FetchTime, MaxTime} \subseteq Nat \ {0} /\ MaxRotations \in Nat

Init ==
  /\ now = 0 /\ rotations = 0 /\ published \in KeySets
  /\ cache = NoCache
  /\ call = [c \in Callers |-> Idle]
  /\ gone = [k \in Kids |-> Never]

Fetching(c) == call[c].pc \in {"fetch", "store"}

\* KeyFunc is called for a token's kid.
Find(c) ==
  /\ call[c].pc = "idle"
  /\ \E kid \in Kids :
       call' = [call EXCEPT ![c] = [Idle EXCEPT !.pc = "read", !.kid = kid, !.tries = 1,
                                      !.held = kid \in KidsOf(published),
                                      !.alone = \A d \in Callers : ~Fetching(d)]]
  /\ UNCHANGED <<now, published, rotations, cache, gone>>

Return(me, got, key) ==
  [Idle EXCEPT !.pc = "done", !.got = got, !.key = key, !.held = me.held, !.alone = me.alone]

\* matchKey: the caller returns, or takes the lock to drop the cache; the
\* second miss is the error "no matching key".
AfterKeys(me, keys) ==
  LET jwk == matchKey(keys, me.kid, "RS256")
  IN  IF jwk # NoJWK THEN Return(me, "key", jwk.kid)
      ELSE IF me.tries = 1 THEN [me EXCEPT !.pc = "drop"]
      ELSE Return(me, "nomatch", NoKid)

CacheServes(t) == cache.here /\ t - cache.at < TTL

\* The read-locked part of getJWKS.
Read(c) ==
  /\ call[c].pc = "read"
  /\ IF CacheServes(now)
     THEN call' = [call EXCEPT ![c] = AfterKeys(@, cache.keys)]
     ELSE call' = [d \in Callers |->
                     IF d = c THEN [call[c] EXCEPT !.pc = "fetch", !.start = now]
                     ELSE [call[d] EXCEPT !.alone = @ /\ call[d].pc \in {"idle", "done"}]]
  /\ UNCHANGED <<now, published, rotations, cache, gone>>

\* The issuer answers with what it publishes at that moment ...
Serve(c) ==
  /\ call[c].pc = "fetch"
  /\ call' = [call EXCEPT ![c].pc = "store", ![c].keys = published]
  /\ UNCHANGED <<now, published, rotations, cache, gone>>

\* ... or not at all: transport, status and decoding errors.
FetchFails(c) ==
  /\ Fetching(c)
  /\ call' = [call EXCEPT ![c] = Return(@, "error", NoKid)]
  /\ UNCHANGED <<now, published, rotations, cache, gone>>

\* The answer arrives, is stored with the time of its arrival, and is used.
Store(c) ==
  /\ call[c].pc = "store"
  /\ cache' = [keys |-> call[c].keys, at |-> now, here |-> TRUE]
  /\ call' = [call EXCEPT ![c] = [AfterKeys(@, @.keys) EXCEPT !.keys = <<>>]]
  /\ UNCHANGED <<now, published, rotations, gone>>

\* kid not found: invalidate the cache and read again.
Drop(c) ==
  /\ call[c].pc = "drop"
  /\ cache' = NoCache
  /\ call' = [call EXCEPT ![c].pc = "read", ![c].tries = 2]
  /\ UNCHANGED <<now, published, rotations, gone>>

\* findKey has returned; its answer is forgotten.
Done(c) ==
  /\ call[c].pc = "done"
  /\ call' = [call EXCEPT ![c] = Idle]
  /\ UNCHANGED <<now, published, rotations, cache, gone>>

Rotate ==
  /\ rotations < MaxRotations
  /\ \E keys \in KeySets \ {published} :
       /\ published' = keys
       /\ gone' = [k \in Kids |-> IF k \in KidsOf(keys) THEN Never
                                  ELSE IF k \in KidsOf(published) THEN now ELSE gone[k]]
       /\ call' = [c \in Callers |->
              IF call[c].pc \in {"idle", "done"} THEN call[c]
              ELSE [call[c] EXCEPT !.held = @ /\ call[c].kid \in KidsOf(keys)]]
  /\ rotations' = rotations + 1
  /\ UNCHANGED <<now, cache>>

\* Only a fetch takes time, and client.Timeout bounds it.
Tick ==
  /\ now < MaxTime
  /\ \A c \in Callers : \/ call[c].pc = "idle"
                        \/ Fetching(c) /\ now - call[c].start < FetchTime
  /\ now' = now + 1
  /\ UNCHANGED <<published, rotations, cache, call, gone>>

Next ==
  \/ \E c \in Callers : \/ Find(c) \/ Read(c) \/ Serve(c) \/ FetchFails(c)
                        \/ Store(c) \/ Drop(c) \/ Done(c)
  \/ Rotate \/ Tick

Spec == Init /\ [][Next]_vars

-----------------------------------------------------------------------------
TypeOK ==
  /\ now \in 0..MaxTime /\ rotations \in 0..MaxRotations
  /\ cache.here => cache.at <= now /\ cache.keys \in KeySets
  /\ \A c \in Callers : call[c].pc = "store" => call[c].keys \in KeySets

\* A withdrawn key is honoured for the lifetime of the cache and the duration
\* of one fetch, whatever the callers do: a late answer with an old set may
\* enter the cache again, but only while its own fetch lasts.
WithdrawnKeyDies ==
  \A c \in Callers :
    call[c].got = "key" /\ gone[call[c].key] # Never => now - gone[call[c].key] < TTL + FetchTime

\* A lookup finds a key that is published throughout it, if its fetch works
\* and no other fetch is under way: the second reading never sees the set
\* that the first one missed.
RotationFoundAlone ==
  \A c \in Callers : call[c].got = "nomatch" => ~(call[c].held /\ call[c].alone)

\* The same when other lookups run: KeyFunc "refetches once to handle key
\* rotation".
RotationFound ==
  \A c \in Callers : call[c].got = "nomatch" => ~call[c].held

Symmetry == Permutations(Callers)
=============================================================================
