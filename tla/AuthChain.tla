----------------------------- MODULE AuthChain ------------------------------
(***************************************************************************)
(* A server with the interceptors of packages/auth, in the order the code  *)
(* asks for: an authentication interceptor (generic, session, JWT or       *)
(* gateway) that skips the public and the internal methods, the internal   *)
(* one, and an authorization interceptor.  Requests run concurrently; what *)
(* they share is the cache of verified credentials.  Verifying is a call   *)
(* to a store (external) that reads the credential at some moment before   *)
(* it answers; credentials are revoked at any time.                        *)
(***************************************************************************)
EXTENDS LruCache, MethodAuth

CONSTANTS
  Request,      \* the requests there may be
  Token,        \* the credentials
  Identity,     \* Identity[t]: the context of t in its store, or Undefined
  Party,        \* the services that call internal methods
  Known,        \* the parties the trust source is configured with
  PartyGrants,  \* PartyGrants[p]: the roles and scopes it is configured to give p, or
                \* "internal", whoever has the shared secret
  RolesMapped,  \* the issuers whose claimsMapping names the claim with the roles
  Subject,      \* whom a signed token may name as its subject
  Secret,       \* the values of the trust header that are no addresses
  Width,        \* the bits of an address (32)
  Deployment,   \* the combinations of interceptors considered
  MaxTime,      \* bound: the clock
  MaxRevoked    \* bound: how many credentials are revoked

ASSUME MaxTimeAssumption == MaxTime \in Nat /\ MaxRevoked \in Nat
ASSUME WidthAssumption == Width \in Nat \ {0}
ASSUME KnownAssumption == Known \subseteq Party

Address == 0 .. 2^Width - 1

\* Powers of two are positive: true of every width, and stated because provers
\* know no exponentiation.
ASSUME PowersAssumption == \A n \in 0..Width : 2^n \in Nat \ {0}

\* matchesIp refuses other prefixes.
ASSUME DeploymentAssumption ==
  \A d \in Deployment :
    /\ d.authn \in {"generic", "session", "jwt", "gateway"} /\ d.trust \in {"none", "mesh", "token", "secret"}
    /\ d.methods \subseteq Method /\ d.tokens \subseteq Token /\ d.secrets \subseteq Secret
    /\ \A range \in d.expectedValues : range.network \in Address /\ range.prefix \in 0..Width

ASSUME IdentityAssumption ==
  \A t \in Token : Identity[t] # Undefined => Identity[t].expiresAt \in Int \cup {Undefined}

\* A context is a value that is set.
ASSUME UndefinedAssumption ==
  \A roles \in SUBSET Roles : AuthContext("user", roles, {}, Undefined) # Undefined

VARIABLES
  deploy,    \* the interceptors (authn, cached, trust, authz, callback), the methods,
             \* the gateway's expectedValues (networks with prefixes; secrets), the
             \* credentials and the requests at once
  clock,
  revoked,   \* the credentials that are revoked
  entries,   \* the cache
  request,   \* request[r]: the request and where it is
  confirmed, \* history: confirmed[t]: when a verification of t last returned
  used       \* history: the cached credentials in the order of their last use

vars == <<deploy, clock, revoked, entries, request, confirmed, used>>

Never == 0 - Ttl

\* What a request carries: a credential, the marker of an internal caller, and the
\* headers of a gateway.  History: the age of the confirmation its identity
\* rests on when it was accepted, and whether a cached context had expired then.
NewRequest(pc, method, token, marker, gateway) ==
  [pc |-> pc, method |-> method, token |-> token, marker |-> marker, gateway |-> gateway,
   context |-> Undefined, age |-> 0, expired |-> FALSE]

NoRequest == NewRequest("idle", Undefined, Undefined, Undefined, Undefined)

Init ==
  /\ deploy \in Deployment
  /\ clock = 0
  /\ revoked = {}
  /\ entries = <<>>
  /\ request = [r \in Request |-> NoRequest]
  /\ confirmed = [t \in Token |-> Never]
  /\ used = <<>>

Becomes(r, q) == request' = [request EXCEPT ![r] = q]

\* The request ends with an error; only where it came from is kept of it.
Rejected(r, code) == Becomes(r, NewRequest(code, Undefined, Undefined, Undefined, request[r].gateway))

\* The principal of a workload (by), a signed token (by whom, the issuer, the subject
\* and the roles and scopes it claims) or a secret (of by's).
Markers == [names : Party, by : Party, subject : Subject \cup {Undefined}, claims : Requirements]

\* The value of the trust header, which the sender of the request writes, and whether
\* the header with the subject is there.
GatewayHeaders == [value : Address \cup Secret \cup {Undefined}, subject : BOOLEAN]

\* A request arrives.  Its credential, its marker and its gateway headers matter to
\* different interceptors.
Arrive(r) ==
  /\ r \in deploy.requests
  /\ request[r].pc \in {"idle", "unauthenticated", "permission_denied", "failed", "handler"}
  /\ \E m \in deploy.methods :
       LET internal == MatchesMethodPattern(m, GetInternalMethods) IN
       \E t \in {Undefined} \cup (IF internal \/ deploy.authn = "gateway" THEN {} ELSE deploy.tokens),
          k \in {Undefined} \cup (IF internal THEN Markers ELSE {}),
          a \in IF internal \/ deploy.authn # "gateway" THEN {Undefined} ELSE GatewayHeaders :
         Becomes(r, NewRequest("authn", m, t, k, a))
  /\ UNCHANGED <<deploy, clock, revoked, entries, confirmed, used>>

-----------------------------------------------------------------------------
(* Authorization.  An interceptor calls the next one, so what follows an   *)
(* interceptor up to the next await is one step with it.                   *)

Decision(m, context) ==
  IF deploy.authz = "proto" THEN ProtoDecision(m, context, deploy.callback)
  ELSE AuthzDecision(m, context, GetPublicMethods, deploy.callback)

\* Request r, which has become q, is decided.
Authorize(r, q) ==
  LET decision == Decision(q.method, q.context) IN
  IF decision \in {"next", "ask"}
  THEN Becomes(r, [q EXCEPT !.pc = IF decision = "next" THEN "handler" ELSE "asking"])
  ELSE Rejected(r, decision)

\* The authorize callback answers.
Answered(r) ==
  /\ request[r].pc = "asking"
  /\ Becomes(r, [request[r] EXCEPT !.pc = "handler"]) \/ Rejected(r, "permission_denied") \/ Rejected(r, "failed")
  /\ UNCHANGED <<deploy, clock, revoked, entries, confirmed, used>>

\* What follows authentication: the internal interceptor lets methods that are not
\* internal through.
Onward(r, q) ==
  IF deploy.trust # "none" /\ MatchesMethodPattern(q.method, GetInternalMethods)
  THEN Becomes(r, [q EXCEPT !.pc = "trusting"])
  ELSE Authorize(r, q)

-----------------------------------------------------------------------------
(* Authentication *)

SkipMethods == GetPublicMethods \cup GetInternalMethods

Skip(r) ==
  /\ request[r].pc = "authn" /\ MatchesMethodPattern(request[r].method, SkipMethods)
  /\ Onward(r, request[r])
  /\ UNCHANGED <<deploy, clock, revoked, entries, confirmed, used>>

Authenticates(r, kinds) ==
  request[r].pc = "authn" /\ ~ MatchesMethodPattern(request[r].method, SkipMethods) /\ deploy.authn \in kinds

MissingCredentials(r) ==
  /\ Authenticates(r, {"generic", "session", "jwt"}) /\ request[r].token = Undefined
  /\ Rejected(r, "unauthenticated")
  /\ UNCHANGED <<deploy, clock, revoked, entries, confirmed, used>>

\* A cached context is served until it expires itself.
Served(context) == context.expiresAt # Undefined => context.expiresAt > clock

\* The cache is looked up; JWT credentials are not cached.
Cached(r) == deploy.cached /\ Hit(entries, request[r].token, clock)

\* History: the credentials used before, without t.
UsedBut(t) == Splice(used, {i \in DOMAIN used : used[i] = t})

FromCache(r) ==
  LET t == request[r].token IN
  /\ Authenticates(r, {"generic", "session", "jwt"}) /\ t # Undefined
  /\ Cached(r) /\ Served(Lookup(entries, t).value)
  /\ LET context == Lookup(entries, t).value IN
     Onward(r, [request[r] EXCEPT !.context = context, !.age = clock - confirmed[t],
                  !.expired = context.expiresAt # Undefined /\ context.expiresAt <= clock])
  /\ entries' = AfterGet(entries, t, clock)
  /\ used' = Append(UsedBut(t), t)
  /\ UNCHANGED <<deploy, clock, revoked, confirmed>>

\* verifyCredentials() or verifySession() is called.  The lookup has moved or
\* removed the entry.
Verify(r) ==
  LET t == request[r].token IN
  /\ Authenticates(r, {"generic", "session", "jwt"}) /\ t # Undefined
  /\ ~ (Cached(r) /\ Served(Lookup(entries, t).value))
  /\ Becomes(r, [request[r] EXCEPT !.pc = "verifying"])
  /\ IF deploy.cached
     THEN /\ entries' = AfterGet(entries, t, clock)
          /\ used' = IF Cached(r) THEN Append(UsedBut(t), t) ELSE UsedBut(t)
     ELSE UNCHANGED <<entries, used>>
  /\ UNCHANGED <<deploy, clock, revoked, confirmed>>

\* A JWT must name a subject, as one of its claims or as sub.
MissingSubject(context) == deploy.authn = "jwt" /\ context.subject = Undefined

\* The store reads the credential: unknown, revoked or expired ones are refused.
StoreReads(r) ==
  LET t == request[r].token
      context == Identity[t]
      valid == /\ context # Undefined /\ t \notin revoked
               /\ context.expiresAt # Undefined => clock < context.expiresAt
               /\ ~ MissingSubject(context)
  IN
  /\ request[r].pc = "verifying"
  /\ IF valid THEN Becomes(r, [request[r] EXCEPT !.pc = "verified", !.context = context]) ELSE Rejected(r, "unauthenticated")
  /\ UNCHANGED <<deploy, clock, revoked, entries, confirmed, used>>

\* The call fails: with a ConnectError of its own, or as Unauthenticated.
VerifyFails(r) ==
  /\ request[r].pc \in {"verifying"} \cup (IF deploy.authn = "session" THEN {"verified"} ELSE {})
  /\ \E code \in {"failed", "unauthenticated"} : Rejected(r, code)
  /\ UNCHANGED <<deploy, clock, revoked, entries, confirmed, used>>

\* The answer arrives (and mapSession() has mapped it): it is cached, and the
\* request goes on with it.
Verified(r) ==
  LET t == request[r].token IN
  /\ request[r].pc = "verified"
  /\ Onward(r, request[r])
  /\ confirmed' = [confirmed EXCEPT ![t] = clock]
  /\ IF deploy.cached
     THEN /\ entries' = AfterSet(entries, t, request[r].context, clock)
          /\ used' = Append(UsedBut(t), t)
     ELSE UNCHANGED <<entries, used>>
  /\ UNCHANGED <<deploy, clock, revoked>>

\* x & mask, with mask = ~0 << (Width - prefix).  JavaScript takes the shift count
\* modulo the width.
Shifted(x, prefix) == x - (x % 2^((Width - prefix) % Width))

Masked(x, prefix) == IF prefix = 0 THEN 0 ELSE Shifted(x, prefix)

MatchesIp(address, range) == Masked(address, range.prefix) = Masked(range.network, range.prefix)
IsTrusted(value) ==
  /\ value # Undefined
  /\ \/ value \in deploy.secrets
     \/ value \in Address /\ \E range \in deploy.expectedValues : MatchesIp(value, range)

\* The gateway interceptor: the trust header must have a trusted value, the subject
\* header is required, the other headers are taken for granted.
Gateway(r) ==
  /\ Authenticates(r, {"gateway"})
  /\ IF IsTrusted(request[r].gateway.value) /\ request[r].gateway.subject
     THEN \E roles \in SUBSET Roles :
            Onward(r, [request[r] EXCEPT !.context = AuthContext("user", roles, {}, Undefined)])
     ELSE Rejected(r, "unauthenticated")
  /\ UNCHANGED <<deploy, clock, revoked, entries, confirmed, used>>

-----------------------------------------------------------------------------
(* Internal callers *)

PartyContext(subject, grants) == AuthContext(subject, grants.roles, grants.scopes, Undefined)

\* The sidecar writes the principal of the party that calls.
MeshIdentityTrust(marker) ==
  IF marker # Undefined /\ marker.by \in Known THEN PartyContext(marker.by, PartyGrants[marker.by]) ELSE Undefined

\* Variation: one key set with the keys of all issuers.
SignatureOfAnyIssuer(marker) == marker.by \in Known

\* The key set is that of the issuer the token claims.
SignatureVerified(marker) == marker.by = marker.names

\* Scopes are claims of every token, roles where the issuer's claimsMapping says so.
MapTokenClaims(marker) ==
  [roles |-> IF marker.names \in RolesMapped THEN marker.claims.roles ELSE {}, scopes |-> marker.claims.scopes]

\* Once the signature is verified the token's own claims count; the issuer is only
\* the subject of a token that names none.
SignedTokenTrust(marker) ==
  IF marker # Undefined /\ marker.names \in Known /\ SignatureVerified(marker)
  THEN PartyContext(IF marker.subject # Undefined THEN marker.subject ELSE marker.names, MapTokenClaims(marker))
  ELSE Undefined

\* Every known party has the secret; the identity is the same for all.
SharedSecretTrust(marker) ==
  IF marker # Undefined /\ marker.by \in Known THEN PartyContext("internal", PartyGrants["internal"]) ELSE Undefined

TrustSource(marker) ==
  CASE deploy.trust = "mesh" -> MeshIdentityTrust(marker)
    [] deploy.trust = "token" -> SignedTokenTrust(marker)
    [] deploy.trust = "secret" -> SharedSecretTrust(marker)

\* The trust source answers; a null, and an error (a key set that cannot be
\* fetched), are refused.
InternalAuth(r) ==
  /\ request[r].pc = "trusting"
  /\ LET context == TrustSource(request[r].marker) IN
     IF context # Undefined THEN Authorize(r, [request[r] EXCEPT !.context = context]) ELSE Rejected(r, "unauthenticated")
  /\ UNCHANGED <<deploy, clock, revoked, entries, confirmed, used>>

TrustSourceFails(r) ==
  /\ request[r].pc = "trusting" /\ deploy.trust = "token" /\ request[r].marker # Undefined
  /\ Rejected(r, "unauthenticated")
  /\ UNCHANGED <<deploy, clock, revoked, entries, confirmed, used>>

-----------------------------------------------------------------------------
Tick ==
  /\ deploy.cached /\ clock < MaxTime
  /\ clock' = clock + 1
  /\ UNCHANGED <<deploy, revoked, entries, request, confirmed, used>>

Revoke(t) ==
  /\ deploy.cached /\ t \in deploy.tokens \ revoked /\ Cardinality(revoked) < MaxRevoked
  /\ revoked' = revoked \cup {t}
  /\ UNCHANGED <<deploy, clock, entries, request, confirmed, used>>

Next ==
  \/ Tick
  \/ \E t \in Token : Revoke(t)
  \/ \E r \in Request :
       \/ Arrive(r) \/ Skip(r) \/ MissingCredentials(r) \/ FromCache(r) \/ Verify(r)
       \/ StoreReads(r) \/ VerifyFails(r) \/ Verified(r) \/ Gateway(r)
       \/ InternalAuth(r) \/ TrustSourceFails(r) \/ Answered(r)

Spec == Init /\ [][Next]_vars

-----------------------------------------------------------------------------
(* Properties *)

Authenticated(r) == request[r].pc \in {"trusting", "asking", "handler"} /\ request[r].context # Undefined

\* A credential is accepted only if its store has confirmed it within the cache's
\* ttl, and a cached context never after it has expired itself: however requests
\* overlap, a revoked session is refused one ttl after the last answer the store
\* gave before it was revoked.
FreshIdentity ==
  \A r \in Request :
    Authenticated(r) /\ request[r].token # Undefined => request[r].age < Ttl /\ ~ request[r].expired

\* The cache keeps the credentials used last, as many as it may, and never more:
\* its keys are the end of the list of all credentials in the order of their last
\* use.
CacheIsRecent == Len(entries) <= MaxSize /\ IsSuffix(Keys(entries), used)

\* A network and a prefix contain an address when their leading bits agree.
InRange(address, range) ==
  LET rest == 2^(Width - range.prefix) IN address \div rest = range.network \div rest

\* Who made a marker answers for it: a workload for itself, with the roles configured
\* for it; the signer of a token for any subject the token names, but with roles only
\* if the mapping of its own issuer grants them, and for itself if it names none; a
\* holder of the secret for no more than "internal".
Vouched(marker, context) ==
  /\ marker.by \in Known
  /\ \/ deploy.trust = "mesh" /\ context = PartyContext(marker.by, PartyGrants[marker.by])
     \/ /\ deploy.trust = "token"
        /\ context.subject = IF marker.subject # Undefined THEN marker.subject ELSE marker.by
        /\ context.roles = IF marker.by \in RolesMapped THEN marker.claims.roles ELSE {}
     \/ deploy.trust = "secret" /\ context = PartyContext("internal", PartyGrants["internal"])

\* The headers of a gateway are believed if their sender writes an expected value.
Trusted(gateway) ==
  /\ gateway.subject /\ gateway.value # Undefined
  /\ \/ gateway.value \in deploy.secrets
     \/ gateway.value \in Address /\ \E range \in deploy.expectedValues : InRange(gateway.value, range)

\* A request runs with the context of its own credential, as whom the maker of its
\* marker may vouch for, and as the user its gateway headers name exactly if their
\* trust header has an expected value.
OwnIdentity ==
  \A r \in Request :
    LET q == request[r] IN
    /\ q.token # Undefined /\ q.context # Undefined => q.context = Identity[q.token]
    /\ q.marker # Undefined /\ q.context # Undefined => Vouched(q.marker, q.context)
    /\ q.gateway # Undefined =>
         /\ q.context # Undefined => Trusted(q.gateway)
         /\ q.pc = "unauthenticated" => ~ Trusted(q.gateway)

\* Does the configuration open m to callers without an identity?
Open(m) ==
  LET resolved == ResolveMethodAuth(m)
      rule == \E i \in DOMAIN Rules :
                MatchesMethodPattern(m, Rules[i].methods) /\ Rules[i].requires = Undefined /\ Rules[i].effect = "allow"
  IN \/ resolved.public
     \/ /\ deploy.authz = "proto" /\ ~ resolved.internal /\ resolved.requires = Undefined
        /\ resolved.policy = "allow" \/ (resolved.policy = Undefined /\ (rule \/ DefaultPolicy = "allow"))

\* The authentication interceptor lets public and internal methods through: a
\* handler runs without an identity only if the method is open, whichever trust
\* source, authorization interceptor, rules and callbacks there are.
NoAnonymous ==
  \A r \in Request :
    request[r].pc = "handler" /\ request[r].context = Undefined => Open(request[r].method)
=============================================================================
