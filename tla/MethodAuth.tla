----------------------------- MODULE MethodAuth -----------------------------
(***************************************************************************)
(* The authorization decisions of packages/auth/src: patterns of methods,  *)
(* the connectum.auth.v1 options of methods and services, requirements,    *)
(* rules, and the decision flows of createAuthzInterceptor() and           *)
(* createProtoAuthzInterceptor().  A method is the pair of its service and *)
(* its name.                                                               *)
(***************************************************************************)
EXTENDS Naturals, Sequences

CONSTANTS
  Method,          \* the methods of the server
  MethodOptions,   \* MethodOptions[m]: the method_auth option of m
  ServiceOptions,  \* ServiceOptions[s]: the service_auth option of service s
  Rules,           \* the interceptors' rules
  DefaultPolicy,   \* the interceptors' defaultPolicy
  Roles, Scopes,   \* the roles and scopes there are
  Undefined        \* a value that is not set

\* "*" is not a name.
ASSUME MethodAssumption == \A m \in Method : m = <<m[1], m[2]>> /\ m[2] # "*"

Requirements == [roles : SUBSET Roles, scopes : SUBSET Scopes]

\* Flags that are not set differ from flags set to false; policies other than
\* "allow" and "deny" may be written.
AuthOptions ==
  [public : {"unset", "true", "false"}, internal : {"unset", "true", "false"},
   requires : Requirements \cup {Undefined}, policy : {"", "allow", "deny", "other"}]

Pattern == {<<"*">>} \cup {<<m[1], "*">> : m \in Method} \cup Method

AuthzRule == [methods : SUBSET Pattern, requires : Requirements \cup {Undefined}, effect : {"allow", "deny"}]

ASSUME OptionsAssumption ==
  /\ MethodOptions \in [Method -> AuthOptions \cup {Undefined}]
  /\ \A m \in Method : ServiceOptions[m[1]] \in AuthOptions \cup {Undefined}
ASSUME RulesAssumption == Rules \in Seq(AuthzRule)
ASSUME DefaultPolicyAssumption == DefaultPolicy \in {"allow", "deny"}

\* An AuthContext, as far as decisions look at it.
AuthContext(subject, roles, scopes, expiresAt) ==
  [subject |-> subject, roles |-> roles, scopes |-> scopes, expiresAt |-> expiresAt]

MatchesMethodPattern(m, patterns) ==
  \E p \in patterns : p = <<"*">> \/ p = m \/ p = <<m[1], "*">>

\* Any of the roles, all of the scopes.
SatisfiesRequirements(context, requires) ==
  /\ requires.roles # {} => requires.roles \cap context.roles # {}
  /\ requires.scopes \subseteq context.scopes

-----------------------------------------------------------------------------
(* proto/reader.ts *)

NormalizePolicy(value) == IF value \in {"allow", "deny"} THEN value ELSE Undefined

\* A field of the method's option, else of the service's.
Resolve(m, unset, field) ==
  LET own == MethodOptions[m] default == ServiceOptions[m[1]] IN
  IF own # Undefined /\ own[field] # unset THEN own[field]
  ELSE IF default # Undefined THEN default[field]
  ELSE unset

\* computeMethodAuth(); resolveMethodAuth() caches it, and it never changes.
ResolveMethodAuth(m) ==
  [public   |-> Resolve(m, "unset", "public") = "true",
   internal |-> Resolve(m, "unset", "internal") = "true",
   requires |-> Resolve(m, Undefined, "requires"),
   policy   |-> NormalizePolicy(Resolve(m, "", "policy"))]

GetPublicMethods == {m \in Method : ResolveMethodAuth(m).public}
GetInternalMethods == {m \in Method : ResolveMethodAuth(m).internal}

-----------------------------------------------------------------------------
(* The decisions: "next", a code, or "ask" for the authorize callback.     *)

\* The first rule that applies; one that requires something applies only to a
\* context that has it.
Applies(rule, context, m) ==
  /\ MatchesMethodPattern(m, rule.methods)
  /\ rule.requires # Undefined => context # Undefined /\ SatisfiesRequirements(context, rule.requires)

EvaluateRules(context, m) ==
  LET applying == {i \in DOMAIN Rules : Applies(Rules[i], context, m)} IN
  IF applying = {} THEN Undefined
  ELSE Rules[CHOOSE i \in applying : \A j \in applying : i <= j].effect

\* createAuthzInterceptor()
AuthzDecision(m, context, skipMethods, callback) ==
  LET effect == EvaluateRules(context, m) IN
  IF MatchesMethodPattern(m, skipMethods) THEN "next"
  ELSE IF context = Undefined THEN "unauthenticated"
  ELSE IF effect # Undefined THEN (IF effect = "deny" THEN "permission_denied" ELSE "next")
  ELSE IF callback THEN "ask"
  ELSE IF DefaultPolicy = "deny" THEN "permission_denied"
  ELSE "next"

Refused(context) == IF context = Undefined THEN "unauthenticated" ELSE "permission_denied"

\* Steps 7 to 9 of createProtoAuthzInterceptor().
ProtoFallback(m, context, callback) ==
  LET effect == EvaluateRules(context, m) IN
  IF effect # Undefined THEN (IF effect = "deny" THEN "permission_denied" ELSE "next")
  ELSE IF callback THEN (IF context = Undefined THEN "unauthenticated" ELSE "ask")
  ELSE IF DefaultPolicy = "deny" THEN Refused(context)
  ELSE "next"

\* Steps 4 to 6.
ProtoPolicy(m, context, callback) ==
  LET resolved == ResolveMethodAuth(m) IN
  IF resolved.requires # Undefined
  THEN IF context # Undefined /\ SatisfiesRequirements(context, resolved.requires) THEN "next" ELSE Refused(context)
  ELSE IF resolved.policy = "allow" THEN "next"
  ELSE IF resolved.policy = "deny" THEN "permission_denied"
  ELSE ProtoFallback(m, context, callback)

\* Variation: an internal method without requirements does not need a context.
ProtoDecisionTrusting(m, context, callback) ==
  LET resolved == ResolveMethodAuth(m) IN
  IF resolved.public THEN "next"
  ELSE IF resolved.internal /\ resolved.requires = Undefined THEN "next"
  ELSE ProtoPolicy(m, context, callback)

\* createProtoAuthzInterceptor()
ProtoDecision(m, context, callback) ==
  LET resolved == ResolveMethodAuth(m) IN
  IF resolved.public THEN "next"
  ELSE IF resolved.internal /\ context = Undefined THEN "unauthenticated"
  ELSE IF resolved.internal /\ resolved.requires = Undefined THEN "next"
  ELSE ProtoPolicy(m, context, callback)
=============================================================================
