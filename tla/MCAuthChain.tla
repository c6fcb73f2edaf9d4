---------------------------- MODULE MCAuthChain -----------------------------
(***************************************************************************)
(* With a cache: two requests at once, three credentials (one expires),    *)
(* two places in the cache.  Without one, requests share nothing: one      *)
(* request, every kind of method, credential, trust source, authorization. *)
(***************************************************************************)
EXTENDS AuthChain

CONSTANTS secret, guess  \* two values of the trust header

Options(public, internal, requires, policy) ==
  [public |-> public, internal |-> internal, requires |-> requires, policy |-> policy]
Admin == [roles |-> {"admin"}, scopes |-> {}]
Reads == [roles |-> {}, scopes |-> {"read"}]

MCMethodOptions ==
  (<<"shop", "list">> :> Options("true", "unset", Undefined, "")) @@
  (<<"shop", "sync">> :> Options("unset", "true", Undefined, "")) @@
  (<<"shop", "purge">> :> Options("false", "true", Admin, "")) @@
  (<<"shop", "stop">> :> Options("unset", "unset", Undefined, "deny")) @@
  (<<"shop", "help">> :> Options("unset", "unset", Undefined, "allow")) @@
  (<<"shop", "edit">> :> Undefined) @@
  (<<"open", "news">> :> Undefined) @@
  (<<"open", "mail">> :> Options("false", "unset", Reads, "other")) @@
  (<<"plain", "get">> :> Undefined) @@
  (<<"plain", "put">> :> Undefined) @@
  (<<"plain", "end">> :> Options("unset", "unset", Undefined, "other"))

MCMethod == DOMAIN MCMethodOptions

MCServiceOptions ==
  [shop |-> Options("unset", "false", Undefined, ""),
   open |-> Options("true", "unset", Undefined, "deny"),
   plain |-> Undefined]

MCRules ==
  <<[methods |-> {<<"plain", "put">>}, requires |-> Reads, effect |-> "allow"],
    [methods |-> {<<"plain", "put">>}, requires |-> Undefined, effect |-> "deny"],
    [methods |-> {<<"shop", "*">>}, requires |-> Admin, effect |-> "allow"],
    [methods |-> {<<"plain", "get">>}, requires |-> Undefined, effect |-> "allow"]>>

MCIdentity ==
  [alice |-> AuthContext("alice", {"admin"}, {}, Undefined),
   bob |-> AuthContext("bob", {}, {"read"}, 3),
   eve |-> Undefined,
   mute |-> AuthContext(Undefined, {"admin"}, {}, Undefined),
   carol |-> AuthContext("carol", {}, {}, Undefined)]

MCPartyGrants == [trips |-> Admin, billing |-> Reads, internal |-> Admin]

Deploy(authn, cached, trust, authz, callback, methods, ranges, tokens, requests) ==
  [authn |-> authn, cached |-> cached, trust |-> trust, authz |-> authz, callback |-> callback, methods |-> methods,
   expectedValues |-> ranges, secrets |-> {secret}, tokens |-> tokens, requests |-> requests]

Net(network, prefix) == [network |-> network, prefix |-> prefix]

MCDeployment ==
  {Deploy("session", TRUE, "none", "rules", FALSE, {<<"plain", "get">>}, {}, Token \ {"eve", "mute"}, Request)} \cup
  {Deploy(authn, FALSE, trust, authz, callback, MCMethod, ranges, Token, {CHOOSE r \in Request : TRUE}) :
     authn \in {"generic", "jwt", "gateway"}, trust \in {"none", "mesh", "token", "secret"}, authz \in {"proto", "rules"},
     callback \in BOOLEAN, ranges \in {{Net(5, 2), Net(3, 3)}, {Net(6, 0)}, {Net(1, 1)}}}
=============================================================================
