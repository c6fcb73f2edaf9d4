-------------------------- MODULE MCCatalogCalls --------------------------
(* A user service "a" with unary and bidi methods, a user service "b" with   *)
(* unary and streaming methods, and a protocol with a bidi method.           *)
EXTENDS CatalogCalls

MCFileOf == [s \in Service |-> s]
MCMethodKinds ==
  [s \in Service |-> CASE s = "a" -> {"unary", "bidi_streaming"}
                       [] s = "b" -> {"unary", "server_streaming", "client_streaming"}
                       [] OTHER -> {"bidi_streaming"}]

\* A catalog client; every combination of the transport's options, without a
\* catalog; and a server over TLS with a catalog and some services mounted.
MCOptions ==
  [host : {"client"}, services : {{}}, protocols : {{}}, catalog : {{"b"}}, remoteResolver : {TRUE}]
  \cup [host : {"server"}, services : {{"b"}}, protocols : {{}},
        catalog : {Undefined}, enabledServices : {Undefined}, remoteResolver : {FALSE},
        tls : BOOLEAN, allowHTTP1 : BOOLEAN \cup {Undefined},
        transportValidation : {"error", "warn", "off"}]
  \cup [host : {"server"}, services : {{"a", "b"}}, protocols : {{"r"}},
        catalog : {{"a", "b"}}, enabledServices : {{"a"}, {"r"}},
        remoteResolver : {TRUE}, tls : {TRUE}, allowHTTP1 : {Undefined},
        transportValidation : {"error"}]
=============================================================================
