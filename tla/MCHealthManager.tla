-------------------------- MODULE MCHealthManager ---------------------------
(***************************************************************************)
(* Services with and without a package, one component, two servers.        *)
(***************************************************************************)
EXTENDS HealthManager

MCServers == {{"shop.Shop", "Plain"}, {"shop.Shop", "mail.Mail"}}
=============================================================================
