---------------------------- MODULE MCPlatform ----------------------------
(* The parts of the platform, each at a size of its own.                   *)
EXTENDS Platform

MCFounders == {<<"ada", "ada">>, <<"bob", "bob">>}
MCNames == {<<"eve", "eve">>, <<"eve", "Eve">>, <<"ada", "Ada">>}
MCCatalogue == [attack |-> {"recon"}, defend |-> {"logs", "blocks"}]
=============================================================================
