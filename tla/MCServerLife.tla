---------------------------- MODULE MCServerLife ----------------------------
(* Every server object, built with SGX and without.                        *)
EXTENDS ServerLife
MCServers == {"PolicyListener", "RequestListener", "Proxy", "Attestator"}
=============================================================================
