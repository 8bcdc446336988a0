------------------------------ MODULE MCProxy ------------------------------
(* Three clients from two addresses, so that a mixed-up answer shows.      *)
EXTENDS Proxy
CONSTANTS a1, a2
MCIPs == {a1, a2}
=============================================================================
