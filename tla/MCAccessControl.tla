-------------------------- MODULE MCAccessControl --------------------------
(* A Proxy with two connections and two clients, one of them in the demo   *)
(* table; another proxy that connects and asks.                            *)
EXTENDS AccessControl
CONSTANTS p1, p2, o1, ip1, ip2, empty
MCMine == {p1, p2}
MCProxies == {p1, p2, o1}
MCNone == {}
MCClients == {ip1, ip2}
MCChunks == {ip1, ip2, empty}
MCDemo == <<ip1>>
=============================================================================
