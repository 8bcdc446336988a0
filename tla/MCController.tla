---------------------------- MODULE MCController ----------------------------
(* Two connections of each kind; a policy that fits one read and one that  *)
(* does not; a request for a client of the demo table and one for another. *)
EXTENDS Controller
CONSTANTS p1, p2, d1, d2, ip1, ip2, short, head, rest, empty
MCTwo == {p1, p2}
MCDeployers == {d1, d2}
MCOneDeployer == {d1}
MCNone == {}
MCClients == {ip1, ip2}
MCPolicies == {<<short>>, <<head, rest>>}
MCShortPolicy == {<<short>>}
MCChunks == {ip1, ip2, short, head, rest, empty}
MCDemo == <<ip1>>
=============================================================================
