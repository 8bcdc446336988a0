----------------------------- MODULE MCDeployer -----------------------------
(* Texts shorter than the buffer and longer, one ending on it.              *)
EXTENDS Deployer
CONSTANTS a1, a2
MCAdmins == {a1, a2}
MCTwo == {a1, a2}
MCPolicyText ==
  [a \in Admins |-> CASE a = a1 -> <<11>>
                      [] OTHER  -> <<21, 22, 23>>]
=============================================================================
