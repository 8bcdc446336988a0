-------------------------- MODULE MCTLSClientLife --------------------------
(* Instances of TLSClientLife for TLC.                                     *)
EXTENDS TLSClientLife
=============================================================================
