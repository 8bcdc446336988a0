----------------------------- MODULE ServerPort -----------------------------
(***************************************************************************)
(* What the owner of a server object relies on when it takes the set-up,   *)
(* the accept and the close of a connection as single steps: the set-up    *)
(* ends with a port that serves, or it is refused, and the port may be     *)
(* left bound; there is one client at a time, and a client that is not     *)
(* closed before the next is lost with its descriptor: never when all went *)
(* well, and never with an owner that is careful.  An accept that fails    *)
(* may take the port with it, and a port that is gone does not come back.  *)
(***************************************************************************)
EXTENDS Naturals

VARIABLES phase,    \* "setting up", "serving" or "over"
          bound,    \* the port is bound
          client,   \* a client's connection is open
          leaked,   \* descriptors lost
          careful,  \* the owner closes each client before the next
          failed    \* the last call failed: up to the environment

portVars == <<phase, bound, client, leaked, careful>>

PortInit ==
  /\ phase = "setting up" /\ ~bound /\ ~client
  /\ leaked = 0
  /\ careful \in BOOLEAN

SetListener ==
  /\ phase = "setting up"
  /\ \/ phase' = "serving" /\ bound'
     \/ phase' = "over" /\ bound' \in BOOLEAN
  /\ UNCHANGED <<client, leaked, careful>>

Take ==
  /\ phase = "serving" /\ bound /\ ~client /\ client'
  /\ UNCHANGED <<phase, bound, leaked, careful>>

(* The socket of the port has become the client's, and there is no other.  *)
LosePort ==
  /\ phase = "serving" /\ failed'
  /\ bound /\ ~bound' /\ ~client /\ client'
  /\ UNCHANGED <<phase, leaked, careful>>

Release ==
  /\ client /\ ~client'
  /\ UNCHANGED <<phase, bound, leaked, careful>>

(* Only around a call that fails.                                          *)
Leak == ~careful /\ (failed \/ failed') /\ leaked' = leaked + 1

(* Forget the client one has, and take another, none, or end.              *)
Forget ==
  /\ Leak /\ client /\ phase = "serving"
  /\ \/ phase' = "serving" /\ client' \in BOOLEAN /\ (client' => bound)
     \/ phase' = "over" /\ ~client'
  /\ UNCHANGED <<bound, careful>>

(* A file that stays open when the set-up cannot read it.                  *)
Mislay ==
  /\ Leak /\ phase = "setting up"
  /\ UNCHANGED <<phase, bound, client, careful>>

(* The end of the owner; its port stays bound unless it closes it.         *)
End ==
  /\ phase = "serving" /\ phase' = "over"
  /\ bound' \in BOOLEAN /\ (bound' => bound)
  /\ UNCHANGED <<client, leaked, careful>>

PortNext ==
  SetListener \/ Take \/ LosePort \/ Release \/ Forget \/ Mislay \/ End

PortSpec == PortInit /\ [][PortNext]_portVars
=============================================================================
