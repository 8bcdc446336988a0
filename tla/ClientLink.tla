----------------------------- MODULE ClientLink -----------------------------
(***************************************************************************)
(* What Proxy and Deployer rely on when they take TLSClient::connect and   *)
(* terminate as single steps: there is one connection or none; a connect   *)
(* that failed leaves nothing behind; a connection is closed before the    *)
(* next, or it is dropped and its descriptor lost, where the owner does so.*)
(***************************************************************************)
EXTENDS Naturals

VARIABLES link,     \* "none" or "up"
          leaked,   \* descriptors lost
          habit     \* of the owner: "keeps" a client that is connected
                    \* until it is closed, or "drops" it

linkVars == <<link, leaked, habit>>

LinkInit == link = "none" /\ leaked = 0 /\ habit \in {"keeps", "drops"}

Open == link = "none" /\ link' = "up" /\ UNCHANGED <<leaked, habit>>

Close == link = "up" /\ link' = "none" /\ UNCHANGED <<leaked, habit>>

Drop ==
  /\ habit = "drops" /\ link = "up"
  /\ link' = "none"
  /\ leaked' = leaked + 1
  /\ UNCHANGED habit

LinkNext == Open \/ Close \/ Drop

LinkSpec == LinkInit /\ [][LinkNext]_linkVars
=============================================================================
