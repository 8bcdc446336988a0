------------------------ MODULE TLSClientLifeProofs ------------------------
(***************************************************************************)
(* The TLSClient of any owner, for any number of policies: no raw or       *)
(* half-made mbedtls object is ever used, nothing is overwritten or kept,  *)
(* and the client implements ClientLink.                                   *)
(***************************************************************************)
EXTENDS TLSClientLife, TLAPS

(* destroy takes the socket first, and every context once.                 *)
LEMMA DestroyReachesAll ==
  /\ Len(DestroyOrder) = 6
  /\ DestroyOrder[1] = "m_server"
  /\ \A i \in 1..6 : DestroyOrder[i] \in Contexts
  /\ \A i \in 2..6 : DestroyOrder[i] # "m_server"
  /\ \A c \in Contexts : \E i \in 1..6 : c = DestroyOrder[i]
<1>1. /\ Len(DestroyOrder) = 6
      /\ DestroyOrder[1] = "m_server" /\ DestroyOrder[2] = "m_cacert"
      /\ DestroyOrder[3] = "m_ssl" /\ DestroyOrder[4] = "m_conf"
      /\ DestroyOrder[5] = "m_ctr_drbg" /\ DestroyOrder[6] = "m_entropy"
  BY DEF DestroyOrder
<1>2. 1..6 = {1, 2, 3, 4, 5, 6} /\ 2..6 = {2, 3, 4, 5, 6}
  OBVIOUS
<1> QED
  BY <1>1, <1>2 DEF Contexts

(* Once destroy has gone through its list, nothing is left.                *)
LEMMA AllFreed ==
  ASSUME \A i \in 1..6 : ctx[DestroyOrder[i]] = "blank"
  PROVE  AllBlank
  BY DestroyReachesAll DEF AllBlank

(* A new TLSClient satisfies the inductive invariant.                      *)
LEMMA InitIInv == Init => IInv
<1> SUFFICES ASSUME Init PROVE IInv
  OBVIOUS
<1>1. TypeOK
  <2>1. ret \in {"ok", "failed"}
    BY DEF Init
  <2> QED
    BY <2>1, LifeAssumption DEF Init, TypeOK, CallNames, Connects
<1>2. ConnectInv
  BY DEF Init, ConnectInv, AllFree, Filling, Connects
<1>3. DestroyInv
  BY DEF Init, DestroyInv
<1>4. TerminateInv
  BY DEF Init, TerminateInv
<1>5. OwnerInv
  BY DEF Init, OwnerInv
<1> QED
  BY <1>1, <1>2, <1>3, <1>4, <1>5 DEF IInv

(* A statement of connect that fills the contexts cs keeps the invariant,  *)
(* provided the next statement expects just these in addition.             *)
LEMMA FillsIInv ==
  ASSUME IInv,
         NEW label \in Filling, NEW next \in Filling,
         NEW cs \in SUBSET Contexts,
         Filled(next) = Filled(label) \cup cs,
         Fills(label, cs, next)
  PROVE  IInv'
<1>1. pc = label /\ call \in Connects /\ freed = 0
  BY DEF Fills, At, IInv, ConnectInv, DestroyInv, Filling
<1>2. \A c \in Contexts :
        ctx[c] = IF c \in Filled(label) THEN "held" ELSE "blank"
  BY <1>1 DEF IInv, ConnectInv
<1>3. CASE pc' = next /\ ctx' = [c \in Contexts |->
                                  IF c \in cs THEN "held" ELSE ctx[c]]
  <2>1. \A c \in Contexts :
          ctx'[c] = IF c \in Filled(next) THEN "held" ELSE "blank"
    BY <1>2, <1>3
  <2>2. TypeOK'
    BY <1>2, <1>3 DEF Fills, IInv, TypeOK, Filling
  <2> QED
    BY <1>1, <1>3, <2>1, <2>2
       DEF Fills, IInv, ConnectInv, DestroyInv, TerminateInv, OwnerInv,
           Filling, Connects, Terminates
<1>4. CASE pc' = "undo" /\ \E left \in {"blank", "held"} :
             ctx' = [c \in Contexts |-> IF c \in cs THEN left ELSE ctx[c]]
  <2>1. ctx' \in [Contexts -> {"raw", "blank", "held"}]
        /\ \A c \in Contexts : ctx'[c] # "raw"
    BY <1>2, <1>4
  <2>2. TypeOK'
    BY <1>4, <2>1 DEF Fills, IInv, TypeOK
  <2> QED
    BY <1>1, <1>4, <2>1, <2>2
       DEF Fills, IInv, ConnectInv, DestroyInv, TerminateInv, OwnerInv,
           Filling, Connects, Terminates
<1> QED
  BY <1>3, <1>4 DEF Fills

(* The statements of connect keep the invariant.                           *)
LEMMA ConnectIInv ==
  ASSUME IInv,
         \/ ConnectInit \/ ConnectSeed \/ LoadCertificate \/ ConnectNet
         \/ ConfigDefaults \/ ConfigSetup \/ ConfigHostname
         \/ ConnectHandshake \/ ConnectVerify
  PROVE  IInv'
<1> USE DEF Contexts
<1>1. CASE ConnectInit
  <2>1. AllBlank'
    BY <1>1 DEF ConnectInit, AllBlank
  <2>2. lost' \in Nat
    BY <1>1 DEF ConnectInit, Forgotten, IInv, TypeOK
  <2>3. TypeOK'
    BY <1>1, <2>2 DEF ConnectInit, IInv, TypeOK
  <2> QED
    BY <1>1, <2>1, <2>3
       DEF ConnectInit, At, IInv, ConnectInv, DestroyInv, TerminateInv,
           OwnerInv, Filling, Filled, Connects, Terminates, AllBlank
<1>2. CASE ConnectSeed
  <2>1. Filled("load") = Filled("seed") \cup {"m_ctr_drbg", "m_entropy"}
    BY DEF Filled
  <2> QED
    BY <1>2, <2>1, FillsIInv DEF ConnectSeed, Filling
<1>3. CASE LoadCertificate
  <2>1. Filled("net") = Filled("load") \cup {"m_cacert"}
    BY DEF Filled
  <2> QED
    BY <1>3, <2>1, FillsIInv DEF LoadCertificate, Filling
<1>4. CASE ConnectNet
  <2>1. pc = "net" /\ call \in Connects /\ freed = 0
    BY <1>4 DEF ConnectNet, At, IInv, ConnectInv, DestroyInv, Filling
  <2>2. \A c \in Contexts :
          ctx[c] = IF c \in {"m_ctr_drbg", "m_entropy", "m_cacert"}
                     THEN "held" ELSE "blank"
    BY <2>1 DEF IInv, ConnectInv, Filling, Filled
  <2>3. CASE pc' = "defaults" /\ ctx' = [ctx EXCEPT !["m_server"] = "held"]
    <3>1. \A c \in Contexts :
            ctx'[c] = IF c \in Contexts \ {"m_conf", "m_ssl"}
                        THEN "held" ELSE "blank"
      BY <2>2, <2>3 DEF IInv, TypeOK
    <3>2. TypeOK'
      BY <1>4, <2>3 DEF ConnectNet, IInv, TypeOK
    <3>3. Filled("defaults") = Contexts \ {"m_conf", "m_ssl"}
      BY DEF Filled
    <3> QED
      BY <1>4, <2>1, <2>3, <3>1, <3>2, <3>3
         DEF ConnectNet, IInv, ConnectInv, DestroyInv, TerminateInv, OwnerInv,
             Filling, Connects, Terminates
  <2>4. CASE pc' = "undo" /\ UNCHANGED ctx
    <3>1. TypeOK' /\ \A c \in Contexts : ctx'[c] # "raw"
      BY <1>4, <2>2, <2>4 DEF ConnectNet, IInv, TypeOK
    <3> QED
      BY <1>4, <2>1, <2>4, <3>1
         DEF ConnectNet, IInv, ConnectInv, DestroyInv, TerminateInv, OwnerInv,
             Filling, Connects, Terminates
  <2> QED
    BY <1>4, <2>3, <2>4 DEF ConnectNet
<1>5. CASE ConfigDefaults
  <2>1. Filled("setup") = Filled("defaults") \cup {"m_conf"}
    BY DEF Filled
  <2> QED
    BY <1>5, <2>1, FillsIInv DEF ConfigDefaults, Filling
<1>6. CASE ConfigSetup
  <2>1. Filled("hostname") = Filled("setup") \cup {"m_ssl"}
    BY DEF Filled
  <2> QED
    BY <1>6, <2>1, FillsIInv DEF ConfigSetup, Filling
<1>7. CASE ConfigHostname
  <2>1. Filled("handshake") = Filled("hostname") \cup {}
    BY DEF Filled
  <2> QED
    BY <1>7, <2>1, FillsIInv DEF ConfigHostname, Filling
<1>8. CASE ConnectHandshake
  <2>1. Filled("verify") = Filled("handshake") \cup {}
    BY DEF Filled
  <2> QED
    BY <1>8, <2>1, FillsIInv DEF ConnectHandshake, Filling
<1>9. CASE ConnectVerify
  <2>1. AllHeld /\ call \in Connects
    BY <1>9 DEF ConnectVerify, At, IInv, ConnectInv, Filling, Filled, AllHeld
  <2> QED
    BY <1>9, <2>1
       DEF ConnectVerify, At, IInv, TypeOK, ConnectInv, DestroyInv,
           TerminateInv, OwnerInv, Filling, Connects, Terminates, AllHeld
<1> QED
  BY <1>1, <1>2, <1>3, <1>4, <1>5, <1>6, <1>7, <1>8, <1>9

(* destroy keeps the invariant.                                            *)
LEMMA DestroyIInv ==
  ASSUME IInv, DestroyFrees \/ ConnectFails \/ TerminateDestroyed
  PROVE  IInv'
<1>1. CASE DestroyFrees
  <2>1. /\ freed \in 0..6 /\ freed + 1 \in 1..6
        /\ DestroyOrder[freed + 1] \in Contexts
    BY <1>1, DestroyReachesAll DEF DestroyFrees, IInv, TypeOK
  <2>2. /\ ctx' \in [Contexts -> {"raw", "blank", "held"}]
        /\ ctx'[DestroyOrder[freed + 1]] = "blank"
        /\ \A c \in Contexts : ctx'[c] \in {ctx[c], "blank"}
    BY <1>1, <2>1 DEF DestroyFrees, IInv, TypeOK
  <2>3. TypeOK'
    BY <1>1, <2>1, <2>2, DestroyReachesAll DEF DestroyFrees, IInv, TypeOK
  <2>4. pc' = pc /\ call' = call /\ pc \in {"undo", "destroy"}
    BY <1>1 DEF DestroyFrees, At
  <2>5. \A i \in 1..6 : i <= freed' => ctx'[DestroyOrder[i]] = "blank"
    <3> SUFFICES ASSUME NEW i \in 1..6, i <= freed + 1
                 PROVE  ctx'[DestroyOrder[i]] = "blank"
      BY <1>1 DEF DestroyFrees
    <3>1. CASE i = freed + 1
      BY <2>2, <3>1
    <3>2. CASE i # freed + 1
      <4>1. i <= freed
        BY <3>2, <2>1
      <4>2. ctx[DestroyOrder[i]] = "blank" /\ DestroyOrder[i] \in Contexts
        BY <2>4, <4>1, DestroyReachesAll DEF IInv, DestroyInv
      <4> QED
        BY <2>2, <4>2
    <3> QED
      BY <3>1, <3>2
  <2>6. DestroyInv'
    BY <2>2, <2>4, <2>5, DestroyReachesAll DEF IInv, DestroyInv
  <2>7. ConnectInv' /\ TerminateInv' /\ OwnerInv'
    BY <2>2, <2>4
       DEF IInv, ConnectInv, TerminateInv, OwnerInv, AllFree, Filling
  <2> QED
    BY <2>3, <2>6, <2>7 DEF IInv
<1>2. CASE ConnectFails \/ TerminateDestroyed
  <2>1. AllBlank
    <3>1. freed = 6 /\ pc \in {"undo", "destroy"}
      BY <1>2, DestroyReachesAll DEF ConnectFails, TerminateDestroyed, At
    <3>2. \A i \in 1..6 : ctx[DestroyOrder[i]] = "blank"
      BY <3>1, DestroyReachesAll DEF IInv, DestroyInv
    <3> QED
      BY <3>2, AllFreed
  <2>2. TypeOK' /\ ctx' = ctx
    <3>1. ret' \in {"ok", "failed"}
      BY <1>2 DEF ConnectFails, TerminateDestroyed, IInv, TypeOK
    <3> QED
      BY <1>2, <3>1 DEF ConnectFails, TerminateDestroyed, IInv, TypeOK
  <2>3. CASE ConnectFails /\ pc = "undo"
    BY <2>1, <2>2, <2>3
       DEF ConnectFails, IInv, ConnectInv, DestroyInv, TerminateInv, OwnerInv,
           Filling, Connects, Terminates, AllBlank
  <2>4. CASE TerminateDestroyed
    BY <2>1, <2>2, <2>4
       DEF TerminateDestroyed, At, IInv, ConnectInv, DestroyInv, TerminateInv,
           OwnerInv, Filling, Connects, Terminates, AllBlank, AllFree
  <2> QED
    BY <1>2, <2>3, <2>4 DEF ConnectFails, At
<1> QED
  BY <1>1, <1>2

(* What the tables of calls say: when a session is used, handed to         *)
(* terminate or given up, and that a connection is only made again after   *)
(* terminate.                                                              *)
LEMMA CallTable ==
  ASSUME owner \in OwnerNames, NEW t \in OwnerCalls
  PROVE  /\ t[3] \in CallNames \ {"set"}
         /\ t[3] \in Sends \cup {"recv", "hangUp"} =>
              \/ t[1] \in Sends \cup {"recv"}
              \/ t[1] \in Connects /\ t[2] = "ok"
         /\ t[3] \in {"setFailed", "againFailed", "setAgain"} =>
              \/ t[1] \in Terminates
              \/ t[1] \in Connects /\ t[2] = "failed"
         /\ t[3] = "setAgain" => t[1] = "hangUp"
         /\ t[3] = "giveUp" => t[1] \in {"againFailed", "resend"}
         /\ t[3] = "end" /\ owner = "Proxy" => t[1] \in Terminates
<1>1. CASE owner = "Proxy"
  BY <1>1 DEF OwnerCalls, ProxyCalls, CallNames, Connects, Sends, Terminates
<1>2. CASE owner = "Deployer"
  BY <1>2 DEF OwnerCalls, DeployerCalls, CallNames, Connects, Sends,
              Terminates
<1>3. CASE owner = "Validator"
  BY <1>3 DEF OwnerCalls, ValidatorCalls, CallNames, Connects, Sends,
              Terminates
<1> QED
  BY <1>1, <1>2, <1>3 DEF OwnerNames

(* The other statements keep the invariant: none changes a context but the *)
(* end of the scope of a local TLSClient.                                  *)
LEMMA OwnerIInv ==
  ASSUME IInv,
         \/ Transfers \/ TerminateNotify \/ TerminateExit
         \/ OwnerCallsNext \/ ScopeEnds \/ NewClient
  PROVE  IInv'
<1> USE DEF Connects, Sends, Terminates
<1>0. owner \in OwnerNames
  BY DEF IInv, TypeOK
<1>1. CASE Transfers
  <2>1. ret' \in {"ok", "failed"}
    BY <1>1 DEF Transfers
  <2>2. TypeOK'
    BY <1>1, <2>1 DEF Transfers, IInv, TypeOK
  <2>3. AllHeld' /\ call \in Sends \cup {"recv"}
    BY <1>1 DEF Transfers, At, IInv, OwnerInv, AllHeld
  <2> QED
    BY <1>1, <2>2, <2>3
       DEF Transfers, At, IInv, ConnectInv, DestroyInv, TerminateInv,
           OwnerInv, Filling
<1>2. CASE TerminateNotify
  <2>1. TypeOK'
    BY <1>2 DEF TerminateNotify, IInv, TypeOK
  <2>2. \A c \in Contexts : ctx[c] # "raw"
    BY <1>2 DEF TerminateNotify, At, IInv, TerminateInv, AllHeld, AllBlank
  <2>3. freed = 0
    BY <1>2 DEF TerminateNotify, At, IInv, DestroyInv
  <2> QED
    BY <1>2, <2>1, <2>2, <2>3
       DEF TerminateNotify, At, IInv, ConnectInv, DestroyInv, TerminateInv,
           OwnerInv, Filling, AllFree
<1>3. CASE TerminateExit
  <2>1. ret' \in {"ok", "failed"}
    BY <1>3 DEF TerminateExit, IInv, TypeOK
  <2>2. TypeOK'
    BY <1>3, <2>1, LifeAssumption DEF TerminateExit, IInv, TypeOK
  <2>3. AllBlank /\ call \in Terminates /\ freed = 0 /\ ctx' = ctx
    BY <1>3 DEF TerminateExit, At, IInv, TerminateInv, DestroyInv
  <2> QED
    BY <1>3, <2>2, <2>3
       DEF TerminateExit, At, IInv, ConnectInv, DestroyInv, TerminateInv,
           OwnerInv, Filling, AllFree, AllBlank
<1>4. CASE OwnerCallsNext
  <2>1. PICK t \in OwnerCalls :
          /\ t[1] = call /\ t[2] = ret
          /\ owner = "Proxy" \/ t[3] # "end"
          /\ call' = t[3]
          /\ pc' = Entry(t[3])
    BY <1>4 DEF OwnerCallsNext
  <2>2. /\ pc = "returned" /\ freed = 0 /\ ctx' = ctx /\ freed' = freed
        /\ ret' = ret
    BY <1>4 DEF OwnerCallsNext, At, IInv, DestroyInv
  <2>3. call' \in CallNames \ {"set"} /\ call # "end"
    BY <2>1, <2>2, <1>0, CallTable DEF IInv, OwnerInv
  <2>4. TypeOK'
    BY <1>4, <2>1, <2>2, <2>3
       DEF OwnerCallsNext, IInv, TypeOK, Entry, CallNames
  <2>5. CASE call' \in Sends \cup {"recv", "hangUp"}
    <3>1. call \in Sends \cup {"recv"} \/ (call \in Connects /\ ret = "ok")
      BY <2>1, <2>5, <1>0, CallTable
    <3>2. AllHeld
      BY <2>2, <3>1 DEF IInv, OwnerInv
    <3> QED
      BY <2>1, <2>2, <2>4, <2>5, <3>2
         DEF Entry, IInv, ConnectInv, DestroyInv, TerminateInv, OwnerInv,
             Filling, AllHeld
  <2>6. CASE call' \in {"setFailed", "againFailed", "setAgain", "end"}
    <3>1. call \in Terminates \/ (call \in Connects /\ ret = "failed")
      BY <2>1, <2>6, <1>0, CallTable
    <3>2. AllBlank
      BY <2>2, <3>1 DEF IInv, OwnerInv
    <3>3. AllBlank' /\ AllFree'
      BY <2>2, <3>2 DEF AllBlank, AllFree
    <3>4. CASE call' = "setAgain" /\ pc' = "init"
      BY <2>2, <2>4, <3>3, <3>4
         DEF IInv, ConnectInv, DestroyInv, TerminateInv, OwnerInv, Filling
    <3>5. CASE call' \in {"setFailed", "againFailed"} /\ pc' = "notify"
      BY <2>2, <2>4, <3>3, <3>5
         DEF IInv, ConnectInv, DestroyInv, TerminateInv, OwnerInv, Filling
    <3>6. CASE call' = "end" /\ pc' = "ended"
      BY <2>2, <2>4, <3>3, <3>6
         DEF IInv, ConnectInv, DestroyInv, TerminateInv, OwnerInv, Filling
    <3> QED
      BY <2>1, <2>6, <3>4, <3>5, <3>6 DEF Entry
  <2>7. CASE call' = "giveUp"
    <3>1. call \in Terminates \cup Sends /\ pc' = "notify"
      BY <2>1, <2>7, <1>0, CallTable DEF Entry
    <3>2. AllBlank' \/ AllHeld'
      BY <2>2, <3>1 DEF IInv, OwnerInv, AllBlank, AllHeld
    <3> QED
      BY <2>2, <2>4, <2>7, <3>1, <3>2
         DEF IInv, ConnectInv, DestroyInv, TerminateInv, OwnerInv, Filling
  <2> QED
    BY <2>3, <2>5, <2>6, <2>7 DEF CallNames
<1>5. CASE ScopeEnds
  <2>1. lost' \in Nat /\ pc = "returned" /\ freed = 0
    BY <1>5 DEF ScopeEnds, Forgotten, At, IInv, TypeOK, DestroyInv
  <2>2. TypeOK'
    BY <1>5, <2>1 DEF ScopeEnds, IInv, TypeOK, CallNames, Entry
  <2>3. AllFree' /\ pc' = "ended" /\ call' = "end" /\ freed' = 0
    BY <1>5, <2>1 DEF ScopeEnds, AllFree, Entry
  <2> QED
    BY <2>2, <2>3 DEF IInv, ConnectInv, DestroyInv, TerminateInv, OwnerInv,
                      Filling
<1>6. CASE NewClient
  <2>1. TypeOK'
    BY <1>6 DEF NewClient, IInv, TypeOK, CallNames
  <2>2. AllFree' /\ freed' = 0 /\ pc' = "init" /\ call' = "set"
    BY <1>6 DEF NewClient, At, AllFree, IInv, OwnerInv, DestroyInv
  <2> QED
    BY <2>1, <2>2 DEF IInv, ConnectInv, DestroyInv, TerminateInv, OwnerInv,
                      Filling
<1> QED
  BY <1>1, <1>2, <1>3, <1>4, <1>5, <1>6

(* Every step keeps the inductive invariant.                               *)
LEMMA NextIInv == IInv /\ [Next]_vars => IInv'
<1> SUFFICES ASSUME IInv, [Next]_vars PROVE IInv'
  OBVIOUS
<1>1. CASE UNCHANGED vars
  BY <1>1 DEF vars, IInv, TypeOK, ConnectInv, DestroyInv, TerminateInv,
              OwnerInv, AllFree, AllBlank, AllHeld
<1> QED
  BY <1>1, ConnectIInv, DestroyIInv, OwnerIInv DEF Next, Over

(* The inductive invariant holds in every reachable state.                 *)
THEOREM Invariance == Spec => []IInv
  BY InitIInv, NextIInv, PTL DEF Spec

(* Every variable of the client's life keeps its type.                     *)
THEOREM TypeCorrect == Spec => []TypeOK
<1>1. IInv => TypeOK
  BY DEF IInv
<1> QED
  BY <1>1, Invariance, PTL

(* No statement of TLSClient touches an mbedtls object that was never      *)
(* initialised (TLSClient.cpp:10-11, 39).                                  *)
THEOREM NoRaw == Spec => []NoRawUse
<1>1. IInv => NoRawUse
  <2> SUFFICES ASSUME IInv, NEW c \in Uses(pc) PROVE ctx[c] # "raw"
    BY DEF NoRawUse
  <2>1. c \in Contexts /\ pc \notin {"init", "exit", "returned", "ended"}
    BY DEF Uses, Contexts
  <2>2. pc \in Filling \cup {"undo", "destroy", "write", "read", "notify"}
    BY <2>1 DEF IInv, TypeOK, Filling
  <2> QED
    BY <2>1, <2>2 DEF IInv, ConnectInv, DestroyInv, TerminateInv, OwnerInv,
                      AllHeld, AllBlank
<1> QED
  BY <1>1, Invariance, PTL

(* init never overwrites an object that holds something                    *)
(* (TLSClient.cpp:39, ProxyManager.cpp:49-51).                             *)
THEOREM NoOverwrite == Spec => []NothingOverwritten
<1>1. IInv => NothingOverwritten
  BY DEF IInv, ConnectInv, NothingOverwritten, AllFree
<1> QED
  BY <1>1, Invariance, PTL

(* A session in use has all that m_ssl points to (TLSClient.cpp:82, 123,   *)
(* 144).                                                                   *)
THEOREM WholeSession == Spec => []SessionWhole
<1>1. IInv => SessionWhole
  BY DEF IInv, ConnectInv, OwnerInv, SessionWhole, Filling, Filled, AllHeld
<1> QED
  BY <1>1, Invariance, PTL

(* A failed connect and terminate leave nothing to free                    *)
(* (TLSClient.cpp:101-103, 109-111).                                       *)
THEOREM KeepsNothing == Spec => []NothingKept
<1>1. IInv => NothingKept
  BY DEF IInv, TerminateInv, OwnerInv, NothingKept, AllBlank, Connects,
         Sends, Terminates
<1> QED
  BY <1>1, Invariance, PTL

(* A new client is no connection, and nothing is lost yet.                 *)
LEMMA LinkStarts == Init => Abstract!LinkInit
  BY DEF Init, Abstract!LinkInit, Link, Habit, Connects, Sends

(* A client stays in its program.                                          *)
LEMMA OwnerStays == [Next]_vars => owner' = owner
  BY DEF Next, vars, ConnectInit, Fills, ConnectSeed, LoadCertificate,
         ConnectNet, ConfigDefaults, ConfigSetup, ConfigHostname,
         ConnectHandshake, ConnectVerify, DestroyFrees, ConnectFails,
         Transfers, TerminateNotify, TerminateDestroyed, TerminateExit,
         OwnerCallsNext, ScopeEnds, NewClient, Over

(* A connect that returns true is Open, the first step of destroy in       *)
(* terminate is Close, the end of scope after a failed send is Drop; no    *)
(* other step can be seen.                                                 *)
LEMMA LinkStep == IInv /\ [Next]_vars => [Abstract!LinkNext]_Abstract!linkVars
<1> SUFFICES ASSUME IInv, [Next]_vars
             PROVE  [Abstract!LinkNext]_Abstract!linkVars
  OBVIOUS
<1>0. owner \in OwnerNames
  BY DEF IInv, TypeOK
<1>a. owner' = owner
  BY OwnerStays
<1>b. Habit' = Habit
  BY <1>a DEF Habit
<1> USE <1>b DEF Connects, Sends, Terminates, Abstract!linkVars
<1>1. CASE UNCHANGED vars \/ Over
  BY <1>1 DEF vars, Over, Link
<1>2. CASE ConnectInit
  <2>1. lost' = lost
    BY <1>2
       DEF Contexts, ConnectInit, Forgotten, At, IInv, ConnectInv, AllFree, TypeOK
  <2> QED
    BY <1>2, <2>1 DEF ConnectInit, At, IInv, ConnectInv, Link
<1>3. ASSUME NEW label \in Filling, NEW cs, NEW next \in Filling,
             Fills(label, cs, next)
      PROVE  UNCHANGED Abstract!linkVars
  BY <1>3 DEF Fills, At, IInv, ConnectInv, Filling, Link
<1>4. CASE ConnectSeed \/ LoadCertificate \/ ConfigDefaults \/ ConfigSetup
             \/ ConfigHostname \/ ConnectHandshake
  BY <1>3, <1>4 DEF ConnectSeed, LoadCertificate, ConfigDefaults,
     ConfigSetup, ConfigHostname, ConnectHandshake, Filling
<1>5. CASE ConnectNet
  BY <1>5 DEF ConnectNet, At, IInv, ConnectInv, Filling, Link
<1>6. CASE ConnectVerify
  BY <1>6 DEF ConnectVerify, At, IInv, ConnectInv, Filling, Link,
              Abstract!LinkNext, Abstract!Open
<1>7. CASE DestroyFrees
  <2>1. CASE pc = "undo"
    BY <1>7, <2>1 DEF DestroyFrees, IInv, ConnectInv, Link
  <2>2. CASE pc = "destroy"
    <3>1. freed \in 0..6 /\ freed + 1 \in 1..6
      BY <1>7, DestroyReachesAll DEF DestroyFrees, IInv, TypeOK
    <3>2. CASE freed = 0
      <4>1. ctx'["m_server"] = "blank"
        BY <1>7, <3>2, DestroyReachesAll DEF DestroyFrees, IInv, TypeOK, Contexts
      <4> QED
        BY <1>7, <2>2, <4>1 DEF DestroyFrees, IInv, TerminateInv, Link,
           Abstract!LinkNext, Abstract!Close
    <3>3. CASE freed # 0
      <4>1. DestroyOrder[freed + 1] \in Contexts \ {"m_server"}
        BY <3>1, <3>3, DestroyReachesAll
      <4>2. ctx'["m_server"] = ctx["m_server"]
        BY <1>7, <4>1 DEF Contexts, DestroyFrees, IInv, TypeOK
      <4> QED
        BY <1>7, <2>2, <4>2 DEF DestroyFrees, Link
    <3> QED
      BY <3>2, <3>3
  <2> QED
    BY <1>7, <2>1, <2>2 DEF DestroyFrees, At
<1>8. CASE ConnectFails
  BY <1>8 DEF ConnectFails, At, IInv, ConnectInv, Link
<1>9. CASE Transfers
  BY <1>9 DEF Transfers, At, IInv, OwnerInv, Link
<1>10. CASE TerminateNotify \/ TerminateDestroyed
  BY <1>10 DEF TerminateNotify, TerminateDestroyed, At, IInv, TerminateInv,
               Link
<1>11. CASE TerminateExit
  BY <1>11 DEF TerminateExit, At, IInv, TerminateInv, Link
<1>12. CASE OwnerCallsNext
  <2>1. PICK t \in OwnerCalls :
          t[1] = call /\ t[2] = ret /\ call' = t[3]
    BY <1>12 DEF OwnerCallsNext
  <2>2. pc = "returned" /\ pc' # "returned" /\ ctx' = ctx /\ lost' = lost
    BY <1>12 DEF OwnerCallsNext, At, Entry
  <2>3. CASE call' \in Sends \cup {"recv", "hangUp"}
    <3>1. call \in Sends \cup {"recv"} \/ (call \in Connects /\ ret = "ok")
      BY <2>1, <2>3, <1>0, CallTable
    <3>2. AllHeld
      BY <2>2, <3>1 DEF IInv, OwnerInv
    <3> QED
      BY <2>2, <2>3, <3>1, <3>2 DEF Contexts, Link, AllHeld
  <2>4. CASE call' \in {"setFailed", "againFailed", "setAgain", "end"}
    <3>1. call \in Terminates \/ (call \in Connects /\ ret = "failed")
      BY <1>12, <2>1, <2>4, <1>0, CallTable, LifeAssumption DEF OwnerCallsNext
    <3>2. AllBlank
      BY <2>2, <3>1 DEF IInv, OwnerInv
    <3> QED
      BY <2>2, <2>4, <3>1, <3>2 DEF Contexts, Link, AllBlank
  <2>5. CASE call' = "giveUp"
    <3>1. call \in {"againFailed", "resend"}
      BY <2>1, <2>5, <1>0, CallTable
    <3>2. (call = "resend" /\ AllHeld) \/ (call = "againFailed" /\ AllBlank)
      BY <2>2, <3>1 DEF IInv, OwnerInv
    <3> QED
      BY <2>2, <2>5, <3>2 DEF Contexts, Link, AllHeld, AllBlank
  <2> QED
    BY <2>1, <2>3, <2>4, <2>5, <1>0, CallTable DEF CallNames
<1>13. CASE ScopeEnds
  <2>1. /\ owner # "Proxy" /\ call' = "end" /\ pc = "returned"
        /\ call \in {"set", "send", "recv", "hangUp"}
        /\ call = "set" => ret = "failed"
    BY <1>0, <1>13 DEF ScopeEnds, OwnerNames, OwnerCalls, DeployerCalls,
                       ValidatorCalls, At
  <2>2. Link' = "none"
    BY <2>1 DEF Link
  <2>3. CASE call \in {"send", "recv"}
    <3>1. Link = "up" /\ lost' = lost + 1
      BY <1>13, <2>1, <2>3
         DEF Contexts, ScopeEnds, Link, Forgotten, IInv, OwnerInv, AllHeld
    <3> QED
      BY <2>1, <2>2, <3>1 DEF Habit, Abstract!LinkNext, Abstract!Drop
  <2>4. CASE call \notin {"send", "recv"}
    <3>1. ctx["m_server"] = "blank"
      BY <2>1, <2>4 DEF Contexts, IInv, OwnerInv, AllBlank
    <3>2. Link = "none" /\ lost' = lost
      BY <1>13, <2>1, <2>4, <3>1
         DEF ScopeEnds, Link, Forgotten, IInv, TypeOK
    <3> QED
      BY <2>2, <3>2
  <2> QED
    BY <2>3, <2>4
<1>14. CASE NewClient
  BY <1>14 DEF NewClient, At, IInv, OwnerInv, Link
<1> QED
  BY <1>1, <1>2, <1>4, <1>5, <1>6, <1>7, <1>8, <1>9, <1>10, <1>11, <1>12,
     <1>13, <1>14 DEF Next

(* The client implements ClientLink: what Proxy and Deployer take as one   *)
(* step each (PolicyDeployer.cpp:37-46, ProxyManager.cpp:33-79).           *)
THEOREM Refinement == Spec => ImplementsLink
  BY LinkStarts, LinkStep, Invariance, PTL
     DEF Spec, ImplementsLink, Abstract!LinkSpec
=============================================================================
