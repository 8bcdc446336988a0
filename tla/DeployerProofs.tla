--------------------------- MODULE DeployerProofs ---------------------------
(***************************************************************************)
(* The Deployer for any number of Admins, any policies, buffer and number  *)
(* of descriptors: types, the listener's connection, what can end its      *)
(* thread, and the order of the policies.                                  *)
(***************************************************************************)
EXTENDS Deployer, FiniteSetTheorems, SequenceTheorems, TLAPS

(* Types and no open connection hold at the start.                         *)
LEMMA InitIInv == Init => IInv
<1> SUFFICES ASSUME Init PROVE IInv
  OBVIOUS
<1>1. FramingTypeOK
  BY SocketFramingAssumption
     DEF Init, FramingInit, FramingTypeOK, AdminStates
<1>2. DeployerTypeOK
  BY DEF Init, DeployerTypeOK
<1>3. OpenInv
  BY DEF Init, OpenInv
<1> QED
  BY <1>1, <1>2, <1>3 DEF IInv, TypeOK

(* A step of an Admin keeps the types.                                     *)
LEMMA AdminTypes ==
  ASSUME TypeOK, NEW a \in Admins, AdminStep(a)
  PROVE  TypeOK'
<1> USE SocketFramingAssumption DEF TypeOK, FramingTypeOK, AdminStates
<1>1. DeployerTypeOK'
  BY DEF AdminStep, listenerVars, managerVars, DeployerTypeOK
<1>2. PolicyText[a] \in Seq(Nat) /\ Len(PolicyText[a]) \in Nat
  BY DEF AdminStep
<1>3. CASE \E listening \in BOOLEAN : AdminConnect(a, listening)
  BY <1>1, <1>3 DEF AdminConnect
<1>4. CASE AdminSendLength(a)
  <2>1. Append(stream[a], Len(PolicyText[a])) \in Seq(Nat)
    BY <1>2
  <2> QED
    BY <1>1, <1>4, <2>1 DEF AdminSendLength
<1>5. CASE AdminSendText(a)
  <2>1. stream[a] \o PolicyText[a] \in Seq(Nat)
    BY <1>2
  <2> QED
    BY <1>1, <1>5, <2>1 DEF AdminSendText
<1>6. CASE AdminClose(a)
  BY <1>1, <1>6 DEF AdminClose
<1>7. CASE AdminReset(a)
  <2>1. PICK rest \in {stream[a], <<>>} :
          stream' = [stream EXCEPT ![a] = rest]
    BY <1>7 DEF AdminReset
  <2>2. rest \in Seq(Nat)
    <3>1. stream[a] \in Seq(Nat)
      OBVIOUS
    <3>2. <<>> \in Seq(Nat)
      OBVIOUS
    <3> QED
      BY <3>1, <3>2
  <2> QED
    BY <1>1, <1>7, <2>1, <2>2 DEF AdminReset
<1> QED
  BY <1>3, <1>4, <1>5, <1>6, <1>7 DEF AdminStep, Listening

(* A step of SocketUtil::recv keeps the types: what is missing never goes  *)
(* below zero, because no more is read than is missing.                    *)
LEMMA RecvTypes ==
  ASSUME TypeOK, NEW a \in Admins, RecvLength(a) \/ RecvChunk(a)
  PROVE  FramingTypeOK'
<1> USE SocketFramingAssumption DEF TypeOK, FramingTypeOK
<1>1. stream[a] \in Seq(Nat)
  OBVIOUS
<1>2. CASE RecvLength(a)
  <2>1. stream[a] # <<>> =>
          Head(stream[a]) \in Nat /\ Tail(stream[a]) \in Seq(Nat)
    BY <1>1
  <2>2. dataLen' \in Nat
    BY <1>2, <2>1 DEF RecvLength
  <2>3. stream' \in [Admins -> Seq(Nat)]
    <3>1. CASE stream[a] # <<>> /\ stream' = [stream EXCEPT ![a] = Tail(@)]
      BY <2>1, <3>1
    <3>2. CASE stream' = stream
      BY <3>2
    <3> QED
      BY <1>2, <3>1, <3>2 DEF RecvLength
  <2>4. data' \in Seq(Nat) /\ UNCHANGED <<admin, backlog>>
    BY <1>2 DEF RecvLength
  <2> QED
    BY <2>2, <2>3, <2>4
<1>3. CASE RecvChunk(a)
  <2>1. PICK n \in 1..Len(stream[a]) :
          /\ n <= Want
          /\ data' \in Appended(a, n)
          /\ stream' = [stream EXCEPT ![a] = SubSeq(@, n + 1, Len(@))]
          /\ dataLen' = dataLen - n
    BY <1>3 DEF RecvChunk
  <2>2. dataLen' \in Nat
    BY <2>1 DEF Want
  <2>3. stream' \in [Admins -> Seq(Nat)]
    <3>1. SubSeq(stream[a], n + 1, Len(stream[a])) \in Seq(Nat)
      BY <1>1
    <3> QED
      BY <2>1, <3>1
  <2>4. data' \in Seq(Nat)
    <3>1. PICK tail \in {<<>>, <<Junk>>} :
            data' = data \o SubSeq(stream[a], 1, n) \o tail
      BY <2>1 DEF Appended
    <3>2. tail \in Seq(Nat)
      <4>1. <<Junk>> \in Seq(Nat)
        OBVIOUS
      <4>2. <<>> \in Seq(Nat)
        OBVIOUS
      <4> QED
        BY <4>1, <4>2
    <3>3. SubSeq(stream[a], 1, n) \in Seq(Nat)
      BY <1>1
    <3>4. data \o SubSeq(stream[a], 1, n) \in Seq(Nat)
      BY <3>3
    <3> QED
      BY <3>1, <3>2, <3>4
  <2> QED
    BY <1>3, <2>2, <2>3, <2>4 DEF RecvChunk
<1> QED
  BY <1>2, <1>3

(* A step of the listener's thread keeps types and OpenInv.                *)
LEMMA ListenerIInv ==
  ASSUME IInv, Listener
  PROVE  IInv'
<1> USE SocketFramingAssumption DEF IInv, TypeOK
<1>1. CASE ListenerInit
  <2>1. FramingTypeOK'
    BY <1>1 DEF ListenerInit, framingVars, FramingTypeOK
  <2>2. DeployerTypeOK' /\ OpenInv'
    BY <1>1 DEF ListenerInit, managerVars, DeployerTypeOK, OpenInv, At
  <2> QED
    BY <2>1, <2>2
<1>2. CASE ListenerWaits
  BY <1>2 DEF ListenerWaits, framingVars, managerVars, FramingTypeOK,
              DeployerTypeOK, OpenInv, At
<1>3. CASE ListenerStarved
  <2>1. admin' \in [Admins -> AdminStates]
    BY <1>3 DEF ListenerStarved, FramingTypeOK, AdminStates
  <2>2. FramingTypeOK'
    BY <1>3, <2>1 DEF ListenerStarved, FramingTypeOK
  <2>3. DeployerTypeOK' /\ OpenInv'
    BY <1>3 DEF ListenerStarved, managerVars, DeployerTypeOK, OpenInv, At
  <2> QED
    BY <2>2, <2>3
<1>4. CASE ListenerTakes
  <2>1. Head(backlog) \in Admins /\ Tail(backlog) \in Seq(Admins)
    BY <1>4 DEF ListenerTakes, FramingTypeOK
  <2>2. FramingTypeOK'
    BY <1>4, <2>1 DEF ListenerTakes, FramingTypeOK
  <2>3. DeployerTypeOK'
    BY <1>4, <2>1 DEF ListenerTakes, managerVars, DeployerTypeOK
  <2>4. OpenInv'
    BY <1>4, <2>1 DEF ListenerTakes, OpenInv, At
  <2> QED
    BY <2>2, <2>3, <2>4
<1>5. CASE ListenerRecvLength
  <2>1. clientSock \in Admins
    BY <1>5 DEF ListenerRecvLength, At, OpenInv
  <2>2. FramingTypeOK'
    BY <1>5, <2>1, RecvTypes DEF ListenerRecvLength
  <2>3. DeployerTypeOK' /\ OpenInv'
    BY <1>5 DEF ListenerRecvLength, managerVars, DeployerTypeOK, OpenInv, At
  <2> QED
    BY <2>2, <2>3
<1>6. CASE ListenerRecvChunk
  <2>1. clientSock \in Admins
    BY <1>6 DEF ListenerRecvChunk, At, OpenInv
  <2>2. FramingTypeOK'
    BY <1>6, <2>1, RecvTypes DEF ListenerRecvChunk
  <2>3. DeployerTypeOK' /\ OpenInv'
    BY <1>6 DEF ListenerRecvChunk, listenerVars, managerVars, DeployerTypeOK,
                OpenInv, At
  <2> QED
    BY <2>2, <2>3
<1>7. CASE ListenerSpins
  BY <1>7 DEF ListenerSpins, RecvSpins, listenerVars, framingVars, managerVars,
              FramingTypeOK, DeployerTypeOK, OpenInv
<1>8. CASE ListenerReceived
  BY <1>8 DEF ListenerReceived, RecvFails, framingVars, managerVars,
              FramingTypeOK, DeployerTypeOK, OpenInv, At
<1>9. CASE ListenerInsert
  <2>1. clientSock \in Admins /\ data \in Seq(Nat)
    BY <1>9 DEF ListenerInsert, At, OpenInv, FramingTypeOK
  <2>2. m_policyList' \in Seq(Seq(Nat))
    BY <1>9, <2>1 DEF ListenerInsert, DeployerTypeOK
  <2>3. inserted' \in Seq([from : Admins, text : Seq(Nat)])
    BY <1>9, <2>1 DEF ListenerInsert, DeployerTypeOK
  <2>4. FramingTypeOK' /\ OpenInv'
    BY <1>9 DEF ListenerInsert, framingVars, FramingTypeOK, OpenInv, At
  <2> QED
    BY <1>9, <2>2, <2>3, <2>4 DEF ListenerInsert, managerVars, DeployerTypeOK
<1>10. CASE ListenerClose
  <2>1. open' = {}
    BY <1>10 DEF ListenerClose, At, OpenInv
  <2> QED
    BY <1>10, <2>1 DEF ListenerClose, framingVars, managerVars, FramingTypeOK,
                       DeployerTypeOK, OpenInv, At
<1> QED
  BY <1>1, <1>2, <1>3, <1>4, <1>5, <1>6, <1>7, <1>8, <1>9, <1>10 DEF Listener

(* A step of the main thread keeps types; it does not touch the listener.  *)
LEMMA ManagerIInv ==
  ASSUME IInv, Manager
  PROVE  IInv'
<1> USE DEF IInv, TypeOK
<1>1. FramingTypeOK' /\ OpenInv'
  BY DEF Manager, ManagePop, ManageSleep, ManageConnect, ManageConnectFails,
         ManageSend, ManageSendFails, ManageTerminate, vars, framingVars,
         listenerVars, FramingTypeOK, OpenInv
<1>2. CASE ManagePop
  <2>1. policy' \in Seq(Nat) /\ m_policyList' \in Seq(Seq(Nat))
    BY <1>2 DEF ManagePop, DeployerTypeOK
  <2>2. handled' \in Seq(Seq(Nat)) /\ mpc' \in {"pop", "connect"}
    <3> DEFINE T == Seq(Nat)
    <3>1. handled \in Seq(T) /\ <<>> \in T
      BY DEF DeployerTypeOK
    <3>2. /\ handled' \in {handled, Append(handled, <<>>)}
          /\ mpc' \in {"pop", "connect"}
      BY <1>2 DEF ManagePop, TakesUp
    <3> HIDE DEF T
    <3>3. Append(handled, <<>>) \in Seq(T)
      BY <3>1
    <3> QED
      BY <3>1, <3>2, <3>3 DEF T
  <2> QED
    BY <1>1, <1>2, <2>1, <2>2 DEF ManagePop, listenerVars, DeployerTypeOK
<1>3. CASE ManageSleep
  BY <1>1, <1>3 DEF ManageSleep, vars, listenerVars, managerVars,
                    DeployerTypeOK
<1>4. CASE ManageConnect
  BY <1>1, <1>4 DEF ManageConnect, listenerVars, DeployerTypeOK
<1>5. Done => handled' \in Seq(Seq(Nat)) /\ mpc' = "pop"
  BY DEF Done, DeployerTypeOK
<1>6. CASE ManageConnectFails
  BY <1>1, <1>5, <1>6 DEF ManageConnectFails, listenerVars, DeployerTypeOK
<1>7. CASE ManageSend
  <2>1. Written(policy) \in Seq(Nat)
    BY DeployerAssumption DEF Written, DeployerTypeOK
  <2>2. deployed' \in Seq(Seq(Nat))
    BY <1>7, <2>1 DEF ManageSend, DeployerTypeOK
  <2> QED
    BY <1>1, <1>7, <2>2 DEF ManageSend, listenerVars, DeployerTypeOK
<1>8. CASE ManageSendFails
  BY <1>1, <1>5, <1>8 DEF ManageSendFails, listenerVars, DeployerTypeOK
<1>9. CASE ManageTerminate
  BY <1>1, <1>5, <1>9, DeployerAssumption
     DEF ManageTerminate, listenerVars, DeployerTypeOK
<1> QED
  BY <1>2, <1>3, <1>4, <1>6, <1>7, <1>8, <1>9 DEF Manager

(* Every step keeps the inductive invariant.                               *)
LEMMA NextIInv == IInv /\ [Next]_vars => IInv'
<1> SUFFICES ASSUME IInv, [Next]_vars PROVE IInv'
  OBVIOUS
<1>1. CASE UNCHANGED vars
  BY <1>1 DEF vars, framingVars, listenerVars, managerVars, IInv, TypeOK,
              FramingTypeOK, DeployerTypeOK, OpenInv
<1>2. CASE Listener
  BY <1>2, ListenerIInv
<1>3. CASE Manager
  BY <1>3, ManagerIInv
<1>4. CASE ControllerGone
  BY <1>4 DEF ControllerGone, framingVars, listenerVars, IInv, TypeOK,
              FramingTypeOK, DeployerTypeOK, OpenInv
<1>5. ASSUME NEW a \in Admins, AdminStep(a) PROVE IInv'
  <2>1. TypeOK'
    BY <1>5, AdminTypes DEF IInv
  <2>2. OpenInv'
    BY <1>5 DEF AdminStep, listenerVars, OpenInv, IInv
  <2> QED
    BY <2>1, <2>2 DEF IInv
<1> QED
  BY <1>1, <1>2, <1>3, <1>4, <1>5 DEF Next, Exited

(* The inductive invariant holds in every reachable state.                 *)
THEOREM Invariance == Spec => []IInv
<1> QED
  BY InitIInv, NextIInv, PTL DEF Spec

(* Every variable of the Deployer keeps its type.                          *)
THEOREM TypeCorrect == Spec => []TypeOK
<1>1. IInv => TypeOK
  BY DEF IInv
<1> QED
  BY <1>1, Invariance, PTL

(* Once set up, the listener's thread ends only when failed deployments    *)
(* have cost the process its descriptors (PolicyListener.cpp:50-57).       *)
THEOREM EndsStarved == Spec => ListenerEndsOnlyStarved
<1> DEFINE Starved == lpc \notin {"init", "returned"} /\ lpc' = "returned"
       => leaked + (IF link = "none" THEN 0 ELSE 1) >= MaxFds
<1>1. ASSUME IInv, [Next]_vars PROVE [Starved]_vars
  <2> SUFFICES ASSUME lpc \notin {"init", "returned"}, lpc' = "returned"
               PROVE  leaked + (IF link = "none" THEN 0 ELSE 1) >= MaxFds
    OBVIOUS
  <2>1. ListenerStarved
    <3>1. lpc' # lpc
      OBVIOUS
    <3>2. Listener
      BY <1>1, <3>1 DEF Next, vars, listenerVars, Exited, ControllerGone,
        AdminStep, Manager, ManagePop, ManageSleep, ManageConnect,
        ManageConnectFails, ManageSend, ManageSendFails, ManageTerminate
    <3> QED
      BY <3>1, <3>2 DEF Listener, ListenerInit, ListenerWaits, ListenerTakes,
        ListenerRecvLength, ListenerRecvChunk, ListenerSpins,
        ListenerReceived, ListenerInsert, ListenerClose, listenerVars, At
  <2>2. open = {} /\ lpc = "accept" /\ Used >= MaxFds
    BY <1>1, <2>1 DEF ListenerStarved, At, IInv, OpenInv
  <2>3. Cardinality(open) = 0
    BY <2>2, FS_EmptySet
  <2>4. leaked \in Nat /\ MaxFds \in Nat
    BY <1>1, DeployerAssumption DEF IInv, TypeOK, DeployerTypeOK
  <2> QED
    BY <2>2, <2>3, <2>4 DEF Used
<1> QED
  BY <1>1, Invariance, PTL DEF Spec, ListenerEndsOnlyStarved

-----------------------------------------------------------------------------
(* The texts of a sequence of inserts, and of one more.                    *)
Texts(s) == [i \in 1..Len(s) |-> s[i].text]

(* One more insert adds its text at the end.                               *)
LEMMA TextsAppend ==
  ASSUME NEW R, NEW T, \A x \in R : x.text \in T, NEW s \in Seq(R)
  PROVE  /\ Texts(s) \in Seq(T) /\ Len(Texts(s)) = Len(s)
         /\ \A e \in R :
              Texts(Append(s, e)) = Append(Texts(s), e.text)
<1>1. Len(s) \in Nat /\ \A i \in 1..Len(s) : s[i].text \in T
  <2>1. \A i \in 1..Len(s) : s[i] \in R
    BY ElementOfSeq
  <2> QED
    BY <2>1
<1>2. Texts(s) \in Seq(T) /\ Len(Texts(s)) = Len(s)
  <2>1. Texts(s) \in [1..Len(s) -> T]
    BY <1>1 DEF Texts
  <2> QED
    BY <1>1, <2>1 DEF Texts
<1>3. ASSUME NEW e \in R
      PROVE  Texts(Append(s, e)) = Append(Texts(s), e.text)
  <2>1. /\ Len(Append(s, e)) = Len(s) + 1 /\ e.text \in T
        /\ \A i \in 1..(Len(s) + 1) :
             Append(s, e)[i].text = IF i = Len(s) + 1 THEN e.text ELSE s[i].text
    BY <1>1
  <2>2. Texts(Append(s, e)) = [i \in 1..(Len(s) + 1) |->
                                 IF i = Len(s) + 1 THEN e.text ELSE Texts(s)[i]]
    BY <1>1, <2>1 DEF Texts
  <2>3. Texts(Append(s, e)) \in Seq(T) /\ Len(Texts(Append(s, e))) = Len(s) + 1
    <3>1. \A i \in 1..Len(s) : Texts(s)[i] \in T
      BY <1>2, ElementOfSeq
    <3> QED
      BY <1>1, <2>1, <2>2, <3>1
  <2>4. \A i \in 1..(Len(s) + 1) :
          Texts(Append(s, e))[i] = Append(Texts(s), e.text)[i]
    BY <1>1, <1>2, <2>1, <2>2, AppendProperties
  <2> QED
    BY <1>1, <1>2, <2>1, <2>3, <2>4, AppendProperties, SeqEqual
<1> QED
  BY <1>2, <1>3

(* Saved is a sequence, and an insert adds to its end.                     *)
LEMMA SavedIs ==
  ASSUME IInv
  PROVE  /\ Saved \in Seq(Seq(Nat)) /\ Len(Saved) = Len(inserted)
         /\ ListenerInsert => Saved' = Append(Saved, data) /\ data \in Seq(Nat)
<1> DEFINE e == [from |-> clientSock, text |-> data]
           T == Seq(Nat)
           R == [from : Admins, text : T]
<1>1. inserted \in Seq(R) /\ \A x \in R : x.text \in T
  BY DEF IInv, TypeOK, DeployerTypeOK
<1>2. ListenerInsert =>
        /\ inserted' = Append(inserted, e) /\ e.text = data /\ data \in T
        /\ e \in R
  BY DEF ListenerInsert, At, IInv, TypeOK, FramingTypeOK, OpenInv
<1>3. Saved = Texts(inserted) /\ Saved' = Texts(inserted')
  BY DEF Saved, Texts
<1> HIDE DEF e, R, T
<1>4. /\ Texts(inserted) \in Seq(T) /\ Len(Texts(inserted)) = Len(inserted)
      /\ \A x \in R :
           Texts(Append(inserted, x)) = Append(Texts(inserted), x.text)
  BY <1>1, TextsAppend
<1>5. Saved \in Seq(T) /\ Len(Saved) = Len(inserted)
  BY <1>3, <1>4
<1>6. ASSUME ListenerInsert PROVE Saved' = Append(Saved, data) /\ data \in T
  BY <1>2, <1>3, <1>4, <1>6
<1> QED
  BY <1>5, <1>6 DEF T

(* Moving a text from one place to the next does not reorder them.         *)
LEMMA Moves ==
  ASSUME NEW S, NEW p \in Seq(S), NEW h \in S, NEW m \in Seq(S)
  PROVE  /\ Append(p, h) \o <<>> = p \o <<h>>
         /\ p \o Append(m, h) = Append(p \o m, h)
         /\ m # <<>> =>
              /\ (p \o <<>>) \o m = (p \o <<Head(m)>>) \o Tail(m)
              /\ (p \o <<>>) \o m = (Append(p, Head(m)) \o <<>>) \o Tail(m)
<1>1. Append(p, h) \o <<>> = p \o <<h>>
  OBVIOUS
<1>2. p \o Append(m, h) = Append(p \o m, h)
  OBVIOUS
<1>3. ASSUME m # <<>> PROVE (p \o <<>>) \o m = (p \o <<Head(m)>>) \o Tail(m)
  BY <1>3
<1>4. ASSUME m # <<>> PROVE Append(p, Head(m)) \o <<>> = p \o <<Head(m)>>
  BY <1>4
<1> QED
  BY <1>1, <1>2, <1>3, <1>4

(* No step skips, doubles or reorders a text, and none empty is in hand.   *)
LEMMA QueueStep ==
  ASSUME IInv, HandInv, NothingSkipped, [Next]_vars
  PROVE  HandInv' /\ NothingSkipped'
<1>1. /\ handled \in Seq(Seq(Nat)) /\ m_policyList \in Seq(Seq(Nat))
      /\ policy \in Seq(Nat) /\ InHand \in Seq(Seq(Nat))
  BY DEF IInv, TypeOK, DeployerTypeOK, InHand
<1>2. handled \o InHand \o m_policyList = Saved
  BY DEF NothingSkipped
<1>3. CASE /\ UNCHANGED <<handled, policy, m_policyList, inserted>>
           /\ mpc' = mpc \/ {mpc, mpc'} \subseteq {"connect", "send", "terminate"}
  <2>1. UNCHANGED <<InHand, Saved>> /\ HandInv'
    BY <1>3 DEF InHand, Saved, HandInv
  <2> QED
    BY <1>2, <1>3, <2>1 DEF NothingSkipped
<1>4. CASE ListenerInsert
  <2>1. /\ UNCHANGED <<handled, InHand, policy, mpc>>
        /\ m_policyList' = Append(m_policyList, data)
    BY <1>4 DEF ListenerInsert, managerVars, InHand
  <2>2. Saved' = Append(Saved, data) /\ data \in Seq(Nat)
    BY <1>4, SavedIs
  <2>3. (handled \o InHand) \o Append(m_policyList, data)
          = Append((handled \o InHand) \o m_policyList, data)
    <3> DEFINE T == Seq(Nat)
    <3>1. /\ handled \in Seq(T) /\ InHand \in Seq(T)
          /\ m_policyList \in Seq(T) /\ data \in T
      BY <1>1, <2>2
    <3> HIDE DEF T
    <3>2. handled \o InHand \in Seq(T)
      BY <3>1
    <3> QED
      BY <3>1, <3>2, Moves
  <2> QED
    BY <1>2, <2>1, <2>2, <2>3 DEF NothingSkipped, HandInv
<1>5. CASE ManagePop
  <2> DEFINE h == Head(m_policyList)
  <2>1. /\ m_policyList # <<>> /\ InHand = <<>> /\ UNCHANGED Saved
        /\ policy' = h /\ m_policyList' = Tail(m_policyList)
    BY <1>5 DEF ManagePop, Running, InHand, listenerVars, Saved
  <2>2. h \in Seq(Nat)
    BY <1>1, <2>1
  <2>3. /\ (handled \o <<>>) \o m_policyList = (handled \o <<h>>) \o Tail(m_policyList)
        /\ (handled \o <<>>) \o m_policyList
              = (Append(handled, h) \o <<>>) \o Tail(m_policyList)
    BY <1>1, <2>1, <2>2, Moves
  <2>4. CASE h = <<>>
    <3>1. InHand' = <<>> /\ handled' = Append(handled, h) /\ HandInv'
      BY <1>5, <2>1, <2>4 DEF ManagePop, TakesUp, InHand, HandInv
    <3> QED
      BY <1>2, <2>1, <2>3, <3>1 DEF NothingSkipped
  <2>5. CASE h # <<>>
    <3>1. InHand' = <<h>> /\ handled' = handled /\ HandInv'
      BY <1>5, <2>1, <2>5 DEF ManagePop, TakesUp, InHand, HandInv
    <3> QED
      BY <1>2, <2>1, <2>3, <3>1 DEF NothingSkipped
  <2> QED
    BY <2>4, <2>5
<1>6. CASE ManageConnectFails \/ ManageSendFails \/ ManageTerminate
  <2>1. /\ UNCHANGED <<m_policyList, Saved>> /\ InHand = <<policy>>
        /\ InHand' = <<>> /\ handled' = Append(handled, policy) /\ HandInv'
    BY <1>6 DEF ManageConnectFails, ManageSendFails, ManageTerminate, Done,
       Running, InHand, HandInv, listenerVars, Saved
  <2>2. Append(handled, policy) \o <<>> = handled \o <<policy>>
    BY <1>1, Moves
  <2> QED
    BY <1>2, <2>1, <2>2 DEF NothingSkipped
<1>7. CASE \/ ManageSleep \/ ManageConnect \/ ManageSend \/ ControllerGone
           \/ UNCHANGED vars \/ \E a \in Admins : AdminStep(a)
  BY <1>3, <1>7 DEF ManageSleep, ManageConnect, ManageSend, Running,
     ControllerGone, AdminStep, vars, listenerVars, managerVars
<1>8. CASE Listener /\ ~ListenerInsert
  BY <1>3, <1>8 DEF Listener, ListenerInit, ListenerWaits, ListenerStarved,
     ListenerTakes, ListenerRecvLength, ListenerRecvChunk, ListenerSpins,
     ListenerReceived, ListenerClose, listenerVars, managerVars
<1> QED
  BY <1>4, <1>5, <1>6, <1>7, <1>8 DEF Next, Manager, Exited

(* UpTo never goes back; only ManageSend writes, only an insert saves.     *)
LEMMA UpToGrows ==
  ASSUME IInv, [Next]_vars
  PROVE  /\ UpTo \in Nat /\ UpTo' \in Nat /\ UpTo' >= UpTo
         /\ ~ListenerInsert => Saved' = Saved
         /\ ~ManageSend => deployed' = deployed
<1>1. handled \in Seq(Seq(Nat)) /\ Len(handled) \in Nat
  BY DEF IInv, TypeOK, DeployerTypeOK
<1>2. CASE /\ UNCHANGED <<handled, deployed, inserted>>
           /\ mpc' = mpc \/ mpc # "terminate"
  BY <1>1, <1>2 DEF UpTo, Saved
<1>3. ASSUME NEW text \in Seq(Nat), handled' = Append(handled, text),
             mpc' # "terminate", UNCHANGED <<deployed, inserted>>
      PROVE  UpTo' \in Nat /\ UpTo' >= UpTo /\ UpTo \in Nat /\ Saved' = Saved
  <2>1. Len(handled') = Len(handled) + 1
    BY <1>1, <1>3
  <2> QED
    BY <1>1, <1>3, <2>1 DEF UpTo, Saved
<1>4. CASE ManagePop
  <2>1. UNCHANGED <<deployed, inserted>> /\ mpc = "pop" /\ mpc' # "terminate"
    BY <1>4 DEF ManagePop, Running, TakesUp, listenerVars
  <2>2. <<>> \in Seq(Nat)
    OBVIOUS
  <2>3. handled' = Append(handled, <<>>) \/ handled' = handled
    BY <1>4 DEF ManagePop, TakesUp
  <2> QED
    BY <1>2, <1>3, <2>1, <2>2, <2>3
<1>5. CASE ManageConnectFails \/ ManageSendFails \/ ManageTerminate
  <2>1. /\ UNCHANGED <<deployed, inserted>> /\ mpc' # "terminate"
        /\ handled' = Append(handled, policy)
    BY <1>5 DEF ManageConnectFails, ManageSendFails, ManageTerminate, Done,
       listenerVars
  <2>2. policy \in Seq(Nat)
    BY DEF IInv, TypeOK, DeployerTypeOK
  <2> QED
    BY <1>3, <2>1, <2>2
<1>6. CASE ManageSend
  BY <1>1, <1>6 DEF ManageSend, Running, listenerVars, UpTo, Saved
<1>7. CASE ListenerInsert
  BY <1>1, <1>7 DEF ListenerInsert, managerVars, UpTo
<1>8. CASE \/ ManageSleep \/ ManageConnect \/ ControllerGone
           \/ UNCHANGED vars \/ \E a \in Admins : AdminStep(a)
  BY <1>2, <1>8 DEF ManageSleep, ManageConnect, Running,
     ControllerGone, AdminStep, vars, listenerVars, managerVars
<1>9. CASE Listener /\ ~ListenerInsert
  BY <1>2, <1>9 DEF Listener, ListenerInit, ListenerWaits, ListenerStarved,
     ListenerTakes, ListenerRecvLength, ListenerRecvChunk, ListenerSpins,
     ListenerReceived, ListenerClose, listenerVars, managerVars
<1> QED
  BY <1>4, <1>5, <1>6, <1>7, <1>8, <1>9 DEF Next, Manager, Exited

(* The policy in hand is the saved one after those that are done with.     *)
LEMMA HandIsNext ==
  ASSUME IInv, NothingSkipped, mpc # "pop"
  PROVE  Len(handled) + 1 \in 1..Len(Saved) /\ Saved[Len(handled) + 1] = policy
<1> DEFINE T == Seq(Nat)
<1>1. handled \in Seq(T) /\ m_policyList \in Seq(T) /\ policy \in T
  BY DEF IInv, TypeOK, DeployerTypeOK
<1>2. (handled \o <<policy>>) \o m_policyList = Saved
  BY DEF NothingSkipped, InHand
<1> HIDE DEF T
<1>3. /\ handled \o <<policy>> \in Seq(T)
      /\ Len(handled \o <<policy>>) = Len(handled) + 1
      /\ (handled \o <<policy>>)[Len(handled) + 1] = policy
  BY <1>1
<1>4. /\ Len(Saved) = Len(handled) + 1 + Len(m_policyList)
      /\ Saved[Len(handled) + 1] = policy
  <2> DEFINE p == handled \o <<policy>>
  <2>1. p \in Seq(T) /\ Len(p) = Len(handled) + 1 /\ Len(handled) \in Nat
    BY <1>1, <1>3
  <2> HIDE DEF p
  <2>2. /\ Len(p \o m_policyList) = Len(p) + Len(m_policyList)
        /\ (p \o m_policyList)[Len(p)] = p[Len(p)]
    BY <1>1, <2>1
  <2> QED
    BY <1>2, <1>3, <2>1, <2>2 DEF p
<1>5. Len(handled) \in Nat /\ Len(m_policyList) \in Nat
  BY <1>1
<1> QED
  BY <1>4, <1>5

(* What is written of a text that is not empty is not empty.               *)
LEMMA WrittenSome ==
  ASSUME NEW text \in Seq(Nat), text # <<>>
  PROVE  Written(text) \in Seq(Nat) /\ Written(text) # <<>>
<1>1. MaxRecord \in Nat /\ MaxRecord >= 1
  BY DeployerAssumption
<1>2. CASE Len(text) > MaxRecord
  <2>1. Written(text) = SubSeq(text, 1, MaxRecord)
    BY <1>2 DEF Written
  <2>2. SubSeq(text, 1, MaxRecord) \in Seq(Nat)
        /\ Len(SubSeq(text, 1, MaxRecord)) = MaxRecord
    BY <1>1, <1>2
  <2> QED
    BY <1>1, <2>1, <2>2
<1>3. CASE ~(Len(text) > MaxRecord)
  BY <1>3 DEF Written
<1> QED
  BY <1>2, <1>3

(* The order of what is written outlives every step.                       *)
LEMMA OrderStep ==
  ASSUME IInv, QInv, [Next]_vars
  PROVE  OrderInv'
<1>1. PICK of \in [1..Len(deployed) -> 1..Len(Saved)] : InOrder(of)
  BY DEF QInv, OrderInv
<1>2. /\ UpTo \in Nat /\ UpTo' \in Nat /\ UpTo' >= UpTo
      /\ ~ListenerInsert => Saved' = Saved
      /\ ~ManageSend => deployed' = deployed
  BY UpToGrows
<1>3. /\ Saved \in Seq(Seq(Nat)) /\ Len(Saved) \in Nat
      /\ deployed \in Seq(Seq(Nat)) /\ Len(deployed) \in Nat
  BY SavedIs DEF IInv, TypeOK, DeployerTypeOK
<1>4. CASE deployed' = deployed
  <2>1. /\ Len(Saved') \in Nat /\ Len(Saved') >= Len(Saved)
        /\ \A k \in 1..Len(Saved) : Saved'[k] = Saved[k]
    <3>1. CASE ListenerInsert
      <4>1. Saved' = Append(Saved, data) /\ data \in Seq(Nat)
        BY <3>1, SavedIs
      <4> QED
        BY <1>3, <4>1, AppendProperties
    <3>2. CASE ~ListenerInsert
      BY <1>2, <1>3, <3>2
    <3> QED
      BY <3>1, <3>2
  <2>2. of \in [1..Len(deployed') -> 1..Len(Saved')]
    BY <1>3, <1>4, <2>1
  <2>3. InOrder(of)'
    <3>1. ASSUME NEW i \in 1..Len(deployed')
          PROVE  /\ deployed'[i] = Written(Saved'[of[i]]) /\ deployed'[i] # <<>>
                 /\ of[i] <= UpTo'
      <4>1. /\ of[i] \in 1..Len(Saved) /\ of[i] <= UpTo
            /\ deployed[i] = Written(Saved[of[i]]) /\ deployed[i] # <<>>
        BY <1>1, <1>4, <3>1 DEF InOrder
      <4> QED
        BY <1>2, <1>3, <1>4, <2>1, <4>1
    <3> QED
      BY <1>1, <1>4, <3>1 DEF InOrder
  <2> QED
    BY <2>2, <2>3 DEF OrderInv
<1>5. CASE ManageSend /\ deployed' # deployed
  <2> DEFINE n == Len(deployed)
             k == Len(handled) + 1
             to == [i \in 1..(n + 1) |-> IF i = n + 1 THEN k ELSE of[i]]
  <2>1. /\ mpc = "send" /\ mpc' = "terminate" /\ UNCHANGED <<handled, Saved>>
        /\ deployed' = Append(deployed, Written(policy))
    BY <1>5 DEF ManageSend, Running, listenerVars, Saved
  <2>2. k \in 1..Len(Saved) /\ Saved[k] = policy
    BY <2>1, HandIsNext DEF QInv
  <2>3. UpTo' = k /\ UpTo = k - 1 /\ k \in Nat
    BY <1>3, <2>1, <2>2 DEF UpTo
  <2>4. Written(policy) \in Seq(Nat) /\ Written(policy) # <<>>
    BY <2>1, WrittenSome DEF QInv, HandInv, IInv, TypeOK, DeployerTypeOK
  <2>5. /\ Len(deployed') = n + 1
        /\ \A i \in 1..n : deployed'[i] = deployed[i]
        /\ deployed'[n + 1] = Written(policy)
    BY <1>3, <2>1, <2>4, AppendProperties
  <2>6. \A i \in 1..n : /\ of[i] \in 1..Len(Saved) /\ of[i] <= k - 1
                        /\ deployed[i] = Written(Saved[of[i]])
                        /\ deployed[i] # <<>>
    BY <1>1, <2>3 DEF InOrder
  <2>7. to \in [1..(n + 1) -> 1..Len(Saved)]
    BY <1>3, <2>2, <2>6
  <2>8. /\ to[n + 1] = k
        /\ \A i \in 1..n : to[i] = of[i] /\ i # n + 1
        /\ \A i \in 1..(n + 1) : i = n + 1 \/ i \in 1..n
    BY <1>3
  <2> HIDE DEF n, k, to
  <2>9. ASSUME NEW i \in 1..(n + 1)
        PROVE  /\ deployed'[i] = Written(Saved[to[i]]) /\ deployed'[i] # <<>>
               /\ to[i] <= k
    <3>1. CASE i = n + 1
      BY <2>2, <2>3, <2>4, <2>5, <2>8, <3>1
    <3>2. CASE i \in 1..n
      BY <2>3, <2>5, <2>6, <2>8, <3>2
    <3> QED
      BY <2>8, <3>1, <3>2
  <2>10. ASSUME NEW i \in 1..(n + 1), NEW j \in 1..(n + 1), i < j
         PROVE  to[i] < to[j]
    <3>1. i \in 1..n
      BY <1>3, <2>10 DEF n
    <3>2. CASE j = n + 1
      BY <2>3, <2>6, <2>8, <3>1, <3>2
    <3>3. CASE j \in 1..n
      <4>1. of[i] < of[j]
        BY <1>1, <2>10, <3>1, <3>3 DEF InOrder, n
      <4> QED
        BY <2>8, <3>1, <3>3, <4>1
    <3> QED
      BY <2>8, <3>2, <3>3
  <2>11. PICK longer \in [1..Len(deployed') -> 1..Len(Saved')] : longer = to
    BY <2>1, <2>5, <2>7
  <2>12. InOrder(longer)'
    BY <2>1, <2>3, <2>5, <2>9, <2>10, <2>11 DEF InOrder
  <2> QED
    BY <2>12 DEF OrderInv
<1> QED
  BY <1>2, <1>4, <1>5

(* The order of the policies, with types, holds at the start ...           *)
LEMMA InitQInv == Init => QInv
<1> SUFFICES ASSUME Init PROVE QInv
  OBVIOUS
<1>1. HandInv
  BY DEF Init, HandInv
<1>2. Saved = <<>>
  BY DEF Init, Saved
<1>3. NothingSkipped
  BY <1>2 DEF Init, NothingSkipped, InHand
<1>4. OrderInv
  <2>1. deployed = <<>> /\ Len(deployed) = 0 /\ 1..Len(deployed) = {}
    BY DEF Init
  <2>2. [i \in 1..Len(deployed) |-> 1] \in [1..Len(deployed) -> 1..Len(Saved)]
    BY <2>1
  <2>3. InOrder([i \in 1..Len(deployed) |-> 1])
    BY <2>1 DEF InOrder
  <2> QED
    BY <2>2, <2>3 DEF OrderInv
<1> QED
  BY <1>1, <1>3, <1>4 DEF QInv

(* ... and in every reachable state.                                       *)
THEOREM QueueInvariance == Spec => [](IInv /\ QInv)
<1>1. Init => IInv /\ QInv
  BY InitIInv, InitQInv
<1>2. IInv /\ QInv /\ [Next]_vars => (IInv /\ QInv)'
  BY NextIInv, QueueStep, OrderStep DEF QInv
<1> QED
  BY <1>1, <1>2, PTL DEF Spec

(* Every saved text is done with, in hand or waiting, each once and in the *)
(* order of saving (PolicyManager.cpp:35-53).                              *)
THEOREM NothingLost == Spec => []NothingSkipped
<1>1. QInv => NothingSkipped
  BY DEF QInv
<1> QED
  BY <1>1, QueueInvariance, PTL

(* What reaches the Controller are saved policies in the order of saving,  *)
(* none twice and none empty (PolicyDeployer.cpp:37-46).                   *)
THEOREM OrderKept == Spec => []DeployedInOrder
<1>1. QInv => DeployedInOrder
  BY DEF QInv, OrderInv, InOrder, DeployedInOrder
<1> QED
  BY <1>1, QueueInvariance, PTL

-----------------------------------------------------------------------------
(* From where a saved text is.  A text that had only junk added and gets   *)
(* the next bytes, with junk behind them or not, still has only that.      *)
LEMMA JunkAppended ==
  ASSUME NEW t \in Seq(Nat), NEW o \in Seq(Nat), NEW x \in Seq(Nat),
         NEW tail \in {<<>>, <<Junk>>}, OnlyJunkAdded(t, o)
  PROVE  OnlyJunkAdded((t \o x) \o tail, o \o x)
<1> DEFINE n == Len(t)
           m == Len(o)
           k == Len(x)
           long == (t \o x) \o tail
           whole == o \o x
<1>1. n \in Nat /\ m \in Nat /\ k \in Nat
  OBVIOUS
<1>2. PICK at \in [1..m -> 1..n] :
        /\ \A i \in 1..m : t[at[i]] = o[i]
        /\ \A i, j \in 1..m : i < j => at[i] < at[j]
        /\ \A l \in 1..n : t[l] = Junk \/ \E i \in 1..m : at[i] = l
  BY DEF OnlyJunkAdded
<1>3. /\ Len(whole) = m + k
      /\ \A i \in 1..(m + k) : whole[i] = IF i <= m THEN o[i] ELSE x[i - m]
  OBVIOUS
<1>4. /\ Len(long) \in Nat /\ n + k <= Len(long)
      /\ \A l \in 1..Len(long) :
           long[l] = IF l <= n THEN t[l]
                     ELSE IF l <= n + k THEN x[l - n] ELSE Junk
  <2>1. /\ t \o x \in Seq(Nat) /\ Len(t \o x) = n + k
        /\ \A l \in 1..(n + k) : (t \o x)[l] = IF l <= n THEN t[l] ELSE x[l - n]
    OBVIOUS
  <2> DEFINE s == t \o x
  <2> HIDE DEF s
  <2>2. /\ tail \in Seq(Nat) /\ Len(tail) \in 0..1
        /\ \A i \in 1..Len(tail) : tail[i] = Junk
    <3>1. CASE tail = <<>>
      BY <3>1
    <3>2. CASE tail = <<Junk>>
      BY <3>2, SocketFramingAssumption
    <3> QED
      BY <3>1, <3>2
  <2>3. /\ Len(s \o tail) = n + k + Len(tail)
        /\ \A l \in 1..(n + k + Len(tail)) :
             (s \o tail)[l] = IF l <= n + k THEN s[l] ELSE tail[l - (n + k)]
    BY <2>1, <2>2, ConcatProperties DEF s
  <2>4. long = s \o tail
    BY DEF s
  <2> HIDE DEF n, k, long
  <2>5. Len(long) \in Nat /\ n + k <= Len(long)
    BY <1>1, <2>2, <2>3, <2>4
  <2>6. ASSUME NEW l \in 1..Len(long)
        PROVE  long[l] = IF l <= n THEN t[l]
                         ELSE IF l <= n + k THEN x[l - n] ELSE Junk
    <3>1. CASE l <= n + k
      <4>1. l \in 1..(n + k)
        BY <1>1, <2>5, <3>1
      <4>2. long[l] = s[l]
        BY <2>2, <2>3, <2>4, <3>1
      <4> QED
        BY <2>1, <3>1, <4>1, <4>2 DEF s
    <3>2. CASE ~(l <= n + k)
      <4>1. ~(l <= n) /\ l - (n + k) \in 1..Len(tail)
        BY <1>1, <2>2, <2>3, <2>4, <3>2
      <4>2. long[l] = tail[l - (n + k)]
        BY <2>2, <2>3, <2>4, <3>2
      <4> QED
        BY <2>2, <3>2, <4>1, <4>2
    <3> QED
      BY <3>1, <3>2
  <2> QED
    BY <2>5, <2>6
<1> DEFINE to == [i \in 1..(m + k) |-> IF i <= m THEN at[i] ELSE n + (i - m)]
<1> HIDE DEF n, m, k, long, whole
<1>5. \A i \in 1..m : at[i] \in 1..n
  BY <1>2
<1>6. to \in [1..(m + k) -> 1..Len(long)]
  <2>1. ASSUME NEW i \in 1..(m + k)
        PROVE  (IF i <= m THEN at[i] ELSE n + (i - m)) \in 1..Len(long)
    <3>1. CASE i <= m
      BY <1>1, <1>4, <1>5, <3>1
    <3>2. CASE ~(i <= m)
      BY <1>1, <1>4, <3>2
    <3> QED
      BY <3>1, <3>2
  <2> QED
    BY <2>1
<1>7. \A i \in 1..(m + k) : to[i] = IF i <= m THEN at[i] ELSE n + (i - m)
  OBVIOUS
<1> HIDE DEF to
<1>8. ASSUME NEW i \in 1..(m + k) PROVE long[to[i]] = whole[i]
  <2>1. to[i] \in 1..Len(long)
    BY <1>6
  <2>2. CASE i <= m
    <3>1. i \in 1..m /\ to[i] = at[i] /\ at[i] \in 1..n
      BY <1>1, <1>5, <1>7, <2>2
    <3>2. long[at[i]] = t[at[i]]
      BY <1>1, <1>4, <2>1, <3>1
    <3>3. whole[i] = o[i]
      BY <1>3, <2>2
    <3>4. t[at[i]] = o[i]
      BY <1>2, <3>1
    <3> QED
      BY <3>1, <3>2, <3>3, <3>4
  <2>3. CASE ~(i <= m)
    <3>1. to[i] = n + (i - m)
      BY <1>7, <2>3
    <3>2. ~(to[i] <= n) /\ to[i] <= n + k /\ to[i] - n = i - m
      BY <1>1, <2>3, <3>1
    <3> QED
      BY <1>3, <1>4, <2>1, <2>3, <3>2
  <2> QED
    BY <2>2, <2>3
<1>9. ASSUME NEW i \in 1..(m + k), NEW j \in 1..(m + k), i < j
      PROVE  to[i] < to[j]
  <2>1. CASE j <= m
    <3>1. i \in 1..m /\ j \in 1..m /\ to[i] = at[i] /\ to[j] = at[j]
      BY <1>1, <1>7, <1>9, <2>1
    <3> QED
      BY <1>2, <1>9, <3>1
  <2>2. CASE ~(j <= m) /\ i <= m
    <3>1. i \in 1..m /\ to[i] = at[i] /\ to[j] = n + (j - m)
      BY <1>1, <1>7, <2>2
    <3> QED
      BY <1>1, <1>5, <2>2, <3>1
  <2>3. CASE ~(j <= m) /\ ~(i <= m)
    <3>1. to[i] = n + (i - m) /\ to[j] = n + (j - m)
      BY <1>7, <2>3
    <3> QED
      BY <1>1, <1>9, <3>1
  <2> QED
    BY <2>1, <2>2, <2>3
<1>10. ASSUME NEW l \in 1..Len(long)
       PROVE  long[l] = Junk \/ \E i \in 1..(m + k) : to[i] = l
  <2>1. CASE l <= n
    <3>1. l \in 1..n /\ long[l] = t[l]
      BY <1>1, <1>4, <2>1
    <3>2. ASSUME NEW i \in 1..m, at[i] = l
          PROVE  i \in 1..(m + k) /\ to[i] = l
      BY <1>1, <1>7, <3>2
    <3> QED
      BY <1>2, <3>1, <3>2
  <2>2. CASE ~(l <= n) /\ l <= n + k
    <3>1. m + (l - n) \in 1..(m + k) /\ ~(m + (l - n) <= m)
      BY <1>1, <1>4, <2>2
    <3>2. to[m + (l - n)] = l
      BY <1>1, <1>4, <1>7, <3>1
    <3> QED
      BY <3>1, <3>2
  <2>3. CASE ~(l <= n + k)
    BY <1>1, <1>4, <2>3
  <2> QED
    BY <2>1, <2>2, <2>3
<1>11. OnlyJunkAdded(long, whole)
  <2>1. PICK longer \in [1..Len(whole) -> 1..Len(long)] : longer = to
    BY <1>3, <1>6
  <2>2. \A i \in 1..Len(whole) : long[longer[i]] = whole[i]
    BY <1>3, <1>8, <2>1
  <2>3. \A i, j \in 1..Len(whole) : i < j => longer[i] < longer[j]
    BY <1>3, <1>9, <2>1
  <2>4. \A l \in 1..Len(long) :
          long[l] = Junk \/ \E i \in 1..Len(whole) : longer[i] = l
    BY <1>3, <1>10, <2>1
  <2> QED
    BY <2>2, <2>3, <2>4 DEF OnlyJunkAdded
<1> QED
  BY <1>11 DEF long, whole

(* A beginning of a text is a text.                                        *)
LEMMA Beginning ==
  ASSUME NEW p \in Seq(Nat), NEW m \in 0..Len(p)
  PROVE  SubSeq(p, 1, m) \in Seq(Nat)
<1>1. m \in Int /\ \A i \in 1..m : p[i] \in Nat
  BY ElementOfSeq
<1> QED
  BY <1>1, SubSeqProperties

(* What is read and what is to be read are the two parts of a text, and a  *)
(* chunk moves from the one to the other.                                  *)
LEMMA Parts ==
  ASSUME NEW p \in Seq(Nat), NEW d \in 0..Len(p), NEW n \in 0..d
  PROVE  LET rest == SubSeq(p, Len(p) - d + 1, Len(p))
         IN  /\ rest \in Seq(Nat) /\ Len(rest) = d
             /\ SubSeq(p, 1, Len(p) - (d - n))
                  = SubSeq(p, 1, Len(p) - d) \o SubSeq(rest, 1, n)
             /\ SubSeq(rest, n + 1, Len(rest))
                  = SubSeq(p, Len(p) - (d - n) + 1, Len(p))
<1> DEFINE l == Len(p)
           rest == SubSeq(p, l - d + 1, l)
<1>1. l \in Nat /\ d \in Nat /\ n \in Nat /\ d <= l /\ n <= d
  OBVIOUS
<1>2. /\ rest \in Seq(Nat) /\ Len(rest) = d
      /\ \A i \in 1..d : rest[i] = p[l - d + i]
  <2>1. /\ Len(rest) = IF l - d + 1 <= l THEN l - (l - d + 1) + 1 ELSE 0
        /\ \A i \in 1..(l - (l - d + 1) + 1) : rest[i] = p[l - d + 1 + i - 1]
        /\ rest \in Seq(Nat)
    BY <1>1
  <2>2. l - (l - d + 1) + 1 = d /\ Len(rest) = d
    BY <1>1, <2>1
  <2>3. \A i \in 1..d : l - d + 1 + i - 1 = l - d + i
    BY <1>1
  <2> QED
    BY <2>1, <2>2, <2>3
<1> DEFINE c == SubSeq(rest, 1, n)
           a == SubSeq(p, 1, l - d)
           b == SubSeq(p, 1, l - (d - n))
           e == SubSeq(rest, n + 1, d)
           f == SubSeq(p, l - (d - n) + 1, l)
<1>3. a \in Seq(Nat) /\ Len(a) = l - d /\ \A i \in 1..(l - d) : a[i] = p[i]
  BY <1>1
<1>4. b \in Seq(Nat) /\ Len(b) = l - (d - n)
      /\ \A i \in 1..(l - (d - n)) : b[i] = p[i]
  BY <1>1
<1>5. /\ f \in Seq(Nat) /\ Len(f) = d - n
      /\ \A i \in 1..(d - n) : f[i] = p[l - (d - n) + i]
  <2>1. /\ Len(f) = IF l - (d - n) + 1 <= l THEN l - (l - (d - n) + 1) + 1 ELSE 0
        /\ \A i \in 1..(l - (l - (d - n) + 1) + 1) :
             f[i] = p[l - (d - n) + 1 + i - 1]
        /\ f \in Seq(Nat)
    BY <1>1
  <2>2. l - (l - (d - n) + 1) + 1 = d - n /\ Len(f) = d - n
    BY <1>1, <2>1
  <2>3. \A i \in 1..(d - n) : l - (d - n) + 1 + i - 1 = l - (d - n) + i
    BY <1>1
  <2> QED
    BY <2>1, <2>2, <2>3
<1> HIDE DEF rest, l
<1>6. c \in Seq(Nat) /\ Len(c) = n /\ \A i \in 1..n : c[i] = rest[i]
  BY <1>1, <1>2
<1>7. /\ e \in Seq(Nat) /\ Len(e) = d - n
      /\ \A i \in 1..(d - n) : e[i] = rest[n + i]
  <2>1. /\ Len(e) = IF n + 1 <= d THEN d - (n + 1) + 1 ELSE 0
        /\ \A i \in 1..(d - (n + 1) + 1) : e[i] = rest[n + 1 + i - 1]
        /\ e \in Seq(Nat)
    BY <1>1, <1>2
  <2>2. d - (n + 1) + 1 = d - n /\ Len(e) = d - n
    BY <1>1, <2>1
  <2>3. \A i \in 1..(d - n) : n + 1 + i - 1 = n + i
    BY <1>1
  <2> QED
    BY <2>1, <2>2, <2>3
<1> HIDE DEF a, b, c, e, f
<1>8. b = a \o c
  <2>1. /\ a \o c \in Seq(Nat) /\ Len(a \o c) = Len(a) + Len(c)
        /\ \A i \in 1..(Len(a) + Len(c)) :
             (a \o c)[i] = IF i <= Len(a) THEN a[i] ELSE c[i - Len(a)]
    BY <1>3, <1>6, ConcatProperties
  <2>2. Len(a) + Len(c) = l - (d - n)
    BY <1>1, <1>3, <1>6
  <2>3. ASSUME NEW i \in 1..(l - (d - n)) PROVE b[i] = (a \o c)[i]
    <3>1. CASE i <= l - d
      <4>1. i \in 1..(l - d)
        BY <1>1, <3>1
      <4> QED
        BY <1>3, <1>4, <2>1, <2>2, <3>1, <4>1
    <3>2. CASE ~(i <= l - d)
      <4>1. i - (l - d) \in 1..n /\ i - (l - d) \in 1..d /\ l - d + (i - (l - d)) = i
        BY <1>1, <3>2
      <4>2. c[i - (l - d)] = p[i]
        BY <1>2, <1>6, <4>1
      <4> QED
        BY <1>3, <1>4, <2>1, <2>2, <3>2, <4>2
    <3> QED
      BY <3>1, <3>2
  <2> QED
    BY <1>4, <2>1, <2>2, <2>3, SeqEqual
<1>9. e = f
  <2>1. ASSUME NEW i \in 1..(d - n) PROVE e[i] = f[i]
    <3>1. n + i \in 1..d /\ l - d + (n + i) = l - (d - n) + i
      BY <1>1
    <3>2. rest[n + i] = p[l - (d - n) + i]
      BY <1>2, <3>1
    <3> QED
      BY <1>5, <1>7, <3>2
  <2> QED
    BY <1>5, <1>7, <2>1, SeqEqual
<1> QED
  BY <1>2, <1>8, <1>9 DEF a, b, c, e, f, rest, l

(* A connection added at the end of a list, or taken from its start.       *)
In(s, x) == \E i \in 1..Len(s) : s[i] = x
Once(s) == \A i, j \in 1..Len(s) : s[i] = s[j] => i = j

(* Adding one that is not in the list keeps each in it once.               *)
LEMMA AddLast ==
  ASSUME NEW S, NEW s \in Seq(S), NEW e \in S, Once(s), ~In(s, e)
  PROVE  /\ Once(Append(s, e))
         /\ \A x : In(Append(s, e), x) <=> In(s, x) \/ x = e
<1> DEFINE n == Len(s)
           l == Append(s, e)
<1>1. n \in Nat /\ Len(l) = n + 1 /\ l[n + 1] = e /\ \A i \in 1..n : l[i] = s[i]
  OBVIOUS
<1> HIDE DEF n, l
<1>2. \A i \in 1..(n + 1) : i = n + 1 \/ i \in 1..n
  BY <1>1
<1>3. \A i \in 1..n : i \in 1..(n + 1)
  BY <1>1
<1>4. n + 1 \in 1..(n + 1)
  BY <1>1
<1>5. \A i \in 1..n : l[i] # e
  BY <1>1 DEF In, n
<1>6. Once(l)
  BY <1>1, <1>2, <1>5 DEF Once, n
<1>7. \A x : In(l, x) <=> In(s, x) \/ x = e
  BY <1>1, <1>2, <1>3, <1>4 DEF In, n
<1> QED
  BY <1>6, <1>7 DEF l

(* What is taken from a list is in it no more; the others still are.       *)
LEMMA TakeFirst ==
  ASSUME NEW S, NEW s \in Seq(S), s # <<>>, Once(s)
  PROVE  /\ In(s, Head(s)) /\ Once(Tail(s))
         /\ \A x : In(Tail(s), x) <=> In(s, x) /\ x # Head(s)
<1> DEFINE n == Len(s)
           t == Tail(s)
           h == Head(s)
<1>1. /\ n \in Nat /\ n >= 1 /\ Len(t) = n - 1 /\ h = s[1]
      /\ \A i \in 1..(n - 1) : t[i] = s[i + 1]
  OBVIOUS
<1> HIDE DEF n, t, h
<1>2. 1 \in 1..n /\ \A i \in 1..(n - 1) : i + 1 \in 1..n /\ i + 1 # 1
  BY <1>1
<1>3. \A i \in 1..n : i = 1 \/ (i - 1 \in 1..(n - 1) /\ (i - 1) + 1 = i)
  BY <1>1
<1>4. \A i, j \in 1..(n - 1) : i + 1 = j + 1 => i = j
  BY <1>1
<1>5. \A i, j \in 1..n : s[i] = s[j] => i = j
  BY DEF Once, n
<1>6. In(s, h)
  BY <1>1, <1>2 DEF In, n
<1>7. Once(t)
  BY <1>1, <1>2, <1>4, <1>5 DEF Once
<1>8. ASSUME NEW x, In(t, x) PROVE In(s, x) /\ x # h
  BY <1>1, <1>2, <1>5, <1>8 DEF In, n
<1>9. ASSUME NEW x, In(s, x), x # h PROVE In(t, x)
  <2>1. PICK i \in 1..n : s[i] = x
    BY <1>9 DEF In, n
  <2>2. i - 1 \in 1..(n - 1) /\ (i - 1) + 1 = i
    BY <1>1, <1>3, <1>9, <2>1
  <2>3. t[i - 1] = x
    BY <1>1, <2>1, <2>2
  <2> QED
    BY <1>1, <2>2, <2>3 DEF In
<1> QED
  BY <1>6, <1>7, <1>8, <1>9 DEF t, h

(* Who has ended stays ended, and nobody goes back to the start.           *)
LEMMA AdminsGoOn ==
  ASSUME IInv, [Next]_vars, NEW a \in Admins
  PROVE  /\ admin[a] \in {"closed", "reset"} => admin'[a] = admin[a]
         /\ admin[a] \notin {"ready", "refused"} =>
              admin'[a] \notin {"ready", "refused"}
<1>1. admin \in [Admins -> AdminStates]
  BY DEF IInv, TypeOK, FramingTypeOK
<1>2. CASE UNCHANGED admin
  BY <1>2
<1>3. CASE ListenerStarved
  BY <1>1, <1>3 DEF ListenerStarved
<1>4. ASSUME NEW b \in Admins, AdminStep(b)
      PROVE  /\ admin[a] \in {"closed", "reset"} => admin'[a] = admin[a]
             /\ admin[a] \notin {"ready", "refused"} =>
                  admin'[a] \notin {"ready", "refused"}
  BY <1>1, <1>4 DEF AdminStep, AdminConnect, AdminSendLength, AdminSendText,
     AdminClose, AdminReset
<1> QED
  BY <1>2, <1>3, <1>4 DEF Next, Listener, Manager, ListenerInit, ListenerWaits,
     ListenerTakes, ListenerRecvLength, ListenerRecvChunk, ListenerSpins,
     ListenerReceived, ListenerInsert, ListenerClose, ManagePop, ManageSleep,
     ManageConnect, ManageConnectFails, ManageSend, ManageSendFails,
     ManageTerminate, ControllerGone, Exited, RecvLength, RecvChunk, RecvSpins,
     RecvFails, vars, framingVars

(* What may be saved of an Admin's policy still may after a step.          *)
LEMMA SavedStays ==
  ASSUME IInv, [Next]_vars, NEW a \in Admins, NEW text, SavedOf(a, text)
  PROVE  SavedOf(a, text)'
<1>1. admin[a] \in {"closed", "reset"} => admin'[a] = admin[a]
  BY AdminsGoOn
<1> QED
  BY <1>1 DEF SavedOf

(* The steps that leave the listener's connections, and what it reads, as  *)
(* they are: all but these.                                                *)
Quiet == UNCHANGED <<framingVars, listenerVars>>

(* A step is quiet, or one of the listener or of an Admin's connection.    *)
LEMMA NextCases ==
  ASSUME [Next]_vars
  PROVE  \/ Quiet
         \/ ListenerInit \/ ListenerWaits \/ ListenerStarved \/ ListenerTakes
         \/ ListenerRecvLength \/ ListenerRecvChunk \/ ListenerReceived
         \/ ListenerInsert \/ ListenerClose
         \/ \E a \in Admins : AdminStep(a)
BY DEF Next, Listener, Manager, ListenerSpins, ManagePop, ManageSleep,
   ManageConnect, ManageConnectFails, ManageSend, ManageSendFails,
   ManageTerminate, ControllerGone, Exited, RecvSpins, vars, Quiet

(* PlaceInv, in terms of lists.                                            *)
LEMMA Places ==
  PlaceInv <=>
    /\ Once(backlog)
    /\ \A a \in Admins :
         /\ In(backlog, a) => clientSock # a
         /\ In(backlog, a) \/ clientSock = a \/ Served(a) =>
              admin[a] \notin {"ready", "refused"}
         /\ Served(a) => ~In(backlog, a) /\ (clientSock = a => lpc = "close")
    /\ \A i, j \in 1..Len(inserted) :
         inserted[i].from = inserted[j].from => i = j
BY DEF PlaceInv, Once, In, InBacklog

(* A connection stays at one place at a time.                              *)
LEMMA PlaceStep ==
  ASSUME IInv, PlaceInv, [Next]_vars
  PROVE  PlaceInv'
<1>1. backlog \in Seq(Admins) /\ clientSock \in Admins \cup {Nobody}
  BY DEF IInv, TypeOK, FramingTypeOK, DeployerTypeOK
<1>2. /\ Once(backlog)
      /\ \A a \in Admins :
           /\ In(backlog, a) => clientSock # a
           /\ In(backlog, a) \/ clientSock = a \/ Served(a) =>
                admin[a] \notin {"ready", "refused"}
           /\ Served(a) => ~In(backlog, a) /\ (clientSock = a => lpc = "close")
      /\ \A i, j \in 1..Len(inserted) :
           inserted[i].from = inserted[j].from => i = j
  BY Places
<1>3. \A a \in Admins : admin[a] \notin {"ready", "refused"} =>
                          admin'[a] \notin {"ready", "refused"}
  BY AdminsGoOn
<1> SUFFICES /\ Once(backlog')
             /\ \A a \in Admins :
                  /\ In(backlog', a) => clientSock' # a
                  /\ In(backlog', a) \/ clientSock' = a \/ Served(a)' =>
                       admin'[a] \notin {"ready", "refused"}
                  /\ Served(a)' => /\ ~In(backlog', a)
                                   /\ clientSock' = a => lpc' = "close"
             /\ \A i, j \in 1..Len(inserted') :
                  inserted'[i].from = inserted'[j].from => i = j
  <2>1. PlaceInv' <=>
          /\ Once(backlog')
          /\ \A a \in Admins :
               /\ In(backlog', a) => clientSock' # a
               /\ In(backlog', a) \/ clientSock' = a \/ Served(a)' =>
                    admin'[a] \notin {"ready", "refused"}
               /\ Served(a)' => /\ ~In(backlog', a)
                                /\ clientSock' = a => lpc' = "close"
          /\ \A i, j \in 1..Len(inserted') :
               inserted'[i].from = inserted'[j].from => i = j
    BY DEF PlaceInv, Once, In, InBacklog
  <2> QED
    BY <2>1
<1>4. CASE /\ UNCHANGED <<backlog, clientSock, inserted>>
           /\ lpc' = lpc \/ lpc # "close"
  <2>1. \A a \in Admins : Served(a)' <=> Served(a)
    BY <1>4 DEF Served
  <2> QED
    BY <1>2, <1>3, <1>4, <2>1
<1>5. ASSUME UNCHANGED inserted PROVE \A a \in Admins : Served(a)' <=> Served(a)
  BY <1>5 DEF Served
<1>6. CASE ListenerStarved
  <2>1. backlog' = <<>> /\ UNCHANGED <<clientSock, inserted>> /\ lpc # "close"
    BY <1>6 DEF ListenerStarved, At
  <2>2. Once(backlog') /\ \A a : ~In(backlog', a)
    BY <2>1 DEF Once, In
  <2> QED
    BY <1>2, <1>3, <1>5, <2>1, <2>2
<1>7. CASE ListenerTakes
  <2>1. /\ backlog # <<>> /\ clientSock' = Head(backlog)
        /\ backlog' = Tail(backlog) /\ UNCHANGED inserted
    BY <1>7 DEF ListenerTakes
  <2>2. /\ In(backlog, Head(backlog)) /\ Once(Tail(backlog))
        /\ \A x : In(Tail(backlog), x) <=> In(backlog, x) /\ x # Head(backlog)
    BY <1>1, <1>2, <2>1, TakeFirst
  <2> QED
    BY <1>2, <1>3, <1>5, <2>1, <2>2
<1>8. CASE ListenerInsert
  <2> DEFINE n == Len(inserted)
  <2>1. /\ lpc = "insert" /\ lpc' = "close" /\ UNCHANGED <<backlog, clientSock>>
        /\ inserted' = Append(inserted, [from |-> clientSock, text |-> data])
        /\ clientSock \in Admins
    BY <1>8 DEF ListenerInsert, At, framingVars, IInv, OpenInv
  <2>2. ~Served(clientSock) /\ ~In(backlog, clientSock)
    BY <1>2, <2>1
  <2>3. inserted \in Seq([from : Admins, text : Seq(Nat)]) /\ n \in Nat
    BY DEF IInv, TypeOK, DeployerTypeOK
  <2>4. /\ Len(inserted') = n + 1 /\ inserted'[n + 1].from = clientSock
        /\ \A i \in 1..n : inserted'[i] = inserted[i]
    BY <2>1, <2>3
  <2>5. \A i \in 1..n : inserted[i].from # clientSock
    BY <2>2 DEF Served
  <2> HIDE DEF n
  <2>6. \A i \in 1..(n + 1) : i = n + 1 \/ i \in 1..n
    BY <2>3
  <2>7. \A a \in Admins : Served(a)' => Served(a) \/ a = clientSock
    BY <2>4, <2>6 DEF Served, n
  <2>8. \A i, j \in 1..Len(inserted') :
          inserted'[i].from = inserted'[j].from => i = j
    BY <1>2, <2>4, <2>5, <2>6 DEF n
  <2>9. \A a \in Admins : In(backlog', a) <=> In(backlog, a)
    BY <2>1
  <2> QED
    BY <1>2, <1>3, <2>1, <2>2, <2>7, <2>8, <2>9
<1>9. CASE ListenerClose
  <2>1. clientSock' = Nobody /\ UNCHANGED <<backlog, inserted>>
    BY <1>9 DEF ListenerClose, framingVars
  <2>2. Nobody \notin Admins
    BY SocketFramingAssumption
  <2> QED
    BY <1>2, <1>3, <1>5, <2>1, <2>2
<1>10. ASSUME NEW a \in Admins, AdminStep(a), ~UNCHANGED backlog
       PROVE  PlaceInv'
  <2>1. /\ admin[a] = "ready" /\ backlog' = Append(backlog, a)
        /\ admin' = [admin EXCEPT ![a] = "connected"]
        /\ UNCHANGED <<clientSock, inserted, lpc>>
    BY <1>10 DEF AdminStep, AdminConnect, AdminSendLength, AdminSendText,
       AdminClose, AdminReset, listenerVars
  <2>2. ~In(backlog, a) /\ clientSock # a /\ ~Served(a)
    BY <1>2, <2>1
  <2>3. /\ Once(Append(backlog, a))
        /\ \A x : In(Append(backlog, a), x) <=> In(backlog, x) \/ x = a
    BY <1>1, <1>2, <2>2, AddLast
  <2>4. admin'[a] = "connected"
    BY <2>1 DEF IInv, TypeOK, FramingTypeOK
  <2> QED
    BY <1>2, <1>3, <1>5, <2>1, <2>2, <2>3, <2>4 DEF PlaceInv, Once, In, InBacklog
<1>11. CASE \/ Quiet \/ ListenerInit \/ ListenerWaits \/ ListenerRecvLength
            \/ ListenerRecvChunk \/ ListenerReceived
  BY <1>4, <1>11 DEF Quiet, ListenerInit, ListenerWaits, ListenerRecvLength,
     ListenerRecvChunk, ListenerReceived, RecvLength, RecvChunk, RecvFails, At,
     framingVars, listenerVars
<1>12. ASSUME NEW a \in Admins, AdminStep(a), UNCHANGED backlog
       PROVE  PlaceInv'
  <2>1. UNCHANGED <<backlog, clientSock, inserted, lpc>>
    BY <1>12 DEF AdminStep, listenerVars
  <2> QED
    BY <1>2, <1>3, <1>5, <2>1 DEF PlaceInv, Once, In, InBacklog
<1> QED
  BY <1>6, <1>7, <1>8, <1>9, <1>10, <1>11, <1>12, NextCases
     DEF PlaceInv, Once, In, InBacklog

(* A policy is a sequence of bytes, and so is its message.                 *)
LEMMA Policies ==
  ASSUME NEW a \in Admins
  PROVE  /\ PolicyText[a] \in Seq(Nat) /\ Len(PolicyText[a]) \in Nat
         /\ Append(<<>>, Len(PolicyText[a])) = <<Len(PolicyText[a])>>
         /\ <<Len(PolicyText[a])>> # <<>>
         /\ Head(<<Len(PolicyText[a])>>) = Len(PolicyText[a])
         /\ Tail(<<Len(PolicyText[a])>>) = <<>>
         /\ Message(a) # <<>> /\ Head(Message(a)) = Len(PolicyText[a])
         /\ Tail(Message(a)) = PolicyText[a]
<1>1. PolicyText[a] \in Seq(Nat)
  BY SocketFramingAssumption
<1>2. Len(PolicyText[a]) \in Nat
  BY <1>1
<1> DEFINE n == Len(PolicyText[a])
           p == PolicyText[a]
           m == <<n>> \o p
<1>3. /\ Append(<<>>, n) = <<n>> /\ <<n>> # <<>>
      /\ Head(<<n>>) = n /\ Tail(<<n>>) = <<>>
  BY <1>2
<1>4. /\ m \in Seq(Nat) /\ Len(m) = n + 1 /\ m[1] = n
      /\ \A i \in 1..n : m[i + 1] = p[i]
  BY <1>1, <1>2
<1>5. m # <<>>
  BY <1>2, <1>4
<1>6. Head(m) = n
  BY <1>4, <1>5
<1>7. Tail(m) = p
  <2>1. /\ Tail(m) \in Seq(Nat) /\ Len(Tail(m)) = Len(m) - 1
        /\ \A i \in 1..Len(Tail(m)) : Tail(m)[i] = m[i + 1]
    BY <1>4, <1>5, HeadTailProperties
  <2>2. Len(Tail(m)) = n
    BY <1>2, <1>4, <2>1
  <2>3. \A i \in 1..Len(Tail(m)) : Tail(m)[i] = p[i]
    BY <1>4, <2>1, <2>2
  <2> QED
    BY <1>1, <2>1, <2>2, <2>3, SeqEqual
<1> QED
  BY <1>1, <1>2, <1>3, <1>5, <1>6, <1>7 DEF Message

(* An Admin's step on its own stream, while nothing has been read of it.   *)
LEMMA UnreadStep ==
  ASSUME IInv, NEW a \in Admins, AdminStep(a), Unread(a)
  PROVE  Unread(a)'
<1> DEFINE n == Len(PolicyText[a])
<1>1. admin \in [Admins -> AdminStates] /\ stream \in [Admins -> Seq(Nat)]
  BY DEF IInv, TypeOK, FramingTypeOK
<1>2. Append(<<>>, n) = <<n>> /\ Message(a) = <<n>> \o PolicyText[a]
  BY Policies DEF Message
<1>3. CASE \E listening \in BOOLEAN : AdminConnect(a, listening)
  <2>1. admin[a] = "ready" /\ admin'[a] \in {"connected", "refused"}
        /\ UNCHANGED stream
    BY <1>1, <1>3 DEF AdminConnect
  <2> QED
    BY <2>1 DEF Unread
<1>4. CASE AdminSendLength(a)
  <2>1. /\ admin[a] = "connected" /\ admin'[a] = "length"
        /\ stream'[a] = Append(stream[a], n)
    BY <1>1, <1>4 DEF AdminSendLength
  <2> QED
    BY <1>2, <2>1 DEF Unread
<1>5. CASE AdminSendText(a)
  <2>1. /\ admin[a] = "length" /\ admin'[a] = "sent"
        /\ stream'[a] = stream[a] \o PolicyText[a]
    BY <1>1, <1>5 DEF AdminSendText
  <2>2. stream'[a] = Message(a)
    BY <1>2, <2>1 DEF Unread
  <2> QED
    BY <2>1, <2>2 DEF Unread
<1>6. CASE AdminClose(a)
  <2>1. admin'[a] = "closed" /\ UNCHANGED stream
    BY <1>1, <1>6 DEF AdminClose
  <2> QED
    BY <2>1 DEF Unread
<1>7. CASE AdminReset(a)
  <2>1. admin'[a] = "reset" /\ stream'[a] \in {stream[a], <<>>}
    BY <1>1, <1>7 DEF AdminReset
  <2>2. stream'[a] \in {<<>>, <<n>>, Message(a)}
    BY <2>1 DEF Unread
  <2> QED
    BY <2>1, <2>2 DEF Unread
<1> QED
  BY <1>3, <1>4, <1>5, <1>6, <1>7 DEF AdminStep, Listening

(* A step of another Admin leaves an Admin and its stream alone.           *)
LEMMA OtherAdmins ==
  ASSUME IInv, NEW b \in Admins, AdminStep(b), NEW a \in Admins, a # b
  PROVE  admin'[a] = admin[a] /\ stream'[a] = stream[a]
BY DEF AdminStep, AdminConnect, AdminSendLength, AdminSendText, AdminClose,
   AdminReset, IInv, TypeOK, FramingTypeOK

(* A connection of which nothing has been read was one already, and so was *)
(* each in the backlog but the one that is made.                           *)
LEMMA StillNothingRead ==
  ASSUME IInv, [Next]_vars, NEW a \in Admins, NothingRead(a)'
  PROVE  NothingRead(a)
<1>1. backlog \in Seq(Admins) /\ admin \in [Admins -> AdminStates]
  BY DEF IInv, TypeOK, FramingTypeOK
<1>2. CASE admin'[a] \in {"ready", "refused"}
  BY <1>2, AdminsGoOn DEF NothingRead
<1>3. CASE InBacklog(a)'
  <2>1. CASE UNCHANGED backlog
    BY <1>3, <2>1 DEF InBacklog, NothingRead
  <2>2. CASE ListenerStarved
    BY <1>3, <2>2 DEF ListenerStarved, InBacklog
  <2>3. CASE ListenerTakes
    <3>1. backlog # <<>> /\ backlog' = Tail(backlog)
      BY <2>3 DEF ListenerTakes
    <3>2. \A i \in 1..Len(Tail(backlog)) :
            i + 1 \in 1..Len(backlog) /\ Tail(backlog)[i] = backlog[i + 1]
      BY <1>1, <3>1
    <3> QED
      BY <1>3, <3>1, <3>2 DEF InBacklog, NothingRead
  <2>4. ASSUME NEW b \in Admins, AdminStep(b), ~UNCHANGED backlog
        PROVE  NothingRead(a)
    <3>1. backlog' = Append(backlog, b) /\ admin[b] = "ready"
      BY <2>4 DEF AdminStep, AdminConnect, AdminSendLength, AdminSendText,
         AdminClose, AdminReset
    <3>2. PICK i \in 1..Len(backlog') : backlog'[i] = a
      BY <1>3 DEF InBacklog
    <3>3. CASE i \in 1..Len(backlog)
      BY <1>1, <3>1, <3>2, <3>3 DEF InBacklog, NothingRead
    <3>4. CASE i \notin 1..Len(backlog)
      <4>1. a = b
        BY <1>1, <3>1, <3>2, <3>4
      <4> QED
        BY <3>1, <4>1 DEF NothingRead
    <3> QED
      BY <3>3, <3>4
  <2>5. CASE \/ Quiet \/ ListenerInit \/ ListenerWaits \/ ListenerRecvLength
             \/ ListenerRecvChunk \/ ListenerReceived \/ ListenerInsert
             \/ ListenerClose
    BY <2>1, <2>5 DEF Quiet, ListenerInit, ListenerWaits, ListenerRecvLength,
       ListenerRecvChunk, ListenerReceived, ListenerInsert, ListenerClose,
       RecvLength, RecvChunk, RecvFails, framingVars
  <2> QED
    BY <2>1, <2>2, <2>3, <2>4, <2>5, NextCases
<1>4. CASE clientSock' = a /\ lpc' = "length"
  <2>1. CASE ListenerTakes
    <3>1. a = Head(backlog) /\ backlog # <<>>
      BY <1>4, <2>1 DEF ListenerTakes
    <3>2. 1 \in 1..Len(backlog) /\ Head(backlog) = backlog[1]
      BY <1>1, <3>1
    <3> QED
      BY <3>1, <3>2 DEF NothingRead, InBacklog
  <2>2. CASE ~ListenerTakes
    BY <1>4, <2>2, NextCases DEF NothingRead, Quiet, ListenerInit,
       ListenerWaits, ListenerStarved, ListenerRecvLength, ListenerRecvChunk,
       ListenerReceived, ListenerInsert, ListenerClose, AdminStep, listenerVars
  <2> QED
    BY <2>1, <2>2
<1> QED
  BY <1>2, <1>3, <1>4 DEF NothingRead

(* What is on the wire of a connection nothing has been read of.           *)
LEMMA WireStep ==
  ASSUME IInv, PlaceInv, WireInv, [Next]_vars
  PROVE  WireInv'
<1> SUFFICES ASSUME NEW a \in Admins, NothingRead(a)' PROVE Unread(a)'
  BY DEF WireInv
<1>1. NothingRead(a) /\ Unread(a)
  BY StillNothingRead DEF WireInv
<1>2. admin \in [Admins -> AdminStates] /\ stream \in [Admins -> Seq(Nat)]
  BY DEF IInv, TypeOK, FramingTypeOK
<1>3. ASSUME UNCHANGED <<admin, stream>> PROVE Unread(a)'
  BY <1>1, <1>3 DEF Unread
<1>4. ASSUME admin'[a] = admin[a], stream'[a] = stream[a] PROVE Unread(a)'
  BY <1>1, <1>4 DEF Unread
<1>5. CASE ListenerStarved
  <2>1. lpc' = "returned" /\ backlog' = <<>> /\ UNCHANGED stream
        /\ admin'[a] \in {"reset", admin[a]}
    BY <1>2, <1>5 DEF ListenerStarved
  <2>2. admin'[a] \in {"ready", "refused"}
    BY <2>1 DEF NothingRead, InBacklog
  <2> QED
    BY <1>4, <2>1, <2>2
<1>6. CASE ListenerRecvLength \/ ListenerRecvChunk
  <2>1. /\ clientSock \in Admins /\ UNCHANGED <<admin, backlog, clientSock>>
        /\ lpc' # "length"
        /\ \A b \in Admins : b # clientSock => stream'[b] = stream[b]
    BY <1>2, <1>6 DEF ListenerRecvLength, ListenerRecvChunk, RecvLength,
       RecvChunk, At, listenerVars, IInv, OpenInv
  <2>2. clientSock # a
    BY <2>1 DEF NothingRead, PlaceInv, InBacklog
  <2> QED
    BY <1>4, <2>1, <2>2
<1>7. ASSUME NEW b \in Admins, AdminStep(b) PROVE Unread(a)'
  BY <1>1, <1>4, <1>7, UnreadStep, OtherAdmins
<1>8. CASE \/ Quiet \/ ListenerInit \/ ListenerWaits \/ ListenerTakes
           \/ ListenerReceived \/ ListenerInsert \/ ListenerClose
  BY <1>3, <1>8 DEF Quiet, ListenerInit, ListenerWaits, ListenerTakes,
     ListenerReceived, ListenerInsert, ListenerClose, RecvFails, framingVars
<1> QED
  BY <1>5, <1>6, <1>7, <1>8, NextCases

(* Nothing added to nothing; and where a reading begins and ends.          *)
LEMMA NothingAdded == OnlyJunkAdded(<<>>, <<>>)
<1>1. Len(<<>>) = 0 /\ 1..0 = {}
  OBVIOUS
<1>2. PICK at \in [1..Len(<<>>) -> 1..Len(<<>>)] : TRUE
  <2>1. [i \in 1..Len(<<>>) |-> i] \in [1..Len(<<>>) -> 1..Len(<<>>)]
    OBVIOUS
  <2> QED
    BY <2>1
<1> QED
  BY <1>1, <1>2 DEF OnlyJunkAdded

(* With all of it to come nothing is read, with nothing to come all is.    *)
LEMMA Ends ==
  ASSUME NEW p \in Seq(Nat)
  PROVE  /\ SubSeq(p, 1, Len(p) - 0) = p
         /\ SubSeq(p, 1, Len(p) - Len(p)) = <<>>
         /\ SubSeq(p, Len(p) - Len(p) + 1, Len(p)) = p
<1>1. Len(p) \in Nat
  OBVIOUS
<1>2. SubSeq(p, 1, Len(p)) = p
  BY SubSeqFull
<1>3. SubSeq(p, 1, 0) = <<>>
  BY SubSeqEmpty
<1>4. Len(p) - 0 = Len(p) /\ Len(p) - Len(p) = 0 /\ 0 + 1 = 1
  BY <1>1
<1> QED
  BY <1>2, <1>3, <1>4

(* The length is read: all of the policy is still to come.                 *)
LEMMA ReadStart ==
  ASSUME IInv, PlaceInv, WireInv, ListenerRecvLength
  PROVE  ReadInv'
<1> DEFINE c == clientSock
<1>1. /\ c \in Admins /\ lpc = "length" /\ lpc' = "data"
      /\ UNCHANGED <<clientSock, admin>> /\ data' = <<>>
  BY DEF ListenerRecvLength, RecvLength, At, IInv, OpenInv
<1>2. PICK a \in Admins : a = clientSock
  BY <1>1
<1> DEFINE p == PolicyText[a]
           n == Len(p)
<1>3. stream \in [Admins -> Seq(Nat)] /\ admin \in [Admins -> AdminStates]
  BY DEF IInv, TypeOK, FramingTypeOK
<1>4. Unread(a) /\ admin[a] \notin {"ready", "refused"}
  BY <1>1, <1>2 DEF WireInv, NothingRead, PlaceInv
<1>5. p \in Seq(Nat) /\ n \in Nat
  BY Policies
<1>6. CASE /\ stream[a] # <<>> /\ dataLen' = Head(stream[a])
           /\ stream' = [stream EXCEPT ![a] = Tail(@)]
  <2>1. stream[a] \in {<<n>>, Message(a)} /\ stream'[a] = Tail(stream[a])
    BY <1>3, <1>4, <1>6 DEF Unread
  <2>2. dataLen' = n
    BY <1>6, <2>1, Policies
  <2>3. /\ stream'[a] \in {<<>>, p}
        /\ stream[a] = <<n>> => stream'[a] = <<>>
        /\ stream[a] = Message(a) => stream'[a] = p
    BY <2>1, Policies
  <2>4. ToRead(a)' = p
    BY <1>5, <2>2, Ends DEF ToRead
  <2>5. OnlyJunkAdded(data', ReadButFor(a, dataLen'))
    <3>1. ReadButFor(a, dataLen') = <<>>
      BY <1>5, <2>2, Ends DEF ReadButFor
    <3> QED
      BY <1>1, <3>1, NothingAdded
  <2>6. /\ admin[a] \in {"length", "sent", "closed", "reset"}
        /\ admin[a] = "length" => stream'[a] = <<>>
        /\ admin[a] = "sent" => stream'[a] = p
    BY <1>3, <1>4, <1>6, <2>3 DEF Unread, AdminStates
  <2>7. ReadingOf(a)'
    BY <1>1, <1>5, <2>2, <2>3, <2>4, <2>5, <2>6 DEF ReadingOf
  <2> QED
    BY <1>1, <1>2, <2>7 DEF ReadInv
<1>7. CASE Ended(a) /\ dataLen' = 0
  <2>1. ReadingOf(a)'
    BY <1>1, <1>7 DEF Ended, ReadingOf
  <2> QED
    BY <1>1, <1>2, <2>1 DEF ReadInv
<1> QED
  BY <1>2, <1>6, <1>7 DEF ListenerRecvLength, RecvLength

(* A chunk is read: it moves to what is read, with junk behind it or not.  *)
LEMMA ReadMore ==
  ASSUME IInv, ReadInv, ListenerRecvChunk
  PROVE  ReadInv'
<1>1. /\ clientSock \in Admins /\ lpc = "data" /\ lpc' = "data"
      /\ UNCHANGED <<clientSock, admin>> /\ dataLen > 0
  BY DEF ListenerRecvChunk, RecvChunk, At, IInv, OpenInv, listenerVars
<1>2. PICK a \in Admins : a = clientSock
  BY <1>1
<1> DEFINE p == PolicyText[a]
           l == Len(p)
<1>3. /\ stream \in [Admins -> Seq(Nat)] /\ dataLen \in Nat /\ data \in Seq(Nat)
      /\ p \in Seq(Nat) /\ l \in Nat
  BY Policies DEF IInv, TypeOK, FramingTypeOK
<1>4. PICK n \in 1..Len(stream[a]) :
        /\ n <= Want
        /\ data' \in Appended(a, n)
        /\ stream' = [stream EXCEPT ![a] = SubSeq(@, n + 1, Len(@))]
        /\ dataLen' = dataLen - n
  BY <1>2 DEF ListenerRecvChunk, RecvChunk
<1>5. /\ dataLen <= l /\ OnlyJunkAdded(data, ReadButFor(a, dataLen))
      /\ stream[a] \in {<<>>, ToRead(a)}
      /\ admin[a] \in {"length", "sent", "closed", "reset"}
      /\ admin[a] = "length" => stream[a] = <<>>
  <2>1. dataLen # 0
    BY <1>1, <1>3
  <2> QED
    BY <1>1, <1>2, <2>1 DEF ReadInv, ReadingOf
<1>6. stream[a] # <<>>
  BY <1>4
<1>7. stream[a] = ToRead(a) /\ admin[a] # "length"
  BY <1>5, <1>6
<1>8. n \in 0..dataLen /\ dataLen \in 0..l /\ n \in Nat
  <2>1. n <= dataLen
    BY <1>3, <1>4, SocketFramingAssumption DEF Want
  <2> QED
    BY <1>3, <1>4, <1>5, <2>1
<1>9. /\ ToRead(a) \in Seq(Nat)
      /\ SubSeq(p, 1, l - (dataLen - n))
           = SubSeq(p, 1, l - dataLen) \o SubSeq(ToRead(a), 1, n)
      /\ SubSeq(ToRead(a), n + 1, Len(ToRead(a)))
           = SubSeq(p, l - (dataLen - n) + 1, l)
  BY <1>3, <1>8, Parts DEF ToRead
<1>10. stream'[a] = ToRead(a)'
  BY <1>3, <1>4, <1>7, <1>9 DEF ToRead
<1>11. OnlyJunkAdded(data', ReadButFor(a, dataLen'))
  <2> DEFINE x == SubSeq(stream[a], 1, n)
             o == ReadButFor(a, dataLen)
  <2>1. PICK tail \in {<<>>, <<Junk>>} : data' = (data \o x) \o tail
    BY <1>4 DEF Appended
  <2>2. x \in Seq(Nat)
    BY <1>3, <1>4
  <2>3. o \in Seq(Nat)
    <3>1. l - dataLen \in 0..l
      BY <1>3, <1>8
    <3> QED
      BY <1>3, <3>1, Beginning DEF ReadButFor
  <2>4. ReadButFor(a, dataLen') = o \o x
    BY <1>4, <1>7, <1>9 DEF ReadButFor
  <2>5. OnlyJunkAdded(data, o)
    BY <1>5
  <2> HIDE DEF x, o
  <2>6. OnlyJunkAdded((data \o x) \o tail, o \o x)
    BY <1>3, <2>2, <2>3, <2>5, JunkAppended
  <2> QED
    BY <2>1, <2>4, <2>6
<1>12. dataLen' <= l
  BY <1>3, <1>4, <1>8
<1>13. ReadingOf(a)'
  BY <1>1, <1>5, <1>7, <1>10, <1>11, <1>12 DEF ReadingOf
<1> QED
  BY <1>1, <1>2, <1>13 DEF ReadInv

(* recv returns: what it has put together is what may be saved.            *)
LEMMA ReadEnd ==
  ASSUME IInv, ReadInv, ListenerReceived
  PROVE  ReadInv'
<1>1. /\ clientSock \in Admins /\ lpc = "data" /\ lpc' = "insert"
      /\ UNCHANGED <<clientSock, framingVars>>
  BY DEF ListenerReceived, RecvFails, At, IInv, OpenInv
<1>2. PICK a \in Admins : a = clientSock
  BY <1>1
<1>3. /\ PolicyText[a] \in Seq(Nat) /\ Len(PolicyText[a]) \in Nat
      /\ dataLen \in Nat
  BY Policies DEF IInv, TypeOK, FramingTypeOK
<1>4. ReadingOf(a)
  BY <1>1, <1>2 DEF ReadInv
<1>5. SavedOf(a, data)
  <2>1. CASE dataLen = 0
    <3>1. ReadButFor(a, dataLen) = PolicyText[a]
      BY <1>3, <2>1, Ends DEF ReadButFor
    <3> QED
      BY <1>4, <3>1 DEF ReadingOf, SavedOf
  <2>2. CASE dataLen # 0
    <3>1. RecvFails(a)
      BY <1>2, <2>2 DEF ListenerReceived
    <3>2. admin[a] = "reset" /\ dataLen \in 0..Len(PolicyText[a])
          /\ OnlyJunkAdded(data, ReadButFor(a, dataLen))
      BY <1>3, <1>4, <2>2, <3>1 DEF RecvFails, ReadingOf
    <3> QED
      BY <3>2 DEF SavedOf
  <2> QED
    BY <2>1, <2>2
<1>6. SavedOf(a, data)'
  BY <1>1, <1>5 DEF SavedOf, framingVars
<1> QED
  BY <1>1, <1>2, <1>6 DEF ReadInv

(* An Admin goes on while the listener reads from it: what it sends is the *)
(* rest of its policy.                                                     *)
LEMMA SentStep ==
  ASSUME IInv, NEW a \in Admins, AdminStep(a), ReadingOf(a)
  PROVE  ReadingOf(a)'
<1> DEFINE p == PolicyText[a]
<1>1. admin \in [Admins -> AdminStates] /\ stream \in [Admins -> Seq(Nat)]
  BY DEF IInv, TypeOK, FramingTypeOK
<1>2. UNCHANGED <<dataLen, data>> /\ ToRead(a)' = ToRead(a)
  BY DEF AdminStep, AdminConnect, AdminSendLength, AdminSendText, AdminClose,
     AdminReset, ToRead
<1>3. admin[a] \in {"length", "sent"}
  BY DEF AdminStep, AdminConnect, AdminSendLength, AdminSendText, AdminClose,
     AdminReset, ReadingOf
<1>4. CASE AdminSendText(a)
  <2>1. /\ admin[a] = "length" /\ admin'[a] = "sent"
        /\ stream'[a] = stream[a] \o p
    BY <1>1, <1>4 DEF AdminSendText
  <2>2. stream[a] = <<>> /\ dataLen = Len(p)
    BY <2>1 DEF ReadingOf
  <2>3. p \in Seq(Nat) /\ <<>> \o p = p
    BY Policies, ConcatEmptySeq
  <2>4. stream'[a] = ToRead(a)
    BY <2>1, <2>2, <2>3, Ends DEF ToRead
  <2> QED
    BY <1>2, <1>3, <2>1, <2>4 DEF ReadingOf
<1>5. CASE AdminClose(a) \/ AdminReset(a)
  <2>1. admin'[a] \in {"closed", "reset"} /\ stream'[a] \in {stream[a], <<>>}
    BY <1>1, <1>5 DEF AdminClose, AdminReset
  <2> QED
    BY <1>2, <1>3, <2>1 DEF ReadingOf
<1> QED
  BY <1>3, <1>4, <1>5 DEF AdminStep, AdminConnect, AdminSendLength

(* What is read, missing and on the wire stay one text.                    *)
LEMMA ReadStep ==
  ASSUME IInv, PlaceInv, WireInv, ReadInv, [Next]_vars
  PROVE  ReadInv'
<1>1. CASE \/ ListenerInit \/ ListenerWaits \/ ListenerStarved \/ ListenerTakes
           \/ ListenerInsert \/ ListenerClose
  BY <1>1 DEF ListenerInit, ListenerWaits, ListenerStarved, ListenerTakes,
     ListenerInsert, ListenerClose, ReadInv
<1>2. CASE Quiet
  BY <1>2 DEF Quiet, framingVars, listenerVars, ReadInv, ReadingOf, SavedOf,
     ToRead
<1>3. ASSUME NEW b \in Admins, AdminStep(b) PROVE ReadInv'
  <2>1. UNCHANGED <<lpc, clientSock, dataLen, data>>
    BY <1>3 DEF AdminStep, AdminConnect, AdminSendLength, AdminSendText,
       AdminClose, AdminReset, listenerVars
  <2>2. CASE lpc \in {"data", "insert"}
    <3>1. PICK a \in Admins : a = clientSock
      BY <2>2 DEF IInv, OpenInv
    <3>2. CASE lpc = "data"
      <4>1. ReadingOf(a)
        BY <3>1, <3>2 DEF ReadInv
      <4>2. ReadingOf(a)'
        <5>1. CASE a = b
          BY <1>3, <4>1, <5>1, SentStep
        <5>2. CASE a # b
          <6>1. admin'[a] = admin[a] /\ stream'[a] = stream[a]
            BY <1>3, <5>2, OtherAdmins
          <6> QED
            BY <2>1, <4>1, <6>1 DEF ReadingOf, ToRead
        <5> QED
          BY <5>1, <5>2
      <4> QED
        BY <2>1, <3>1, <3>2, <4>2 DEF ReadInv
    <3>3. CASE lpc = "insert"
      <4>1. PICK text : text = data
        OBVIOUS
      <4>2. SavedOf(a, text)'
        BY <3>1, <3>3, <4>1, SavedStays DEF ReadInv
      <4> QED
        BY <2>1, <3>1, <3>3, <4>1, <4>2 DEF ReadInv, SavedOf
    <3> QED
      BY <2>2, <3>2, <3>3
  <2> QED
    BY <2>1, <2>2 DEF ReadInv
<1> QED
  BY <1>1, <1>2, <1>3, ReadStart, ReadMore, ReadEnd, NextCases

(* What has been saved stays what may be saved, and an insert adds such a  *)
(* text.                                                                   *)
LEMMA TextsStep ==
  ASSUME IInv, ReadInv, [Next]_vars,
         \A i \in 1..Len(inserted) : SavedOf(inserted[i].from, inserted[i].text)
  PROVE  (\A i \in 1..Len(inserted) :
            SavedOf(inserted[i].from, inserted[i].text))'
<1>1. /\ inserted \in Seq([from : Admins, text : Seq(Nat)])
      /\ \A k \in 1..Len(inserted) : inserted[k].from \in Admins
  <2> DEFINE R == [from : Admins, text : Seq(Nat)]
  <2>1. inserted \in Seq(R) /\ \A r \in R : r.from \in Admins
    BY DEF IInv, TypeOK, DeployerTypeOK
  <2> HIDE DEF R
  <2>2. \A k \in 1..Len(inserted) : inserted[k] \in R
    BY <2>1, ElementOfSeq
  <2> QED
    BY <2>1, <2>2 DEF R
<1> SUFFICES ASSUME NEW i \in 1..Len(inserted')
             PROVE  SavedOf(inserted[i].from, inserted[i].text)'
  OBVIOUS
<1>2. PICK a, text : a = inserted'[i].from /\ text = inserted'[i].text
  OBVIOUS
<1>3. a \in Admins /\ SavedOf(a, text)
  <2>1. CASE ListenerInsert
    <3>1. /\ inserted' = Append(inserted, [from |-> clientSock, text |-> data])
          /\ clientSock \in Admins /\ SavedOf(clientSock, data)
      BY <2>1 DEF ListenerInsert, At, IInv, OpenInv, ReadInv
    <3>2. CASE i \in 1..Len(inserted)
      <4>1. inserted'[i] = inserted[i] /\ inserted[i].from \in Admins
        BY <1>1, <3>1, <3>2
      <4> QED
        BY <1>2, <3>2, <4>1
    <3>3. CASE i \notin 1..Len(inserted)
      <4>1. inserted'[i] = [from |-> clientSock, text |-> data]
        BY <1>1, <3>1, <3>3
      <4> QED
        BY <1>2, <3>1, <4>1
    <3> QED
      BY <3>2, <3>3
  <2>2. CASE ~ListenerInsert
    <3>1. inserted' = inserted
      BY <2>2, NextCases DEF Quiet, ListenerInit, ListenerWaits,
         ListenerStarved, ListenerTakes, ListenerRecvLength, ListenerRecvChunk,
         ListenerReceived, ListenerClose, AdminStep, listenerVars
    <3>2. inserted[i].from \in Admins
      BY <1>1, <3>1
    <3> QED
      BY <1>2, <3>1, <3>2
  <2> QED
    BY <2>1, <2>2
<1>4. SavedOf(a, text)'
  BY <1>3, SavedStays
<1> QED
  BY <1>2, <1>4 DEF SavedOf

(* From where the saved texts are holds at the start ...                   *)
LEMMA InitFromInv == Init => FromInv
<1> SUFFICES ASSUME Init PROVE FromInv
  OBVIOUS
<1>1. backlog = <<>> /\ inserted = <<>> /\ clientSock = Nobody
  BY DEF Init, FramingInit
<1>2. Nobody \notin Admins
  BY SocketFramingAssumption
<1>3. PlaceInv
  BY <1>1, <1>2 DEF PlaceInv, InBacklog, Served
<1>4. WireInv
  BY DEF Init, FramingInit, WireInv, Unread
<1>5. ReadInv
  BY DEF Init, ReadInv
<1> QED
  BY <1>1, <1>3, <1>4, <1>5 DEF FromInv

(* ... and in every reachable state.                                       *)
THEOREM FromInvariance == Spec => [](IInv /\ FromInv)
<1>1. Init => IInv /\ FromInv
  BY InitIInv, InitFromInv
<1>2. IInv /\ FromInv /\ [Next]_vars => (IInv /\ FromInv)'
  BY NextIInv, PlaceStep, WireStep, ReadStep, TextsStep DEF FromInv
<1> QED
  BY <1>1, <1>2, PTL DEF Spec

(* What is saved of an Admin's policy is that policy, with nothing in it   *)
(* but what lay behind a full buffer, or what was read of it before the    *)
(* connection was torn down or ended; once, and of no other Admin          *)
(* (SocketUtil.cpp:19-37, PolicyListener.cpp:49-68).                       *)
THEOREM FromOneAdmin == Spec => []SavedFromOneAdmin
<1>1. FromInv => SavedFromOneAdmin
  BY DEF FromInv, PlaceInv, SavedFromOneAdmin
<1> QED
  BY <1>1, FromInvariance, PTL
=============================================================================
