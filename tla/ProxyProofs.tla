---------------------------- MODULE ProxyProofs ----------------------------
(***************************************************************************)
(* The Proxy for any clients and any number of them: whatever becomes of   *)
(* its sessions, every answer it prints is of the client it is printed     *)
(* for, and no client is skipped, doubled or overtaken.                    *)
(***************************************************************************)
EXTENDS Proxy, SequenceTheorems, TLAPS

(* All of it holds at the start.                                           *)
LEMMA InitIInv == Init => IInv
<1> SUFFICES ASSUME Init PROVE IInv
  OBVIOUS
<1> USE DEF Init
<1>1. TypeOK
  BY DEF TypeOK
<1>2. InHandInv /\ PairInv /\ ResponseIsClients
  BY DEF InHandInv, PairInv, ResponseIsClients
<1>3. NothingSkipped
  BY DEF NothingSkipped, PrintedIPs, InHand, Accepting
<1> QED
  BY <1>1, <1>2, <1>3 DEF IInv

(* The thread of ProxyListener changes nothing but its locals and the list.*)
LEMMA ListenerTypes ==
  ASSUME IInv, Listener
  PROVE  /\ TypeOK' /\ InHandInv'
         /\ UNCHANGED <<proc, mpc, client, msg, linkVars, printed>>
<1> USE DEF IInv, TypeOK, InHandInv, linkVars
<1>1. CASE ListenerInit
  BY <1>1 DEF ListenerInit
<1>2. CASE ListenerInsert
  BY <1>2 DEF ListenerInsert
<1>3. CASE ListenerClose
  BY <1>3 DEF ListenerClose
<1>4. ASSUME NEW ip \in IPs, ListenerAccept(ip)
      PROVE  /\ TypeOK' /\ InHandInv'
             /\ UNCHANGED <<proc, mpc, client, msg, linkVars, printed>>
  BY <1>4 DEF ListenerAccept
<1> QED
  BY <1>1, <1>2, <1>3, <1>4 DEF Listener

(* A request is only put on a session that has nothing under way.          *)
LEMMA SentTypes ==
  ASSUME IInv, Sent, mpc \in {"send", "resend"}, client \in IPs
  PROVE  /\ asked' \in Seq(IPs) /\ replies' = <<>>
         /\ \/ asked' = <<>>
            \/ asked' = <<client>> /\ session' = "up"
<1> USE DEF IInv, TypeOK, PairInv, Sent
<1>1. asked = <<>> /\ replies = <<>>
  OBVIOUS
<1>2. Append(<<>>, client) = <<client>>
  OBVIOUS
<1>3. <<client>> \in Seq(IPs)
  OBVIOUS
<1> QED
  BY <1>1, <1>2, <1>3

(* The main thread keeps the types, has a client while it handles one, and *)
(* has at most the request of this client under way.                       *)
LEMMA ManagerTypes ==
  ASSUME IInv, Manager
  PROVE  TypeOK' /\ InHandInv' /\ PairInv'
<1> USE DEF IInv, TypeOK, InHandInv, PairInv, Running, listenerVars, linkVars
<1>1. ASSUME SetTLSClient("connect", "pop")
      PROVE  TypeOK' /\ InHandInv' /\ PairInv'
  BY <1>1 DEF SetTLSClient, Connected, Terminated
<1>2. ASSUME SetTLSClient("reconnect", "resend")
      PROVE  TypeOK' /\ InHandInv' /\ PairInv'
  BY <1>2 DEF SetTLSClient, Connected, Terminated
<1>3. CASE ManagePop
  BY <1>3 DEF ManagePop
<1>4. CASE ManageSleep
  BY <1>4 DEF ManageSleep, vars
<1>5. CASE ManageSend
  <2>1. CASE SendFails /\ Terminated /\ mpc' = "reconnect" /\ proc' \in AfterExit
    BY <1>5, <2>1, ProxyAssumption DEF ManageSend, Terminated
  <2>2. CASE Sent /\ mpc' = "recv" /\ UNCHANGED proc
    BY <1>5, <2>2, SentTypes DEF ManageSend, Sent
  <2> QED
    BY <1>5, <2>1, <2>2 DEF ManageSend
<1>6. CASE ManageResend
  <2>1. CASE SendFails /\ Terminated /\ proc' = "exited" /\ UNCHANGED mpc
    BY <1>6, <2>1 DEF ManageResend, Terminated
  <2>2. CASE Sent /\ mpc' = "recv" /\ UNCHANGED proc
    BY <1>6, <2>2, SentTypes DEF ManageResend, Sent
  <2> QED
    BY <1>6, <2>1, <2>2 DEF ManageResend
<1>7. CASE ManageRecv
  <2>1. CASE replies = <<client>>
    BY <1>7, <2>1 DEF ManageRecv, RecvMsg
  <2>2. CASE replies = <<>>
    BY <1>7, <2>2 DEF ManageRecv, RecvMsg
  <2> QED
    BY <2>1, <2>2
<1>8. CASE ManagePrint
  BY <1>8 DEF ManagePrint
<1> QED
  BY <1>1, <1>2, <1>3, <1>4, <1>5, <1>6, <1>7, <1>8 DEF Manager

(* The Controller answers what it was asked, or goes away with it.         *)
LEMMA ControllerTypes ==
  ASSUME IInv, ControllerReplies \/ ControllerGone
  PROVE  TypeOK' /\ InHandInv' /\ PairInv'
<1> USE DEF IInv, TypeOK, InHandInv, PairInv, listenerVars
<1>1. CASE ControllerReplies
  <2>1. asked = <<client>> /\ replies = <<>>
    BY <1>1 DEF ControllerReplies
  <2>2. /\ Head(<<client>>) = client /\ Tail(<<client>>) = <<>>
        /\ Append(<<>>, client) = <<client>>
    OBVIOUS
  <2>3. asked' = <<>> /\ replies' = <<client>>
    BY <1>1, <2>1, <2>2 DEF ControllerReplies
  <2> QED
    BY <1>1, <2>1, <2>3 DEF ControllerReplies
<1>2. CASE ControllerGone
  BY <1>2 DEF ControllerGone
<1> QED
  BY <1>1, <1>2

(* What is printed is the response in msg, which is that of the client.    *)
LEMMA ResponseStep ==
  ASSUME IInv, [Next]_vars
  PROVE  ResponseIsClients'
<1>1. CASE UNCHANGED printed
  BY <1>1 DEF IInv, ResponseIsClients
<1>2. CASE ManagePrint
  <2>1. printed' = Append(printed, [ip |-> client, rsp |-> msg])
    BY <1>2 DEF ManagePrint
  <2>2. msg \in {client, NoRsp}
    BY <1>2 DEF ManagePrint, Running, IInv, PairInv
  <2>3. printed \in Seq([ip : IPs, rsp : IPs \cup {NoRsp}])
    BY DEF IInv, TypeOK
  <2> QED
    BY <2>1, <2>2, <2>3 DEF IInv, ResponseIsClients
<1> QED
  BY <1>1, <1>2
     DEF Next, Listener, ListenerInit, ListenerAccept, ListenerInsert,
         ListenerClose, Manager, SetTLSClient, ManagePop, ManageSleep,
         ManageSend, ManageResend, ManageRecv, ControllerReplies,
         ControllerGone, Exited, vars

(* The four places a client can be in are sequences of addresses.          *)
LEMMA PlacesTypes ==
  ASSUME TypeOK, InHandInv
  PROVE  /\ PrintedIPs \in Seq(IPs) /\ Len(PrintedIPs) = Len(printed)
         /\ InHand \in Seq(IPs) /\ Accepting \in Seq(IPs)
<1>1. PrintedIPs \in [1..Len(printed) -> IPs] /\ Len(printed) \in Nat
  <2>1. printed \in Seq([ip : IPs, rsp : IPs \cup {NoRsp}])
    BY DEF TypeOK
  <2>2. /\ Len(printed) \in Nat
        /\ \A i \in 1..Len(printed) : printed[i] \in [ip : IPs, rsp : IPs \cup {NoRsp}]
    BY <2>1, LenProperties, ElementOfSeq
  <2>3. \A i \in 1..Len(printed) : printed[i].ip \in IPs
    BY <2>2
  <2> QED
    BY <2>2, <2>3 DEF PrintedIPs
<1>2. PrintedIPs \in Seq(IPs) /\ Len(PrintedIPs) = Len(printed)
  BY <1>1 DEF PrintedIPs
<1>3. InHand \in Seq(IPs)
  BY DEF InHandInv, InHand
<1>4. Accepting \in Seq(IPs)
  BY DEF InHandInv, Accepting
<1> QED
  BY <1>2, <1>3, <1>4

(* Moving a client from one place to the next does not reorder them.       *)
LEMMA Moves ==
  ASSUME NEW S, NEW p \in Seq(S), NEW h \in S, NEW m \in Seq(S),
         NEW a \in Seq(S)
  PROVE  /\ p \o <<>> = p /\ p \o <<h>> = Append(p, h)
         /\ (p \o m) \o <<h>> = (p \o Append(m, h)) \o <<>>
         /\ m # <<>> =>
              ((p \o <<>>) \o m) \o a = ((p \o <<Head(m)>>) \o Tail(m)) \o a
<1>1. p \o <<>> = p /\ p \o <<h>> = Append(p, h)
  OBVIOUS
<1>2. (p \o m) \o <<h>> = (p \o Append(m, h)) \o <<>>
  <2>1. p \o m \in Seq(S) /\ p \o Append(m, h) \in Seq(S)
    OBVIOUS
  <2>2. (p \o m) \o <<h>> = Append(p \o m, h)
    BY <2>1, AppendIsConcat
  <2>3. p \o Append(m, h) = Append(p \o m, h)
    OBVIOUS
  <2>4. (p \o Append(m, h)) \o <<>> = p \o Append(m, h)
    BY <2>1, ConcatEmptySeq
  <2> QED
    BY <2>2, <2>3, <2>4
<1>3. ASSUME m # <<>> PROVE p \o m = (p \o <<Head(m)>>) \o Tail(m)
  BY <1>3
<1> QED
  BY <1>1, <1>2, <1>3

(* No step of a thread, and no loss of a session, skips, doubles or        *)
(* reorders a client.                                                      *)
LEMMA QueueStep ==
  ASSUME IInv, [Next]_vars
  PROVE  NothingSkipped'
<1> SUFFICES ASSUME proc' = "running"
             PROVE  (PrintedIPs \o InHand \o m_clientList \o Accepting)' = accepted'
  BY DEF NothingSkipped
<1>1. proc = "running" =>
        PrintedIPs \o InHand \o m_clientList \o Accepting = accepted
  BY DEF IInv, NothingSkipped
<1>2. /\ PrintedIPs \in Seq(IPs) /\ InHand \in Seq(IPs)
      /\ Accepting \in Seq(IPs) /\ m_clientList \in Seq(IPs)
      /\ Len(PrintedIPs) = Len(printed)
  BY PlacesTypes DEF IInv, TypeOK
<1>3. CASE /\ UNCHANGED <<PrintedIPs, InHand, m_clientList, Accepting, accepted>>
           /\ proc = "running"
  BY <1>1, <1>3
<1>4. ASSUME NEW ip \in IPs, ListenerAccept(ip)
      PROVE  (PrintedIPs \o InHand \o m_clientList \o Accepting)' = accepted'
  <2>1. /\ UNCHANGED <<PrintedIPs, InHand, m_clientList>>
        /\ Accepting = <<>> /\ Accepting' = <<ip>>
        /\ accepted' = Append(accepted, ip)
    BY <1>4 DEF ListenerAccept, PrintedIPs, InHand, Accepting
  <2>2. PrintedIPs \o InHand \o m_clientList \in Seq(IPs)
    BY <1>2
  <2>3. /\ (PrintedIPs \o InHand \o m_clientList) \o <<>>
             = PrintedIPs \o InHand \o m_clientList
        /\ (PrintedIPs \o InHand \o m_clientList) \o <<ip>>
             = Append(PrintedIPs \o InHand \o m_clientList, ip)
    BY <2>2, Moves
  <2> QED
    BY <1>1, <1>4, <2>1, <2>3 DEF ListenerAccept
<1>5. CASE ListenerInsert
  <2>1. /\ UNCHANGED <<PrintedIPs, InHand, accepted>>
        /\ Accepting = <<clientIP>> /\ Accepting' = <<>>
        /\ m_clientList' = Append(m_clientList, clientIP)
    BY <1>5 DEF ListenerInsert, PrintedIPs, InHand, Accepting
  <2>2. PrintedIPs \o InHand \in Seq(IPs) /\ clientIP \in IPs
    BY <1>2, <1>5 DEF ListenerInsert, IInv, InHandInv
  <2>3. ((PrintedIPs \o InHand) \o m_clientList) \o <<clientIP>>
          = ((PrintedIPs \o InHand) \o Append(m_clientList, clientIP)) \o <<>>
    BY <1>2, <2>2, Moves
  <2> QED
    BY <1>1, <1>5, <2>1, <2>3 DEF ListenerInsert
<1>6. CASE ManagePop
  <2>1. /\ UNCHANGED <<PrintedIPs, Accepting, accepted>>
        /\ m_clientList # <<>> /\ InHand = <<>>
        /\ InHand' = <<Head(m_clientList)>>
        /\ m_clientList' = Tail(m_clientList)
    BY <1>6 DEF ManagePop, Running, listenerVars, PrintedIPs, InHand, Accepting
  <2>2. Head(m_clientList) \in IPs
    BY <1>2, <2>1
  <2> QED
    BY <1>1, <1>2, <1>6, <2>1, <2>2, Moves DEF ManagePop, Running
<1>7. CASE ManagePrint
  <2>1. /\ UNCHANGED <<Accepting, accepted, m_clientList>>
        /\ InHand = <<client>> /\ InHand' = <<>>
    BY <1>7 DEF ManagePrint, Running, listenerVars, InHand, Accepting
  <2>2. PrintedIPs' = Append(PrintedIPs, client)
    <3>1. printed' = Append(printed, [ip |-> client, rsp |-> msg])
      BY <1>7 DEF ManagePrint
    <3>2. printed \in Seq([ip : IPs, rsp : IPs \cup {NoRsp}])
      BY DEF IInv, TypeOK
    <3>3. Len(printed) \in Nat /\ Len(printed') = Len(printed) + 1
      BY <3>1, <3>2
    <3>4. \A i \in 1..(Len(printed) + 1) :
            printed'[i].ip = IF i = Len(printed) + 1 THEN client ELSE printed[i].ip
      BY <3>1, <3>2
    <3>5. PrintedIPs' = [i \in 1..(Len(printed) + 1) |->
                           IF i = Len(printed) + 1 THEN client ELSE PrintedIPs[i]]
      BY <3>3, <3>4 DEF PrintedIPs
    <3>6. client \in IPs
      BY <1>7 DEF ManagePrint, Running, IInv, InHandInv
    <3>7. PrintedIPs' \in Seq(IPs) /\ Len(PrintedIPs') = Len(PrintedIPs) + 1
      <4>1. \A i \in 1..Len(PrintedIPs) : PrintedIPs[i] \in IPs
        BY <1>2, ElementOfSeq
      <4> QED
        BY <1>2, <3>3, <3>5, <3>6, <4>1
    <3>8. \A i \in 1..Len(PrintedIPs') : PrintedIPs'[i] = Append(PrintedIPs, client)[i]
      BY <1>2, <3>3, <3>5, <3>6, <3>7, AppendProperties
    <3> QED
      BY <1>2, <3>6, <3>7, <3>8, AppendProperties, SeqEqual
  <2>3. client \in IPs
    BY <1>7 DEF ManagePrint, Running, IInv, InHandInv
  <2>4. /\ PrintedIPs \o <<client>> = PrintedIPs'
        /\ PrintedIPs' \o <<>> = PrintedIPs'
    BY <1>2, <2>2, <2>3, Moves
  <2> QED
    BY <1>1, <1>7, <2>1, <2>4 DEF ManagePrint, Running
<1>8. CASE ManageSend \/ ManageResend
  <2>1. /\ UNCHANGED <<PrintedIPs, InHand, m_clientList, Accepting, accepted>>
        /\ proc = "running"
    BY <1>8 DEF ManageSend, ManageResend, Running, listenerVars, PrintedIPs,
               InHand, Accepting
  <2> QED
    BY <1>3, <2>1
<1>9. CASE SetTLSClient("connect", "pop") \/ SetTLSClient("reconnect", "resend")
  <2>1. /\ UNCHANGED <<PrintedIPs, InHand, m_clientList, Accepting, accepted>>
        /\ proc = "running"
    BY <1>9 DEF SetTLSClient, Running, listenerVars, PrintedIPs, InHand, Accepting
  <2> QED
    BY <1>3, <2>1
<1>10. CASE ManageRecv
  <2>1. /\ UNCHANGED <<PrintedIPs, InHand, m_clientList, Accepting, accepted>>
        /\ proc = "running"
    BY <1>10 DEF ManageRecv, Running, listenerVars, PrintedIPs, InHand, Accepting
  <2> QED
    BY <1>3, <2>1
<1>11. CASE \/ ListenerInit \/ ListenerClose \/ ManageSleep
            \/ ControllerReplies \/ ControllerGone \/ UNCHANGED vars
  <2>1. /\ UNCHANGED <<PrintedIPs, InHand, m_clientList, Accepting, accepted>>
        /\ proc = "running"
    BY <1>11 DEF ListenerInit, ListenerClose, ManageSleep, ControllerReplies,
                ControllerGone, Running, vars, listenerVars, PrintedIPs,
                InHand, Accepting
  <2> QED
    BY <1>3, <2>1
<1> QED
  BY <1>4, <1>5, <1>6, <1>7, <1>8, <1>9, <1>10, <1>11
     DEF Next, Listener, Manager, Exited

(* The parts together are inductive.                                       *)
LEMMA NextIInv == IInv /\ [Next]_vars => IInv'
<1> SUFFICES ASSUME IInv, [Next]_vars PROVE IInv'
  OBVIOUS
<1>1. TypeOK' /\ InHandInv' /\ PairInv'
  <2>1. CASE Listener
    BY <2>1, ListenerTypes DEF IInv, PairInv, linkVars
  <2>2. CASE Manager
    BY <2>2, ManagerTypes
  <2>3. CASE ControllerReplies \/ ControllerGone
    BY <2>3, ControllerTypes
  <2>4. CASE UNCHANGED vars
    BY <2>4 DEF vars, listenerVars, linkVars, IInv, TypeOK, InHandInv, PairInv
  <2> QED
    BY <2>1, <2>2, <2>3, <2>4 DEF Next, Exited
<1> QED
  BY <1>1, ResponseStep, QueueStep DEF IInv

(* IInv holds in every state of the Proxy.                                 *)
THEOREM Invariance == Spec => []IInv
BY InitIInv, NextIInv, PTL DEF Spec

(* The variables of the Proxy have their types: in particular what it      *)
(* sends is always the address of a client.                                *)
THEOREM TypeCorrect == Spec => []TypeOK
<1>1. IInv => TypeOK
  BY DEF IInv
<1> QED
  BY Invariance, <1>1, PTL

(* What is printed of a client is the answer to that client, or nothing    *)
(* (ProxyManager.cpp:48-65).                                               *)
THEOREM OwnResponses == Spec => []ResponseIsClients
<1>1. IInv => ResponseIsClients
  BY DEF IInv
<1> QED
  BY Invariance, <1>1, PTL

(* While the process runs no client is skipped, doubled or overtaken       *)
(* (ProxyListener.cpp:44-59, ProxyManager.cpp:39-66).                      *)
THEOREM InOrder == Spec => []NothingSkipped
<1>1. IInv => NothingSkipped
  BY DEF IInv
<1> QED
  BY Invariance, <1>1, PTL
=============================================================================
