-------------------------- MODULE ControllerProofs --------------------------
(***************************************************************************)
(* The safety of the Controller for any number of connections, clients,    *)
(* policies, demo entries and descriptors.                                 *)
(***************************************************************************)
EXTENDS Controller, SequenceTheorems, TLAPS

USE TLSServerAssumption, ControllerAssumption

IInv == TypeOK /\ ClientInv /\ SessionInv /\ DenyInv /\ LeakInv

(* The connections to the two ports.                                       *)
LEMMA Ports == /\ ConnsOf("request") = ProxyConns
               /\ ConnsOf("policy") = DeployerConns
               /\ \A s \in Servers : ConnsOf(s) \subseteq Conns
BY DEF ConnsOf, Conns, Port

(* The Controller starts in a state of the invariant.                      *)
LEMMA InitIInv == Init => IInv
<1> SUFFICES ASSUME Init PROVE IInv
  OBVIOUS
<1> USE DEF Init, TLSInit, Servers
<1>1. TypeOK
  <2>1. TLSTypeOK
    BY DEF TLSTypeOK, RemoteStates
  <2>2. policy \in Received
    BY DEF Received
  <2>3. pc \in [Servers \cup {"main"} -> RequestPCs \cup PolicyPCs \cup MainPCs]
    BY DEF RequestPCs, PolicyPCs, MainPCs
  <2>4. pc["request"] \in RequestPCs /\ pc["policy"] \in PolicyPCs
        /\ pc["main"] \in MainPCs
    BY DEF RequestPCs, PolicyPCs, MainPCs
  <2>5. DOMAIN mapPolicy = {} /\ mapPolicy \in [DOMAIN mapPolicy -> BOOLEAN]
    OBVIOUS
  <2>6. loaded \in 0..Len(DemoIPs)
    OBVIOUS
  <2>7. /\ sent \in [Conns -> Seq(Chunks)]
        /\ answered \in [ProxyConns -> Seq([ip : Chunks, verdict : BOOLEAN])]
        /\ inserted \in [DeployerConns -> Seq(Chunks)]
    OBVIOUS
  <2>8. DOMAIN mapPolicy \subseteq Clients
    BY <2>5
  <2>9. m_updateList \in Seq(Chunks) /\ req \in Chunks /\ vRet \in BOOLEAN
        /\ popped \in Nat
    <3>1. m_updateList = <<>> /\ req = Blank /\ popped = 0
      OBVIOUS
    <3>2. vRet \in BOOLEAN
      OBVIOUS
    <3> HIDE DEF Init, TLSInit
    <3> QED
      BY <3>1, <3>2
  <2> HIDE DEF Init, TLSInit
  <2> QED
    BY <2>1, <2>2, <2>3, <2>4, <2>5, <2>6, <2>7, <2>8, <2>9
       DEF TypeOK, ControllerTypeOK
<1>2. ClientInv
  BY DEF ClientInv
<1>3. SessionInv
  BY DEF SessionInv
<1>4. DenyInv
  BY DEF DenyInv, DeniedByDefault
<1>5. LeakInv
  BY DEF LeakInv, NoPolicyLeak
<1> QED
  BY <1>1, <1>2, <1>3, <1>4, <1>5 DEF IInv

(* The typing of the network and of the two TLSServer objects.             *)
LEMMA TLSTypeStep == TypeOK /\ ClientInv /\ [Next]_vars => TLSTypeOK'
<1> SUFFICES ASSUME TypeOK, ClientInv, [Next]_vars PROVE TLSTypeOK'
  OBVIOUS
<1> USE DEF TypeOK, TLSTypeOK, RemoteStates, Servers, tlsVars
<1>1. CASE UNCHANGED vars
  BY <1>1 DEF vars
<1>2. ASSUME NEW s \in Servers, Listener(s) PROVE TLSTypeOK'
  <2>1. CASE ListenerInit(s)
    <3>1. PICK b \in BOOLEAN : bound' = [bound EXCEPT ![s] = b]
      BY <2>1 DEF ListenerInit, SetListener
    <3>2. bound' \in [Servers -> BOOLEAN]
      BY <3>1
    <3> QED
      BY <2>1, <3>2 DEF ListenerInit, SetListener
  <2>2. CASE ListenerWaits(s)
    BY <2>2 DEF ListenerWaits, AcceptWait
  <2>3. CASE ListenerTakes(s)
    <3>1. Head(backlog[s]) \in Conns /\ Tail(backlog[s]) \in Seq(Conns)
      BY <2>3 DEF ListenerTakes, AcceptTakes
    <3>2. backlog' \in [Servers -> Seq(Conns)]
      BY <2>3, <3>1 DEF ListenerTakes, AcceptTakes
    <3>3. m_client' \in [Servers -> Conns \cup {NoConn}] /\ open' \subseteq Conns
      BY <2>3, <3>1 DEF ListenerTakes, AcceptTakes
    <3> QED
      BY <2>3, <3>2, <3>3 DEF ListenerTakes, AcceptTakes
  <2>4. CASE ListenerStarved(s)
    BY <2>4 DEF ListenerStarved, AcceptFails
  <2>5. CASE ListenerHandshake(s)
    <3>1. m_client[s] \in Conns
      BY <2>5 DEF ListenerHandshake, ClientInv
    <3>2. CASE HandshakeOver(s)
      <4>1. m_ssl' \in [Servers -> Conns \cup {Fresh, Midway}]
        <5>1. \/ m_ssl' = m_ssl
              \/ m_ssl' = [m_ssl EXCEPT ![s] = m_client[s]]
          BY <3>2, ZenonT(30) DEF HandshakeOver
        <5> QED
          BY <3>1, <5>1
      <4>2. remote' \in [Conns -> RemoteStates]
        <5>1. \/ remote' = remote
              \/ remote' = [remote EXCEPT ![m_client[s]] = "keyed"]
          BY <3>2, ZenonT(30) DEF HandshakeOver
        <5> QED
          BY <3>1, <5>1
      <4> QED
        BY <3>2, <4>1, <4>2 DEF HandshakeOver
    <3>3. CASE HandshakeFails(s)
      BY <3>3 DEF HandshakeFails
    <3> QED
      BY <2>5, <3>2, <3>3 DEF ListenerHandshake
  <2> QED
    BY <1>2, <2>1, <2>2, <2>3, <2>4, <2>5 DEF Listener
<1>3. ASSUME NEW s \in Servers, NEW ok \in BOOLEAN, NEW msg \in Chunks,
             m_client[s] \in Conns, RecvMsg(s, ok, msg)
      PROVE  TLSTypeOK'
  <2>1. \/ wire' = wire
        \/ /\ wire[m_client[s]] # <<>>
           /\ wire' = [wire EXCEPT ![m_client[s]] = Tail(@)]
    BY <1>3 DEF RecvMsg
  <2>2. wire' \in [Conns -> Seq(Chunks \cup {CloseNotify})]
    <3>1. wire[m_client[s]] # <<>> =>
            Tail(wire[m_client[s]]) \in Seq(Chunks \cup {CloseNotify})
      BY <1>3
    <3>2. CASE wire' = wire
      BY <3>2
    <3>3. CASE /\ wire[m_client[s]] # <<>>
               /\ wire' = [wire EXCEPT ![m_client[s]] = Tail(@)]
      BY <1>3, <3>1, <3>3
    <3> QED
      BY <2>1, <3>2, <3>3
  <2>3. remote' \in [Conns -> RemoteStates]
    BY <1>3 DEF RecvMsg
  <2> QED
    BY <1>3, <2>2, <2>3 DEF RecvMsg
<1>4. CASE RequestRecv
  <2>1. m_client["request"] \in Conns
    BY <1>4 DEF RequestRecv, ClientInv
  <2> QED
    BY <1>3, <1>4, <2>1 DEF RequestRecv
<1>5. CASE PolicyRecv
  <2>1. m_client["policy"] \in Conns
    BY <1>5 DEF PolicyRecv, ClientInv
  <2> QED
    BY <1>3, <1>5, <2>1 DEF PolicyRecv
<1>6. CASE PolicyReset \/ PolicyClose
  <2>1. ResetClient("policy")
    BY <1>6 DEF PolicyReset, PolicyClose
  <2> QED
    BY <2>1 DEF ResetClient
<1>7. CASE RequestValidate \/ RequestReply \/ PolicyInsert \/ MainThread
  <2>1. UNCHANGED tlsVars
    BY <1>7 DEF RequestValidate, RequestReply, PolicyInsert, MainThread,
                LoadDemo, DemoLoaded, ManagePop, ManageSleep, vars
  <2> QED
    BY <2>1
<1>8. CASE Peers
  <2>1. ASSUME NEW c \in Conns, PeerConnects(c) PROVE TLSTypeOK'
    <3>1. Port(c) \in Servers
      BY DEF Port
    <3>2. Append(backlog[Port(c)], c) \in Seq(Conns)
      BY <3>1
    <3>3. backlog' \in [Servers -> Seq(Conns)]
      BY <2>1, <3>1, <3>2 DEF PeerConnects, Connect
    <3> QED
      BY <2>1, <3>3 DEF PeerConnects, Connect
  <2>2. ASSUME NEW c \in Conns, PeerLeaves(c) PROVE TLSTypeOK'
    <3>1. /\ Append(wire[c], CloseNotify) \in Seq(Chunks \cup {CloseNotify})
          /\ <<>> \in Seq(Chunks \cup {CloseNotify})
      OBVIOUS
    <3>2. \/ wire' = wire
          \/ wire' = [wire EXCEPT ![c] = <<>>]
          \/ wire' = [wire EXCEPT ![c] = Append(@, CloseNotify)]
      BY <2>2 DEF PeerLeaves, Leave
    <3>3. wire' \in [Conns -> Seq(Chunks \cup {CloseNotify})]
      <4>1. CASE wire' = wire
        BY <4>1
      <4>2. CASE wire' = [wire EXCEPT ![c] = <<>>]
        BY <3>1, <4>2
      <4>3. CASE wire' = [wire EXCEPT ![c] = Append(@, CloseNotify)]
        BY <3>1, <4>3
      <4> QED
        BY <3>2, <4>1, <4>2, <4>3
    <3> QED
      BY <2>2, <3>3 DEF PeerLeaves, Leave
  <2>3. ASSUME NEW c \in Conns, NEW msg \in Seq(Chunks), PeerSend(c, msg)
        PROVE  TLSTypeOK'
    <3>1. wire[c] \o msg \in Seq(Chunks \cup {CloseNotify})
      OBVIOUS
    <3>2. wire' \in [Conns -> Seq(Chunks \cup {CloseNotify})]
      BY <2>3, <3>1 DEF PeerSend
    <3> QED
      BY <2>3, <3>2 DEF PeerSend
  <2>4. ASSUME NEW c \in ProxyConns, NEW ip \in Clients, ProxySends(c, ip)
        PROVE  TLSTypeOK'
    <3>1. <<ip>> \in Seq(Chunks) /\ c \in Conns
      BY DEF Conns
    <3> QED
      BY <2>3, <2>4, <3>1 DEF ProxySends
  <2>5. ASSUME NEW c \in DeployerConns, NEW p \in Policies,
               DeployerSends(c, p)
        PROVE  TLSTypeOK'
    <3>1. p \in Seq(Chunks)
      OBVIOUS
    <3> QED
      BY <2>3, <2>5, <3>1 DEF DeployerSends, Conns
  <2> QED
    BY <1>8, <2>1, <2>2, <2>4, <2>5 DEF Peers
<1> QED
  BY <1>1, <1>2, <1>4, <1>5, <1>6, <1>7, <1>8
     DEF Next, RequestThread, PolicyThread

(* The typing of the threads and of PolicyManager.                         *)
LEMMA ControllerTypeStep ==
  TypeOK /\ ClientInv /\ [Next]_vars => ControllerTypeOK'
<1> SUFFICES ASSUME TypeOK, ClientInv, [Next]_vars PROVE ControllerTypeOK'
  OBVIOUS
<1> USE DEF TypeOK, ControllerTypeOK, Servers, Goto, mgrVars,
            RequestPCs, PolicyPCs, MainPCs
<1>1. CASE UNCHANGED vars
  BY <1>1 DEF vars
<1>2. ASSUME NEW s \in Servers, Listener(s) PROVE ControllerTypeOK'
  <2>1. CASE ListenerInit(s)
    BY <2>1 DEF ListenerInit
  <2>2. CASE ListenerWaits(s)
    BY <2>2 DEF ListenerWaits
  <2>3. CASE ListenerTakes(s)
    BY <2>3 DEF ListenerTakes
  <2>4. CASE ListenerStarved(s)
    BY <2>4 DEF ListenerStarved, AcceptFailed
  <2>5. CASE ListenerHandshake(s)
    BY <2>5 DEF ListenerHandshake, AcceptFailed
  <2> QED
    BY <1>2, <2>1, <2>2, <2>3, <2>4, <2>5 DEF Listener
<1>3. CASE RequestRecv
  BY <1>3 DEF RequestRecv
<1>4. CASE RequestValidate
  BY <1>4 DEF RequestValidate, Allowed
<1>5. CASE RequestReply
  <2>1. m_client["request"] \in ProxyConns
    BY <1>5, Ports DEF RequestReply, ClientInv, TLSTypeOK
  <2>2. Append(answered[m_client["request"]], [ip |-> req, verdict |-> vRet])
          \in Seq([ip : Chunks, verdict : BOOLEAN])
    <3>1. [ip |-> req, verdict |-> vRet] \in [ip : Chunks, verdict : BOOLEAN]
      BY Zenon
    <3>2. answered[m_client["request"]]
            \in Seq([ip : Chunks, verdict : BOOLEAN])
      BY <2>1
    <3> QED
      BY <3>1, <3>2
  <2>3. answered' \in [ProxyConns -> Seq([ip : Chunks, verdict : BOOLEAN])]
    BY <1>5, <2>1, <2>2 DEF RequestReply
  <2> QED
    BY <1>5, <2>3 DEF RequestReply
<1>6. CASE PolicyReset \/ PolicyClose
  BY <1>6 DEF PolicyReset, PolicyClose
<1>7. CASE PolicyRecv
  <2>1. m_client["policy"] \in DeployerConns
    BY <1>7, Ports DEF PolicyRecv, ClientInv, TLSTypeOK
  <2>2. policy' \in Received
    BY <1>7, <2>1 DEF PolicyRecv, Received
  <2> QED
    BY <1>7, <2>2 DEF PolicyRecv
<1>8. CASE PolicyInsert
  <2>1. policy.from \in DeployerConns /\ policy.text \in Chunks
    BY <1>8 DEF PolicyInsert, ClientInv, Received
  <2>2. /\ Append(m_updateList, policy.text) \in Seq(Chunks)
        /\ Append(inserted[policy.from], policy.text) \in Seq(Chunks)
    BY <2>1
  <2>3. inserted' \in [DeployerConns -> Seq(Chunks)]
    BY <1>8, <2>1, <2>2 DEF PolicyInsert
  <2> QED
    BY <1>8, <2>2, <2>3 DEF PolicyInsert
<1>9. CASE MainThread
  <2>1. CASE LoadDemo
    <3>1. DemoIPs[loaded + 1] \in Clients /\ loaded + 1 \in 0..Len(DemoIPs)
      BY <2>1 DEF LoadDemo
    <3>2. /\ DOMAIN mapPolicy' \subseteq Clients
          /\ mapPolicy' \in [DOMAIN mapPolicy' -> BOOLEAN]
      BY <2>1, <3>1 DEF LoadDemo, updatePolicy
    <3> QED
      BY <2>1, <3>1, <3>2 DEF LoadDemo
  <2>2. CASE DemoLoaded
    BY <2>2 DEF DemoLoaded
  <2>3. CASE ManagePop
    <3>1. m_updateList' \in Seq(Chunks) /\ popped' \in Nat
      BY <2>3 DEF ManagePop
    <3> QED
      BY <2>3, <3>1 DEF ManagePop
  <2>4. CASE ManageSleep
    BY <2>4 DEF ManageSleep, vars
  <2> QED
    BY <1>9, <2>1, <2>2, <2>3, <2>4 DEF MainThread
<1>10. CASE Peers
  <2>1. ASSUME NEW c \in Conns, PeerConnects(c) \/ PeerLeaves(c)
        PROVE  ControllerTypeOK'
    BY <2>1 DEF PeerConnects, PeerLeaves
  <2>2. ASSUME NEW c \in ProxyConns, NEW ip \in Clients, ProxySends(c, ip)
        PROVE  ControllerTypeOK'
    <3>1. Append(sent[c], ip) \in Seq(Chunks) /\ c \in Conns
      BY DEF Conns
    <3>2. sent' \in [Conns -> Seq(Chunks)]
      BY <2>2, <3>1 DEF ProxySends
    <3> QED
      BY <2>2, <3>2 DEF ProxySends
  <2>3. ASSUME NEW c \in DeployerConns, NEW p \in Policies,
               DeployerSends(c, p)
        PROVE  ControllerTypeOK'
    <3>1. p \in Seq(Chunks)
      OBVIOUS
    <3>2. sent' \in [Conns -> Seq(Chunks)]
      BY <2>3, <3>1 DEF DeployerSends
    <3> QED
      BY <2>3, <3>2 DEF DeployerSends
  <2> QED
    BY <1>10, <2>1, <2>2, <2>3 DEF Peers
<1> QED
  BY <1>1, <1>2, <1>3, <1>4, <1>5, <1>6, <1>7, <1>8, <1>9, <1>10
     DEF Next, RequestThread, PolicyThread

(* The two listeners keep to their own ports and descriptors.              *)
LEMMA ClientStep == TypeOK /\ ClientInv /\ [Next]_vars => ClientInv'
<1> SUFFICES ASSUME TypeOK, ClientInv, [Next]_vars PROVE ClientInv'
  OBVIOUS
<1> USE DEF TypeOK, TLSTypeOK, ControllerTypeOK, ClientInv, Servers, Goto,
            tlsVars
<1>1. CASE UNCHANGED vars
  BY <1>1 DEF vars
<1>2. ASSUME NEW s \in Servers, Listener(s) PROVE ClientInv'
  <2>1. CASE ListenerInit(s)
    BY <2>1 DEF ListenerInit, SetListener
  <2>2. CASE ListenerWaits(s)
    BY <2>2 DEF ListenerWaits, AcceptWait
  <2>3. CASE ListenerTakes(s)
    <3>1. Head(backlog[s]) \in ConnsOf(s) /\ Tail(backlog[s]) \in Seq(ConnsOf(s))
      BY <2>3 DEF ListenerTakes, AcceptTakes
    <3> QED
      BY <2>3, <3>1 DEF ListenerTakes, AcceptTakes
  <2>4. CASE ListenerStarved(s)
    BY <2>4 DEF ListenerStarved, AcceptFails, AcceptFailed
  <2>5. CASE ListenerHandshake(s)
    BY <2>5 DEF ListenerHandshake, HandshakeOver, HandshakeFails, AcceptFailed
  <2> QED
    BY <1>2, <2>1, <2>2, <2>3, <2>4, <2>5 DEF Listener
<1>3. CASE RequestRecv
  BY <1>3 DEF RequestRecv, RecvMsg
<1>4. CASE RequestValidate \/ RequestReply
  BY <1>4 DEF RequestValidate, RequestReply
<1>5. CASE PolicyReset \/ PolicyClose
  <2>1. ResetClient("policy")
    BY <1>5 DEF PolicyReset, PolicyClose
  <2>2. m_client["request"] \in ConnsOf("request") => m_client["request"] # m_client["policy"]
    BY Ports DEF Conns
  <2>3. pc["request"] \in {"handshake", "recv", "validate", "reply", "close"} =>
          m_client["request"] \in open'
    BY <2>1, <2>2 DEF ResetClient, Conns
  <2>4. UNCHANGED policy
    BY <1>5 DEF PolicyReset, PolicyClose
  <2>5. CASE pc["policy"] = "reset" /\ pc' = [pc EXCEPT !["policy"] = "accept"]
    BY <2>1, <2>3, <2>4, <2>5 DEF ResetClient
  <2>6. CASE pc["policy"] = "close" /\ pc' = [pc EXCEPT !["policy"] = "insert"]
    BY <2>1, <2>3, <2>4, <2>6 DEF ResetClient
  <2> QED
    BY <1>5, <2>5, <2>6 DEF PolicyReset, PolicyClose
<1>6. CASE PolicyRecv
  <2>1. m_client["policy"] \in DeployerConns
    BY <1>6, Ports DEF PolicyRecv
  <2> QED
    BY <1>6, <2>1 DEF PolicyRecv, RecvMsg
<1>7. CASE PolicyInsert
  BY <1>7 DEF PolicyInsert
<1>8. CASE MainThread
  BY <1>8 DEF MainThread, LoadDemo, DemoLoaded, ManagePop, ManageSleep, vars
<1>9. CASE Peers
  <2>1. ASSUME NEW c \in Conns, PeerConnects(c) PROVE ClientInv'
    <3>1. Port(c) \in Servers /\ c \in ConnsOf(Port(c))
      BY DEF Port, ConnsOf
    <3>2. Append(backlog[Port(c)], c) \in Seq(ConnsOf(Port(c)))
      BY <3>1
    <3> QED
      BY <2>1, <3>1, <3>2 DEF PeerConnects, Connect
  <2>2. ASSUME NEW c \in Conns, PeerLeaves(c) PROVE ClientInv'
    BY <2>2 DEF PeerLeaves, Leave
  <2>3. ASSUME NEW c \in ProxyConns, NEW ip \in Clients, ProxySends(c, ip)
        PROVE  ClientInv'
    BY <2>3 DEF ProxySends, PeerSend
  <2>4. ASSUME NEW c \in DeployerConns, NEW p \in Policies,
               DeployerSends(c, p)
        PROVE  ClientInv'
    BY <2>4 DEF DeployerSends, PeerSend
  <2> QED
    BY <1>9, <2>1, <2>2, <2>3, <2>4 DEF Peers
<1> QED
  BY <1>1, <1>2, <1>3, <1>4, <1>5, <1>6, <1>7, <1>8, <1>9
     DEF Next, RequestThread, PolicyThread

(* Nothing but the first handshake touches the session of RequestListener. *)
LEMMA PinnedStep ==
  TypeOK /\ [Next]_vars /\ m_ssl["request"] \in Conns
    => UNCHANGED m_ssl["request"]
<1> SUFFICES ASSUME TypeOK, [Next]_vars, m_ssl["request"] \in Conns
             PROVE  UNCHANGED m_ssl["request"]
  OBVIOUS
<1> USE DEF TypeOK, TLSTypeOK, Servers, tlsVars
<1>1. CASE UNCHANGED vars
  BY <1>1 DEF vars
<1>2. ASSUME NEW s \in Servers, Listener(s) PROVE UNCHANGED m_ssl["request"]
  <2>1. CASE ListenerHandshake(s)
    BY <2>1 DEF ListenerHandshake, HandshakeOver, HandshakeFails
  <2>2. CASE ~ListenerHandshake(s)
    BY <1>2, <2>2 DEF Listener, ListenerInit, SetListener, ListenerWaits,
       AcceptWait, ListenerTakes, AcceptTakes, ListenerStarved, AcceptFails
  <2> QED
    BY <2>1, <2>2
<1>3. CASE RequestRecv \/ PolicyRecv
  BY <1>3 DEF RequestRecv, PolicyRecv, RecvMsg
<1>4. CASE PolicyReset \/ PolicyClose
  BY <1>4 DEF PolicyReset, PolicyClose, ResetClient
<1>5. CASE RequestValidate \/ RequestReply \/ PolicyInsert \/ MainThread
  BY <1>5 DEF RequestValidate, RequestReply, PolicyInsert, MainThread,
              LoadDemo, DemoLoaded, ManagePop, ManageSleep, vars
<1>6. CASE Peers
  BY <1>6 DEF Peers, PeerConnects, Connect, PeerLeaves, Leave, ProxySends,
              DeployerSends, PeerSend
<1> QED
  BY <1>1, <1>2, <1>3, <1>4, <1>5, <1>6 DEF Next, RequestThread, PolicyThread

(* Replies go to the peer that the session was made with, and to no other. *)
LEMMA SessionStep ==
  TypeOK /\ ClientInv /\ SessionInv /\ [Next]_vars => SessionInv'
<1> SUFFICES ASSUME TypeOK, ClientInv, SessionInv, [Next]_vars
             PROVE  SessionInv'
  OBVIOUS
<1> USE DEF TypeOK, TLSTypeOK, ControllerTypeOK, SessionInv, Servers, Goto,
            tlsVars, Live
<1> DEFINE InHand == pc["request"] \in {"validate", "reply"}
<1>1. \A c \in ProxyConns : answered[c] # <<>> => m_ssl'["request"] = c
  BY PinnedStep DEF Conns
<1>2. CASE UNCHANGED vars
  BY <1>2 DEF vars
<1>3. ASSUME NEW s \in Servers, Listener(s) PROVE SessionInv'
  <2>1. UNCHANGED answered
    BY <1>3 DEF Listener, ListenerInit, ListenerWaits, ListenerTakes,
                ListenerStarved, ListenerHandshake
  <2>2. InHand' => InHand /\ s # "request"
    BY <1>3 DEF Listener, ListenerInit, ListenerWaits, ListenerTakes,
                ListenerStarved, ListenerHandshake, AcceptFailed
  <2>3. /\ s # "request" => UNCHANGED <<m_ssl["request"], m_client["request"]>>
        /\ pc'["request"] = "init" => pc["request"] = "init" /\ s # "request"
    BY <1>3 DEF Listener, ListenerInit, SetListener, ListenerWaits, AcceptWait,
       ListenerTakes, AcceptTakes, ListenerStarved, AcceptFails,
       ListenerHandshake, HandshakeOver, HandshakeFails, AcceptFailed
  <2> QED
    BY <1>1, <2>1, <2>2, <2>3
<1>4. CASE RequestRecv
  <2>1. PICK ok \in BOOLEAN, msg \in Chunks :
          /\ RecvMsg("request", ok, msg)
          /\ Goto("request", IF ~ok THEN "accept"
                             ELSE IF msg = Blank THEN "recv" ELSE "validate")
    BY <1>4 DEF RequestRecv
  <2>2. UNCHANGED <<answered, m_ssl, m_client>>
    BY <1>4, <2>1 DEF RequestRecv, RecvMsg
  <2>3. ok /\ msg # Blank => Live("request")
    BY <2>1 DEF RecvMsg
  <2>4. InHand' => Live("request")
    BY <2>1, <2>3
  <2> QED
    BY <1>1, <2>1, <2>2, <2>4
<1>5. CASE RequestValidate
  BY <1>5 DEF RequestValidate
<1>6. CASE RequestReply
  <2>1. UNCHANGED tlsVars /\ pc'["request"] = "recv"
    BY <1>6 DEF RequestReply
  <2>2. ASSUME NEW c \in ProxyConns, answered'[c] # answered[c]
        PROVE  m_ssl["request"] = c
    BY <1>6, <2>2 DEF RequestReply, Reaches
  <2> QED
    BY <2>1, <2>2
<1>7. CASE PolicyReset \/ PolicyClose
  BY <1>1, <1>7 DEF PolicyReset, PolicyClose, ResetClient
<1>8. CASE PolicyRecv \/ PolicyInsert
  BY <1>8 DEF PolicyRecv, RecvMsg, PolicyInsert
<1>9. CASE MainThread
  BY <1>9 DEF MainThread, LoadDemo, DemoLoaded, ManagePop, ManageSleep, vars
<1>10. CASE Peers
  BY <1>10 DEF Peers, PeerConnects, Connect, PeerLeaves, Leave, ProxySends,
               DeployerSends, PeerSend
<1> QED
  BY <1>2, <1>3, <1>4, <1>5, <1>6, <1>7, <1>8, <1>9, <1>10
     DEF Next, RequestThread, PolicyThread

(* No step puts an "allow" into the table or into a verdict.               *)
LEMMA DenyStep ==
  TypeOK /\ ClientInv /\ DenyInv /\ [Next]_vars => DenyInv'
<1> SUFFICES ASSUME TypeOK, ClientInv, DenyInv, [Next]_vars PROVE DenyInv'
  OBVIOUS
<1> USE DEF TypeOK, ControllerTypeOK, DenyInv, DeniedByDefault, mgrVars
<1>1. CASE UNCHANGED vars
  BY <1>1 DEF vars
<1>2. ASSUME NEW s \in Servers, Listener(s) PROVE DenyInv'
  BY <1>2 DEF Listener, ListenerInit, ListenerWaits, ListenerTakes,
              ListenerStarved, ListenerHandshake
<1>3. CASE RequestRecv
  BY <1>3 DEF RequestRecv
<1>4. CASE RequestValidate
  <2>1. Allowed(req) = FALSE
    BY DEF Allowed
  <2> QED
    BY <1>4, <2>1 DEF RequestValidate
<1>5. CASE RequestReply
  <2>1. m_client["request"] \in ProxyConns
    BY <1>5, Ports DEF RequestReply, ClientInv, TLSTypeOK, Servers
  <2>2. ASSUME NEW c \in ProxyConns, NEW i \in 1..Len(answered'[c])
        PROVE  answered'[c][i].verdict = FALSE
    <3>1. CASE answered'[c] = answered[c]
      BY <2>2, <3>1
    <3>2. CASE answered'[c]
                 = Append(answered[c], [ip |-> req, verdict |-> vRet])
      <4>1. answered[c] \in Seq([ip : Chunks, verdict : BOOLEAN])
        OBVIOUS
      <4>2. i \in 1..Len(answered[c]) \/ i = Len(answered[c]) + 1
        BY <2>2, <3>2, <4>1
      <4> QED
        BY <3>2, <4>1, <4>2
    <3> QED
      BY <1>5, <2>1, <3>1, <3>2 DEF RequestReply
  <2> QED
    BY <1>5, <2>2 DEF RequestReply
<1>6. CASE PolicyReset \/ PolicyRecv \/ PolicyClose \/ PolicyInsert
  BY <1>6 DEF PolicyReset, PolicyRecv, PolicyClose, PolicyInsert
<1>7. CASE LoadDemo
  <2>1. \A x \in DOMAIN mapPolicy' : mapPolicy'[x] = FALSE
    BY <1>7 DEF LoadDemo, updatePolicy
  <2>2. UNCHANGED <<vRet, answered>>
    BY <1>7 DEF LoadDemo
  <2> QED
    BY <2>1, <2>2
<1>8. CASE DemoLoaded \/ ManagePop \/ ManageSleep
  BY <1>8 DEF DemoLoaded, ManagePop, ManageSleep, vars
<1>9. CASE Peers
  BY <1>9 DEF Peers, PeerConnects, PeerLeaves, ProxySends, DeployerSends
<1> QED
  BY <1>1, <1>2, <1>3, <1>4, <1>5, <1>6, <1>7, <1>8, <1>9
     DEF Next, RequestThread, PolicyThread, MainThread, Servers

(* PolicyListener closes what it opens and starts every handshake afresh.  *)
LEMMA LeakStep ==
  TypeOK /\ ClientInv /\ LeakInv /\ [Next]_vars => LeakInv'
<1> SUFFICES ASSUME TypeOK, ClientInv, LeakInv, [Next]_vars PROVE LeakInv'
  OBVIOUS
<1> USE DEF TypeOK, TLSTypeOK, ControllerTypeOK, LeakInv, NoPolicyLeak,
            Servers, Goto, tlsVars, Live
<1>1. CASE UNCHANGED vars
  BY <1>1 DEF vars
<1>2. CASE Listener("policy")
  <2>1. CASE ListenerTakes("policy")
    BY <2>1 DEF ListenerTakes, AcceptTakes
  <2>2. CASE ListenerHandshake("policy")
    <3>1. m_client["policy"] \in Conns
      BY <2>2 DEF ListenerHandshake, ClientInv
    <3> QED
      BY <2>2, <3>1 DEF ListenerHandshake, HandshakeOver, HandshakeFails,
                        AcceptFailed
  <2>3. CASE ListenerInit("policy") \/ ListenerWaits("policy")
             \/ ListenerStarved("policy")
    BY <2>3 DEF ListenerInit, SetListener, ListenerWaits, AcceptWait,
                ListenerStarved, AcceptFails, AcceptFailed
  <2> QED
    BY <1>2, <2>1, <2>2, <2>3 DEF Listener
<1>3. CASE Listener("request")
  <2>1. UNCHANGED <<pc["policy"], m_client["policy"], m_ssl["policy"]>>
    BY <1>3 DEF Listener, ListenerInit, SetListener, ListenerWaits, AcceptWait,
       ListenerTakes, AcceptTakes, ListenerStarved, AcceptFails,
       ListenerHandshake, HandshakeOver, HandshakeFails, AcceptFailed
  <2>2. CASE ListenerTakes("request")
    <3>1. Head(backlog["request"]) \in ProxyConns
      BY <2>2, Ports DEF ListenerTakes, AcceptTakes, ClientInv
    <3>2. open' = open \cup {Head(backlog["request"])}
      BY <2>2 DEF ListenerTakes, AcceptTakes
    <3>3. Head(backlog["request"]) \notin DeployerConns
      BY <3>1
    <3>4. open' \cap DeployerConns = open \cap DeployerConns
      BY <3>2, <3>3
    <3> QED
      BY <2>1, <3>4
  <2>3. CASE ~ListenerTakes("request")
    <3>1. UNCHANGED open
      BY <1>3, <2>3 DEF Listener, ListenerInit, SetListener, ListenerWaits,
         AcceptWait, ListenerStarved, AcceptFails, ListenerHandshake,
         HandshakeOver, HandshakeFails
    <3> QED
      BY <2>1, <3>1
  <2> QED
    BY <2>2, <2>3
<1>4. CASE RequestRecv
  BY <1>4 DEF RequestRecv, RecvMsg
<1>5. CASE RequestValidate \/ RequestReply
  BY <1>5 DEF RequestValidate, RequestReply
<1>6. CASE PolicyReset \/ PolicyClose
  <2>1. ResetClient("policy") /\ pc'["policy"] \in {"accept", "insert"}
    BY <1>6 DEF PolicyReset, PolicyClose
  <2> QED
    BY <2>1 DEF ResetClient
<1>7. CASE PolicyRecv
  BY <1>7 DEF PolicyRecv, RecvMsg
<1>8. CASE PolicyInsert
  BY <1>8 DEF PolicyInsert
<1>9. CASE MainThread
  BY <1>9 DEF MainThread, LoadDemo, DemoLoaded, ManagePop, ManageSleep, vars
<1>10. CASE Peers
  BY <1>10 DEF Peers, PeerConnects, Connect, PeerLeaves, Leave, ProxySends,
               DeployerSends, PeerSend
<1> QED
  BY <1>1, <1>2, <1>3, <1>4, <1>5, <1>6, <1>7, <1>8, <1>9, <1>10
     DEF Next, RequestThread, PolicyThread, Servers

(* The parts together are inductive.                                       *)
LEMMA IInvStep == IInv /\ [Next]_vars => IInv'
BY TLSTypeStep, ControllerTypeStep, ClientStep, SessionStep, DenyStep,
   LeakStep DEF IInv, TypeOK

(* The invariant holds in every state of the Controller.                   *)
THEOREM Invariance == Spec => []IInv
BY InitIInv, IInvStep, PTL DEF Spec

(* All state of the Controller keeps its type; in particular a reply only  *)
(* ever goes to a proxy, and what is inserted comes from a deployer.       *)
THEOREM TypeCorrect == Spec => []TypeOK
<1>1. IInv => TypeOK
  BY DEF IInv
<1> QED
  BY Invariance, <1>1, PTL

(* At most one proxy connection is ever answered                           *)
(* (RequestListener.cpp:67-73, 83).                                        *)
THEOREM OneSession == Spec => []SingleSession
<1>1. IInv => SingleSession
  BY DEF IInv, SessionInv, SingleSession
<1> QED
  BY Invariance, <1>1, PTL

(* Whatever is deployed and however lookups race with the loading of the   *)
(* table, no client is ever accepted (PolicyManager.cpp:34-57, 59-86).     *)
THEOREM Denied == Spec => []DeniedByDefault
<1>1. IInv => DeniedByDefault
  BY DEF IInv, DenyInv
<1> QED
  BY Invariance, <1>1, PTL

(* Deployers' connections do not pile up (PolicyListener.cpp:54-70).       *)
THEOREM NoLeak == Spec => []NoPolicyLeak
<1>1. IInv => NoPolicyLeak
  BY DEF IInv, LeakInv
<1> QED
  BY Invariance, <1>1, PTL

(* Both listeners only work with the peer they have keys for, over an open *)
(* descriptor (TLSServer.cpp:39-42, 59-72).                                *)
THEOREM LiveSessions == Spec => []WorksOnLiveSession
<1>1. IInv => WorksOnLiveSession
  BY DEF IInv, WorksOnLiveSession, ClientInv, SessionInv, LeakInv, Servers
<1> QED
  BY Invariance, <1>1, PTL

(* Once it has its session, only a lack of descriptors ends the thread of  *)
(* RequestListener (RequestListener.cpp:67-73).                            *)
THEOREM EndsStarved == Spec => EndsOnlyStarved
<1> DEFINE Ends == pc["request"] # "returned" /\ pc'["request"] = "returned"
<1>1. ASSUME IInv, Next, Ends, m_ssl["request"] \in Conns
      PROVE  Used >= MaxFds
  <2> USE DEF IInv, TypeOK, ControllerTypeOK, Servers, Goto
  <2>1. CASE Listener("request")
    <3>1. ~ListenerInit("request")
      BY <1>1 DEF ListenerInit, SessionInv
    <3>2. ~ListenerHandshake("request")
      BY <1>1 DEF ListenerHandshake, HandshakeFails
    <3>3. ~ListenerWaits("request") /\ ~ListenerTakes("request")
      BY <1>1 DEF ListenerWaits, ListenerTakes
    <3>4. ListenerStarved("request")
      BY <2>1, <3>1, <3>2, <3>3 DEF Listener
    <3> QED
      BY <3>4 DEF ListenerStarved, AcceptFails
  <2>2. CASE Listener("policy")
    BY <1>1, <2>2 DEF Listener, ListenerInit, ListenerWaits, ListenerTakes,
       ListenerStarved, ListenerHandshake, AcceptFailed
  <2>3. CASE RequestRecv \/ RequestValidate \/ RequestReply
    BY <1>1, <2>3 DEF RequestRecv, RequestValidate, RequestReply
  <2>4. CASE PolicyReset \/ PolicyRecv \/ PolicyClose \/ PolicyInsert
    BY <1>1, <2>4 DEF PolicyReset, PolicyRecv, PolicyClose, PolicyInsert
  <2>5. CASE MainThread
    BY <1>1, <2>5 DEF MainThread, LoadDemo, DemoLoaded, ManagePop,
                      ManageSleep, vars
  <2>6. CASE Peers
    BY <1>1, <2>6 DEF Peers, PeerConnects, PeerLeaves, ProxySends,
                      DeployerSends
  <2> QED
    BY <1>1, <2>1, <2>2, <2>3, <2>4, <2>5, <2>6
       DEF Next, RequestThread, PolicyThread
<1>2. IInv /\ [Next]_vars
        => [Ends /\ m_ssl["request"] \in Conns => Used >= MaxFds]_vars
  BY <1>1
<1> QED
  BY Invariance, <1>2, PTL DEF Spec, EndsOnlyStarved

-----------------------------------------------------------------------------
(***************************************************************************)
(* What the Controller takes and what it answers, paired with what each    *)
(* peer sent, for any number of connections, requests and policies.        *)
(***************************************************************************)

(* RequestListener is between the recvMsg and the sendMsg of a request.    *)
InHand(c) == pc["request"] \in {"validate", "reply"} /\ m_client["request"] = c

Unanswered(c) == Len(sent[c]) = Len(answered[c]) + 1

(* Only a peer that has left has its close_notify on the wire.             *)
OnlyClosing(c) ==
  \/ wire[c] = <<>>
  \/ remote[c] = "gone" /\ wire[c] = <<CloseNotify>>

Requesting(c) ==
  LET x == sent[c][Len(sent[c])] IN
    /\ x \in Clients
    /\ \/ wire[c] = <<x>>
       \/ remote[c] = "gone" /\ wire[c] = <<x, CloseNotify>>

(* A proxy has at most one request that is not answered.  It is on the     *)
(* wire or in hand, never both, or it is lost.                             *)
Paired(c) ==
  /\ \A i \in 1..Len(answered[c]) : answered[c][i].ip = sent[c][i]
  /\ Len(sent[c]) = Len(answered[c]) \/ Unanswered(c)
  /\ OnlyClosing(c) \/ (Unanswered(c) /\ ~InHand(c) /\ Requesting(c))
  /\ InHand(c) => Unanswered(c) /\ req = sent[c][Len(sent[c])]

MatchInv == \A c \in ProxyConns : Paired(c)

(* Between acceptClient and insertPolicy: the policy listener has the text *)
(* of this deployer.                                                       *)
Taken(c) == pc["policy"] \in {"close", "insert"} /\ policy.from = c

Queued(c) == \E i \in 1..Len(backlog["policy"]) : backlog["policy"][i] = c

(* A deployer is in one place at a time: not there yet, in the backlog, in *)
(* m_client, in the local string, or inserted.  Until its text is taken    *)
(* the first thing on its wire is the first thing it sent.                 *)
Once(c) ==
  /\ remote[c] = "idle" => /\ ~Queued(c) /\ m_client["policy"] # c /\ ~Taken(c)
                           /\ inserted[c] = <<>> /\ sent[c] = <<>>
  /\ Queued(c) => m_client["policy"] # c /\ ~Taken(c) /\ inserted[c] = <<>>
  /\ m_client["policy"] = c => inserted[c] = <<>>
  /\ Taken(c) =>
       /\ inserted[c] = <<>>
       /\ policy.text = Blank \/ (sent[c] # <<>> /\ policy.text = sent[c][1])
  /\ wire[c] # <<>> => remote[c] = "gone" \/ sent[c] # <<>>
  /\ wire[c] # <<>> /\ inserted[c] = <<>> /\ ~Taken(c) =>
       \/ Head(wire[c]) = CloseNotify
       \/ sent[c] # <<>> /\ Head(wire[c]) = sent[c][1]
  /\ \/ inserted[c] \in {<<>>, <<Blank>>}
     \/ sent[c] # <<>> /\ inserted[c] = <<sent[c][1]>>

BacklogInv ==
  /\ \A i, j \in 1..Len(backlog["policy"]) :
       backlog["policy"][i] = backlog["policy"][j] => i = j
  /\ pc["policy"] = "close" => policy.from = m_client["policy"]
  /\ pc["policy"] \in {"init", "accept", "insert"} => m_client["policy"] = NoConn

OnceInv == BacklogInv /\ \A c \in DeployerConns : Once(c)

-----------------------------------------------------------------------------
(* A step that does not touch the data of a proxy keeps it paired.         *)
LEMMA QuietPaired ==
  ASSUME NEW c \in ProxyConns, Paired(c),
         UNCHANGED <<sent[c], answered[c], wire[c]>>,
         remote[c] = "gone" => remote'[c] = "gone",
         InHand(c)' => InHand(c) /\ UNCHANGED req
  PROVE  Paired(c)'
BY DEF Paired, OnlyClosing, Requesting, Unanswered

(* What recvMsg does to one connection.                                    *)
LEMMA RecvEffect ==
  ASSUME TLSTypeOK, NEW s \in Servers, NEW ok, NEW msg, RecvMsg(s, ok, msg),
         NEW c \in Conns
  PROVE  /\ remote[c] \in {"gone", "idle"} <=> remote'[c] \in {"gone", "idle"}
         /\ remote[c] = "gone" <=> remote'[c] = "gone"
         /\ \/ /\ c = m_client[s] /\ ok /\ wire[c] # <<>>
               /\ msg = Text(Head(wire[c])) /\ wire'[c] = Tail(wire[c])
            \/ /\ UNCHANGED wire[c]
               /\ c = m_client[s] => msg = Blank
<1> USE DEF TLSTypeOK
<1>1. \/ UNCHANGED remote
      \/ remote' = [remote EXCEPT ![m_client[s]] =
                      IF @ = "hello" THEN "rejected" ELSE @]
  BY DEF RecvMsg
<1>2. \/ /\ ok /\ wire[m_client[s]] # <<>> /\ msg = Text(Head(wire[m_client[s]]))
         /\ wire' = [wire EXCEPT ![m_client[s]] = Tail(@)]
      \/ UNCHANGED wire /\ msg = Blank
  BY DEF RecvMsg
<1>3. /\ remote[c] \in {"gone", "idle"} <=> remote'[c] \in {"gone", "idle"}
      /\ remote[c] = "gone" <=> remote'[c] = "gone"
  BY <1>1
<1> QED
  BY <1>2, <1>3

(* What recvMsg hands to validateRequest is the request that was on the    *)
(* wire, and nothing else is.                                              *)
LEMMA RecvPaired ==
  ASSUME IInv, MatchInv, RequestRecv, NEW c \in ProxyConns
  PROVE  Paired(c)'
<1>0. TLSTypeOK /\ "request" \in Servers
  BY DEF IInv, TypeOK, Servers
<1> USE DEF IInv, TypeOK, ControllerTypeOK, Goto
<1>1. PICK ok \in BOOLEAN, msg \in Chunks :
        /\ RecvMsg("request", ok, msg)
        /\ req' = msg
        /\ Goto("request", IF ~ok THEN "accept"
                           ELSE IF msg = Blank THEN "recv" ELSE "validate")
  BY DEF RequestRecv
<1>2. /\ UNCHANGED <<sent, answered, m_client>>
      /\ ~InHand(c) /\ Paired(c) /\ c \in Conns
  BY <1>1 DEF RequestRecv, RecvMsg, InHand, MatchInv, Conns, Servers
<1>3. /\ remote[c] = "gone" <=> remote'[c] = "gone"
      /\ \/ /\ c = m_client["request"] /\ ok /\ wire[c] # <<>>
            /\ msg = Text(Head(wire[c])) /\ wire'[c] = Tail(wire[c])
         \/ /\ UNCHANGED wire[c]
            /\ c = m_client["request"] => msg = Blank
  BY <1>0, <1>1, <1>2, RecvEffect
<1>4. InHand(c)' => c = m_client["request"] /\ msg # Blank /\ ok
  BY <1>1, <1>2 DEF InHand, Servers
<1>5. CASE UNCHANGED wire[c] /\ (c = m_client["request"] => msg = Blank)
  <2>1. CASE ~InHand(c)'
    BY <1>2, <1>3, <1>5, <2>1, QuietPaired
  <2>2. CASE InHand(c)'
    BY <1>4, <1>5, <2>2
  <2> QED
    BY <2>1, <2>2
<1>6. CASE /\ c = m_client["request"] /\ ok /\ wire[c] # <<>>
           /\ msg = Text(Head(wire[c])) /\ wire'[c] = Tail(wire[c])
  <2>1. CASE remote[c] = "gone" /\ wire[c] = <<CloseNotify>>
    <3>1. Head(wire[c]) = CloseNotify /\ wire'[c] = <<>>
      BY <1>6, <2>1
    <3>2. ~InHand(c)'
      BY <1>4, <1>6, <3>1 DEF Text
    <3> QED
      BY <1>2, <3>1, <3>2 DEF Paired, OnlyClosing, Unanswered
  <2>2. CASE Unanswered(c) /\ Requesting(c)
    <3> DEFINE x == sent[c][Len(sent[c])]
    <3>1. x \in Chunks /\ x # Blank /\ x # CloseNotify
      BY <2>2 DEF Requesting
    <3>2. /\ Head(wire[c]) = x
          /\ \/ wire'[c] = <<>>
             \/ remote[c] = "gone" /\ wire'[c] = <<CloseNotify>>
      <4>1. CASE wire[c] = <<x>>
        BY <1>6, <4>1
      <4>2. CASE remote[c] = "gone" /\ wire[c] = <<x, CloseNotify>>
        BY <1>6, <4>2
      <4> QED
        BY <2>2, <4>1, <4>2 DEF Requesting
    <3>3. req' = x
      BY <1>1, <1>6, <3>1, <3>2 DEF Text
    <3>4. Unanswered(c)' /\ OnlyClosing(c)'
      BY <1>2, <1>3, <2>2, <3>2 DEF Unanswered, OnlyClosing
    <3> QED
      BY <1>2, <3>3, <3>4 DEF Paired
  <2> QED
    BY <1>2, <1>6, <2>1, <2>2 DEF Paired, OnlyClosing
<1> QED
  BY <1>3, <1>5, <1>6

(* A reply goes to the proxy whose request is in hand, and answers it.     *)
LEMMA ReplyPaired ==
  ASSUME IInv, MatchInv, RequestReply, NEW c \in ProxyConns
  PROVE  Paired(c)'
<1> USE DEF IInv, TypeOK, TLSTypeOK, ControllerTypeOK, Servers, Goto
<1>1. /\ UNCHANGED <<tlsVars, req, sent>> /\ ~InHand(c)' /\ Paired(c)
      /\ pc["request"] = "reply" /\ c \in Conns
  BY DEF RequestReply, InHand, MatchInv, Conns
<1>2. CASE UNCHANGED answered[c]
  BY <1>1, <1>2, QuietPaired DEF tlsVars
<1>3. CASE answered'[c] # answered[c]
  <2>1. /\ answered'[c] = Append(answered[c], [ip |-> req, verdict |-> vRet])
        /\ InHand(c)
    BY <1>1, <1>3 DEF RequestReply, Reaches, InHand
  <2>2. Unanswered(c) /\ req = sent[c][Len(sent[c])] /\ OnlyClosing(c)
    BY <1>1, <2>1 DEF Paired
  <2>3. answered[c] \in Seq([ip : Chunks, verdict : BOOLEAN])
    OBVIOUS
  <2>4. Len(answered'[c]) = Len(answered[c]) + 1
    BY <2>1, <2>3
  <2>5. \A i \in 1..Len(answered'[c]) : answered'[c][i].ip = sent[c][i]
    <3>1. \A i \in 1..Len(answered[c]) : answered'[c][i] = answered[c][i]
      BY <2>1, <2>3
    <3>2. answered'[c][Len(answered[c]) + 1] = [ip |-> req, verdict |-> vRet]
      BY <2>1, <2>3
    <3>3. Len(answered[c]) \in Nat /\ Len(sent[c]) = Len(answered[c]) + 1
      BY <2>2, <2>3 DEF Unanswered
    <3> QED
      <4>1. answered'[c][Len(answered[c]) + 1].ip = sent[c][Len(answered[c]) + 1]
        BY <2>2, <3>2, <3>3
      <4>2. \A i \in 1..Len(answered[c]) : answered'[c][i].ip = sent[c][i]
        BY <1>1, <3>1 DEF Paired
      <4> QED
        BY <2>4, <3>3, <4>1, <4>2
  <2> QED
    BY <1>1, <2>2, <2>4, <2>5 DEF Paired, OnlyClosing, Unanswered, tlsVars
<1> QED
  BY <1>2, <1>3

(* Proxies keep their part: one request at a time, nothing after leaving.  *)
LEMMA PeerPaired ==
  ASSUME IInv, MatchInv, Peers, NEW c \in ProxyConns
  PROVE  Paired(c)'
<1> USE DEF IInv, TypeOK, TLSTypeOK, ControllerTypeOK
<1>0. Paired(c) /\ c \in Conns
  BY DEF MatchInv, Conns
<1>1. ASSUME NEW d \in Conns, PeerConnects(d) PROVE Paired(c)'
  BY <1>0, <1>1, QuietPaired DEF PeerConnects, Connect, InHand
<1>2. ASSUME NEW d \in Conns, PeerLeaves(d) PROVE Paired(c)'
  <2>1. CASE UNCHANGED wire[c]
    BY <1>0, <1>2, <2>1, QuietPaired DEF PeerLeaves, Leave, InHand
  <2>2. CASE wire'[c] # wire[c]
    <3>1. /\ d = c /\ remote[c] # "gone" /\ remote'[c] = "gone"
          /\ wire'[c] \in {<<>>, Append(wire[c], CloseNotify)}
      BY <1>0, <1>2, <2>2 DEF PeerLeaves, Leave
    <3>2. UNCHANGED <<sent, answered, req, pc, m_client>>
      BY <1>2 DEF PeerLeaves, Leave
    <3>3. CASE wire[c] = <<>>
      <4>1. wire'[c] \in {<<>>, <<CloseNotify>>}
        BY <3>1, <3>3
      <4> QED
        BY <1>0, <3>1, <3>2, <4>1 DEF Paired, OnlyClosing, Unanswered, InHand
    <3>4. CASE Unanswered(c) /\ ~InHand(c) /\ Requesting(c)
      <4>1. wire[c] = <<sent[c][Len(sent[c])]>>
        BY <3>1, <3>4 DEF Requesting
      <4>2. wire'[c] \in {<<>>, <<sent[c][Len(sent[c])], CloseNotify>>}
        BY <3>1, <4>1
      <4> QED
        BY <1>0, <3>1, <3>2, <3>4, <4>2
           DEF Paired, OnlyClosing, Requesting, Unanswered, InHand
    <3> QED
      BY <1>0, <3>1, <3>3, <3>4 DEF Paired, OnlyClosing
  <2> QED
    BY <2>1, <2>2
<1>3. ASSUME NEW d \in ProxyConns, NEW ip \in Clients, ProxySends(d, ip)
      PROVE  Paired(c)'
  <2>1. /\ UNCHANGED <<answered, remote, req, pc, m_client>> /\ d \in Conns
    BY <1>3 DEF ProxySends, PeerSend, Conns
  <2>2. CASE d # c
    BY <1>0, <1>3, <2>1, <2>2, QuietPaired DEF ProxySends, PeerSend, InHand
  <2>3. CASE d = c
    <3>1. /\ Len(sent[c]) = Len(answered[c]) /\ remote[c] = "keyed"
          /\ sent'[c] = Append(sent[c], ip) /\ wire'[c] = wire[c] \o <<ip>>
      BY <1>0, <1>3, <2>3 DEF ProxySends, PeerSend
    <3>2. sent[c] \in Seq(Chunks) /\ answered[c] \in Seq([ip : Chunks, verdict : BOOLEAN])
          /\ ip \in Chunks
      BY <1>0
    <3>3. ~Unanswered(c) /\ wire[c] = <<>> /\ ~InHand(c)
      BY <1>0, <3>1, <3>2 DEF Paired, OnlyClosing, Unanswered
    <3>4. wire'[c] = <<ip>>
      BY <3>1, <3>3
    <3>5. /\ Len(sent'[c]) = Len(sent[c]) + 1 /\ sent'[c][Len(sent'[c])] = ip
          /\ \A i \in 1..Len(sent[c]) : sent'[c][i] = sent[c][i]
      BY <3>1, <3>2, AppendProperties
    <3>6. Unanswered(c)' /\ ~InHand(c)' /\ Requesting(c)'
      BY <2>1, <3>1, <3>3, <3>4, <3>5 DEF Unanswered, Requesting, InHand
    <3>7. \A i \in 1..Len(answered'[c]) : answered'[c][i].ip = sent'[c][i]
      BY <1>0, <2>1, <3>1, <3>5 DEF Paired
    <3> QED
      BY <3>6, <3>7 DEF Paired
  <2> QED
    BY <2>2, <2>3
<1>4. ASSUME NEW d \in DeployerConns, NEW p \in Policies, DeployerSends(d, p)
      PROVE  Paired(c)'
  <2>1. c # d
    OBVIOUS
  <2> QED
    BY <1>0, <1>4, <2>1, QuietPaired DEF DeployerSends, PeerSend, InHand
<1> QED
  BY <1>1, <1>2, <1>3, <1>4 DEF Peers

(* No step breaks the pairing.                                             *)
LEMMA MatchStep == IInv /\ MatchInv /\ [Next]_vars => MatchInv'
<1> SUFFICES ASSUME IInv, MatchInv, [Next]_vars, NEW c \in ProxyConns
             PROVE  Paired(c)'
  BY DEF MatchInv
<1> USE DEF IInv, TypeOK, TLSTypeOK, ControllerTypeOK, Servers, Goto, tlsVars
<1>0. Paired(c) /\ c \in Conns
  BY DEF MatchInv, Conns
<1>1. CASE UNCHANGED vars
  BY <1>0, <1>1, QuietPaired DEF vars, InHand
<1>2. ASSUME NEW s \in Servers, Listener(s) PROVE Paired(c)'
  <2>1. UNCHANGED <<sent, answered, wire, req>>
    BY <1>2 DEF Listener, ListenerInit, SetListener, ListenerWaits, AcceptWait,
       ListenerTakes, AcceptTakes, ListenerStarved, AcceptFails,
       ListenerHandshake, HandshakeOver, HandshakeFails
  <2>2. remote[c] = "gone" => remote'[c] = "gone"
    BY <1>0, <1>2 DEF Listener, ListenerInit, SetListener, ListenerWaits,
       AcceptWait, ListenerTakes, AcceptTakes, ListenerStarved, AcceptFails,
       ListenerHandshake, HandshakeOver, HandshakeFails
  <2>3. CASE s = "request"
    <3>1. pc'["request"] \notin {"validate", "reply"}
      BY <1>2, <2>3 DEF Listener, ListenerInit, ListenerWaits, ListenerTakes,
         ListenerStarved, ListenerHandshake, AcceptFailed
    <3> QED
      BY <1>0, <2>1, <2>2, <3>1, QuietPaired DEF InHand
  <2>4. CASE s = "policy"
    <3>1. UNCHANGED <<pc["request"], m_client["request"]>>
      BY <1>2, <2>4 DEF Listener, ListenerInit, SetListener, ListenerWaits,
         AcceptWait, ListenerTakes, AcceptTakes, ListenerStarved, AcceptFails,
         ListenerHandshake, HandshakeOver, HandshakeFails, AcceptFailed
    <3> QED
      BY <1>0, <2>1, <2>2, <3>1, QuietPaired DEF InHand
  <2> QED
    BY <2>3, <2>4
<1>3. CASE RequestValidate
  BY <1>0, <1>3, QuietPaired DEF RequestValidate, InHand
<1>4. CASE PolicyReset \/ PolicyClose \/ PolicyInsert
  BY <1>0, <1>4, QuietPaired
     DEF PolicyReset, PolicyClose, PolicyInsert, ResetClient, InHand
<1>5. CASE PolicyRecv
  <2>1. m_client["policy"] # c
    BY <1>5, Ports DEF PolicyRecv, ClientInv
  <2>2. UNCHANGED <<sent, answered, req, m_client, pc["request"]>>
    BY <1>5 DEF PolicyRecv, RecvMsg
  <2>3. UNCHANGED <<wire[c], remote[c]>>
    BY <1>0, <1>5, <2>1 DEF PolicyRecv, RecvMsg
  <2> QED
    BY <1>0, <2>2, <2>3, QuietPaired DEF InHand
<1>6. CASE MainThread
  BY <1>0, <1>6, QuietPaired
     DEF MainThread, LoadDemo, DemoLoaded, ManagePop, ManageSleep, vars, InHand
<1> QED
  BY <1>1, <1>2, <1>3, <1>4, <1>5, <1>6, RecvPaired, ReplyPaired, PeerPaired
     DEF Next, RequestThread, PolicyThread

(* Nothing is under way at the start.                                      *)
LEMMA InitMatch == Init => MatchInv
BY DEF Init, TLSInit, MatchInv, Paired, OnlyClosing, Unanswered, InHand, Conns,
       Servers

(* Each reply a proxy gets answers one request of that proxy, in order     *)
(* (RequestListener.cpp:63-84).                                            *)
THEOREM RepliesPaired == Spec => []RepliesMatchRequests
<1>1. IInv /\ MatchInv => RepliesMatchRequests
  BY DEF IInv, TypeOK, TLSTypeOK, ControllerTypeOK, MatchInv, Paired,
         Unanswered, RepliesMatchRequests, Conns
<1> QED
  BY Invariance, InitMatch, MatchStep, <1>1, PTL DEF Spec

-----------------------------------------------------------------------------
(* A step that neither moves a deployer nor touches its data changes       *)
(* nothing about it.                                                       *)
LEMMA QuietOnce ==
  ASSUME NEW c \in DeployerConns, Once(c),
         UNCHANGED <<sent[c], wire[c], inserted[c]>>,
         remote'[c] = "idle" => remote[c] = "idle",
         remote[c] = "gone" => remote'[c] = "gone",
         Queued(c)' => Queued(c),
         m_client'["policy"] = c => m_client["policy"] = c,
         Taken(c)' <=> Taken(c), Taken(c)' => UNCHANGED policy
  PROVE  Once(c)'
BY DEF Once

(* The accept of the policy listener moves one deployer from the backlog   *)
(* to m_client.                                                            *)
LEMMA TakesOnce ==
  ASSUME IInv, OnceInv, ListenerTakes("policy")
  PROVE  OnceInv'
<1> DEFINE b == backlog["policy"]
<1>1. /\ b \in Seq(Conns) /\ b # <<>>
      /\ b' = Tail(b) /\ m_client'["policy"] = Head(b)
      /\ pc'["policy"] = "handshake" /\ pc["policy"] = "accept"
      /\ UNCHANGED <<sent, wire, inserted, remote, policy>>
      /\ m_client["policy"] = NoConn
  BY DEF IInv, TypeOK, TLSTypeOK, ControllerTypeOK, Servers, ListenerTakes,
         AcceptTakes, Goto, OnceInv, BacklogInv
<1>2. /\ Len(b) \in Nat \ {0} /\ Len(b') = Len(b) - 1
      /\ \A i \in 1..Len(b') : b'[i] = b[i + 1]
      /\ Head(b) = b[1]
  BY <1>1
<1>3. BacklogInv'
  <2>1. ASSUME NEW i \in 1..Len(b'), NEW j \in 1..Len(b'), b'[i] = b'[j]
        PROVE  i = j
    <3>1. i + 1 \in 1..Len(b) /\ j + 1 \in 1..Len(b) /\ b[i + 1] = b[j + 1]
      BY <1>2, <2>1
    <3> QED
      BY <3>1 DEF OnceInv, BacklogInv
  <2> QED
    BY <1>1, <2>1 DEF BacklogInv
<1>4. ASSUME NEW c \in DeployerConns PROVE Once(c)'
  <2>1. Once(c) /\ ~Taken(c) /\ ~Taken(c)'
    BY <1>1 DEF OnceInv, Taken
  <2>2. Queued(c)' => Queued(c) /\ c # Head(b)
    <3>1. ASSUME NEW i \in 1..Len(b'), b'[i] = c PROVE Queued(c) /\ c # Head(b)
      <4>1. i + 1 \in 1..Len(b) /\ 1 \in 1..Len(b) /\ i + 1 # 1 /\ b[i + 1] = c
        BY <1>2, <3>1
      <4> QED
        BY <1>2, <4>1 DEF OnceInv, BacklogInv, Queued
    <3> QED
      BY <3>1 DEF Queued
  <2>3. Head(b) = c => Queued(c)
    BY <1>2 DEF Queued
  <2> QED
    BY <1>1, <2>1, <2>2, <2>3 DEF Once
<1> QED
  BY <1>3, <1>4 DEF OnceInv

(* recvMsg yields nothing, or what the deployer sent first.                *)
LEMMA RecvOnce ==
  ASSUME IInv, OnceInv, PolicyRecv
  PROVE  OnceInv'
<1>1. PICK ok \in BOOLEAN, msg \in Chunks :
        /\ RecvMsg("policy", ok, msg)
        /\ policy' = [text |-> msg, from |-> m_client["policy"]]
  BY DEF PolicyRecv
<1>2. /\ pc["policy"] = "recv" /\ pc'["policy"] = "close"
      /\ UNCHANGED <<sent, inserted, backlog, m_client>>
      /\ TLSTypeOK /\ "policy" \in Servers
  BY <1>1 DEF PolicyRecv, RecvMsg, Goto, IInv, TypeOK, ControllerTypeOK, Servers
<1>3. BacklogInv'
  BY <1>1, <1>2 DEF OnceInv, BacklogInv
<1>4. ASSUME NEW c \in DeployerConns PROVE Once(c)'
  <2>1. /\ Once(c) /\ ~Taken(c) /\ (Queued(c)' <=> Queued(c)) /\ c \in Conns
        /\ Taken(c)' <=> m_client["policy"] = c
    BY <1>1, <1>2 DEF OnceInv, Taken, Queued, Conns
  <2>2. /\ remote[c] \in {"gone", "idle"} <=> remote'[c] \in {"gone", "idle"}
        /\ remote[c] = "gone" <=> remote'[c] = "gone"
        /\ \/ /\ c = m_client["policy"] /\ ok /\ wire[c] # <<>>
              /\ msg = Text(Head(wire[c])) /\ wire'[c] = Tail(wire[c])
           \/ /\ UNCHANGED wire[c]
              /\ c = m_client["policy"] => msg = Blank
    BY <1>1, <1>2, <2>1, RecvEffect
  <2>3. CASE UNCHANGED wire[c] /\ (c = m_client["policy"] => msg = Blank)
    BY <1>1, <1>2, <2>1, <2>2, <2>3 DEF Once
  <2>4. CASE /\ c = m_client["policy"] /\ ok /\ wire[c] # <<>>
             /\ msg = Text(Head(wire[c])) /\ wire'[c] = Tail(wire[c])
    <3>1. msg = Blank \/ (sent[c] # <<>> /\ msg = sent[c][1])
      BY <1>2, <2>1, <2>4 DEF Once, Text
    <3> QED
      BY <1>1, <1>2, <2>1, <2>2, <2>4, <3>1 DEF Once
  <2> QED
    BY <2>2, <2>3, <2>4
<1> QED
  BY <1>3, <1>4 DEF OnceInv

(* insertPolicy inserts the text of a deployer nothing was inserted of.    *)
LEMMA InsertOnce ==
  ASSUME IInv, OnceInv, PolicyInsert
  PROVE  OnceInv'
<1>1. /\ pc["policy"] = "insert" /\ pc'["policy"] = "accept"
      /\ UNCHANGED <<tlsVars, policy, sent>>
      /\ policy.from \in DeployerConns
      /\ inserted \in [DeployerConns -> Seq(Chunks)]
      /\ inserted' = [inserted EXCEPT ![policy.from] = Append(@, policy.text)]
  BY DEF PolicyInsert, Goto, IInv, TypeOK, ControllerTypeOK, ClientInv, Servers
<1>2. BacklogInv'
  BY <1>1 DEF OnceInv, BacklogInv, tlsVars
<1>3. ASSUME NEW c \in DeployerConns PROVE Once(c)'
  <2>1. /\ Once(c) /\ ~Taken(c)' /\ (Queued(c)' <=> Queued(c))
        /\ m_client["policy"] # c
        /\ Taken(c) <=> policy.from = c
    BY <1>1 DEF OnceInv, BacklogInv, Taken, Queued, tlsVars, Conns
  <2>2. CASE policy.from # c
    BY <1>1, <2>1, <2>2, QuietOnce DEF tlsVars
  <2>3. CASE policy.from = c
    <3>1. inserted[c] = <<>> /\ inserted'[c] = <<policy.text>>
      BY <1>1, <2>1, <2>3 DEF Once
    <3> QED
      BY <1>1, <2>1, <2>3, <3>1 DEF Once, tlsVars
  <2> QED
    BY <2>2, <2>3
<1> QED
  BY <1>2, <1>3 DEF OnceInv

(* A deployer connects once, sends once, and leaves at any time.           *)
LEMMA PeerOnce ==
  ASSUME IInv, OnceInv, Peers
  PROVE  OnceInv'
<1> USE DEF TLSTypeOK
<1>0. TLSTypeOK /\ sent \in [Conns -> Seq(Chunks)]
  BY DEF IInv, TypeOK, ControllerTypeOK
<1>1. ASSUME NEW d \in Conns, PeerConnects(d) PROVE OnceInv'
  <2>1. /\ UNCHANGED <<m_client, wire, sent, inserted, pc, policy>>
        /\ remote[d] = "idle" /\ remote' = [remote EXCEPT ![d] = "hello"]
        /\ backlog' = [backlog EXCEPT ![Port(d)] = Append(@, d)]
    BY <1>1 DEF PeerConnects, Connect
  <2>2. CASE d \notin DeployerConns
    <3>1. UNCHANGED backlog["policy"]
      BY <1>0, <2>1, <2>2 DEF Port, Conns, Servers
    <3>2. BacklogInv'
      BY <2>1, <3>1 DEF OnceInv, BacklogInv
    <3>3. ASSUME NEW c \in DeployerConns PROVE Once(c)'
      BY <1>0, <2>1, <2>2, <3>1, QuietOnce DEF OnceInv, Taken, Queued, Conns
    <3> QED
      BY <3>2, <3>3 DEF OnceInv
  <2>3. CASE d \in DeployerConns
    <3> DEFINE b == backlog["policy"]
    <3>1. b \in Seq(Conns) /\ b' = Append(b, d) /\ Once(d)
      BY <1>0, <2>1, <2>3 DEF Port, Servers, OnceInv
    <3>2. /\ Len(b) \in Nat /\ Len(b') = Len(b) + 1 /\ b'[Len(b) + 1] = d
          /\ \A i \in 1..Len(b) : b'[i] = b[i]
      BY <3>1
    <3>3. \A i \in 1..Len(b) : b[i] # d
      BY <2>1, <3>1 DEF Once, Queued
    <3>4. BacklogInv'
      <4>1. ASSUME NEW i \in 1..Len(b'), NEW j \in 1..Len(b'), b'[i] = b'[j]
            PROVE  i = j
        <5>1. /\ i = Len(b) + 1 \/ (i \in 1..Len(b) /\ b[i] # d /\ b'[i] = b[i])
              /\ j = Len(b) + 1 \/ (j \in 1..Len(b) /\ b[j] # d /\ b'[j] = b[j])
          BY <3>2, <3>3
        <5>2. CASE i = Len(b) + 1 \/ j = Len(b) + 1
          BY <3>2, <4>1, <5>1, <5>2
        <5>3. CASE i \in 1..Len(b) /\ j \in 1..Len(b) /\ b[i] = b[j]
          BY <5>3 DEF OnceInv, BacklogInv
        <5> QED
          BY <4>1, <5>1, <5>2, <5>3
      <4> QED
        BY <2>1, <4>1 DEF OnceInv, BacklogInv
    <3>5. ASSUME NEW c \in DeployerConns PROVE Once(c)'
      <4>1. Once(c) /\ (Taken(c)' <=> Taken(c)) /\ c \in Conns
        BY <2>1 DEF OnceInv, Taken, Conns
      <4>2. CASE c = d
        BY <1>0, <2>1, <4>1, <4>2 DEF Once
      <4>3. CASE c # d
        <5>1. Queued(c)' => Queued(c)
          BY <3>2, <4>3 DEF Queued
        <5> QED
          BY <1>0, <2>1, <4>1, <4>3, <5>1, QuietOnce
      <4> QED
        BY <4>2, <4>3
    <3> QED
      BY <3>4, <3>5 DEF OnceInv
  <2> QED
    BY <2>2, <2>3
<1>2. ASSUME NEW d \in Conns, PeerLeaves(d) PROVE OnceInv'
  <2>1. /\ UNCHANGED <<backlog, m_client, sent, inserted, pc, policy>>
        /\ remote[d] # "idle" /\ remote' = [remote EXCEPT ![d] = "gone"]
        /\ \/ UNCHANGED wire
           \/ wire' = [wire EXCEPT ![d] = <<>>]
           \/ wire' = [wire EXCEPT ![d] = Append(@, CloseNotify)]
    BY <1>2 DEF PeerLeaves, Leave
  <2>2. BacklogInv'
    BY <2>1 DEF OnceInv, BacklogInv
  <2>3. ASSUME NEW c \in DeployerConns PROVE Once(c)'
    <3>1. /\ Once(c) /\ (Taken(c)' <=> Taken(c)) /\ (Queued(c)' <=> Queued(c))
          /\ c \in Conns
      BY <2>1 DEF OnceInv, Taken, Queued, Conns
    <3>2. CASE UNCHANGED wire[c]
      BY <1>0, <2>1, <3>1, <3>2, QuietOnce
    <3>3. CASE c = d /\ wire'[c] = <<>>
      BY <1>0, <2>1, <3>1, <3>3 DEF Once
    <3>4. CASE c = d /\ wire'[c] = Append(wire[c], CloseNotify)
      <4>1. wire[c] \in Seq(Chunks \cup {CloseNotify})
        BY <1>0, <3>1
      <4>2. Head(wire'[c]) = IF wire[c] = <<>> THEN CloseNotify ELSE Head(wire[c])
        BY <3>4, <4>1
      <4> QED
        BY <1>0, <2>1, <3>1, <3>4, <4>2 DEF Once
    <3> QED
      BY <1>0, <2>1, <3>1, <3>2, <3>3, <3>4
  <2> QED
    BY <2>2, <2>3 DEF OnceInv
<1>3. ASSUME NEW d \in ProxyConns, NEW ip \in Clients, ProxySends(d, ip)
      PROVE  OnceInv'
  <2>1. /\ UNCHANGED <<backlog, m_client, remote, inserted, pc, policy>>
        /\ \A c \in DeployerConns : UNCHANGED <<wire[c], sent[c]>>
    BY <1>0, <1>3 DEF ProxySends, PeerSend, Conns
  <2>2. BacklogInv'
    BY <2>1 DEF OnceInv, BacklogInv
  <2>3. ASSUME NEW c \in DeployerConns PROVE Once(c)'
    BY <2>1, QuietOnce DEF OnceInv, Taken, Queued
  <2> QED
    BY <2>2, <2>3 DEF OnceInv
<1>4. ASSUME NEW d \in DeployerConns, NEW p \in Policies, DeployerSends(d, p)
      PROVE  OnceInv'
  <2>1. /\ UNCHANGED <<backlog, m_client, remote, inserted, pc, policy>>
        /\ sent[d] = <<>> /\ sent' = [sent EXCEPT ![d] = p]
        /\ wire' = [wire EXCEPT ![d] = @ \o p] /\ remote[d] = "keyed"
    BY <1>4 DEF DeployerSends, PeerSend
  <2>2. BacklogInv'
    BY <2>1 DEF OnceInv, BacklogInv
  <2>3. ASSUME NEW c \in DeployerConns PROVE Once(c)'
    <3>1. /\ Once(c) /\ (Taken(c)' <=> Taken(c)) /\ (Queued(c)' <=> Queued(c))
          /\ c \in Conns
      BY <2>1 DEF OnceInv, Taken, Queued, Conns
    <3>2. CASE c # d
      BY <1>0, <2>1, <3>1, <3>2, QuietOnce
    <3>3. CASE c = d
      <4>1. wire[c] = <<>> /\ p \in Seq(Chunks) /\ p # <<>>
        BY <2>1, <3>1, <3>3 DEF Once
      <4>2. wire'[c] = p /\ sent'[c] = p /\ Head(p) = p[1]
        BY <1>0, <2>1, <3>1, <3>3, <4>1
      <4> QED
        BY <2>1, <3>1, <3>3, <4>1, <4>2 DEF Once
    <3> QED
      BY <3>2, <3>3
  <2> QED
    BY <2>2, <2>3 DEF OnceInv
<1> QED
  BY <1>1, <1>2, <1>3, <1>4 DEF Peers

(* No step inserts a policy twice.                                         *)
LEMMA OnceStep == IInv /\ OnceInv /\ [Next]_vars => OnceInv'
<1> SUFFICES ASSUME IInv, OnceInv, [Next]_vars PROVE OnceInv'
  OBVIOUS
<1> USE DEF Servers, Goto, tlsVars
<1>0. TLSTypeOK /\ ControllerTypeOK /\ ClientInv
  BY DEF IInv, TypeOK
<1>1. ASSUME BacklogInv',
             UNCHANGED <<sent, inserted, policy, backlog["policy"]>>,
             \A c \in DeployerConns :
               /\ UNCHANGED wire[c]
               /\ remote'[c] = "idle" => remote[c] = "idle"
               /\ remote[c] = "gone" => remote'[c] = "gone",
             m_client'["policy"] \in {m_client["policy"], NoConn},
             pc'["policy"] \in {"close", "insert"} <=> pc["policy"] \in {"close", "insert"}
      PROVE  OnceInv'
  BY <1>1, QuietOnce DEF OnceInv, Taken, Queued, Conns
<1>2. CASE UNCHANGED vars
  BY <1>1, <1>2 DEF vars, OnceInv, BacklogInv
<1>3. CASE Listener("request")
  <2>1. /\ UNCHANGED <<sent, inserted, policy, backlog["policy"], wire,
                       m_client["policy"], pc["policy"]>>
        /\ \A c \in DeployerConns : 
             remote'[c] = remote[c] \/ (remote'[c] = "keyed" /\ remote[c] = "hello")
    BY <1>0, <1>3
       DEF TLSTypeOK, ControllerTypeOK, Listener, ListenerInit, SetListener,
       ListenerWaits, AcceptWait, ListenerTakes, AcceptTakes, ListenerStarved,
       AcceptFails, ListenerHandshake, HandshakeOver, HandshakeFails,
       AcceptFailed, Conns
  <2> QED
    BY <1>1, <2>1 DEF OnceInv, BacklogInv
<1>4. CASE Listener("policy")
  <2>1. CASE ListenerTakes("policy")
    BY <2>1, TakesOnce
  <2>2. CASE ~ListenerTakes("policy")
    <3>1. /\ UNCHANGED <<sent, inserted, policy, backlog, wire>>
          /\ \A c \in DeployerConns :
               remote'[c] = remote[c] \/ (remote'[c] = "keyed" /\ remote[c] = "hello")
      BY <1>0, <1>4, <2>2
         DEF TLSTypeOK, ControllerTypeOK, Listener, ListenerInit, SetListener,
         ListenerWaits, AcceptWait, ListenerStarved, AcceptFails,
         ListenerHandshake, HandshakeOver, HandshakeFails, Conns
    <3>2. /\ m_client'["policy"] \in {m_client["policy"], NoConn}
          /\ pc["policy"] \in {"init", "accept", "handshake"}
          /\ pc'["policy"] \notin {"close", "insert"}
          /\ pc'["policy"] \in {"init", "accept"} =>
               pc["policy"] \in {"init", "accept"}
      BY <1>0, <1>4, <2>2
         DEF TLSTypeOK, ControllerTypeOK, Listener, ListenerInit, SetListener,
         ListenerWaits, AcceptWait, ListenerStarved, AcceptFails,
         ListenerHandshake, HandshakeOver, HandshakeFails, AcceptFailed
    <3>3. BacklogInv'
      BY <3>1, <3>2 DEF OnceInv, BacklogInv
    <3> QED
      BY <1>1, <3>1, <3>2, <3>3
  <2> QED
    BY <2>1, <2>2
<1>5. CASE RequestRecv
  <2>1. PICK ok \in BOOLEAN, msg \in Chunks : RecvMsg("request", ok, msg)
    BY <1>5 DEF RequestRecv
  <2>2. m_client["request"] \notin DeployerConns /\ "request" \in Servers
    BY <1>5, Ports DEF RequestRecv, ClientInv, IInv, Conns
  <2>3. \A c \in DeployerConns :
          /\ remote'[c] = "idle" => remote[c] = "idle"
          /\ remote[c] = "gone" => remote'[c] = "gone"
          /\ UNCHANGED wire[c]
    BY <1>0, <2>1, <2>2, RecvEffect DEF Conns
  <2>4. UNCHANGED <<sent, inserted, policy, backlog, m_client, pc["policy"]>>
    BY <1>0, <1>5, <2>1 DEF RequestRecv, RecvMsg, ControllerTypeOK
  <2> QED
    BY <1>1, <2>3, <2>4 DEF OnceInv, BacklogInv
<1>6. CASE RequestValidate \/ RequestReply
  <2>1. UNCHANGED <<sent, inserted, policy, tlsVars, pc["policy"]>>
    BY <1>0, <1>6 DEF RequestValidate, RequestReply, ControllerTypeOK
  <2> QED
    BY <1>1, <2>1 DEF OnceInv, BacklogInv
<1>7. CASE PolicyReset \/ PolicyClose
  <2>1. /\ UNCHANGED <<sent, inserted, policy, backlog, wire, remote>>
        /\ m_client'["policy"] = NoConn
        /\ \/ pc["policy"] = "reset" /\ pc'["policy"] = "accept"
           \/ pc["policy"] = "close" /\ pc'["policy"] = "insert"
    BY <1>0, <1>7 DEF PolicyReset, PolicyClose, ResetClient, TLSTypeOK,
                     ControllerTypeOK
  <2> QED
    BY <1>1, <2>1 DEF OnceInv, BacklogInv
<1>8. CASE MainThread
  <2>1. UNCHANGED <<sent, inserted, policy, tlsVars, pc["policy"]>>
    BY <1>0, <1>8 DEF MainThread, LoadDemo, DemoLoaded, ManagePop, ManageSleep,
                     vars, ControllerTypeOK
  <2> QED
    BY <1>1, <2>1 DEF OnceInv, BacklogInv
<1> QED
  BY <1>2, <1>3, <1>4, <1>5, <1>6, <1>7, <1>8, RecvOnce, InsertOnce, PeerOnce
     DEF Next, RequestThread, PolicyThread

(* What is inserted for a deployer is nothing, an empty string or what its *)
(* first record held: once, and never another deployer's                   *)
(* (PolicyListener.cpp:61-70).                                             *)
THEOREM PolicyOnce == Spec => []InsertedOnce
<1>1. Init => OnceInv
  BY DEF Init, TLSInit, OnceInv, BacklogInv, Once, Queued, Taken, Conns, Servers
<1>2. OnceInv => InsertedOnce
  BY DEF OnceInv, Once, InsertedOnce
<1> QED
  BY Invariance, OnceStep, <1>1, <1>2, PTL DEF Spec
=============================================================================
