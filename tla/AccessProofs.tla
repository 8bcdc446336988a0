---------------------------- MODULE AccessProofs ----------------------------
(***************************************************************************)
(* Proxy and Controller together, for any clients, connections, requests   *)
(* and bounds: what the two threads of the Proxy do over the session is    *)
(* what module Proxy says, nobody is let in, and the retry is in vain.     *)
(***************************************************************************)
EXTENDS AccessControl, ControllerProofs

USE TLSServerAssumption, ControllerAssumption, AccessAssumption

MainAts == {"connect", "pop", "send", "reconnect", "resend", "recv", "print"}

Answer == [ip : Chunks, verdict : BOOLEAN]

AccessTypeOK ==
  /\ knocks \in Seq(Clients) /\ accepted \in Seq(Clients)
  /\ m_clientList \in Seq(Clients)
  /\ clientIP \in Clients \cup {Blank} /\ client \in Clients \cup {Blank}
  /\ mpc \in MainAts /\ proc \in {"running", "exited"}
  /\ msg \in Answer
  /\ conn \in Mine \cup {NoConn} /\ nread \in Nat
  /\ printed \in Seq([ip : Clients, rsp : Answer])
  /\ lpc = "insert" => clientIP \in Clients
  /\ mpc \notin {"connect", "pop"} => client \in Clients
  /\ proc = "exited" => conn = NoConn

(* Who has the keys is whom RequestListener made its session with.         *)
KeyInv == \A c \in ProxyConns : remote[c] = "keyed" => m_ssl["request"] = c

(* The Proxy is past its first connect only if it got the session, and it  *)
(* never gets it over another connection.                                  *)
RetryInv ==
  /\ mpc # "resend"
  /\ mpc # "connect" => /\ m_ssl["request"] \in ProxyConns
                        /\ remote[m_ssl["request"]] # "idle"
  /\ mpc = "reconnect" => conn # m_ssl["request"]

(* The reply to the client in hand: still to come, arrived, or lost with   *)
(* the session.                                                            *)
Awaiting ==
  \/ /\ nread = Len(answered[conn])
     /\ remote[conn] = "keyed" =>
          Unanswered(conn) /\ sent[conn][Len(sent[conn])] = client
  \/ /\ nread + 1 = Len(answered[conn])
     /\ Len(sent[conn]) = Len(answered[conn])
     /\ sent[conn][Len(sent[conn])] = client

LinkInv ==
  /\ \A c \in Mine : remote[c] = "idle" => sent[c] = <<>> /\ answered[c] = <<>>
  /\ conn # NoConn =>
       /\ remote[conn] # "idle"
       /\ Connecting => nread = 0 /\ sent[conn] = <<>> /\ answered[conn] = <<>>
       /\ ~Connecting => remote[conn] \in {"keyed", "gone"}
       /\ ~Connecting /\ mpc # "recv" =>
            /\ nread = Len(answered[conn])
            /\ remote[conn] = "keyed" => Len(sent[conn]) = Len(answered[conn])
       /\ mpc = "recv" => Awaiting
  /\ mpc = "print" => msg \in {NoAnswer, [ip |-> client, verdict |-> FALSE]}
  /\ ~Connecting => conn # NoConn \/ proc = "exited"

AInv == /\ IInv /\ MatchInv
        /\ AccessTypeOK /\ KeyInv /\ RetryInv /\ LinkInv /\ NobodyLetIn

-----------------------------------------------------------------------------
(* To the Controller the Proxy is one of its peers.                        *)
LEMMA ControllerStep == AccessTypeOK /\ [AccessNext]_allVars => [Next]_vars
<1> SUFFICES ASSUME AccessTypeOK, [AccessNext]_allVars PROVE [Next]_vars
  OBVIOUS
<1>1. Mine \subseteq ProxyConns /\ Mine \subseteq Conns /\ ProxyConns \subseteq Conns
  BY DEF Conns
<1>2. CASE \/ \E ip \in Clients : ClientConnects(ip)
           \/ ProxyListenerThread \/ UNCHANGED allVars
  BY <1>2 DEF ClientConnects, ProxyListenerThread, ListenerAccepts,
              ListenerSteps, allVars
<1>3. CASE ProxyMainThread
  <2>1. CASE ConnectBegins
    BY <1>1, <2>1 DEF ConnectBegins, Unused, Next, Peers
  <2>2. CASE MainSends
    <3>1. CASE UNCHANGED vars
      BY <3>1
    <3>2. CASE Session = "up" /\ ProxySends(conn, client)
      <4>1. conn \in ProxyConns /\ client \in Clients
        BY <1>1, <2>2, <3>2 DEF MainSends, Session, AccessTypeOK
      <4> QED
        BY <3>2, <4>1 DEF Next, Peers
    <3> QED
      BY <2>2, <3>1, <3>2 DEF MainSends
  <2>3. CASE ~ConnectBegins /\ ~MainSends
    BY <1>3, <2>3 DEF ProxyMainThread, ConnectSucceeds, ConnectFails, MainPops,
                     MainSendFails, MainReceives, MainPrints
  <2> QED
    BY <2>1, <2>2, <2>3
<1>4. CASE ConnectBreaks \/ LinkBreaks
  <2>1. conn \in Conns /\ PeerLeaves(conn)
    BY <1>1, <1>4
       DEF ConnectBreaks, LinkBreaks, Breaks, Session, AccessTypeOK
  <2> QED
    BY <2>1 DEF Next, Peers
<1>5. CASE Of(RequestThread) \/ Of(MainThread)
  BY <1>5 DEF Of, Next
<1>6. CASE OtherProxies
  BY <1>1, <1>6 DEF OtherProxies, Next, Peers
<1> QED
  BY <1>2, <1>3, <1>4, <1>5, <1>6 DEF AccessNext

(* The programs start in a state of the invariant.                         *)
LEMMA InitAInv == AccessInit => AInv
<1> SUFFICES ASSUME AccessInit PROVE AInv
  OBVIOUS
<1>1. Init
  BY DEF AccessInit
<1>2. IInv /\ MatchInv
  BY <1>1, InitIInv, InitMatch
<1>3. AccessTypeOK
  <2>1. NoAnswer \in Answer
    BY DEF NoAnswer, Answer
  <2>2. /\ knocks = <<>> /\ accepted = <<>> /\ m_clientList = <<>> /\ printed = <<>>
        /\ clientIP = Blank /\ client = Blank /\ lpc = "init"
        /\ mpc = "connect" /\ proc = "running" /\ msg = NoAnswer
        /\ conn = NoConn /\ nread = 0
    BY DEF AccessInit
  <2> QED
    BY <2>1, <2>2 DEF AccessTypeOK, MainAts
<1>4. \A c \in Conns : remote[c] = "idle" /\ sent[c] = <<>>
  BY <1>1 DEF Init, TLSInit
<1>5. \A c \in ProxyConns : answered[c] = <<>>
  BY <1>1 DEF Init
<1>6. KeyInv /\ RetryInv /\ LinkInv /\ NobodyLetIn
  BY <1>4, <1>5 DEF AccessInit, KeyInv, RetryInv, LinkInv, NobodyLetIn,
                   Connecting, Conns
<1> QED
  BY <1>2, <1>3, <1>6 DEF AInv

(* The locals of the Proxy keep their types.                               *)
LEMMA AccessTypeStep ==
  ASSUME AInv, [AccessNext]_allVars
  PROVE  AccessTypeOK'
<1> USE DEF AInv, AccessTypeOK
<1>1. CASE UNCHANGED allVars \/ Of(RequestThread) \/ Of(MainThread) \/ OtherProxies
  BY <1>1 DEF allVars, Of, OtherProxies, proxyVars, mainVars, listenerVars
<1>2. ASSUME NEW ip \in Clients, ClientConnects(ip) PROVE AccessTypeOK'
  BY <1>2 DEF ClientConnects, proxyVars, mainVars, listenerVars
<1>3. CASE ProxyListenerThread
  <2>1. CASE ListenerAccepts
    <3>1. knocks[Len(accepted) + 1] \in Clients
      BY <2>1 DEF ListenerAccepts
    <3> QED
      BY <2>1, <3>1 DEF ListenerAccepts, Prx!ListenerAccept, mainVars
  <2>2. CASE ListenerSteps
    <3>1. UNCHANGED <<knocks, mainVars, accepted, clientIP>> /\ lpc' # "insert"
      BY <2>2 DEF ListenerSteps, Prx!ListenerInit, Prx!ListenerInsert,
                  Prx!ListenerClose
    <3>2. \/ UNCHANGED m_clientList
          \/ lpc = "insert" /\ m_clientList' = Append(m_clientList, clientIP)
      BY <2>2 DEF ListenerSteps, Prx!ListenerInit, Prx!ListenerInsert,
                  Prx!ListenerClose
    <3>3. m_clientList' \in Seq(Clients)
      <4>1. lpc = "insert" => Append(m_clientList, clientIP) \in Seq(Clients)
        OBVIOUS
      <4> QED
        BY <3>2, <4>1
    <3> QED
      BY <3>1, <3>3 DEF mainVars
  <2> QED
    BY <1>3, <2>1, <2>2 DEF ProxyListenerThread
<1>4. CASE ConnectBegins
  <2>1. conn' \in Mine
    BY <1>4 DEF ConnectBegins, Unused
  <2> QED
    BY <1>4, <2>1 DEF ConnectBegins, listenerVars
<1>5. CASE ConnectSucceeds
  BY <1>5 DEF ConnectSucceeds, listenerVars, MainAts, Connecting, AInv, RetryInv
<1>6. CASE ConnectFails \/ ConnectBreaks
  BY <1>6 DEF ConnectFails, ConnectBreaks, Exits, listenerVars
<1>7. CASE MainPops
  <2>1. m_clientList # <<>> /\ client' = Head(m_clientList)
        /\ m_clientList' = Tail(m_clientList)
    BY <1>7 DEF MainPops, Prx!ManagePop
  <2> QED
    BY <1>7, <2>1 DEF MainPops, listenerVars, MainAts
<1>8. CASE MainSends
  BY <1>8 DEF MainSends, listenerVars, MainAts
<1>9. CASE MainSendFails
  <2>1. proc' \in {"running", "exited"} /\ conn' = NoConn
        /\ mpc' \in {"reconnect", "resend"}
    BY <1>9 DEF MainSendFails, Exits
  <2> QED
    BY <1>9, <2>1 DEF MainSendFails, listenerVars, MainAts
<1>10. CASE MainReceives
  <2>1. msg' \in Answer /\ nread' \in Nat
    <3>1. CASE Replies # <<>> /\ msg' = Head(Replies) /\ nread' = nread + 1
      <4>1. conn \in ProxyConns /\ Replies = SubSeq(answered[conn], nread + 1, Len(answered[conn]))
        BY <3>1 DEF Replies, Session
      <4>2. answered[conn] \in Seq(Answer)
        BY <4>1 DEF IInv, TypeOK, ControllerTypeOK, Answer
      <4>3. Replies \in Seq(Answer)
        BY <4>1, <4>2
      <4> QED
        BY <3>1, <4>3
    <3>2. CASE msg' = NoAnswer /\ UNCHANGED nread
      BY <3>2 DEF NoAnswer, Answer
    <3> QED
      BY <1>10, <3>1, <3>2 DEF MainReceives
  <2> QED
    BY <1>10, <2>1 DEF MainReceives, listenerVars, MainAts
<1>11. CASE MainPrints
  <2>1. [ip |-> client, rsp |-> msg] \in [ip : Clients, rsp : Answer]
    BY <1>11 DEF MainPrints
  <2>2. printed' \in Seq([ip : Clients, rsp : Answer])
    BY <1>11, <2>1 DEF MainPrints
  <2> QED
    BY <1>11, <2>2 DEF MainPrints, listenerVars, MainAts
<1>12. CASE LinkBreaks
  <2>1. nread' \in Nat
    <3>1. conn \in ProxyConns
      BY <1>12 DEF LinkBreaks, Session
    <3>2. answered[conn] \in Seq(Answer)
      BY <3>1 DEF IInv, TypeOK, ControllerTypeOK, Answer
    <3> QED
      BY <1>12, <3>2 DEF LinkBreaks
  <2> QED
    BY <1>12, <2>1 DEF LinkBreaks, listenerVars
<1> QED
  BY <1>1, <1>2, <1>3, <1>4, <1>5, <1>6, <1>7, <1>8, <1>9, <1>10, <1>11, <1>12
     DEF AccessNext, ProxyMainThread

(* A connection gets keys only as the one m_ssl has them of, and never     *)
(* goes back to what it was before it was made.                            *)
LEMMA KeyStep ==
  ASSUME IInv, KeyInv, [Next]_vars
  PROVE  KeyInv' /\ \A c \in Conns : remote'[c] = "idle" => remote[c] = "idle"
<1> USE DEF Servers, tlsVars
<1>0. TLSTypeOK /\ ControllerTypeOK /\ ClientInv /\ ProxyConns \subseteq Conns
  BY DEF IInv, TypeOK, Conns
<1>1. m_ssl["request"] \in Conns => UNCHANGED m_ssl["request"]
  BY PinnedStep DEF IInv
<1>2. ASSUME \A c \in Conns : \/ remote'[c] = remote[c]
                              \/ remote'[c] \in {"hello", "rejected", "gone"}
      PROVE  KeyInv' /\ \A c \in Conns : remote'[c] = "idle" => remote[c] = "idle"
  BY <1>0, <1>1, <1>2 DEF KeyInv
<1>3. CASE UNCHANGED remote
  BY <1>2, <1>3
<1>4. ASSUME NEW s \in Servers, ListenerHandshake(s)
      PROVE  KeyInv' /\ \A c \in Conns : remote'[c] = "idle" => remote[c] = "idle"
  <2>1. CASE UNCHANGED remote
    BY <1>3, <2>1
  <2>2. CASE /\ m_ssl' = [m_ssl EXCEPT ![s] = m_client[s]]
             /\ remote' = [remote EXCEPT ![m_client[s]] = "keyed"]
    <3>1. m_client[s] \in ConnsOf(s) /\ m_client[s] \in Conns
      BY <1>0, <1>4 DEF ListenerHandshake, ClientInv, TLSTypeOK
    <3>2. CASE s = "request"
      BY <1>0, <1>1, <2>2, <3>1, <3>2 DEF KeyInv, TLSTypeOK
    <3>3. CASE s = "policy"
      BY <1>0, <1>1, <2>2, <3>1, <3>3, Ports DEF KeyInv, TLSTypeOK
    <3> QED
      BY <3>2, <3>3
  <2> QED
    BY <1>4, <2>1, <2>2 DEF ListenerHandshake, HandshakeOver, HandshakeFails
<1>5. ASSUME NEW s \in Servers, Listener(s), ~ListenerHandshake(s)
      PROVE  UNCHANGED remote
  BY <1>5 DEF Listener, ListenerInit, SetListener, ListenerWaits, AcceptWait,
     ListenerTakes, AcceptTakes, ListenerStarved, AcceptFails
<1>6. CASE RequestRecv \/ PolicyRecv
  <2>1. PICK s \in Servers : \E ok \in BOOLEAN, text \in Chunks : RecvMsg(s, ok, text)
    BY <1>6 DEF RequestRecv, PolicyRecv
  <2>2. \/ UNCHANGED remote
        \/ remote' = [remote EXCEPT ![m_client[s]] =
                        IF @ = "hello" THEN "rejected" ELSE @]
    BY <2>1 DEF RecvMsg
  <2> QED
    BY <1>0, <1>2, <2>2 DEF TLSTypeOK
<1>7. CASE \/ RequestValidate \/ RequestReply \/ PolicyReset \/ PolicyClose
           \/ PolicyInsert \/ MainThread \/ UNCHANGED vars
  <2>1. UNCHANGED remote
    BY <1>7 DEF RequestValidate, RequestReply, PolicyReset, PolicyClose,
       ResetClient, PolicyInsert, MainThread, LoadDemo, DemoLoaded, ManagePop,
       ManageSleep, vars
  <2> QED
    BY <1>3, <2>1
<1>8. CASE Peers
  <2>1. \/ UNCHANGED remote
        \/ \E c \in Conns : \/ remote' = [remote EXCEPT ![c] = "hello"]
                            \/ remote' = [remote EXCEPT ![c] = "gone"]
    BY <1>8 DEF Peers, PeerConnects, Connect, PeerLeaves, Leave, ProxySends,
                DeployerSends, PeerSend
  <2> QED
    BY <1>0, <1>2, <2>1 DEF TLSTypeOK
<1> QED
  BY <1>3, <1>4, <1>5, <1>6, <1>7, <1>8 DEF Next, RequestThread, PolicyThread

(* The first connection that got the session is the last.                  *)
LEMMA RetryStep ==
  ASSUME AInv, [AccessNext]_allVars
  PROVE  RetryInv'
<1>1. /\ IInv /\ KeyInv /\ RetryInv /\ AccessTypeOK /\ [Next]_vars
      /\ ProxyConns \subseteq Conns /\ Mine \subseteq ProxyConns
  BY ControllerStep DEF AInv, Conns
<1>2. \A c \in Conns : remote'[c] = "idle" => remote[c] = "idle"
  BY <1>1, KeyStep
<1>3. m_ssl["request"] \in Conns => UNCHANGED m_ssl["request"]
  BY <1>1, PinnedStep DEF IInv
<1>4. CASE UNCHANGED mpc /\ (mpc = "reconnect" => conn' \in {conn, NoConn})
  BY <1>1, <1>2, <1>3, <1>4 DEF RetryInv
<1>5. CASE ConnectBegins
  <2>1. remote[conn'] = "idle" /\ UNCHANGED mpc
    BY <1>5 DEF ConnectBegins, Unused
  <2> QED
    BY <1>1, <1>2, <1>3, <2>1 DEF RetryInv
<1>6. CASE ConnectSucceeds
  <2>1. m_ssl["request"] = conn /\ remote[conn] = "keyed" /\ conn \in ProxyConns
    BY <1>1, <1>6 DEF ConnectSucceeds, KeyInv, AccessTypeOK
  <2>2. mpc = "connect" /\ mpc' = "pop"
    BY <1>1, <1>6, <2>1 DEF ConnectSucceeds, Connecting, RetryInv
  <2>3. UNCHANGED <<m_ssl, remote>>
    BY <1>6 DEF ConnectSucceeds, vars, tlsVars
  <2> QED
    BY <2>1, <2>2, <2>3 DEF RetryInv
<1>7. CASE \/ MainPops \/ MainSends \/ MainReceives \/ MainPrints
  <2>1. mpc # "connect" /\ mpc' \notin {"connect", "reconnect", "resend"}
    BY <1>7 DEF MainPops, Prx!ManagePop, Prx!Running, MainSends, MainReceives,
                MainPrints
  <2> QED
    BY <1>1, <1>2, <1>3, <2>1 DEF RetryInv
<1>8. CASE MainSendFails
  <2>1. mpc = "send" /\ mpc' = "reconnect" /\ conn' = NoConn
    BY <1>1, <1>8 DEF MainSendFails, RetryInv
  <2>2. NoConn \notin ProxyConns
    BY <1>1
  <2> QED
    BY <1>1, <1>2, <1>3, <2>1, <2>2 DEF RetryInv
<1>9. CASE \/ ConnectFails \/ ConnectBreaks \/ LinkBreaks \/ UNCHANGED allVars
           \/ Of(RequestThread) \/ Of(MainThread) \/ OtherProxies
  BY <1>4, <1>9 DEF ConnectFails, ConnectBreaks, Exits, LinkBreaks, allVars, Of,
     OtherProxies, proxyVars, mainVars
<1>10. CASE ProxyListenerThread \/ \E ip \in Clients : ClientConnects(ip)
  BY <1>4, <1>10 DEF ProxyListenerThread, ListenerAccepts, ListenerSteps,
     ClientConnects, proxyVars, mainVars
<1> QED
  BY <1>5, <1>6, <1>7, <1>8, <1>9, <1>10 DEF AccessNext, ProxyMainThread

(* The Controller's threads send nothing in a peer's name.                 *)
LEMMA ThreadSends == RequestThread \/ MainThread => UNCHANGED sent
<1>1. CASE Listener("request") \/ RequestRecv
  BY <1>1 DEF Listener, ListenerInit, ListenerWaits, ListenerTakes,
              ListenerStarved, ListenerHandshake, RequestRecv
<1>2. CASE RequestValidate \/ RequestReply \/ MainThread
  BY <1>2 DEF RequestValidate, RequestReply, MainThread, LoadDemo, DemoLoaded,
              ManagePop, ManageSleep, vars
<1> QED
  BY <1>1, <1>2 DEF RequestThread

(* What the Controller's threads do to a proxy: they finish its handshake, *)
(* turn it away, or answer the one request it waits for.                   *)
LEMMA ThreadEffect ==
  ASSUME AInv, RequestThread \/ MainThread, NEW c \in ProxyConns
  PROVE  /\ UNCHANGED sent
         /\ \/ UNCHANGED remote[c]
            \/ remote[c] = "hello" /\ remote'[c] \in {"keyed", "rejected"}
         /\ \/ UNCHANGED answered[c]
            \/ /\ remote[c] = "keyed" /\ Unanswered(c)
               /\ answered'[c] = Append(answered[c],
                     [ip |-> sent[c][Len(sent[c])], verdict |-> vRet])
<1>0. /\ TLSTypeOK /\ ControllerTypeOK /\ ClientInv /\ Paired(c) /\ c \in Conns
      /\ "request" \in Servers
  BY DEF AInv, IInv, TypeOK, MatchInv, Conns, Servers
<1>1. CASE Listener("request")
  <2>1. UNCHANGED <<sent, answered>>
    BY <1>1 DEF Listener, ListenerInit, ListenerWaits, ListenerTakes,
                ListenerStarved, ListenerHandshake
  <2>2. CASE UNCHANGED remote
    BY <2>1, <2>2
  <2>3. CASE /\ remote[m_client["request"]] = "hello"
             /\ remote' = [remote EXCEPT ![m_client["request"]] = "keyed"]
    BY <1>0, <2>1, <2>3 DEF TLSTypeOK
  <2> QED
    BY <1>1, <2>2, <2>3
       DEF Listener, ListenerInit, SetListener, ListenerWaits, AcceptWait,
       ListenerTakes, AcceptTakes, ListenerStarved, AcceptFails,
       ListenerHandshake, HandshakeOver, HandshakeFails
<1>2. CASE RequestRecv
  <2>1. /\ UNCHANGED <<sent, answered>>
        /\ \/ UNCHANGED remote
           \/ remote' = [remote EXCEPT ![m_client["request"]] =
                           IF @ = "hello" THEN "rejected" ELSE @]
    BY <1>2 DEF RequestRecv, RecvMsg
  <2> QED
    BY <1>0, <2>1 DEF TLSTypeOK
<1>3. CASE RequestReply
  <2>1. UNCHANGED <<sent, remote>>
    BY <1>3 DEF RequestReply, tlsVars
  <2>2. CASE UNCHANGED answered[c]
    BY <2>1, <2>2
  <2>3. CASE answered'[c] # answered[c]
    <3>1. /\ InHand(c) /\ remote[c] = "keyed"
          /\ answered'[c] = Append(answered[c], [ip |-> req, verdict |-> vRet])
      BY <1>0, <1>3, <2>3 DEF RequestReply, Reaches, InHand, ControllerTypeOK
    <3> QED
      BY <1>0, <2>1, <3>1 DEF Paired
  <2> QED
    BY <2>2, <2>3
<1>4. CASE RequestValidate \/ MainThread
  BY <1>4 DEF RequestValidate, MainThread, LoadDemo, DemoLoaded, ManagePop,
              ManageSleep, vars, tlsVars
<1> QED
  BY <1>1, <1>2, <1>3, <1>4 DEF RequestThread

(* The replies the Proxy has not read: none or one.                        *)
LEMMA RepliesShape ==
  ASSUME AInv, Session # "none"
  PROVE  /\ conn \in Mine /\ ~Connecting
         /\ answered[conn] \in Seq(Answer) /\ sent[conn] \in Seq(Chunks)
         /\ nread = Len(answered[conn]) => Replies = <<>>
         /\ nread + 1 = Len(answered[conn]) =>
              Replies = <<answered[conn][nread + 1]>>
<1>1. conn \in Mine /\ ~Connecting /\ nread \in Nat /\ conn \in ProxyConns
  BY DEF Session, AInv, AccessTypeOK
<1>2. answered[conn] \in Seq(Answer) /\ sent[conn] \in Seq(Chunks)
  BY <1>1 DEF AInv, IInv, TypeOK, ControllerTypeOK, Answer, Conns
<1>3. Replies = SubSeq(answered[conn], nread + 1, Len(answered[conn]))
  BY DEF Replies
<1>4. CASE nread = Len(answered[conn])
  BY <1>1, <1>2, <1>3, <1>4
<1>5. CASE nread + 1 = Len(answered[conn])
  <2>1. /\ Replies \in Seq(Answer) /\ Len(Replies) = 1
        /\ Replies[1] = answered[conn][nread + 1]
    BY <1>1, <1>2, <1>3, <1>5, SubSeqProperties
  <2>2. Replies[1] \in Answer
    BY <2>1, ElementOfSeq
  <2>3. /\ <<Replies[1]>> \in Seq(Answer) /\ Len(<<Replies[1]>>) = 1
        /\ <<Replies[1]>>[1] = Replies[1]
    BY <2>2
  <2>4. Replies = <<Replies[1]>>
    BY <2>1, <2>3, SeqEqual
  <2>5. nread # Len(answered[conn])
    BY <1>1, <1>5
  <2>6. Replies = <<answered[conn][nread + 1]>>
    BY <2>1, <2>4
  <2> QED
    BY <1>1, <1>2, <2>5, <2>6
<1> QED
  BY <1>1, <1>2, <1>4, <1>5

(* The Proxy reads the reply to the client in hand, or the end.            *)
LEMMA ReceiveEffect ==
  ASSUME AInv, MainReceives
  PROVE  /\ nread' = Len(answered[conn])
         /\ remote[conn] = "keyed" => Len(sent[conn]) = Len(answered[conn])
         /\ msg' \in {NoAnswer, [ip |-> client, verdict |-> FALSE]}
<1>0. Session # "none" /\ mpc = "recv"
  BY DEF MainReceives, Replies
<1>1. /\ conn \in Mine /\ ~Connecting /\ conn # NoConn
      /\ answered[conn] \in Seq(Answer) /\ sent[conn] \in Seq(Chunks)
      /\ nread = Len(answered[conn]) => Replies = <<>>
      /\ nread + 1 = Len(answered[conn]) =>
           Replies = <<answered[conn][nread + 1]>>
  BY <1>0, RepliesShape DEF Session
<1>2. Awaiting
  BY <1>0, <1>1 DEF AInv, LinkInv
<1>3. CASE nread = Len(answered[conn])
  <2>1. Replies = <<>>
    BY <1>1, <1>3
  <2>2. Session = "down" /\ msg' = NoAnswer /\ UNCHANGED nread
    BY <2>1 DEF MainReceives
  <2> QED
    BY <1>3, <2>2 DEF Session
<1>4. CASE /\ nread + 1 = Len(answered[conn])
           /\ Len(sent[conn]) = Len(answered[conn])
           /\ sent[conn][Len(sent[conn])] = client
  <2> DEFINE r == answered[conn][nread + 1]
  <2>1. Replies = <<r>>
    BY <1>1, <1>4
  <2>2. Replies # <<>> /\ Head(Replies) = r
    BY <2>1
  <2>3. msg' = r /\ nread' = nread + 1
    BY <2>2 DEF MainReceives
  <2>4. nread + 1 \in 1..Len(answered[conn])
    BY <1>1, <1>4 DEF AInv, AccessTypeOK
  <2>5. r \in Answer /\ r.ip = client /\ r.verdict = FALSE
    <3>1. r.ip = sent[conn][nread + 1]
      BY <1>1, <2>4 DEF AInv, MatchInv, Paired
    <3>2. r.verdict = FALSE
      BY <1>1, <2>4 DEF AInv, IInv, DenyInv, DeniedByDefault
    <3> QED
      BY <1>1, <1>4, <2>4, <3>1, <3>2, ElementOfSeq
  <2>6. r = [ip |-> client, verdict |-> FALSE]
    BY <2>5 DEF Answer
  <2> QED
    BY <1>4, <2>3, <2>6
<1> QED
  BY <1>2, <1>3, <1>4 DEF Awaiting

(* At every point the Proxy has at most the reply to the client in hand    *)
(* before it, and nothing else on the session.                             *)
LEMMA LinkStep ==
  ASSUME AInv, [AccessNext]_allVars
  PROVE  LinkInv'
<1>0. /\ AccessTypeOK /\ LinkInv /\ RetryInv /\ TLSTypeOK /\ ControllerTypeOK
      /\ Mine \subseteq ProxyConns /\ ProxyConns \subseteq Conns
      /\ NoConn \notin Mine
      /\ \A c \in Mine : answered[c] \in Seq(Answer) /\ sent[c] \in Seq(Chunks)
  BY DEF AInv, IInv, TypeOK, ControllerTypeOK, Conns, Answer
<1> USE DEF LinkInv, Connecting
<1>1. CASE UNCHANGED <<mpc, client, msg, conn, nread, proc, sent, answered, remote>>
  BY <1>0, <1>1 DEF Awaiting, Unanswered
<1>2. ASSUME NEW ip \in Clients, ClientConnects(ip) PROVE LinkInv'
  BY <1>1, <1>2 DEF ClientConnects, vars, tlsVars, proxyVars, mainVars
<1>3. CASE ProxyListenerThread \/ UNCHANGED allVars
  BY <1>1, <1>3 DEF ProxyListenerThread, ListenerAccepts, ListenerSteps,
     allVars, vars, tlsVars, proxyVars, mainVars
<1>4. CASE Of(RequestThread) \/ Of(MainThread)
  <2>1. /\ UNCHANGED <<mpc, client, msg, conn, nread, proc, sent>>
        /\ RequestThread \/ MainThread
    BY <1>4, ThreadSends DEF Of, proxyVars, mainVars
  <2>2. \A c \in Mine :
          /\ \/ UNCHANGED remote[c]
             \/ remote[c] = "hello" /\ remote'[c] \in {"keyed", "rejected"}
          /\ \/ UNCHANGED answered[c]
             \/ /\ remote[c] = "keyed" /\ Unanswered(c)
                /\ answered'[c] = Append(answered[c],
                      [ip |-> sent[c][Len(sent[c])], verdict |-> vRet])
    BY <1>0, <2>1, ThreadEffect
  <2>3. \A c \in Mine : remote'[c] = "idle" => sent'[c] = <<>> /\ answered'[c] = <<>>
    BY <1>0, <2>1, <2>2 DEF Unanswered
  <2>4. CASE conn = NoConn
    BY <1>0, <2>1, <2>3, <2>4
  <2>5. CASE conn # NoConn /\ UNCHANGED answered[conn]
    <3>1. conn \in Mine
      BY <1>0, <2>5 DEF AccessTypeOK
    <3>2. CASE UNCHANGED remote[conn]
      <4>1. Awaiting' <=> Awaiting
        BY <2>1, <2>5, <3>2 DEF Awaiting, Unanswered
      <4> QED
        BY <1>0, <2>1, <2>3, <2>5, <3>2, <4>1
    <3>3. CASE remote[conn] = "hello" /\ remote'[conn] \in {"keyed", "rejected"}
      BY <1>0, <2>1, <2>3, <2>5, <3>3
    <3> QED
      BY <2>1, <2>2, <3>1, <3>2, <3>3
  <2>6. CASE /\ conn # NoConn /\ remote[conn] = "keyed" /\ Unanswered(conn)
             /\ UNCHANGED remote[conn]
             /\ Len(answered'[conn]) = Len(answered[conn]) + 1
    <3>1. conn \in Mine /\ Len(answered[conn]) \in Nat /\ Len(sent[conn]) \in Nat
      BY <1>0, <2>6 DEF AccessTypeOK
    <3>2. mpc = "recv"
      BY <1>0, <2>6, <3>1 DEF Unanswered
    <3>3. nread = Len(answered[conn]) /\ sent[conn][Len(sent[conn])] = client
      BY <1>0, <2>6, <3>1, <3>2 DEF Awaiting, Unanswered
    <3>4. Awaiting'
      BY <2>1, <2>6, <3>1, <3>3 DEF Awaiting, Unanswered
    <3> QED
      BY <1>0, <2>1, <2>3, <2>6, <3>2, <3>4
  <2>7. conn # NoConn =>
          \/ UNCHANGED answered[conn]
          \/ /\ remote[conn] = "keyed" /\ Unanswered(conn)
             /\ UNCHANGED remote[conn]
             /\ Len(answered'[conn]) = Len(answered[conn]) + 1
    <3> SUFFICES ASSUME conn # NoConn, ~UNCHANGED answered[conn]
                 PROVE  /\ remote[conn] = "keyed" /\ Unanswered(conn)
                        /\ UNCHANGED remote[conn]
                        /\ Len(answered'[conn]) = Len(answered[conn]) + 1
      OBVIOUS
    <3>1. conn \in Mine /\ answered[conn] \in Seq(Answer)
      BY <1>0 DEF AccessTypeOK
    <3>2. /\ remote[conn] = "keyed" /\ Unanswered(conn) /\ UNCHANGED remote[conn]
          /\ \E a : answered'[conn] = Append(answered[conn], a)
      BY <2>1, <2>2, <3>1
    <3> QED
      BY <2>1, <3>1, <3>2
  <2> QED
    BY <2>4, <2>5, <2>6, <2>7
<1>5. CASE OtherProxies
  <2>1. PICK c \in ProxyConns \ Mine :
          PeerConnects(c) \/ PeerLeaves(c) \/ \E ip \in Clients : ProxySends(c, ip)
    BY <1>5 DEF OtherProxies
  <2>2. /\ UNCHANGED <<mpc, client, msg, conn, nread, proc, answered>>
        /\ \A d \in Mine : UNCHANGED <<sent[d], remote[d]>>
    <3>1. UNCHANGED <<mpc, client, msg, conn, nread, proc, answered>>
      BY <1>5, <2>1 DEF OtherProxies, PeerConnects, Connect, PeerLeaves,
         Leave, ProxySends, PeerSend, proxyVars, mainVars
    <3>2. \A d \in Mine : UNCHANGED sent[d]
      BY <1>0, <2>1 DEF PeerConnects, Connect, PeerLeaves, Leave, ProxySends,
         PeerSend, TLSTypeOK, ControllerTypeOK
    <3>3. \A d \in Mine : UNCHANGED remote[d]
      BY <1>0, <2>1 DEF PeerConnects, Connect, PeerLeaves, Leave, ProxySends,
         PeerSend, TLSTypeOK, ControllerTypeOK
    <3> QED
      BY <3>1, <3>2, <3>3
  <2> QED
    BY <1>0, <2>2 DEF Awaiting, Unanswered, AccessTypeOK
<1>6. CASE ConnectBegins
  <2>1. /\ conn' \in Mine /\ remote[conn'] = "idle" /\ nread' = 0
        /\ remote' = [remote EXCEPT ![conn'] = "hello"]
        /\ UNCHANGED <<mpc, client, msg, proc, sent, answered>>
        /\ mpc \in {"connect", "reconnect"}
    BY <1>6 DEF ConnectBegins, Unused, PeerConnects, Connect
  <2>2. /\ remote'[conn'] = "hello"
        /\ \A c \in Mine : remote'[c] = "idle" => remote[c] = "idle"
    BY <1>0, <2>1 DEF TLSTypeOK
  <2> QED
    BY <1>0, <2>1, <2>2
<1>7. CASE ConnectSucceeds
  <2>1. /\ UNCHANGED <<client, msg, conn, nread, proc, sent, answered, remote>>
        /\ remote[conn] = "keyed" /\ conn # NoConn
        /\ mpc \in {"connect", "reconnect"} /\ mpc' \in {"pop", "resend"}
    BY <1>7 DEF ConnectSucceeds, vars, tlsVars
  <2> QED
    BY <1>0, <2>1
<1>8. CASE ConnectFails
  BY <1>0, <1>8 DEF ConnectFails, Exits, vars, tlsVars
<1>9. CASE ConnectBreaks
  <2>1. /\ conn' = NoConn /\ UNCHANGED <<mpc, msg, client, sent, answered>>
        /\ mpc \in {"connect", "reconnect"}
        /\ remote' = [remote EXCEPT ![conn] = "gone"]
    BY <1>9 DEF ConnectBreaks, Exits, Breaks, PeerLeaves, Leave
  <2> QED
    BY <1>0, <2>1 DEF TLSTypeOK
<1>10. CASE MainPops
  BY <1>0, <1>10 DEF MainPops, Prx!ManagePop, Prx!Running, vars, tlsVars
<1>11. CASE MainSends
  <2>1. /\ UNCHANGED <<client, msg, conn, nread, proc, answered, remote>>
        /\ mpc \in {"send", "resend"} /\ mpc' = "recv"
    BY <1>11 DEF MainSends, ProxySends, PeerSend, vars, tlsVars
  <2>2. Session # "none" /\ conn \in Mine /\ conn # NoConn
    BY <1>0, <1>11 DEF MainSends, Session, AccessTypeOK
  <2>3. CASE Session = "down" /\ UNCHANGED vars
    <3>1. remote[conn] # "keyed" /\ UNCHANGED sent
      BY <2>3 DEF Session, vars
    <3> QED
      BY <1>0, <2>1, <2>2, <3>1 DEF Awaiting
  <2>4. CASE Session = "up" /\ ProxySends(conn, client)
    <3>1. /\ sent' = [sent EXCEPT ![conn] = Append(@, client)]
          /\ Len(sent[conn]) = Len(answered[conn]) /\ remote[conn] = "keyed"
          /\ client \in Chunks
      BY <1>0, <2>1, <2>4 DEF ProxySends, PeerSend, AccessTypeOK
    <3>2. /\ Len(sent'[conn]) = Len(answered[conn]) + 1
          /\ sent'[conn][Len(sent'[conn])] = client
      <4>1. sent'[conn] = Append(sent[conn], client)
        BY <1>0, <2>2, <3>1 DEF ControllerTypeOK
      <4> QED
        BY <1>0, <2>2, <3>1, <4>1
    <3>3. Awaiting'
      BY <1>0, <2>1, <2>2, <3>1, <3>2 DEF Awaiting, Unanswered
    <3>4. \A c \in Mine : remote[c] = "idle" => UNCHANGED sent[c]
      BY <1>0, <3>1 DEF ControllerTypeOK
    <3> QED
      BY <1>0, <2>1, <2>2, <3>3, <3>4
  <2> QED
    BY <1>11, <2>3, <2>4 DEF MainSends
<1>12. CASE MainSendFails
  <2>1. mpc' = "reconnect" /\ conn' = NoConn /\ UNCHANGED <<sent, answered, remote>>
    BY <1>0, <1>12 DEF MainSendFails, RetryInv, vars, tlsVars
  <2> QED
    BY <1>0, <2>1
<1>13. CASE MainReceives
  <2>1. /\ UNCHANGED <<client, conn, proc, sent, answered, remote>>
        /\ mpc = "recv" /\ mpc' = "print"
    BY <1>13 DEF MainReceives, vars, tlsVars
  <2> QED
    BY <1>0, <1>13, <2>1, ReceiveEffect
<1>14. CASE MainPrints
  BY <1>0, <1>14 DEF MainPrints, vars, tlsVars
<1>15. CASE LinkBreaks
  <2>1. /\ UNCHANGED <<mpc, client, msg, conn, proc, sent, answered>>
        /\ remote' = [remote EXCEPT ![conn] = "gone"] /\ Session = "up"
        /\ nread' \in {nread, Len(answered[conn])}
    BY <1>15 DEF LinkBreaks, Breaks, PeerLeaves, Leave
  <2>2. conn \in Mine /\ ~Connecting /\ remote'[conn] = "gone"
    BY <1>0, <2>1 DEF Session, AccessTypeOK, TLSTypeOK
  <2>3. \A c \in Mine : remote'[c] = "idle" => remote[c] = "idle"
    BY <1>0, <2>1 DEF TLSTypeOK
  <2> QED
    BY <1>0, <2>1, <2>2, <2>3 DEF Awaiting, Unanswered
<1> QED
  BY <1>2, <1>3, <1>4, <1>5, <1>6, <1>7, <1>8, <1>9, <1>10, <1>11, <1>12, <1>13,
     <1>14, <1>15 DEF AccessNext, ProxyMainThread

(* What is printed is what was read.                                       *)
LEMMA PrintStep ==
  ASSUME AInv, [AccessNext]_allVars
  PROVE  NobodyLetIn'
<1>1. CASE UNCHANGED printed
  BY <1>1 DEF AInv, NobodyLetIn
<1>2. CASE MainPrints
  <2>1. /\ printed' = Append(printed, [ip |-> client, rsp |-> msg])
        /\ msg \in {NoAnswer, [ip |-> client, verdict |-> FALSE]}
        /\ printed \in Seq([ip : Clients, rsp : Answer])
    BY <1>2 DEF MainPrints, AInv, LinkInv, AccessTypeOK
  <2>2. ASSUME NEW i \in 1..Len(printed')
        PROVE  printed'[i].rsp \in
                 {NoAnswer, [ip |-> printed'[i].ip, verdict |-> FALSE]}
    <3>1. CASE i \in 1..Len(printed) /\ printed'[i] = printed[i]
      BY <3>1 DEF AInv, NobodyLetIn
    <3>2. CASE printed'[i] = [ip |-> client, rsp |-> msg]
      BY <2>1, <3>2
    <3> QED
      BY <2>1, <2>2, <3>1, <3>2
  <2> QED
    BY <2>2 DEF NobodyLetIn
<1> QED
  BY <1>1, <1>2
     DEF AccessNext, ClientConnects, ProxyListenerThread, ListenerAccepts,
     ListenerSteps, ProxyMainThread, ConnectBegins, ConnectSucceeds,
     ConnectFails, ConnectBreaks, MainPops, MainSends, MainSendFails,
     MainReceives, LinkBreaks, Of, OtherProxies, allVars, proxyVars, mainVars

(* The parts together are inductive.                                       *)
LEMMA AInvStep == AInv /\ [AccessNext]_allVars => AInv'
<1> SUFFICES ASSUME AInv, [AccessNext]_allVars PROVE AInv'
  OBVIOUS
<1>1. [Next]_vars /\ IInv /\ MatchInv /\ KeyInv
  BY ControllerStep DEF AInv
<1>2. IInv' /\ MatchInv' /\ KeyInv'
  BY <1>1, IInvStep, MatchStep, KeyStep
<1> QED
  BY <1>2, AccessTypeStep, RetryStep, LinkStep, PrintStep DEF AInv

(* AInv holds in every state of the two programs.                          *)
THEOREM AccessInvariance == AccessSpec => []AInv
BY InitAInv, AInvStep, PTL DEF AccessSpec

(* Whatever proxies, clients and the network do, what the Proxy prints of  *)
(* a client is that it is denied, or nothing (ProxyManager.cpp:65,         *)
(* PolicyManager.cpp:44-57).                                               *)
THEOREM NobodyGetsIn == AccessSpec => []NobodyLetIn
<1>1. AInv => NobodyLetIn
  BY DEF AInv
<1> QED
  BY AccessInvariance, <1>1, PTL

(* ProxyManager.cpp:56 is never reached: a session that is lost is not     *)
(* made again (RequestListener.cpp:68, 83).                                *)
THEOREM NoSecondAttempt == AccessSpec => []RetryInVain
<1>1. AInv => RetryInVain
  BY DEF AInv, RetryInv, RetryInVain
<1> QED
  BY AccessInvariance, <1>1, PTL

-----------------------------------------------------------------------------
(***************************************************************************)
(* The two programs of AccessControl do what module Proxy says: the        *)
(* initial states map to initial states, and every step maps to a step of  *)
(* Proxy or to none.                                                       *)
(***************************************************************************)

(* What is on the session, as module Proxy sees it.                        *)
LinkShape ==
  /\ Session \in {"none", "up", "down"}
  /\ Session = "none" \/ mpc # "recv" => Asked = <<>> /\ IPsOf(Replies) = <<>>
  /\ Session = "down" => Asked = <<>>
  /\ Session # "none" /\ mpc = "recv" =>
       \/ /\ IPsOf(Replies) = <<>> /\ Replies = <<>>
          /\ Session = "up" => Asked = <<client>> /\ Unanswered(conn)
       \/ /\ IPsOf(Replies) = <<client>> /\ Replies # <<>>
          /\ Head(Replies).ip = client
          /\ Asked = <<>> /\ Len(sent[conn]) = Len(answered[conn])

(* IPsOf of the sequences that occur.                                      *)
LEMMA IPsOfShort ==
  /\ IPsOf(<<>>) = <<>>
  /\ \A a \in Answer : IPsOf(<<a>>) = <<a.ip>>
<1>1. IPsOf(<<>>) = <<>>
  BY DEF IPsOf
<1>2. ASSUME NEW a \in Answer PROVE IPsOf(<<a>>) = <<a.ip>>
  BY DEF IPsOf, Answer
<1> QED
  BY <1>1, <1>2

(* The tail of a sequence, as long as it can get here.                     *)
LEMMA LastOf ==
  ASSUME NEW S, NEW s \in Seq(S)
  PROVE  /\ SubSeq(s, Len(s) + 1, Len(s)) = <<>>
         /\ s # <<>> => SubSeq(s, Len(s), Len(s)) = <<s[Len(s)]>>
<1>1. SubSeq(s, Len(s) + 1, Len(s)) = <<>>
  OBVIOUS
<1>2. ASSUME s # <<>> PROVE SubSeq(s, Len(s), Len(s)) = <<s[Len(s)]>>
  <2> DEFINE t == SubSeq(s, Len(s), Len(s))
  <2>1. Len(s) \in Nat /\ Len(s) >= 1
    BY <1>2, EmptySeq
  <2>2. t \in Seq(S) /\ Len(t) = 1 /\ t[1] = s[Len(s)]
    BY <2>1, SubSeqProperties
  <2>3. s[Len(s)] \in S
    BY <2>1, ElementOfSeq
  <2>4. /\ <<s[Len(s)]>> \in Seq(S) /\ Len(<<s[Len(s)]>>) = 1
        /\ <<s[Len(s)]>>[1] = s[Len(s)]
    BY <2>3
  <2> HIDE DEF t
  <2>5. t = <<s[Len(s)]>>
    BY <2>2, <2>4, SeqEqual
  <2> QED
    BY <2>5 DEF t
<1> QED
  BY <1>1, <1>2

(* The invariant gives the session its shape.                              *)
LEMMA ShapeOfLink == AInv => LinkShape
<1> SUFFICES ASSUME AInv PROVE LinkShape
  OBVIOUS
<1>1. Session \in {"none", "up", "down"}
  BY DEF Session
<1>2. CASE Session = "none"
  <2>1. Asked = <<>> /\ Replies = <<>>
    BY <1>2 DEF Asked, Replies
  <2> QED
    BY <1>2, <2>1, IPsOfShort DEF LinkShape
<1>3. CASE Session # "none"
  <2>1. /\ conn \in Mine /\ ~Connecting /\ conn # NoConn
        /\ answered[conn] \in Seq(Answer) /\ sent[conn] \in Seq(Chunks)
        /\ nread = Len(answered[conn]) => Replies = <<>>
        /\ nread + 1 = Len(answered[conn]) =>
             Replies = <<answered[conn][nread + 1]>>
    BY <1>3, RepliesShape DEF Session
  <2>2. /\ nread \in Nat
        /\ Session = "up" <=> remote[conn] = "keyed"
        /\ client \in Clients \cup {Blank}
    BY <1>3 DEF Session, AInv, AccessTypeOK
  <2>3. /\ Session = "up" => Asked = SubSeq(sent[conn], Len(answered[conn]) + 1, Len(sent[conn]))
        /\ Session # "up" => Asked = <<>>
    BY DEF Asked
  <2>4. Session = "up" /\ Len(sent[conn]) = Len(answered[conn]) => Asked = <<>>
    <3> SUFFICES ASSUME Session = "up", Len(sent[conn]) = Len(answered[conn])
                 PROVE  Asked = <<>>
      OBVIOUS
    <3>1. Asked = SubSeq(sent[conn], Len(sent[conn]) + 1, Len(sent[conn]))
      BY <2>3
    <3> QED
      BY <2>1, <3>1, LastOf
  <2>5. CASE mpc # "recv"
    <3>1. nread = Len(answered[conn])
          /\ (remote[conn] = "keyed" => Len(sent[conn]) = Len(answered[conn]))
      BY <2>1, <2>5 DEF AInv, LinkInv
    <3>2. Replies = <<>> /\ Asked = <<>>
      BY <2>1, <2>2, <2>3, <2>4, <3>1
    <3> QED
      BY <1>1, <2>5, <3>2, IPsOfShort DEF LinkShape
  <2>6. CASE mpc = "recv"
    <3>1. Awaiting
      BY <2>1, <2>6 DEF AInv, LinkInv
    <3>2. CASE /\ nread = Len(answered[conn])
               /\ remote[conn] = "keyed" =>
                    Unanswered(conn) /\ sent[conn][Len(sent[conn])] = client
      <4>1. Replies = <<>> /\ IPsOf(Replies) = <<>>
        BY <2>1, <3>2, IPsOfShort
      <4>2. ASSUME Session = "up" PROVE Asked = <<client>> /\ Unanswered(conn)
        <5>1. Unanswered(conn) /\ sent[conn][Len(sent[conn])] = client
          BY <2>2, <3>2, <4>2
        <5>2. Asked = SubSeq(sent[conn], Len(sent[conn]), Len(sent[conn]))
          BY <2>3, <4>2, <5>1 DEF Unanswered
        <5>3. sent[conn] # <<>>
          BY <2>1, <5>1 DEF Unanswered
        <5> QED
          BY <2>1, <5>1, <5>2, <5>3, LastOf
      <4> QED
        BY <1>1, <1>3, <2>3, <2>6, <4>1, <4>2 DEF LinkShape
    <3>3. CASE /\ nread + 1 = Len(answered[conn])
               /\ Len(sent[conn]) = Len(answered[conn])
               /\ sent[conn][Len(sent[conn])] = client
      <4> DEFINE a == answered[conn][nread + 1]
      <4>1. nread + 1 \in 1..Len(answered[conn]) /\ conn \in ProxyConns
        BY <2>1, <2>2, <3>3
      <4>2. a \in Answer
        BY <2>1, <4>1, ElementOfSeq
      <4>3. a.ip = sent[conn][nread + 1]
        BY <4>1 DEF AInv, MatchInv, Paired
      <4>4. Replies = <<a>> /\ a.ip = client
        BY <2>1, <3>3, <4>3
      <4>5. IPsOf(Replies) = <<client>> /\ Replies # <<>> /\ Head(Replies).ip = client
        <5> HIDE DEF a
        <5> QED
          BY <4>2, <4>4, IPsOfShort
      <4>6. Asked = <<>>
        BY <2>3, <2>4, <3>3
      <4> QED
        BY <1>1, <1>3, <2>6, <3>3, <4>5, <4>6 DEF LinkShape
    <3> QED
      BY <3>1, <3>2, <3>3 DEF Awaiting
  <2> QED
    BY <2>5, <2>6
<1> QED
  BY <1>2, <1>3

(* Also after a step.                                                      *)
LEMMA ShapeAfter == AInv' => LinkShape'
BY ShapeOfLink, PTL

(* Printing adds one pair to what module Proxy calls printed.              *)
Pairs(p) == [i \in 1..Len(p) |-> [ip |-> p[i].ip, rsp |-> p[i].rsp.ip]]

(* Printing one more adds its pair at the end.                             *)
LEMMA PairsAppend ==
  ASSUME NEW S, NEW p \in Seq(S), NEW e \in S
  PROVE  Pairs(Append(p, e)) = Append(Pairs(p), [ip |-> e.ip, rsp |-> e.rsp.ip])
<1> DEFINE x == [ip |-> e.ip, rsp |-> e.rsp.ip]
           T == {Pairs(p)[i] : i \in 1..Len(p)} \cup {x}
<1>1. /\ Pairs(p) \in Seq(T) /\ Len(Pairs(p)) = Len(p)
      /\ Append(p, e) \in Seq(S) /\ Len(Append(p, e)) = Len(p) + 1
  <2>1. Pairs(p) = [i \in 1..Len(p) |-> Pairs(p)[i]] /\ Len(p) \in Nat
    BY DEF Pairs
  <2>2. \A i \in 1..Len(p) : Pairs(p)[i] \in T
    OBVIOUS
  <2>3. Pairs(p) \in [1..Len(p) -> T]
    BY <2>1, <2>2
  <2> QED
    BY <2>1, <2>3
<1>2. /\ DOMAIN Pairs(Append(p, e)) = 1..(Len(p) + 1)
      /\ DOMAIN Append(Pairs(p), x) = 1..(Len(p) + 1)
  BY <1>1 DEF Pairs
<1>3. ASSUME NEW i \in 1..(Len(p) + 1)
      PROVE  Pairs(Append(p, e))[i] = Append(Pairs(p), x)[i]
  <2>1. CASE i = Len(p) + 1
    BY <1>1, <2>1 DEF Pairs
  <2>2. CASE i \in 1..Len(p)
    BY <1>1, <2>2 DEF Pairs
  <2> QED
    BY <1>1, <2>1, <2>2
<1> QED
  BY <1>1, <1>2, <1>3 DEF Pairs
-----------------------------------------------------------------------------
(* The programs start as module Proxy does.                                *)
LEMMA RefinesInit == AccessInit => Prx!Init
<1> SUFFICES ASSUME AccessInit PROVE Prx!Init
  OBVIOUS
<1>1. Session = "none"
  BY DEF AccessInit, Session, Connecting
<1>2. Asked = <<>> /\ Replies = <<>>
  BY <1>1 DEF Asked, Replies
<1>3. [i \in 1..Len(printed) |->
         [ip |-> printed[i].ip, rsp |-> printed[i].rsp.ip]] = <<>>
  BY DEF AccessInit
<1> QED
  BY <1>1, <1>2, <1>3, IPsOfShort DEF AccessInit, Prx!Init, NoAnswer

(* A step of the Controller is a reply, or nothing to module Proxy.        *)
LEMMA ControllerRefines ==
  ASSUME AInv, AInv', Of(RequestThread) \/ Of(MainThread)
  PROVE  Prx!ControllerReplies \/ UNCHANGED Prx!vars
<1>1. /\ UNCHANGED <<proxyVars, sent>>
      /\ RequestThread \/ MainThread
  BY ThreadSends DEF Of
<1>2. UNCHANGED <<proc, lpc, clientIP, accepted, m_clientList, mpc, client, msg,
                  conn, nread, printed>>
  BY <1>1 DEF proxyVars, listenerVars, mainVars
<1>3. LinkShape /\ LinkShape' /\ AccessTypeOK /\ LinkInv
  BY ShapeOfLink, ShapeAfter DEF AInv
<1>4. CASE UNCHANGED <<Session, Asked, IPsOf(Replies)>>
  BY <1>2, <1>4 DEF Prx!vars, Prx!listenerVars, Prx!linkVars
<1>5. CASE Session = "none"
  <2>1. Session' = "none"
    BY <1>2, <1>5 DEF Session, Connecting
  <2> QED
    BY <1>3, <1>4, <1>5, <2>1 DEF LinkShape
<1>6. CASE Session # "none"
  <2>1. conn \in Mine /\ ~Connecting /\ conn # NoConn /\ conn \in ProxyConns
    BY <1>3, <1>6 DEF Session, AccessTypeOK
  <2>2. UNCHANGED remote[conn] /\ remote[conn] \in {"keyed", "gone"}
    BY <1>1, <1>2, <1>3, <2>1, ThreadEffect DEF LinkInv
  <2>3. UNCHANGED Session
    BY <1>2, <2>2 DEF Session, Connecting
  <2>4. CASE UNCHANGED answered[conn]
    <3>1. UNCHANGED <<Asked, Replies>>
      BY <1>1, <1>2, <2>3, <2>4 DEF Asked, Replies
    <3> QED
      BY <1>4, <2>3, <3>1
  <2>5. CASE /\ remote[conn] = "keyed" /\ Unanswered(conn)
             /\ Len(answered'[conn]) = Len(sent[conn])
    <3>1. Session = "up" /\ Len(sent[conn]) # Len(answered[conn])
      BY <2>1, <2>5, <1>6, RepliesShape DEF Session, Unanswered
    <3>2. mpc = "recv"
      <4>1. ASSUME mpc # "recv" PROVE FALSE
        BY <1>3, <2>1, <2>5, <3>1, <4>1 DEF LinkInv
      <4> QED
        BY <4>1
    <3>3. Asked = <<client>> /\ IPsOf(Replies) = <<>>
      BY <1>3, <1>6, <3>1, <3>2 DEF LinkShape
    <3>4. ~Unanswered(conn)'
      BY <1>1, <1>2, <1>6, <2>1, <2>5, RepliesShape DEF Unanswered
    <3>5. Asked' = <<>> /\ IPsOf(Replies)' = <<client>>
      BY <1>2, <1>3, <2>3, <3>1, <3>2, <3>4 DEF LinkShape
    <3>6. proc = "running"
      BY <1>3, <2>1 DEF AccessTypeOK
    <3>7. /\ Asked # <<>> /\ Tail(Asked) = <<>>
          /\ Append(IPsOf(Replies), Head(Asked)) = <<client>>
      BY <3>3
    <3> QED
      BY <1>2, <2>3, <3>1, <3>5, <3>6, <3>7
         DEF Prx!ControllerReplies, Prx!listenerVars
  <2>6. \/ UNCHANGED answered[conn]
        \/ /\ remote[conn] = "keyed" /\ Unanswered(conn)
           /\ Len(answered'[conn]) = Len(sent[conn])
    <3> SUFFICES ASSUME ~UNCHANGED answered[conn]
                 PROVE  /\ remote[conn] = "keyed" /\ Unanswered(conn)
                        /\ Len(answered'[conn]) = Len(sent[conn])
      OBVIOUS
    <3>1. /\ remote[conn] = "keyed" /\ Unanswered(conn)
          /\ \E a : answered'[conn] = Append(answered[conn], a)
      BY <1>1, <1>2, <2>1, ThreadEffect
    <3>2. answered[conn] \in Seq(Answer)
      BY <1>6, RepliesShape
    <3> QED
      BY <3>1, <3>2 DEF Unanswered
  <2> QED
    BY <2>4, <2>5, <2>6
<1> QED
  BY <1>5, <1>6

(* The steps of the main thread.                                           *)
LEMMA MainRefines ==
  ASSUME AInv, AInv', ProxyMainThread
  PROVE  [Prx!Next]_(Prx!vars)
<1>1. LinkShape /\ LinkShape' /\ AccessTypeOK /\ AccessTypeOK' /\ RetryInv
  BY ShapeOfLink, ShapeAfter DEF AInv
<1> USE DEF Prx!listenerVars, listenerVars
<1>2. CASE ConnectBegins
  <2>1. Session = "none" /\ Session' = "none"
    BY <1>2 DEF ConnectBegins, Session, Connecting
  <2>2. UNCHANGED <<Session, Asked, IPsOf(Replies)>>
    BY <1>1, <2>1 DEF LinkShape
  <2> QED
    BY <1>2, <2>2 DEF ConnectBegins, Prx!vars, Prx!linkVars
<1>3. CASE ConnectSucceeds
  <2>1. /\ \/ mpc = "connect" /\ mpc' = "pop"
           \/ mpc = "reconnect" /\ mpc' = "resend"
        /\ UNCHANGED <<remote, conn>>
    BY <1>3 DEF ConnectSucceeds, Connecting, vars, tlsVars
  <2>2. Session' = "up"
    BY <1>3, <2>1 DEF ConnectSucceeds, Session, Connecting
  <2>3. Asked' = <<>> /\ IPsOf(Replies)' = <<>>
    BY <1>1, <2>1 DEF LinkShape
  <2> QED
    BY <1>3, <2>1, <2>2, <2>3
       DEF ConnectSucceeds, Prx!Connected, Prx!SetTLSClient, Prx!Running,
       Prx!Manager, Prx!Next
<1>4. CASE ConnectFails
  <2>1. Session' = "none" /\ mpc \in {"connect", "reconnect"}
    BY <1>4 DEF ConnectFails, Exits, Session, Connecting
  <2>2. Asked' = <<>> /\ IPsOf(Replies)' = <<>>
    BY <1>1, <2>1 DEF LinkShape
  <2> QED
    BY <1>4, <2>1, <2>2
       DEF ConnectFails, Exits, Prx!Terminated, Prx!SetTLSClient, Prx!Running,
       Prx!Manager, Prx!Next
<1>5. CASE MainPops
  BY <1>5 DEF MainPops, Prx!Manager, Prx!Next
<1>6. CASE MainSends
  <2>1. Session = "up" \/ Session = "down"
    BY <1>6 DEF MainSends
  <2>2. /\ UNCHANGED <<client, conn, nread, answered, remote>>
        /\ mpc \in {"send", "resend"} /\ mpc' = "recv"
    BY <1>6 DEF MainSends, ProxySends, PeerSend, vars, tlsVars
  <2>3. UNCHANGED <<Session, Replies>>
    BY <2>1, <2>2 DEF Session, Connecting, Replies
  <2>4. /\ Asked = <<>> /\ IPsOf(Replies) = <<>>
        /\ Session = "up" => Asked' = <<client>>
        /\ Session = "down" => Asked' = <<>>
    BY <1>1, <2>1, <2>2, <2>3 DEF LinkShape
  <2>5. Session = "up" => Asked' = Append(Asked, client)
    BY <2>4
  <2>6. Prx!Sent
    BY <2>1, <2>3, <2>4, <2>5 DEF Prx!Sent
  <2> QED
    BY <1>6, <2>2, <2>6
       DEF MainSends, Prx!ManageSend, Prx!ManageResend, Prx!Running,
       Prx!Manager, Prx!Next
<1>7. CASE MainSendFails
  <2>1. mpc = "send" /\ mpc' = "reconnect" /\ proc' \in AfterExit /\ conn' = NoConn
    BY <1>1, <1>7 DEF MainSendFails, RetryInv
  <2>2. Session' = "none"
    BY <2>1 DEF Session
  <2>3. Asked' = <<>> /\ IPsOf(Replies)' = <<>>
    BY <1>1, <2>2 DEF LinkShape
  <2> QED
    BY <1>7, <2>1, <2>2, <2>3
       DEF MainSendFails, Prx!Terminated, Prx!SendFails, Prx!ManageSend,
       Prx!Running, Prx!Manager, Prx!Next
<1>8. CASE MainReceives
  <2>1. /\ UNCHANGED <<client, conn, remote, proc>>
        /\ mpc = "recv" /\ mpc' = "print" /\ Session # "none"
    BY <1>8 DEF MainReceives, Replies, vars, tlsVars
  <2>2. UNCHANGED Session
    BY <2>1 DEF Session, Connecting
  <2>3. Asked' = <<>> /\ IPsOf(Replies)' = <<>>
    BY <1>1, <2>1 DEF LinkShape
  <2>4. CASE Replies # <<>> /\ msg' = Head(Replies)
    <3>1. IPsOf(Replies) = <<client>> /\ msg'.ip = client /\ Asked = <<>>
      BY <1>1, <2>1, <2>4 DEF LinkShape
    <3>2. /\ IPsOf(Replies) # <<>> /\ msg'.ip = Head(IPsOf(Replies))
          /\ Tail(IPsOf(Replies)) = <<>>
      BY <3>1
    <3> QED
      BY <1>8, <2>1, <2>2, <2>3, <3>1, <3>2
         DEF MainReceives, Prx!RecvMsg, Prx!ManageRecv, Prx!Running,
         Prx!Manager, Prx!Next
  <2>5. CASE Replies = <<>> /\ Session = "down" /\ msg' = NoAnswer
    <3>1. IPsOf(Replies) = <<>> /\ Asked = <<>> /\ msg'.ip = Blank
      BY <1>1, <2>5, IPsOfShort DEF LinkShape, NoAnswer
    <3> QED
      BY <1>8, <2>1, <2>2, <2>3, <2>5, <3>1
         DEF MainReceives, Prx!RecvMsg, Prx!ManageRecv, Prx!Running,
         Prx!Manager, Prx!Next
  <2> QED
    BY <1>8, <2>4, <2>5 DEF MainReceives
<1>9. CASE MainPrints
  <2>1. /\ UNCHANGED <<client, msg, conn, remote>>
        /\ mpc = "print" /\ mpc' = "pop"
    BY <1>9 DEF MainPrints, vars, tlsVars
  <2>2. UNCHANGED Session
    BY <2>1 DEF Session, Connecting
  <2>3. UNCHANGED <<Asked, IPsOf(Replies)>>
    BY <1>1, <2>1 DEF LinkShape
  <2> DEFINE e == [ip |-> client, rsp |-> msg]
  <2>4. /\ printed' = Append(printed, e) /\ e \in [ip : Clients, rsp : Answer]
        /\ e.ip = client /\ e.rsp = msg
        /\ printed \in Seq([ip : Clients, rsp : Answer])
    BY <1>1, <1>9, <2>1 DEF MainPrints, AccessTypeOK
  <2>5. Pairs(printed)' = Append(Pairs(printed), [ip |-> client, rsp |-> msg.ip])
    <3> HIDE DEF e
    <3>1. Pairs(Append(printed, e)) =
            Append(Pairs(printed), [ip |-> e.ip, rsp |-> e.rsp.ip])
      <4> DEFINE S == [ip : Clients, rsp : Answer]
      <4>1. printed \in Seq(S) /\ e \in S
        BY <2>4
      <4> HIDE DEF S
      <4> QED
        BY <4>1, PairsAppend
    <3>2. Pairs(printed)' = Pairs(Append(printed, e))
      BY <2>4
    <3> QED
      BY <2>4, <3>1, <3>2
  <2> QED
    BY <1>9, <2>1, <2>2, <2>3, <2>5
       DEF MainPrints, Pairs, Prx!ManagePrint, Prx!Running, Prx!linkVars,
       Prx!Manager, Prx!Next
<1> QED
  BY <1>2, <1>3, <1>4, <1>5, <1>6, <1>7, <1>8, <1>9 DEF ProxyMainThread

(* Every step is one of module Proxy, or nothing to it.                    *)
LEMMA RefinesStep ==
  AInv /\ AInv' /\ [AccessNext]_allVars => [Prx!Next]_(Prx!vars)
<1> SUFFICES ASSUME AInv, AInv', [AccessNext]_allVars PROVE [Prx!Next]_(Prx!vars)
  OBVIOUS
<1>1. LinkShape /\ LinkShape' /\ AccessTypeOK /\ LinkInv
  BY ShapeOfLink, ShapeAfter DEF AInv
<1>2. ASSUME UNCHANGED <<proxyVars, Session, Asked, Replies>>
      PROVE  UNCHANGED Prx!vars
  BY <1>2 DEF proxyVars, listenerVars, mainVars, Prx!vars, Prx!listenerVars,
     Prx!linkVars
<1>3. CASE \/ \E ip \in Clients : ClientConnects(ip)
           \/ UNCHANGED allVars
  <2>1. UNCHANGED <<vars, proxyVars>>
    BY <1>3 DEF ClientConnects, allVars
  <2>2. UNCHANGED Session
    BY <2>1 DEF vars, tlsVars, proxyVars, mainVars, Session, Connecting
  <2>3. UNCHANGED <<Asked, Replies>>
    BY <2>1, <2>2 DEF vars, tlsVars, proxyVars, mainVars, Asked, Replies
  <2> QED
    BY <1>2, <2>1, <2>2, <2>3
<1>4. CASE ListenerAccepts
  <2>1. knocks[Len(accepted) + 1] \in Clients
    BY <1>1, <1>4 DEF ListenerAccepts, AccessTypeOK
  <2> QED
    BY <1>4, <2>1 DEF ListenerAccepts, Prx!Listener, Prx!Next
<1>5. CASE ListenerSteps
  BY <1>5 DEF ListenerSteps, Prx!Listener, Prx!Next
<1>6. CASE ConnectBreaks
  <2>1. Session' = "none" /\ mpc \in {"connect", "reconnect"}
    BY <1>6 DEF ConnectBreaks, Exits, Session, Connecting
  <2>2. Asked' = <<>> /\ IPsOf(Replies)' = <<>>
    BY <1>1, <2>1 DEF LinkShape
  <2> QED
    BY <1>6, <2>1, <2>2
       DEF ConnectBreaks, Exits, listenerVars, Prx!listenerVars,
       Prx!Terminated, Prx!SetTLSClient, Prx!Running, Prx!Manager, Prx!Next
<1>7. CASE LinkBreaks
  <2>1. /\ UNCHANGED <<mpc, conn, answered>> /\ conn \in Conns
        /\ remote' = [remote EXCEPT ![conn] = "gone"] /\ Session = "up"
        /\ nread' \in {nread, Len(answered[conn])}
    BY <1>1, <1>7 DEF LinkBreaks, Breaks, PeerLeaves, Leave, Session,
       AccessTypeOK, Conns
  <2>2. Session' = "down"
    BY <2>1 DEF Session, Connecting, AInv, IInv, TypeOK, TLSTypeOK
  <2>3. Asked' = <<>>
    BY <1>1, <2>2 DEF LinkShape
  <2>4. IPsOf(Replies)' \in {IPsOf(Replies), <<>>}
    <3>1. CASE nread' = nread
      <4>1. UNCHANGED Replies
        BY <2>1, <2>2, <3>1 DEF Replies
      <4> QED
        BY <4>1
    <3>2. CASE nread' = Len(answered[conn])
      <4>1. Replies' = SubSeq(answered[conn], Len(answered[conn]) + 1,
                              Len(answered[conn]))
        BY <2>1, <2>2, <3>2 DEF Replies
      <4>2. Replies' = <<>>
        BY <2>1, <4>1, LastOf, RepliesShape
      <4> QED
        BY <4>2, IPsOfShort
    <3> QED
      BY <2>1, <3>1, <3>2
  <2> QED
    BY <1>7, <2>1, <2>2, <2>3, <2>4
       DEF LinkBreaks, listenerVars, Prx!listenerVars, Prx!ControllerGone,
       Prx!Next
<1>8. CASE OtherProxies
  <2>1. /\ UNCHANGED <<proxyVars, answered>>
        /\ \A d \in Mine : UNCHANGED <<sent[d], remote[d]>>
    BY <1>8 DEF OtherProxies, PeerConnects, Connect, PeerLeaves, Leave,
       ProxySends, PeerSend, AInv, IInv, TypeOK, TLSTypeOK, ControllerTypeOK,
       Conns
  <2>2. UNCHANGED Session
    BY <1>1, <2>1 DEF proxyVars, mainVars, Session, Connecting, AccessTypeOK
  <2>3. UNCHANGED <<Asked, Replies>>
    BY <1>1, <2>1, <2>2
       DEF proxyVars, mainVars, Asked, Replies, Session, AccessTypeOK
  <2> QED
    BY <1>2, <2>1, <2>2, <2>3
<1>9. CASE Of(RequestThread) \/ Of(MainThread)
  BY <1>9, ControllerRefines DEF Prx!Next
<1> QED
  BY <1>3, <1>4, <1>5, <1>6, <1>7, <1>8, <1>9, MainRefines
     DEF AccessNext, ProxyListenerThread

(* With this Controller at the other end of its session the Proxy does     *)
(* what module Proxy says, whoever else connects and whatever breaks       *)
(* (ProxyManager.cpp:33-79, RequestListener.cpp:57-86).                    *)
THEOREM RefinesProxy == AccessSpec => ImplementsProxy
<1>1. AInv /\ AInv' /\ [AccessNext]_allVars => [Prx!Next]_(Prx!vars)
  BY RefinesStep
<1> QED
  BY <1>1, RefinesInit, AccessInvariance, PTL
     DEF AccessSpec, ImplementsProxy, Prx!Spec
=============================================================================
