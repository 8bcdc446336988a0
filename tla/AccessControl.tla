--------------------------- MODULE AccessControl ---------------------------
(***************************************************************************)
(* The way of a client's address: a Client connects to the Proxy, whose    *)
(* ProxyListener notes it, whose main thread asks the Controller about it, *)
(* whose RequestListener looks it up and answers.  Two programs, four      *)
(* threads, one TLS session between them.  (The Controller's PolicyListener*)
(* shares only its descriptors with them: MaxFds is what it leaves.)       *)
(*                                                                         *)
(* The Controller is that of module Controller.  The Proxy's listener is   *)
(* that of module Proxy; the steps of its main thread that touch the       *)
(* session are written here, against the Controller's own variables.       *)
(* ImplementsProxy shows that module Proxy, where the Controller is only a *)
(* peer that answers or goes away, is right about it.                      *)
(***************************************************************************)
EXTENDS Controller

CONSTANTS Mine,        \* the connections the Proxy may open to 30011: those
                       \* left are of other proxies, which do as they like
          AfterExit,   \* what mbedtls_exit makes of a running process
          MaxClients   \* bound on the clients that connect

ASSUME AccessAssumption ==
  /\ Mine \subseteq ProxyConns
  /\ AfterExit \subseteq {"running", "exited"} /\ AfterExit # {}
  /\ MaxClients \in Nat /\ MaxClients <= MaxRequests

VARIABLES knocks,        \* clients in the order of their connect to 30020
          proc, lpc, clientIP, m_clientList, mpc, client,   \* as in Proxy
          msg,           \* the Proxy's response: what the Controller answered
          conn,          \* the connection m_tlsClient has, or NoConn
          nread,         \* replies on conn that were read, or lost with it
          accepted, printed                        \* histories, as in Proxy

listenerVars == <<lpc, clientIP, accepted>>
mainVars == <<proc, mpc, client, msg, conn, nread, printed>>
proxyVars == <<listenerVars, m_clientList, mainVars>>
allVars == <<vars, knocks, proxyVars>>

NoAnswer == [ip |-> Blank, verdict |-> FALSE]

AccessInit ==
  /\ Init
  /\ knocks = <<>>
  /\ proc = "running"
  /\ lpc = "init" /\ clientIP = Blank
  /\ m_clientList = <<>>
  /\ mpc = "connect" /\ client = Blank /\ msg = NoAnswer
  /\ conn = NoConn /\ nread = 0
  /\ accepted = <<>> /\ printed = <<>>

-----------------------------------------------------------------------------
(* What the Proxy has of the session.  While mpc is still at the connect,  *)
(* conn is a connection whose handshake is going on.                       *)

Connecting == mpc \in {"connect", "reconnect"}

Session == IF Connecting \/ conn = NoConn THEN "none"
           ELSE IF remote[conn] = "keyed" THEN "up" ELSE "down"

Replies == IF Session = "none" THEN <<>>
           ELSE SubSeq(answered[conn], nread + 1, Len(answered[conn]))

Asked == IF Session # "up" THEN <<>>
         ELSE SubSeq(sent[conn], Len(answered[conn]) + 1, Len(sent[conn]))

IPsOf(answers) == [i \in 1..Len(answers) |-> answers[i].ip]

Prx == INSTANCE Proxy
         WITH IPs <- Clients, NoRsp <- Blank,
              session <- Session, asked <- Asked, replies <- IPsOf(Replies),
              msg <- msg.ip,
              printed <- [i \in 1..Len(printed) |->
                            [ip |-> printed[i].ip, rsp |-> printed[i].rsp.ip]]

-----------------------------------------------------------------------------
(* Clients, and the thread of ProxyListener.                               *)

(* Client.cpp: connect, send a message the Proxy never reads, close.       *)
ClientConnects(ip) ==
  /\ proc = "running" /\ lpc \notin {"init", "returned"}
  /\ Len(knocks) < MaxClients
  /\ knocks' = Append(knocks, ip)
  /\ UNCHANGED <<vars, proxyVars>>

(* The kernel hands the clients over in the order they came.               *)
ListenerAccepts ==
  /\ Len(accepted) < Len(knocks)
  /\ UNCHANGED <<vars, knocks, mainVars>>
  /\ Prx!ListenerAccept(knocks[Len(accepted) + 1])

ListenerSteps ==
  /\ UNCHANGED <<vars, knocks, mainVars>>
  /\ Prx!ListenerInit \/ Prx!ListenerInsert \/ Prx!ListenerClose

-----------------------------------------------------------------------------
(* The main thread, where it touches the session.                          *)

Exits == proc' = "exited" /\ conn' = NoConn /\ UNCHANGED mpc

(* The Controller sees the stream end, what was not yet read of it being   *)
(* kept or not.                                                            *)
Breaks(c) == PeerLeaves(c) /\ wire'[c] \in {wire[c], <<>>}

(* Which of the connections it is makes no difference.                     *)
Unused == {c \in Mine : remote[c] = "idle"}

(* TLSClient::connect gets to the handshake ...                            *)
ConnectBegins ==
  /\ proc = "running" /\ Connecting /\ conn = NoConn
  /\ Unused # {}
  /\ conn' = CHOOSE c \in Unused : TRUE
  /\ PeerConnects(conn')
  /\ nread' = 0
  /\ UNCHANGED <<knocks, listenerVars, m_clientList, proc, mpc, client, msg,
                 printed>>

(* ... and through it, and the client in hand, if any, is sent next; ...   *)
ConnectSucceeds ==
  /\ proc = "running" /\ Connecting /\ conn # NoConn
  /\ remote[conn] = "keyed"
  /\ mpc' = IF mpc = "connect" THEN "pop" ELSE "resend"
  /\ UNCHANGED <<vars, knocks, listenerVars, m_clientList, proc, client, msg,
                 conn, nread, printed>>

(* ... or it fails, nobody being there or the handshake being answered     *)
(* with garbage, and terminate or the end of main ends the process.        *)
ConnectFails ==
  /\ proc = "running" /\ Connecting
  /\ conn # NoConn => remote[conn] \in {"rejected", "gone"}
  /\ Exits
  /\ UNCHANGED <<vars, knocks, listenerVars, m_clientList, client, msg,
                 nread, printed>>

(* It may fail without that, too.  Nothing says that it does: the          *)
(* handshake has no timeout.                                               *)
ConnectBreaks ==
  /\ proc = "running" /\ Connecting /\ conn # NoConn
  /\ Breaks(conn)
  /\ Exits
  /\ UNCHANGED <<knocks, listenerVars, m_clientList, client, msg, nread,
                 printed>>

MainPops ==
  /\ mpc' = "send"
  /\ UNCHANGED <<vars, knocks, listenerVars, proc, msg, conn, nread, printed>>
  /\ Prx!ManagePop

(* The two attempts of sendMsg.                                            *)
MainSends ==
  /\ proc = "running" /\ mpc \in {"send", "resend"}
  /\ \/ Session = "up" /\ ProxySends(conn, client)
     \/ Session = "down" /\ UNCHANGED vars
  /\ mpc' = "recv"
  /\ UNCHANGED <<knocks, listenerVars, m_clientList, proc, client, msg, conn,
                 nread, printed>>

(* sendMsg returns false; terminate.  The session is down, so no           *)
(* close_notify arrives.                                                   *)
MainSendFails ==
  /\ proc = "running" /\ mpc \in {"send", "resend"} /\ Session = "down"
  /\ \/ mpc = "send" /\ mpc' = "reconnect" /\ proc' \in AfterExit /\ conn' = NoConn
     \/ mpc = "resend" /\ Exits
  /\ UNCHANGED <<vars, knocks, listenerVars, m_clientList, client, msg,
                 nread, printed>>

MainReceives ==
  /\ proc = "running" /\ mpc = "recv"
  /\ \/ Replies # <<>> /\ msg' = Head(Replies) /\ nread' = nread + 1
     \/ Replies = <<>> /\ Session = "down" /\ msg' = NoAnswer /\ UNCHANGED nread
  /\ mpc' = "print"
  /\ UNCHANGED <<vars, knocks, listenerVars, m_clientList, proc, client, conn,
                 printed>>

MainPrints ==
  /\ proc = "running" /\ mpc = "print"
  /\ printed' = Append(printed, [ip |-> client, rsp |-> msg])
  /\ mpc' = "pop"
  /\ UNCHANGED <<vars, knocks, listenerVars, m_clientList, proc, client, msg,
                 conn, nread>>

-----------------------------------------------------------------------------
(* The network between the two, and the Controller.                        *)

(* A reset, seen from both ends; replies on their way may be lost with it. *)
LinkBreaks ==
  /\ proc = "running" /\ Session = "up"
  /\ Breaks(conn)
  /\ nread' \in {nread, Len(answered[conn])}
  /\ UNCHANGED <<knocks, listenerVars, m_clientList, proc, mpc, client, msg,
                 conn, printed>>

OtherProxies ==
  /\ \E c \in ProxyConns \ Mine :
       PeerConnects(c) \/ PeerLeaves(c) \/ \E ip \in Clients : ProxySends(c, ip)
  /\ UNCHANGED <<knocks, proxyVars>>

Of(thread) == thread /\ UNCHANGED <<knocks, proxyVars>>

-----------------------------------------------------------------------------
ProxyListenerThread == ListenerAccepts \/ ListenerSteps

ProxyMainThread ==
  \/ ConnectBegins \/ ConnectSucceeds \/ ConnectFails
  \/ MainPops \/ MainSends \/ MainSendFails \/ MainReceives \/ MainPrints

AccessNext ==
  \/ \E ip \in Clients : ClientConnects(ip)
  \/ ProxyListenerThread \/ ProxyMainThread \/ ConnectBreaks \/ LinkBreaks
  \/ Of(RequestThread) \/ Of(MainThread) \/ OtherProxies

AccessSpec == AccessInit /\ [][AccessNext]_allVars

(* All four threads run, and the ClientHello that connect writes comes.    *)
(* Nothing is owed by clients, other proxies or the network; and connect   *)
(* need not fail.                                                          *)
AccessFairSpec ==
  /\ AccessSpec
  /\ WF_allVars(ProxyListenerThread) /\ WF_allVars(ProxyMainThread)
  /\ WF_allVars(Of(RequestThread) /\ ~HelloRead(ProxyConns \ Mine))
  /\ WF_allVars(Of(MainThread))

-----------------------------------------------------------------------------
(* With this Controller at the other end, the Proxy does what module Proxy *)
(* says: the session is made whole or not at all, the Controller takes one *)
(* request after the other and answers each once, in order, over that      *)
(* session, and never after it is gone (ProxyManager.cpp:33-79 against     *)
(* RequestListener.cpp:57-86 and TLSServer.cpp:51-144).                    *)
ImplementsProxy == Prx!Spec

(* Nobody is let in, from end to end: what the Proxy prints of a client is *)
(* that the Controller denies this very client, or nothing; whatever other *)
(* proxies ask meanwhile (ProxyManager.cpp:65, PolicyManager.cpp:44-57).   *)
NobodyLetIn ==
  \A i \in 1..Len(printed) :
    printed[i].rsp \in {NoAnswer, [ip |-> printed[i].ip, verdict |-> FALSE]}

(* The second attempt of ProxyManager.cpp:56 is never made while the       *)
(* process of the Controller goes on: once it has served a session it      *)
(* serves no other, so the connect of line 51 fails or hangs               *)
(* (RequestListener.cpp:68, 83; TLSServer.cpp:71-72).  A Controller that   *)
(* was started again would serve it; that is not modelled.                 *)
RetryInVain == mpc # "resend"

(* The Proxy is in a handshake the Controller does not take up: it serves  *)
(* another proxy, which may be silent, or its thread has ended and the     *)
(* port is left.                                                           *)
KeptWaiting ==
  /\ Connecting /\ conn # NoConn /\ remote[conn] = "hello"
  /\ m_client["request"] # conn \/ pc["request"] = "returned"

(* Every client that gets through to the Proxy is printed in the end,      *)
(* unless the process ends or waits for ever in a handshake: the threads   *)
(* of both programs, their time-outs and a session that breaks at any time *)
(* do not add up to a standstill anywhere else (ProxyListener.cpp:44-59,   *)
(* ProxyManager.cpp:39-66, RequestListener.cpp:63-84).                     *)
EveryClientAnswered ==
  \A n \in 1..MaxClients :
    [](Len(knocks) = n =>
         <>(Len(printed) >= n \/ proc = "exited") \/ <>[]KeptWaiting)
=============================================================================
