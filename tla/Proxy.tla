------------------------------- MODULE Proxy -------------------------------
(***************************************************************************)
(* The sidecar proxy (Proxy.cpp).  The thread of ProxyListener notes the   *)
(* address of every client that connects to port 30020; the main thread,   *)
(* ProxyManager::manageClient, asks the Controller about each of them over *)
(* one TLS session and prints the answer.                                  *)
(* insertClient and popClient are atomic here: WorkList shows that the     *)
(* mutex makes them so.  A client's IP is never empty: ProxyListener       *)
(* builds it from all 32 bytes of its buffer.                              *)
(***************************************************************************)
EXTENDS Naturals, Sequences

CONSTANTS IPs,             \* addresses of clients
          NoRsp,           \* the response string when recvMsg got nothing
          AfterExit,       \* what mbedtls_exit makes of a running process:
                           \* {"exited"}, or with a platform layer that is
                           \* built with another exit, {"running"}
          MaxClients       \* bound on the clients that connect

ASSUME ProxyAssumption ==
  /\ NoRsp \notin IPs
  /\ AfterExit \subseteq {"running", "exited"} /\ AfterExit # {}
  /\ MaxClients \in Nat

VARIABLES proc,          \* "running" or "exited": the whole process
          lpc,           \* where ProxyListener's thread is
          clientIP,      \* its local address
          m_clientList,  \* ProxyManager: clients not yet popped
          mpc,           \* where the main thread is
          client, msg,   \* its locals: the client asked about, the response
          session,       \* m_tlsClient: "none", "up", or "down" (peer gone)
          asked,         \* requests the Controller has not answered yet
          replies,       \* its replies on their way, each to one request
          accepted,      \* history: clients in the order of accept
          printed        \* history: what was printed, [IP, RSP] pairs

listenerVars == <<lpc, clientIP, accepted>>
linkVars == <<session, asked, replies>>
vars == <<proc, listenerVars, m_clientList, mpc, client, msg, linkVars,
          printed>>

TypeOK ==
  /\ proc \in {"running", "exited"}
  /\ lpc \in {"init", "accept", "insert", "close", "returned"}
  /\ clientIP \in IPs \cup {NoRsp}
  /\ m_clientList \in Seq(IPs)
  /\ mpc \in {"connect", "pop", "send", "reconnect", "resend", "recv", "print"}
  /\ client \in IPs \cup {NoRsp}
  /\ msg \in IPs \cup {NoRsp}
  /\ session \in {"none", "up", "down"}
  /\ asked \in Seq(IPs)
  /\ replies \in Seq(IPs)
  /\ accepted \in Seq(IPs)
  /\ printed \in Seq([ip : IPs, rsp : IPs \cup {NoRsp}])

Init ==
  /\ proc = "running"
  /\ lpc = "init" /\ clientIP = NoRsp
  /\ m_clientList = <<>>
  /\ mpc = "connect" /\ client = NoRsp /\ msg = NoRsp
  /\ session = "none"
  /\ asked = <<>> /\ replies = <<>>
  /\ accepted = <<>> /\ printed = <<>>

-----------------------------------------------------------------------------
(* The thread of ProxyListener.                                            *)

ListenerInit ==
  /\ proc = "running" /\ lpc = "init"
  /\ lpc' \in {"accept", "returned"}
  /\ UNCHANGED <<proc, clientIP, accepted, m_clientList, mpc, client, msg,
                 linkVars, printed>>

(* A failed accept only makes the loop go round.                           *)
ListenerAccept(ip) ==
  /\ proc = "running" /\ lpc = "accept" /\ Len(accepted) < MaxClients
  /\ clientIP' = ip
  /\ accepted' = Append(accepted, ip)
  /\ lpc' = "insert"
  /\ UNCHANGED <<proc, m_clientList, mpc, client, msg, linkVars, printed>>

ListenerInsert ==
  /\ proc = "running" /\ lpc = "insert"
  /\ m_clientList' = Append(m_clientList, clientIP)
  /\ lpc' = "close"
  /\ UNCHANGED <<proc, clientIP, accepted, mpc, client, msg, linkVars, printed>>

ListenerClose ==
  /\ proc = "running" /\ lpc = "close"
  /\ lpc' = "accept"
  /\ UNCHANGED <<proc, clientIP, accepted, m_clientList, mpc, client, msg,
                 linkVars, printed>>

-----------------------------------------------------------------------------
(* TLSClient.                                                              *)

(* connect, as TLSClientLife shows it to be; it succeeds even when         *)
(* verifyCertificate does not ("ret = 1" is commented out).                *)
Connected ==
  /\ session' = "up"
  /\ asked' = <<>> /\ replies' = <<>>

(* terminate: close_notify, destroy, mbedtls_exit.                         *)
Terminated ==
  /\ session' = "none"
  /\ asked' = <<>> /\ replies' = <<>>

(* sendMsg returns true: what is written to a peer that is gone is lost.   *)
Sent ==
  /\ \/ session = "up" /\ asked' = Append(asked, client)
     \/ session = "down" /\ UNCHANGED asked
  /\ UNCHANGED <<session, replies>>

(* It may return false instead.                                            *)
SendFails == session = "down"

(* Faulty variant: recvMsg gives up after a timeout, like TLSServer's.     *)
RecvMsgTimeout ==
  /\ \/ replies # <<>> /\ msg' = Head(replies) /\ replies' = Tail(replies)
     \/ replies = <<>> /\ msg' = NoRsp /\ UNCHANGED replies
  /\ UNCHANGED <<session, asked>>

(* recvMsg blocks until a reply, close_notify or the end of the stream.    *)
RecvMsg ==
  /\ \/ replies # <<>> /\ msg' = Head(replies) /\ replies' = Tail(replies)
     \/ replies = <<>> /\ session = "down" /\ msg' = NoRsp /\ UNCHANGED replies
  /\ UNCHANGED <<session, asked>>

(* The Controller answers a request, or its end of the session goes away.  *)
ControllerReplies ==
  /\ proc = "running" /\ session = "up" /\ asked # <<>>
  /\ replies' = Append(replies, Head(asked))
  /\ asked' = Tail(asked)
  /\ UNCHANGED <<proc, listenerVars, m_clientList, mpc, client, msg, session, printed>>

ControllerGone ==
  /\ proc = "running" /\ session = "up"
  /\ session' = "down"
  /\ asked' = <<>>
  /\ replies' \in {replies, <<>>}
  /\ UNCHANGED <<proc, listenerVars, m_clientList, mpc, client, msg, printed>>

-----------------------------------------------------------------------------
(* The main thread: ProxyManager::manageClient.                            *)

Running(at) == proc = "running" /\ mpc = at

(* setTLSClient, before the loop and after a failed send.  When connect    *)
(* fails the process ends: in terminate, or because manageClient and then  *)
(* main return.                                                            *)
SetTLSClient(at, to) ==
  /\ Running(at)
  /\ \/ Connected /\ mpc' = to /\ UNCHANGED proc
     \/ Terminated /\ proc' = "exited" /\ UNCHANGED mpc
  /\ UNCHANGED <<listenerVars, m_clientList, client, msg, printed>>

ManagePop ==
  /\ Running("pop") /\ m_clientList # <<>>
  /\ client' = Head(m_clientList)
  /\ m_clientList' = Tail(m_clientList)
  /\ mpc' = "send"
  /\ UNCHANGED <<proc, listenerVars, msg, linkVars, printed>>

(* Faulty variant: the "continue" after sleep(1) is missing.               *)
ManageSleepFallsThrough ==
  /\ Running("pop") /\ m_clientList = <<>>
  /\ client' = NoRsp
  /\ mpc' = "send"
  /\ UNCHANGED <<proc, listenerVars, m_clientList, msg, linkVars, printed>>

(* Nothing to pop: sleep(1).                                               *)
ManageSleep == Running("pop") /\ m_clientList = <<>> /\ UNCHANGED vars

ManageSend ==
  /\ Running("send")
  /\ \/ Sent /\ mpc' = "recv" /\ UNCHANGED proc
     \/ /\ SendFails /\ Terminated
        /\ mpc' = "reconnect"
        /\ proc' \in AfterExit
  /\ UNCHANGED <<listenerVars, m_clientList, client, msg, printed>>

(* Faulty variant: the client is not sent again over the new session.      *)
ManageResendSkips ==
  /\ Running("resend") /\ mpc' = "pop"
  /\ UNCHANGED <<proc, listenerVars, m_clientList, client, msg, linkVars,
                 printed>>

(* The second and last attempt.                                            *)
ManageResend ==
  /\ Running("resend")
  /\ \/ Sent /\ mpc' = "recv" /\ UNCHANGED proc
     \/ SendFails /\ Terminated /\ proc' = "exited" /\ UNCHANGED mpc
  /\ UNCHANGED <<listenerVars, m_clientList, client, msg, printed>>

(* std::string msg is a fresh local; the result of recvMsg is not looked at.*)
ManageRecv ==
  /\ Running("recv")
  /\ RecvMsg
  /\ mpc' = "print"
  /\ UNCHANGED <<proc, listenerVars, m_clientList, client, printed>>

ManagePrint ==
  /\ Running("print")
  /\ printed' = Append(printed, [ip |-> client, rsp |-> msg])
  /\ mpc' = "pop"
  /\ UNCHANGED <<proc, listenerVars, m_clientList, client, msg, linkVars>>

-----------------------------------------------------------------------------
Listener ==
  \/ ListenerInit \/ ListenerInsert \/ ListenerClose
  \/ \E ip \in IPs : ListenerAccept(ip)

Manager ==
  \/ SetTLSClient("connect", "pop") \/ SetTLSClient("reconnect", "resend")
  \/ ManagePop \/ ManageSleep \/ ManageSend \/ ManageResend
  \/ ManageRecv \/ ManagePrint

(* After exit nothing moves any more.                                      *)
Exited == proc = "exited" /\ UNCHANGED vars

Next == Listener \/ Manager \/ ControllerReplies \/ ControllerGone \/ Exited

Spec == Init /\ [][Next]_vars

-----------------------------------------------------------------------------
(* What is printed of a client is the answer to that client, or nothing:   *)
(* requests and replies are paired only by their order, across lost        *)
(* sessions, retries and empty reads (ProxyManager.cpp:48-65).             *)
ResponseIsClients ==
  \A i \in 1..Len(printed) : printed[i].rsp \in {printed[i].ip, NoRsp}

(* Clients on their way from accept to print.                              *)
InHand == IF mpc \in {"connect", "pop"} THEN <<>> ELSE <<client>>
Accepting == IF lpc = "insert" THEN <<clientIP>> ELSE <<>>
PrintedIPs == [i \in 1..Len(printed) |-> printed[i].ip]

(* While the process runs, every client that was accepted has been printed,*)
(* is being asked about, or waits, each once and in the order of accept:   *)
(* neither the hand-over between the threads nor a lost session and its    *)
(* retry skips, doubles or reorders one (ProxyListener.cpp:44-59,          *)
(* ProxyManager.cpp:39-66).                                                *)
NothingSkipped ==
  proc = "running" =>
    PrintedIPs \o InHand \o m_clientList \o Accepting = accepted

-----------------------------------------------------------------------------
(* What the proofs of ProxyProofs rest on.                                 *)

(* Between pop and print there is a client; between accept and insert too. *)
InHandInv ==
  /\ lpc = "insert" => clientIP \in IPs
  /\ mpc \notin {"connect", "pop"} => client \in IPs

(* Only while its answer is awaited is anything on the session: the        *)
(* request of the client in hand or the reply to it.                       *)
PairInv ==
  /\ \/ asked = <<>> /\ replies \in {<<>>, <<client>>}
     \/ asked = <<client>> /\ replies = <<>> /\ session = "up"
  /\ mpc # "recv" => asked = <<>> /\ replies = <<>>
  /\ mpc = "print" => msg \in {client, NoRsp}

IInv == TypeOK /\ InHandInv /\ PairInv /\ ResponseIsClients /\ NothingSkipped
=============================================================================
