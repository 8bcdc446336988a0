----------------------------- MODULE Controller -----------------------------
(***************************************************************************)
(* The access controller (AC_Controller.cpp): the thread of RequestListener*)
(* answers the proxies' "may this client in?", the thread of PolicyListener*)
(* takes policies from deployers, and the main thread runs                 *)
(* PolicyManager::managePolicy.  All three share one PolicyManager.        *)
(* insertPolicy and popPolicy are atomic here: WorkList shows that the     *)
(* mutex makes them so.                                                    *)
(***************************************************************************)
EXTENDS TLSServer

CONSTANTS Clients,      \* client IPs, as sent in requests
          Policies,     \* policies as deployed: sequences of chunks
          DemoIPs,      \* the IPs of the demo entries, in loading order
          MaxRequests   \* bound on the requests of one connection

ASSUME ControllerAssumption ==
  /\ Clients \subseteq Chunks \ {Blank}
  /\ Policies \subseteq Seq(Chunks \ {Blank}) \ {<<>>}
  /\ DemoIPs \in Seq(Clients)
  /\ MaxRequests \in Nat

VARIABLES pc,            \* where each of the three threads is
          req,           \* RequestListener: the request being answered
          vRet,          \* RequestListener: the verdict on it
          policy,        \* PolicyListener: the text received, and from whom
          mapPolicy,     \* PolicyManager: IP -> allowed
          m_updateList,  \* PolicyManager: policies not yet popped
          loaded,        \* number of demo entries loaded
          sent,          \* history: chunks each peer has sent
          answered,      \* history: replies that reached each proxy
          inserted,      \* history: texts inserted for each deployer
          popped         \* history: number of policies the manager popped

mgrVars == <<mapPolicy, m_updateList, loaded, popped>>

vars == <<tlsVars, pc, req, vRet, policy, mgrVars, sent, answered, inserted>>

RequestPCs == {"init", "accept", "handshake", "recv", "validate", "reply",
               "returned"}
PolicyPCs == {"init", "accept", "handshake", "recv", "close", "insert",
              "reset", "returned"}
MainPCs == {"load", "manage"}

(* PolicyListener's local string, and (history) the connection it is from. *)
Received == [text : Chunks, from : DeployerConns \cup {NoConn}]

ControllerTypeOK ==
  /\ pc \in [Servers \cup {"main"} -> RequestPCs \cup PolicyPCs \cup MainPCs]
  /\ pc["request"] \in RequestPCs
  /\ pc["policy"] \in PolicyPCs
  /\ pc["main"] \in MainPCs
  /\ req \in Chunks
  /\ vRet \in BOOLEAN
  /\ policy \in Received
  /\ DOMAIN mapPolicy \subseteq Clients
  /\ mapPolicy \in [DOMAIN mapPolicy -> BOOLEAN]
  /\ m_updateList \in Seq(Chunks)
  /\ loaded \in 0..Len(DemoIPs)
  /\ sent \in [Conns -> Seq(Chunks)]
  /\ answered \in [ProxyConns -> Seq([ip : Chunks, verdict : BOOLEAN])]
  /\ inserted \in [DeployerConns -> Seq(Chunks)]
  /\ popped \in Nat

TypeOK == TLSTypeOK /\ ControllerTypeOK

Init ==
  /\ TLSInit
  /\ pc = [t \in Servers \cup {"main"} |->
             IF t = "main" THEN "load" ELSE "init"]
  /\ req = Blank
  /\ vRet = FALSE
  /\ policy = [text |-> Blank, from |-> NoConn]
  /\ mapPolicy = [ip \in {} |-> FALSE]
  /\ m_updateList = <<>>
  /\ loaded = 0
  /\ sent = [c \in Conns |-> <<>>]
  /\ answered = [c \in ProxyConns |-> <<>>]
  /\ inserted = [c \in DeployerConns |-> <<>>]
  /\ popped = 0

Goto(t, to) == pc' = [pc EXCEPT ![t] = to]

-----------------------------------------------------------------------------
(* Proxies and deployers, as far as the Controller sees them.              *)

PeerConnects(c) ==
  /\ Connect(c)
  /\ UNCHANGED <<pc, req, vRet, policy, mgrVars, sent, answered, inserted>>

PeerLeaves(c) ==
  /\ Leave(c)
  /\ UNCHANGED <<pc, req, vRet, policy, mgrVars, sent, answered, inserted>>

(* ProxyManager::manageClient sends a request, then waits for the reply.   *)
ProxySends(c, ip) ==
  /\ Len(sent[c]) = Len(answered[c]) /\ Len(sent[c]) < MaxRequests
  /\ PeerSend(c, <<ip>>)
  /\ sent' = [sent EXCEPT ![c] = Append(@, ip)]
  /\ UNCHANGED <<pc, req, vRet, policy, mgrVars, answered, inserted>>

(* PolicyDeployer::deployPolicy sends one policy per connection.           *)
DeployerSends(c, p) ==
  /\ sent[c] = <<>>
  /\ PeerSend(c, p)
  /\ sent' = [sent EXCEPT ![c] = p]
  /\ UNCHANGED <<pc, req, vRet, policy, mgrVars, answered, inserted>>

-----------------------------------------------------------------------------
(* Both listeners: run() and the accept of runListener.                    *)

ListenerInit(s) ==
  /\ pc[s] = "init"
  /\ \E ok \in BOOLEAN :
       SetListener(s, ok) /\ Goto(s, IF ok THEN "accept" ELSE "returned")
  /\ UNCHANGED <<req, vRet, policy, mgrVars, sent, answered, inserted>>

ListenerWaits(s) ==
  /\ pc[s] = "accept" /\ AcceptWait(s)
  /\ UNCHANGED <<pc, req, vRet, policy, mgrVars, sent, answered, inserted>>

ListenerTakes(s) ==
  /\ pc[s] = "accept" /\ AcceptTakes(s) /\ Goto(s, "handshake")
  /\ UNCHANGED <<req, vRet, policy, mgrVars, sent, answered, inserted>>

(* Faulty variant: both listeners treat a failed acceptClient alike.       *)
AcceptFailedResets(s) == Goto(s, "reset")

(* A failed acceptClient ends RequestListener's thread; PolicyListener     *)
(* calls resetClient and tries again.                                      *)
AcceptFailed(s) == Goto(s, IF s = "request" THEN "returned" ELSE "reset")

ListenerStarved(s) ==
  /\ pc[s] = "accept" /\ AcceptFails(s) /\ AcceptFailed(s)
  /\ UNCHANGED <<req, vRet, policy, mgrVars, sent, answered, inserted>>

(* Faulty variant: the "continue" after RequestListener's second           *)
(* acceptClient is missing, so that the iteration goes on to validate.     *)
HandshakeNoContinue(s) ==
  /\ pc[s] = "handshake"
  /\ \/ /\ HandshakeOver(s)
        /\ Goto(s, IF s = "request" /\ m_ssl[s] \in Conns
                     THEN "validate" ELSE "recv")
     \/ HandshakeFails(s) /\ AcceptFailed(s)
  /\ UNCHANGED <<req, vRet, policy, mgrVars, sent, answered, inserted>>

ListenerHandshake(s) ==
  /\ pc[s] = "handshake"
  /\ \/ HandshakeOver(s) /\ Goto(s, "recv")
     \/ HandshakeFails(s) /\ AcceptFailed(s)
  /\ UNCHANGED <<req, vRet, policy, mgrVars, sent, answered, inserted>>

-----------------------------------------------------------------------------
(* The loop of RequestListener::runListener.                               *)

(* Faulty variants: the local string outlives an iteration; a failed       *)
(* recvMsg ends the thread, or is read again.                              *)
RequestRecvKeepsOld ==
  /\ pc["request"] = "recv"
  /\ \E ok \in BOOLEAN, msg \in Chunks :
       /\ RecvMsg("request", ok, msg)
       /\ req' = IF msg = Blank THEN req ELSE msg
       /\ Goto("request", IF ~ok THEN "accept"
                          ELSE IF req' = Blank THEN "recv" ELSE "validate")
  /\ UNCHANGED <<vRet, policy, mgrVars, sent, answered, inserted>>

RequestRecvReturns ==
  /\ pc["request"] = "recv"
  /\ \E ok \in BOOLEAN, msg \in Chunks :
       /\ RecvMsg("request", ok, msg)
       /\ req' = msg
       /\ Goto("request", IF ~ok THEN "returned"
                          ELSE IF msg = Blank THEN "recv" ELSE "validate")
  /\ UNCHANGED <<vRet, policy, mgrVars, sent, answered, inserted>>

RequestRecvAgain ==
  /\ pc["request"] = "recv"
  /\ \E ok \in BOOLEAN, msg \in Chunks :
       /\ RecvMsg("request", ok, msg)
       /\ req' = msg
       /\ Goto("request", IF msg = Blank THEN "recv" ELSE "validate")
  /\ UNCHANGED <<vRet, policy, mgrVars, sent, answered, inserted>>

RequestRecv ==
  /\ pc["request"] = "recv"
  /\ \E ok \in BOOLEAN, msg \in Chunks :
       /\ RecvMsg("request", ok, msg)
       /\ req' = msg
       /\ Goto("request", IF ~ok THEN "accept"
                          ELSE IF msg = Blank THEN "recv" ELSE "validate")
  /\ UNCHANGED <<vRet, policy, mgrVars, sent, answered, inserted>>

(* Faulty variant: what the table does not name is allowed.                *)
AllowedByDefault(ip) == ip \in DOMAIN mapPolicy => mapPolicy[ip]

(* PolicyManager::validateRequest: an absent client is denied.             *)
Allowed(ip) == ip \in DOMAIN mapPolicy /\ mapPolicy[ip]

(* It reads mapPolicy without the mutex: while the main thread inserts, a  *)
(* lookup may also miss an entry that is there.                            *)
RequestValidate ==
  /\ pc["request"] = "validate"
  /\ vRet' \in {Allowed(req)} \cup (IF pc["main"] = "load" THEN {FALSE} ELSE {})
  /\ Goto("request", "reply")
  /\ UNCHANGED <<tlsVars, req, policy, mgrVars, sent, answered, inserted>>

(* Faulty variant: a new client is accepted after every reply.             *)
RequestReplyOnce ==
  /\ pc["request"] = "reply"
  /\ LET c == m_client["request"] IN
       answered' = IF Reaches("request")
         THEN [answered EXCEPT ![c] = Append(@, [ip |-> req, verdict |-> vRet])]
         ELSE answered
  /\ Goto("request", "accept")
  /\ UNCHANGED <<tlsVars, req, vRet, policy, mgrVars, sent, inserted>>

(* sendMsg; its result is not looked at.                                   *)
RequestReply ==
  /\ pc["request"] = "reply"
  /\ LET c == m_client["request"] IN
       answered' = IF Reaches("request")
         THEN [answered EXCEPT ![c] = Append(@, [ip |-> req, verdict |-> vRet])]
         ELSE answered
  /\ Goto("request", "recv")
  /\ UNCHANGED <<tlsVars, req, vRet, policy, mgrVars, sent, inserted>>

-----------------------------------------------------------------------------
(* The loop of PolicyListener::runListener.                                *)

PolicyReset ==
  /\ pc["policy"] = "reset"
  /\ ResetClient("policy")
  /\ Goto("policy", "accept")
  /\ UNCHANGED <<req, vRet, policy, mgrVars, sent, answered, inserted>>

(* Faulty variant: the local string outlives an iteration.                 *)
PolicyRecvKeepsOld ==
  /\ pc["policy"] = "recv"
  /\ \E ok \in BOOLEAN, msg \in Chunks :
       /\ RecvMsg("policy", ok, msg)
       /\ policy' = IF msg = Blank /\ policy.from # NoConn THEN policy
                    ELSE [text |-> msg, from |-> m_client["policy"]]
  /\ Goto("policy", "close")
  /\ UNCHANGED <<req, vRet, mgrVars, sent, answered, inserted>>

(* The result of recvMsg is not looked at.                                 *)
PolicyRecv ==
  /\ pc["policy"] = "recv"
  /\ \E ok \in BOOLEAN, msg \in Chunks :
       /\ RecvMsg("policy", ok, msg)
       /\ policy' = [text |-> msg, from |-> m_client["policy"]]
  /\ Goto("policy", "close")
  /\ UNCHANGED <<req, vRet, mgrVars, sent, answered, inserted>>

PolicyClose ==
  /\ pc["policy"] = "close"
  /\ ResetClient("policy")
  /\ Goto("policy", "insert")
  /\ UNCHANGED <<req, vRet, policy, mgrVars, sent, answered, inserted>>

PolicyInsert ==
  /\ pc["policy"] = "insert"
  /\ m_updateList' = Append(m_updateList, policy.text)
  /\ inserted' = [inserted EXCEPT ![policy.from] = Append(@, policy.text)]
  /\ Goto("policy", "accept")
  /\ UNCHANGED <<tlsVars, req, vRet, policy, mapPolicy, loaded, popped, sent,
                 answered>>

-----------------------------------------------------------------------------
(* The main thread: PolicyManager::managePolicy.                           *)

(* std::map::insert keeps the entry that is already there.                 *)
updatePolicy(ip, word) ==
  mapPolicy' = [x \in DOMAIN mapPolicy \cup {ip} |->
                  IF x \in DOMAIN mapPolicy THEN mapPolicy[x]
                  ELSE word = "allow"]

LoadDemo ==
  /\ pc["main"] = "load" /\ loaded < Len(DemoIPs)
  /\ updatePolicy(DemoIPs[loaded + 1], "deny")
  /\ loaded' = loaded + 1
  /\ UNCHANGED <<tlsVars, pc, req, vRet, policy, m_updateList, popped, sent,
                 answered, inserted>>

DemoLoaded ==
  /\ pc["main"] = "load" /\ loaded = Len(DemoIPs)
  /\ Goto("main", "manage")
  /\ UNCHANGED <<tlsVars, req, vRet, policy, mgrVars, sent, answered, inserted>>

(* The call of updatePolicy is commented out: a policy is popped, and that *)
(* is all.                                                                 *)
ManagePop ==
  /\ pc["main"] = "manage" /\ m_updateList # <<>>
  /\ m_updateList' = Tail(m_updateList)
  /\ popped' = IF Head(m_updateList) = Blank THEN popped ELSE popped + 1
  /\ UNCHANGED <<tlsVars, pc, req, vRet, policy, mapPolicy, loaded, sent,
                 answered, inserted>>

(* Nothing to pop: sleep(1).                                               *)
ManageSleep ==
  /\ pc["main"] = "manage" /\ m_updateList = <<>>
  /\ UNCHANGED vars

-----------------------------------------------------------------------------
Listener(s) ==
  \/ ListenerInit(s) \/ ListenerWaits(s) \/ ListenerTakes(s)
  \/ ListenerStarved(s) \/ ListenerHandshake(s)

RequestThread ==
  Listener("request") \/ RequestRecv \/ RequestValidate \/ RequestReply

PolicyThread ==
  Listener("policy") \/ PolicyReset \/ PolicyRecv \/ PolicyClose \/ PolicyInsert

MainThread == LoadDemo \/ DemoLoaded \/ ManagePop \/ ManageSleep

Peers ==
  \/ \E c \in Conns : PeerConnects(c) \/ PeerLeaves(c)
  \/ \E c \in ProxyConns, ip \in Clients : ProxySends(c, ip)
  \/ \E c \in DeployerConns, p \in Policies : DeployerSends(c, p)

Next == RequestThread \/ PolicyThread \/ MainThread \/ Peers

Spec == Init /\ [][Next]_vars

(* A read comes upon the ClientHello of a peer in cs, which nothing else   *)
(* shows: it is up to the peer whether it ever does.                       *)
HelloRead(cs) == \E c \in cs : remote[c] = "hello" /\ remote'[c] = "rejected"

(* The kernel runs the three threads; every read of a TLSServer ends after *)
(* 10 s at the latest.  Peers owe nothing, not even a ClientHello.         *)
FairSpec ==
  /\ Spec
  /\ WF_vars(RequestThread /\ ~HelloRead(ProxyConns))
  /\ WF_vars(PolicyThread) /\ WF_vars(MainThread)

-----------------------------------------------------------------------------
(* Safety.                                                                 *)

(* Each reply a proxy gets answers one request of that proxy, in order:    *)
(* no request is answered twice, however many reads time out in between,   *)
(* and no reply goes to another proxy (RequestListener.cpp:63-84).         *)
RepliesMatchRequests ==
  \A c \in ProxyConns :
    /\ Len(answered[c]) <= Len(sent[c])
    /\ \A i \in 1..Len(answered[c]) : answered[c][i].ip = sent[c][i]

(* m_ssl is never reset between proxies, so at most one connection is ever *)
(* served (RequestListener.cpp:67-73, 83).                                 *)
SingleSession ==
  \A c, d \in ProxyConns :
    answered[c] # <<>> /\ answered[d] # <<>> => c = d

(* Nobody is let in: the table only ever holds the demo entries, and they  *)
(* deny, whatever lookups miss while it is loaded and whatever policies    *)
(* are deployed (PolicyManager.cpp:34-57, 59-86).                          *)
DeniedByDefault ==
  \A c \in ProxyConns : \A i \in 1..Len(answered[c]) :
    answered[c][i].verdict = FALSE

(* A listener works on a request or a policy only while the keys in m_ssl  *)
(* are those of the peer m_client names, over a descriptor that is open    *)
(* (the pair is split by every reconnection, TLSServer.cpp:59-72).         *)
WorksOnLiveSession ==
  /\ pc["request"] \in {"validate", "reply"} =>
       Live("request") /\ m_client["request"] \in open
  /\ pc["policy"] \in {"recv", "close"} =>
       Live("policy") /\ m_client["policy"] \in open

(* PolicyListener leaks no descriptor: of all deployers' connections only  *)
(* the current one is open, and none while the policy is handed over       *)
(* (PolicyListener.cpp:54-70).                                             *)
NoPolicyLeak ==
  /\ open \cap DeployerConns \subseteq {m_client["policy"]}
  /\ pc["policy"] \in {"init", "accept", "insert"} =>
       open \cap DeployerConns = {}

(* What reaches the manager's list from one deployer is nothing, an empty  *)
(* string, or the first chunk it sent: once, and never another deployer's  *)
(* (PolicyListener.cpp:61-70).                                             *)
InsertedOnce ==
  \A c \in DeployerConns :
    inserted[c] \in {<<>>, <<Blank>>}
                      \cup (IF sent[c] = <<>> THEN {} ELSE {<<sent[c][1]>>})

-----------------------------------------------------------------------------
(* Action properties.                                                      *)

(* After its first handshake only a lack of descriptors can end the thread *)
(* of RequestListener: no proxy's behaviour does (RequestListener.cpp:     *)
(* 67-73, TLSServer.cpp:71-83).  That accept(2) fails for another reason   *)
(* (an interrupted call, an aborted connection) is not modelled.           *)
EndsOnlyStarved ==
  [][pc["request"] # "returned" /\ pc'["request"] = "returned"
       /\ m_ssl["request"] \in Conns => Used >= MaxFds]_vars

-----------------------------------------------------------------------------
(* Liveness.                                                               *)

InBacklog(c) == \E i \in 1..Len(backlog[Port(c)]) : backlog[Port(c)][i] = c

(* RequestListener has taken every descriptor that is left, for            *)
(* connections it no longer serves and for its own blocked accept.         *)
RequestsTookAll ==
  Cardinality(open \cap ProxyConns)
    + Cardinality(accepting \cap {"request"}) >= MaxFds

(* The proxy that has the session gets a reply to each of its requests, as *)
(* long as it stays (RequestListener.cpp:63-80).                           *)
SessionServed ==
  \A c \in ProxyConns :
    Len(sent[c]) > Len(answered[c])
      ~> Len(sent[c]) = Len(answered[c]) \/ remote[c] = "gone"

(* The proxy in service is there, and its ClientHello is not: until it     *)
(* comes every read times out and is made again.                           *)
SilentInService ==
  \E c \in ProxyConns : m_client["request"] = c /\ remote[c] = "hello"

SessionGone ==
  \E c \in ProxyConns : m_ssl["request"] = c /\ remote[c] = "gone"

(* RequestListener serves one connection at a time and learns that it is   *)
(* over by a failed read only.  Once the proxy with the session is gone,   *)
(* whatever it left unread, every connection that waits is taken up,       *)
(* unless accept finds no descriptor or one that was taken up before stays *)
(* silent (RequestListener.cpp:63-77, TLSServer.cpp:97-120).               *)
NextProxyTaken ==
  \A c \in ProxyConns :
    InBacklog(c) /\ SessionGone /\ pc["request"] # "returned"
      ~> ~InBacklog(c) \/ Used >= MaxFds \/ SilentInService

(* A deployer that got through to a listener that is running is accepted   *)
(* and let go again, whether it speaks, stalls or dies, unless             *)
(* RequestListener has leaked the descriptors away                         *)
(* (PolicyListener.cpp:52-71).                                             *)
DeployerReleased ==
  \A c \in DeployerConns :
    InBacklog(c) /\ pc["policy"] # "returned"
      ~> (~InBacklog(c) /\ c \notin open) \/ RequestsTookAll

-----------------------------------------------------------------------------
(* The inductive invariant.  ClientInv: each listener only meets           *)
(* connections to its own port, and has one in m_client whenever it uses   *)
(* it.  SessionInv: replies only ever go to the peer m_ssl has keys for.   *)
(* DenyInv: no TRUE enters the table.  LeakInv: see NoPolicyLeak.          *)
ConnsOf(s) == {c \in Conns : Port(c) = s}

ClientInv ==
  /\ \A s \in Servers :
       /\ backlog[s] \in Seq(ConnsOf(s))
       /\ m_client[s] \in ConnsOf(s) \cup {NoConn}
       /\ pc[s] \in {"handshake", "recv", "validate", "reply", "close"} =>
            m_client[s] \in open
  /\ pc["policy"] \in {"close", "insert"} => policy.from \in DeployerConns

SessionInv ==
  /\ pc["request"] = "init" => m_ssl["request"] = Fresh
  /\ pc["request"] \in {"validate", "reply"} => Live("request")
  /\ \A c \in ProxyConns : answered[c] # <<>> => m_ssl["request"] = c

DenyInv ==
  /\ \A ip \in DOMAIN mapPolicy : mapPolicy[ip] = FALSE
  /\ vRet = FALSE
  /\ DeniedByDefault

LeakInv ==
  /\ NoPolicyLeak
  /\ pc["policy"] \in {"init", "accept", "handshake", "insert"} =>
       m_ssl["policy"] = Fresh
  /\ pc["policy"] \in {"recv", "close"} => Live("policy")

-----------------------------------------------------------------------------
(* What the comments promise and the code does not do.                     *)

(* RequestListener.h:6-7: "listen for the connection request from sidecar  *)
(* proxy, after make connection, send the socket to validator": no proxy   *)
(* that connects is turned away before it can send its request.            *)
NoProxyRejected == \A c \in ProxyConns : remote[c] # "rejected"
=============================================================================
