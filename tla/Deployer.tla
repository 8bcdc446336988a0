------------------------------ MODULE Deployer ------------------------------
(***************************************************************************)
(* The Deployer (Deployer.cpp).  The thread of PolicyListener takes        *)
(* policies from Admin programs on port 30005, one connection after the    *)
(* other; the main thread, PolicyManager::managePolicy, sends each to the  *)
(* Controller over a TLS connection of its own.                            *)
(* insertPolicy and popPolicy are atomic here: WorkList shows that the     *)
(* mutex makes them so.                                                    *)
(***************************************************************************)
EXTENDS SocketFraming

CONSTANTS AfterExit,       \* what mbedtls_exit makes of a running process:
                           \* {"exited"}, or with a platform layer that is
                           \* built with another exit, {"running"}
          MaxRecord,       \* most that one mbedtls_ssl_write takes
          MaxFds           \* descriptors left to the process for connections

ASSUME DeployerAssumption ==
  /\ AfterExit \subseteq {"running", "exited"} /\ AfterExit # {}
  /\ MaxRecord \in Nat \ {0}
  /\ MaxFds \in Nat

VARIABLES proc,          \* "running" or "exited": the whole process
          lpc,           \* where PolicyListener's thread is
          clientSock,    \* its local: the admin's connection
          open,          \* connections of admins with an open descriptor
          m_policyList,  \* PolicyManager: policies not yet popped
          mpc,           \* where the main thread is
          policy,        \* its local: the policy in hand
          link,          \* its TLSClient: "none", "up", or "down" (peer gone)
          leaked,        \* descriptors of TLSClients that were dropped
          inserted,      \* history: [from, text] of every insert, in order
          handled,       \* history: texts the manager is done with, in order
          deployed       \* history: texts written to a Controller

listenerVars == <<lpc, clientSock, open, inserted>>
managerVars == <<mpc, policy, link, leaked, handled, deployed>>
vars == <<framingVars, proc, listenerVars, m_policyList, managerVars>>

DeployerTypeOK ==
  /\ proc \in {"running", "exited"}
  /\ lpc \in {"init", "accept", "wait", "length", "data", "insert", "close",
              "returned"}
  /\ clientSock \in Admins \cup {Nobody}
  /\ open \in SUBSET Admins
  /\ m_policyList \in Seq(Seq(Nat))
  /\ mpc \in {"pop", "connect", "send", "terminate"}
  /\ policy \in Seq(Nat)
  /\ link \in {"none", "up", "down"}
  /\ leaked \in Nat
  /\ inserted \in Seq([from : Admins, text : Seq(Nat)])
  /\ handled \in Seq(Seq(Nat))
  /\ deployed \in Seq(Seq(Nat))

TypeOK == FramingTypeOK /\ DeployerTypeOK

Init ==
  /\ FramingInit
  /\ proc = "running"
  /\ lpc = "init" /\ clientSock = Nobody /\ open = {}
  /\ m_policyList = <<>>
  /\ mpc = "pop" /\ policy = <<>> /\ link = "none" /\ leaked = 0
  /\ inserted = <<>> /\ handled = <<>> /\ deployed = <<>>

(* Descriptors in use: accept reserves one before it waits.                *)
Used == Cardinality(open) + leaked + (IF lpc = "wait" THEN 1 ELSE 0)
          + (IF link = "none" THEN 0 ELSE 1)

InBacklog(a) == \E i \in 1..Len(backlog) : backlog[i] = a

Listening == proc = "running" /\ lpc \notin {"init", "returned"}

-----------------------------------------------------------------------------
(* The Admin programs.                                                     *)

AdminStep(a) ==
  /\ \/ AdminConnect(a, Listening) \/ AdminSendLength(a) \/ AdminSendText(a)
     \/ AdminClose(a) \/ AdminReset(a)
  /\ UNCHANGED <<proc, listenerVars, m_policyList, managerVars>>

-----------------------------------------------------------------------------
(* The thread of PolicyListener: run and runListener.                      *)

At(label) == proc = "running" /\ lpc = label

ListenerInit ==
  /\ At("init") /\ lpc' \in {"accept", "returned"}
  /\ UNCHANGED <<framingVars, proc, clientSock, open, inserted, m_policyList,
                 managerVars>>

(* getClientConn enters accept ...                                         *)
ListenerWaits ==
  /\ At("accept") /\ Used < MaxFds /\ lpc' = "wait"
  /\ UNCHANGED <<framingVars, proc, clientSock, open, inserted, m_policyList,
                 managerVars>>

(* ... which fails: the loop breaks, run returns, and with its local       *)
(* Listener the listening socket is closed, waiting connections included.  *)
ListenerStarved ==
  /\ At("accept") /\ Used >= MaxFds /\ lpc' = "returned"
  /\ admin' = [a \in Admins |->
                 IF admin[a] # "closed" /\ InBacklog(a)
                   THEN "reset" ELSE admin[a]]
  /\ backlog' = <<>>
  /\ UNCHANGED <<stream, dataLen, data, proc, clientSock, open, inserted,
                 m_policyList, managerVars>>

(* ... or returns the oldest connection.                                   *)
ListenerTakes ==
  /\ At("wait") /\ backlog # <<>>
  /\ clientSock' = Head(backlog)
  /\ open' = open \cup {Head(backlog)}
  /\ backlog' = Tail(backlog)
  /\ lpc' = "length"
  /\ UNCHANGED <<admin, stream, dataLen, data, proc, inserted, m_policyList,
                 managerVars>>

ListenerRecvLength ==
  /\ At("length") /\ RecvLength(clientSock) /\ lpc' = "data"
  /\ UNCHANGED <<proc, clientSock, open, inserted, m_policyList, managerVars>>

ListenerRecvChunk ==
  /\ At("data") /\ RecvChunk(clientSock)
  /\ UNCHANGED <<proc, listenerVars, m_policyList, managerVars>>

ListenerSpins ==
  /\ At("data") /\ RecvSpins(clientSock)
  /\ UNCHANGED <<proc, listenerVars, m_policyList, managerVars>>

(* Faulty variant: an error of ::recv is treated like the end.             *)
ListenerReceivedAll ==
  /\ At("data")
  /\ dataLen = 0
  /\ lpc' = "insert"
  /\ UNCHANGED <<framingVars, proc, clientSock, open, inserted, m_policyList,
                 managerVars>>

(* SocketUtil::recv returns; the caller does not look at its result.       *)
ListenerReceived ==
  /\ At("data")
  /\ \/ dataLen = 0 /\ UNCHANGED framingVars
     \/ RecvFails(clientSock)
  /\ lpc' = "insert"
  /\ UNCHANGED <<proc, clientSock, open, inserted, m_policyList, managerVars>>

ListenerInsert ==
  /\ At("insert")
  /\ m_policyList' = Append(m_policyList, data)
  /\ inserted' = Append(inserted, [from |-> clientSock, text |-> data])
  /\ lpc' = "close"
  /\ UNCHANGED <<framingVars, proc, clientSock, open, managerVars>>

(* Faulty variant: deleteClientConn is not called.                         *)
ListenerKeepsOpen ==
  /\ At("close") /\ lpc' = "accept"
  /\ clientSock' = Nobody
  /\ UNCHANGED <<framingVars, proc, open, inserted, m_policyList, managerVars>>

ListenerClose ==
  /\ At("close") /\ lpc' = "accept"
  /\ open' = open \ {clientSock}
  /\ clientSock' = Nobody
  /\ UNCHANGED <<framingVars, proc, inserted, m_policyList, managerVars>>

-----------------------------------------------------------------------------
(* The main thread: managePolicy and PolicyDeployer::deployPolicy.         *)

Running(label) == proc = "running" /\ mpc = label

(* An empty string is dropped.                                             *)
TakesUp ==
  IF policy' = <<>> THEN mpc' = "pop" /\ handled' = Append(handled, <<>>)
                    ELSE mpc' = "connect" /\ UNCHANGED handled

(* Faulty variant: popPolicy takes the newest policy.                      *)
ManagePopNewest ==
  /\ Running("pop") /\ m_policyList # <<>>
  /\ policy' = m_policyList[Len(m_policyList)]
  /\ m_policyList' = SubSeq(m_policyList, 1, Len(m_policyList) - 1)
  /\ TakesUp
  /\ UNCHANGED <<framingVars, proc, listenerVars, link, leaked, deployed>>

(* Faulty variant: an empty string is not taken off the list.              *)
ManagePopStuck ==
  /\ Running("pop") /\ m_policyList # <<>>
  /\ policy' = Head(m_policyList)
  /\ m_policyList' = IF policy' = <<>> THEN m_policyList
                     ELSE Tail(m_policyList)
  /\ mpc' = IF policy' = <<>> THEN "pop" ELSE "connect"
  /\ UNCHANGED <<framingVars, proc, listenerVars, link, leaked, handled,
                 deployed>>

ManagePop ==
  /\ Running("pop") /\ m_policyList # <<>>
  /\ policy' = Head(m_policyList)
  /\ m_policyList' = Tail(m_policyList)
  /\ TakesUp
  /\ UNCHANGED <<framingVars, proc, listenerVars, link, leaked, deployed>>

(* Nothing to pop: sleep(1).                                               *)
ManageSleep == Running("pop") /\ m_policyList = <<>> /\ UNCHANGED vars

(* connect, as TLSClientLife shows it to be; it succeeds even when         *)
(* verifyCertificate does not ("ret = 1" is commented out).                *)
ManageConnect ==
  /\ Running("connect") /\ Used < MaxFds
  /\ link' = "up"
  /\ mpc' = "send"
  /\ UNCHANGED <<framingVars, proc, listenerVars, m_policyList, policy, leaked,
                 handled, deployed>>

(* deployPolicy is over; managePolicy does not look at its result.         *)
Done == handled' = Append(handled, policy) /\ mpc' = "pop"

(* Faulty variant: the policy is put back to be tried again.               *)
ManageConnectRequeues ==
  /\ Running("connect")
  /\ m_policyList' = Append(m_policyList, policy)
  /\ mpc' = "pop"
  /\ UNCHANGED <<framingVars, proc, listenerVars, policy, link, leaked, handled,
                 deployed>>

(* No descriptor, no Controller, a failed set-up or handshake: connect     *)
(* calls destroy and the policy is dropped.                                *)
ManageConnectFails ==
  /\ Running("connect") /\ Done
  /\ UNCHANGED <<framingVars, proc, listenerVars, m_policyList, policy, link,
                 leaked, deployed>>

Written(text) == IF Len(text) > MaxRecord THEN SubSeq(text, 1, MaxRecord)
                 ELSE text

(* sendMsg takes what one mbedtls_ssl_write takes; what is written to a    *)
(* peer that is gone is lost.                                              *)
ManageSend ==
  /\ Running("send")
  /\ deployed' =
       IF link = "down" THEN deployed
       ELSE Append(deployed, Written(policy))
  /\ mpc' = "terminate"
  /\ UNCHANGED <<framingVars, proc, listenerVars, m_policyList, policy, link,
                 leaked, handled>>

(* It may fail instead: deployPolicy returns without terminate, and ~Tls-  *)
(* Client closes nothing.                                                  *)
ManageSendFails ==
  /\ Running("send") /\ link = "down"
  /\ link' = "none"
  /\ leaked' = leaked + 1
  /\ Done
  /\ UNCHANGED <<framingVars, proc, listenerVars, m_policyList, policy,
                 deployed>>

(* close_notify, destroy, mbedtls_exit.                                    *)
ManageTerminate ==
  /\ Running("terminate")
  /\ link' = "none"
  /\ proc' \in AfterExit
  /\ Done
  /\ UNCHANGED <<framingVars, listenerVars, m_policyList, policy, leaked,
                 deployed>>

(* The Controller closes the connection, times out or crashes.             *)
ControllerGone ==
  /\ proc = "running" /\ link = "up"
  /\ link' = "down"
  /\ UNCHANGED <<framingVars, proc, listenerVars, m_policyList, mpc, policy,
                 leaked, handled, deployed>>

-----------------------------------------------------------------------------
Listener ==
  \/ ListenerInit \/ ListenerWaits \/ ListenerStarved \/ ListenerTakes
  \/ ListenerRecvLength \/ ListenerRecvChunk \/ ListenerSpins
  \/ ListenerReceived \/ ListenerInsert \/ ListenerClose

Manager ==
  \/ ManagePop \/ ManageSleep \/ ManageConnect \/ ManageConnectFails
  \/ ManageSend \/ ManageSendFails \/ ManageTerminate

(* After exit only the Admin programs go on.                               *)
Exited == proc = "exited" /\ UNCHANGED vars

Next ==
  \/ Listener \/ Manager \/ ControllerGone \/ Exited
  \/ \E a \in Admins : AdminStep(a)

Spec == Init /\ [][Next]_vars

(* Both threads run.  Neither the Admin programs nor the Controller owe    *)
(* anything.                                                               *)
FairSpec == Spec /\ WF_vars(Listener) /\ WF_vars(Manager)

-----------------------------------------------------------------------------
(* What may be saved of the policy of an Admin.                            *)
SavedOf(a, text) ==
  \/ OnlyJunkAdded(text, PolicyText[a])
  \/ text = <<>> /\ admin[a] \in {"closed", "reset"}
  \/ /\ admin[a] = "reset"
     /\ \E n \in 0..Len(PolicyText[a]) : OnlyJunkAdded(text, ReadButFor(a, n))

(* What is saved of an Admin's policy is all of it, with nothing in it but *)
(* what lay behind a full buffer; or a beginning of it if the connection   *)
(* was torn down; or nothing if the Admin left before it announced a       *)
(* length.  It is saved once, and no byte of another Admin's policy gets   *)
(* in, however the chunks arrive (SocketUtil.cpp:19-37,                    *)
(* PolicyListener.cpp:49-68).                                              *)
SavedFromOneAdmin ==
  \A i \in 1..Len(inserted) :
    /\ SavedOf(inserted[i].from, inserted[i].text)
    /\ \A j \in 1..Len(inserted) : inserted[j].from = inserted[i].from => i = j

(* The policy in the manager's hand, and the texts in the order of saving. *)
InHand == IF mpc = "pop" THEN <<>> ELSE <<policy>>
Saved == [i \in 1..Len(inserted) |-> inserted[i].text]

(* Every text that was saved is done with, is in hand or waits: each once  *)
(* and in the order of saving, whichever deployments fail half-way         *)
(* (PolicyManager.cpp:35-53, PolicyDeployer.cpp:37-48).                    *)
NothingSkipped == handled \o InHand \o m_policyList = Saved

(* What reaches the Controller is, in the order of saving, some of the     *)
(* saved policies, cut at the size of a record: none twice, none empty     *)
(* (PolicyManager.cpp:35-53, PolicyDeployer.cpp:37-46,                     *)
(* TLSClient.cpp:116-133).                                                 *)
DeployedInOrder ==
  \E of \in [1..Len(deployed) -> 1..Len(Saved)] :
    /\ \A i \in 1..Len(deployed) :
         deployed[i] = Written(Saved[of[i]]) /\ deployed[i] # <<>>
    /\ \A i, j \in 1..Len(deployed) : i < j => of[i] < of[j]

(* Once it is set up, the listener's thread ends only when deployments     *)
(* that failed in sendMsg have cost the process its descriptors: no Admin's*)
(* behaviour ends it (PolicyListener.cpp:50-57, PolicyDeployer.cpp:42-44). *)
ListenerEndsOnlyStarved ==
  [][lpc \notin {"init", "returned"} /\ lpc' = "returned"
       => leaked + (IF link = "none" THEN 0 ELSE 1) >= MaxFds]_vars

(* An Admin that sent all of its policy is let go by the listener, whether *)
(* it stays, ends or is cut off afterwards (PolicyListener.cpp:49-68).     *)
SentIsLetGo ==
  \A a \in Admins :
    admin[a] = "sent" /\ clientSock = a ~> clientSock # a \/ proc = "exited"

(* Every saved policy is taken up, unless a deployment ends the process    *)
(* first (PolicyManager.cpp:35-53).                                        *)
ListDrains == m_policyList # <<>> ~> m_policyList = <<>> \/ proc = "exited"

-----------------------------------------------------------------------------
(* The inductive invariant.  OpenInv: the listener has a connection open   *)
(* from getClientConn to deleteClientConn, that one, and no other.         *)
OpenInv ==
  IF lpc \in {"length", "data", "insert", "close"}
    THEN clientSock \in Admins /\ open = {clientSock}
    ELSE clientSock = Nobody /\ open = {}

IInv == TypeOK /\ OpenInv

(* From the pop on the policy in hand is not empty.                        *)
HandInv == mpc # "pop" => policy # <<>>

(* What was written is of what the manager is done with, and then of what  *)
(* it has in hand.                                                         *)
UpTo == Len(handled) + (IF mpc = "terminate" THEN 1 ELSE 0)

InOrder(of) ==
  /\ \A i \in 1..Len(deployed) :
       /\ deployed[i] = Written(Saved[of[i]]) /\ deployed[i] # <<>>
       /\ of[i] <= UpTo
  /\ \A i, j \in 1..Len(deployed) : i < j => of[i] < of[j]

OrderInv == \E of \in [1..Len(deployed) -> 1..Len(Saved)] : InOrder(of)

QInv == HandInv /\ NothingSkipped /\ OrderInv

-----------------------------------------------------------------------------
(* From where a saved text is.  A connection is at one place at a time:    *)
(* not made, in the backlog, in the listener's hand, or done with.         *)
Served(a) == \E i \in 1..Len(inserted) : inserted[i].from = a

PlaceInv ==
  /\ \A i, j \in 1..Len(backlog) : backlog[i] = backlog[j] => i = j
  /\ \A a \in Admins :
       /\ InBacklog(a) => clientSock # a
       /\ InBacklog(a) \/ clientSock = a \/ Served(a) =>
            admin[a] \notin {"ready", "refused"}
       /\ Served(a) => ~InBacklog(a) /\ (clientSock = a => lpc = "close")
  /\ \A i, j \in 1..Len(inserted) : inserted[i].from = inserted[j].from => i = j

(* What is on the wire of an Admin nothing has been read of.               *)
Message(a) == <<Len(PolicyText[a])>> \o PolicyText[a]

Unread(a) ==
  /\ stream[a] \in {<<>>, <<Len(PolicyText[a])>>, Message(a)}
  /\ admin[a] \in {"ready", "refused", "connected"} => stream[a] = <<>>
  /\ admin[a] = "length" => stream[a] = <<Len(PolicyText[a])>>
  /\ admin[a] = "sent" => stream[a] = Message(a)

NothingRead(a) ==
  \/ admin[a] \in {"ready", "refused"}
  \/ InBacklog(a)
  \/ clientSock = a /\ lpc = "length"

WireInv == \A a \in Admins : NothingRead(a) => Unread(a)

(* Between RecvLength and insertPolicy: what is read, what is missing and  *)
(* what is on the wire are one text, unless the Admin did not send it.     *)
ToRead(a) ==
  SubSeq(PolicyText[a], Len(PolicyText[a]) - dataLen + 1, Len(PolicyText[a]))

ReadingOf(a) ==
  \/ dataLen = 0 /\ data = <<>> /\ admin[a] \in {"closed", "reset"}
  \/ /\ dataLen <= Len(PolicyText[a])
     /\ OnlyJunkAdded(data, ReadButFor(a, dataLen))
     /\ stream[a] \in {<<>>, ToRead(a)}
     /\ admin[a] \in {"length", "sent", "closed", "reset"}
     /\ admin[a] = "length" => stream[a] = <<>> /\ dataLen = Len(PolicyText[a])
     /\ admin[a] = "sent" => stream[a] = ToRead(a)

ReadInv ==
  /\ lpc = "data" => ReadingOf(clientSock)
  /\ lpc = "insert" => SavedOf(clientSock, data)

FromInv ==
  /\ PlaceInv /\ WireInv /\ ReadInv
  /\ \A i \in 1..Len(inserted) : SavedOf(inserted[i].from, inserted[i].text)

-----------------------------------------------------------------------------
(* What the comments promise and the code does not do.                     *)

(* PolicyListener.cpp:59 and 65, "receive policy", "save policy": what is  *)
(* saved of an Admin whose connection was not torn down is what it sent.   *)
SavedAsSent ==
  \A i \in 1..Len(inserted) :
    admin[inserted[i].from] # "reset" =>
      inserted[i].text \in {<<>>, PolicyText[inserted[i].from]}

(* The same comments: the listener comes to save and to close every        *)
(* connection whose Admin has ended.                                       *)
EndedIsLetGo ==
  \A a \in Admins :
    admin[a] = "closed" /\ clientSock = a ~> clientSock # a \/ proc = "exited"
=============================================================================
