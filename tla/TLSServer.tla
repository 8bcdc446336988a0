----------------------------- MODULE TLSServer -----------------------------
(***************************************************************************)
(* The two TLSServer objects of the Controller, one in RequestListener     *)
(* (port 30011, serves proxies) and one in PolicyListener (port 30010,     *)
(* serves deployers), with the TCP connections of their peers.             *)
(*                                                                         *)
(* A TLSServer has ONE m_client and ONE m_ssl, reused from one connection  *)
(* to the next.  What mbedtls and the kernel do with them is modelled from *)
(* how TLSServer.cpp uses them:                                            *)
(*  - mbedtls_ssl_handshake does nothing when the handshake is over, and   *)
(*    m_ssl keeps the keys of the peer it was made with until              *)
(*    mbedtls_ssl_session_reset;                                           *)
(*  - mbedtls_net_accept overwrites m_client.fd without closing it;        *)
(*  - accept(2) reserves a descriptor before it waits, so a thread blocked *)
(*    in it holds one, and it fails at once when none is left;             *)
(*  - a read waits 10 s, then returns MBEDTLS_ERR_SSL_TIMEOUT.             *)
(* A "chunk" is what a single mbedtls_ssl_read of at most 1023 bytes       *)
(* leaves in a std::string (msg.append stops at the first NUL).            *)
(***************************************************************************)
EXTENDS Naturals, Sequences, FiniteSets

CONSTANTS ProxyConns,     \* TCP connections proxies may open to 30011
          DeployerConns,  \* TCP connections deployers may open to 30010
          Chunks,         \* the strings a read can yield
          Blank,          \* the empty string
          CloseNotify,    \* the TLS close_notify alert
          MaxFds,         \* descriptors left to the process for connections
          NoConn,         \* m_client after mbedtls_net_init or _free
          Fresh, Midway   \* m_ssl before a handshake / after a failed one

Conns == ProxyConns \cup DeployerConns

Servers == {"request", "policy"}

Port(c) == IF c \in ProxyConns THEN "request" ELSE "policy"

ASSUME TLSServerAssumption ==
  /\ IsFiniteSet(Conns)
  /\ ProxyConns \cap DeployerConns = {}
  /\ Conns \cap {NoConn, Fresh, Midway} = {}
  /\ Fresh # Midway /\ NoConn # Fresh /\ NoConn # Midway
  /\ Blank \in Chunks
  /\ CloseNotify \notin Chunks
  /\ MaxFds \in Nat

VARIABLES bound,      \* bound[s]: the port is bound and listening
          backlog,    \* backlog[s]: connections not yet accepted
          accepting,  \* servers blocked in accept, holding a descriptor
          open,       \* connections with an open descriptor
          m_client,   \* m_client[s]: the connection m_client.fd names
          m_ssl,      \* m_ssl[s]: Fresh, Midway, or the peer it has keys for
          remote,     \* remote[c]: where the peer of the connection is
          wire        \* wire[c]: decryptable data sent and not yet read

tlsVars == <<bound, backlog, accepting, open, m_client, m_ssl, remote, wire>>

RemoteStates == {"idle",      \* not connected
                 "hello",     \* connected, ClientHello on its way
                 "keyed",     \* handshake over
                 "rejected",  \* its handshake was answered with garbage
                 "gone"}      \* closed, crashed or reset

TLSTypeOK ==
  /\ bound \in [Servers -> BOOLEAN]
  /\ backlog \in [Servers -> Seq(Conns)]
  /\ accepting \in SUBSET Servers
  /\ open \in SUBSET Conns
  /\ m_client \in [Servers -> Conns \cup {NoConn}]
  /\ m_ssl \in [Servers -> Conns \cup {Fresh, Midway}]
  /\ remote \in [Conns -> RemoteStates]
  /\ wire \in [Conns -> Seq(Chunks \cup {CloseNotify})]

TLSInit ==
  /\ bound = [s \in Servers |-> FALSE]
  /\ backlog = [s \in Servers |-> <<>>]
  /\ accepting = {}
  /\ open = {}
  /\ m_client = [s \in Servers |-> NoConn]
  /\ m_ssl = [s \in Servers |-> Fresh]
  /\ remote = [c \in Conns |-> "idle"]
  /\ wire = [c \in Conns |-> <<>>]

-----------------------------------------------------------------------------
(* The peers.                                                              *)

Connect(c) ==
  /\ remote[c] = "idle" /\ bound[Port(c)]
  /\ remote' = [remote EXCEPT ![c] = "hello"]
  /\ backlog' = [backlog EXCEPT ![Port(c)] = Append(@, c)]
  /\ UNCHANGED <<bound, accepting, open, m_client, m_ssl, wire>>

(* TLSClient::terminate sends close_notify; a crash only ends the stream,  *)
(* and a reset also throws away what was not yet read.                     *)
Leave(c) ==
  /\ remote[c] \in {"hello", "keyed"}
  /\ \/ wire' = wire
     \/ wire' = [wire EXCEPT ![c] = <<>>]
     \/ /\ remote[c] = "keyed"
        /\ wire' = [wire EXCEPT ![c] = Append(@, CloseNotify)]
  /\ remote' = [remote EXCEPT ![c] = "gone"]
  /\ UNCHANGED <<bound, backlog, accepting, open, m_client, m_ssl>>

(* TLSClient::sendMsg of a message that takes several reads.               *)
PeerSend(c, msg) ==
  /\ remote[c] = "keyed"
  /\ wire' = [wire EXCEPT ![c] = @ \o msg]
  /\ UNCHANGED <<bound, backlog, accepting, open, m_client, m_ssl, remote>>

-----------------------------------------------------------------------------
(* The methods of TLSServer.                                               *)

SetListener(s, ok) ==
  /\ \E b \in {ok, TRUE} : bound' = [bound EXCEPT ![s] = b]
  /\ UNCHANGED <<backlog, accepting, open, m_client, m_ssl, remote, wire>>

Used == Cardinality(open) + Cardinality(accepting)

(* acceptClient enters mbedtls_net_accept ...                              *)
AcceptWait(s) ==
  /\ s \notin accepting /\ Used < MaxFds
  /\ accepting' = accepting \cup {s}
  /\ UNCHANGED <<bound, backlog, open, m_client, m_ssl, remote, wire>>

(* ... which fails, or ...                                                 *)
AcceptFails(s) ==
  /\ s \notin accepting /\ Used >= MaxFds
  /\ m_client' = [m_client EXCEPT ![s] = NoConn]
  /\ UNCHANGED <<bound, backlog, accepting, open, m_ssl, remote, wire>>

(* ... returns the oldest connection, whatever m_client held before.       *)
AcceptTakes(s) ==
  /\ s \in accepting /\ backlog[s] # <<>>
  /\ m_client' = [m_client EXCEPT ![s] = Head(backlog[s])]
  /\ open' = open \cup {Head(backlog[s])}
  /\ backlog' = [backlog EXCEPT ![s] = Tail(@)]
  /\ accepting' = accepting \ {s}
  /\ UNCHANGED <<bound, m_ssl, remote, wire>>

(* Faulty variant: acceptClient resets the session before the handshake.   *)
HandshakeOverFresh(s) ==
  /\ remote[m_client[s]] = "hello"
  /\ m_ssl' = [m_ssl EXCEPT ![s] = m_client[s]]
  /\ remote' = [remote EXCEPT ![m_client[s]] = "keyed"]
  /\ UNCHANGED <<bound, backlog, accepting, open, m_client, wire>>

(* The handshake of acceptClient succeeds: with the peer, or because m_ssl *)
(* is already over one.                                                    *)
HandshakeOver(s) ==
  /\ \/ m_ssl[s] \in Conns /\ UNCHANGED <<m_ssl, remote>>
     \/ /\ m_ssl[s] = Fresh /\ remote[m_client[s]] = "hello"
        /\ m_ssl' = [m_ssl EXCEPT ![s] = m_client[s]]
        /\ remote' = [remote EXCEPT ![m_client[s]] = "keyed"]
  /\ UNCHANGED <<bound, backlog, accepting, open, m_client, wire>>

(* It fails: the peer left, sent nothing for 10 s, or refused.             *)
HandshakeFails(s) ==
  /\ m_ssl[s] \notin Conns
  /\ m_ssl' = [m_ssl EXCEPT ![s] = Midway]
  /\ UNCHANGED <<bound, backlog, accepting, open, m_client, remote, wire>>

(* m_ssl has the keys of the connection m_client names.                    *)
Live(s) == m_ssl[s] = m_client[s]

Text(chunk) == IF chunk = CloseNotify THEN Blank ELSE chunk

(* recvMsg returns ok with msg: data or close_notify; nothing within 10 s  *)
(* (ok) or the end of the stream (not ok).  Where m_ssl expects the records*)
(* of an old session, a new peer's ClientHello may not have come in 10 s   *)
(* (ok), or it has (not ok, the peer gets an alert it cannot read).        *)
RecvMsg(s, ok, msg) ==
  /\ LET c == m_client[s] IN
       \/ /\ Live(s) /\ wire[c] # <<>>
          /\ ok /\ msg = Text(Head(wire[c]))
          /\ wire' = [wire EXCEPT ![c] = Tail(@)]
          /\ UNCHANGED remote
       \/ /\ Live(s) /\ wire[c] = <<>>
          /\ ok = (remote[c] # "gone") /\ msg = Blank
          /\ UNCHANGED <<wire, remote>>
       \/ /\ ~Live(s) /\ msg = Blank
          /\ \/ ok /\ remote[c] = "hello" /\ UNCHANGED remote
             \/ /\ ~ok
                /\ remote' = [remote EXCEPT ![c] =
                                IF @ = "hello" THEN "rejected" ELSE @]
          /\ UNCHANGED wire
  /\ UNCHANGED <<bound, backlog, accepting, open, m_client, m_ssl>>

(* What sendMsg writes reaches the peer.                                   *)
Reaches(s) == Live(s) /\ remote[m_client[s]] = "keyed"

(* Faulty variant: the first of the two calls of resetClient is missing.   *)
ResetClientNoFree(s) ==
  /\ m_ssl' = [m_ssl EXCEPT ![s] = Fresh]
  /\ UNCHANGED <<bound, backlog, accepting, open, m_client, remote, wire>>

(* resetClient: close the connection, forget the session.                  *)
ResetClient(s) ==
  /\ open' = open \ {m_client[s]}
  /\ m_client' = [m_client EXCEPT ![s] = NoConn]
  /\ m_ssl' = [m_ssl EXCEPT ![s] = Fresh]
  /\ UNCHANGED <<bound, backlog, accepting, remote, wire>>
=============================================================================
