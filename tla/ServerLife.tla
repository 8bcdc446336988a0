----------------------------- MODULE ServerLife -----------------------------
(***************************************************************************)
(* A server object from its set-up on, statement by statement, with every  *)
(* early exit: the TLSServer of the Controller's PolicyListener and        *)
(* RequestListener, with and without RA-TLS; the DTLS TLSServer of the     *)
(* Proxy; and the Attestator of the Controller's Listener.  The last two   *)
(* are compiled, but no thread calls them.                                 *)
(***************************************************************************)
EXTENDS Naturals, Sequences

CONSTANTS Servers,  \* the server objects looked at
          SGX,      \* the values of the build's SGX switch
          MaxFds    \* descriptors left to the process for connections

ServerNames == {"PolicyListener", "RequestListener", "Proxy", "Attestator"}

ASSUME ServerAssumption ==
  /\ Servers \subseteq ServerNames
  /\ SGX \subseteq BOOLEAN
  /\ MaxFds \in Nat

VARIABLES server,     \* the object looked at: never changes
          ratls,      \* m_RATLS; for the Attestator, that it has its library
          attestType, \* what the attestation type was found to be
          createKey,  \* the function RA-TLS makes its key with: "unset",
                      \* "null" or "found"
          pc,         \* the call of the owner in progress, or its statement
          step,       \* how far the rows of the set-up are
          result,     \* how the last statement ended
          ctx,        \* what each object of mbedtls is: "raw" memory, "blank"
                      \* after its init or free, "held" with something to free
          session,    \* m_ssl: "none", "fresh", "midway" or "over" a handshake
          id,         \* m_ssl knows the client's address (DTLS cookies)
          lost        \* history: descriptors no object knows any more

setupVars == <<server, ratls, attestType, createKey, step>>
vars == <<setupVars, pc, result, ctx, session, id, lost>>

Own == {"m_server", "m_client", "m_ssl", "m_conf", "m_srvcert", "m_pkey",
        "m_ctr_drbg", "m_entropy"}                         \* of a TLSServer
Contexts == Own \cup {"m_cookie_ctx", "m_ra_tls_attest_lib"}

-----------------------------------------------------------------------------
(* The set-up, one row for each statement that can fail: its name, and the *)
(* objects it fills.                                                       *)

Row(label, fills) == [label |-> label, fills |-> fills]

Seed == Row("seed", {"m_ctr_drbg", "m_entropy"})
Bind == Row("bind", {"m_server"})
Defaults == Row("defaults", {"m_conf"})
OwnCert == Row("own", {})
Setup == Row("setup", {"m_ssl"})
ParseCert == Row("crt", {"m_srvcert"})
ParseKey == Row("key", {"m_pkey"})

(* The Controller's TLSServer.                                             *)
loadCertificate == <<ParseCert, ParseKey>>
setCertificate == <<Row("create", {}), ParseCert, ParseKey>>
setSSLConfig == <<Defaults, OwnCert, Setup>>
setListener ==
  <<Seed>> \o (IF ratls THEN setCertificate ELSE loadCertificate)
           \o <<Bind>> \o setSSLConfig

(* The Proxy's.                                                            *)
ProxyLoadCertificate == <<ParseCert, ParseKey>>
ProxySSLConfig == <<Defaults, OwnCert, Row("cookie", {"m_cookie_ctx"}), Setup>>
ProxySetListener ==
  <<Seed>> \o ProxyLoadCertificate \o <<Bind>> \o ProxySSLConfig

(* The Attestator: the entropy of seedRand is a local, gone when it        *)
(* returns; without its library it reads the CA's certificate as well.     *)
seedRand == <<Row("seed", {"m_ctr_drbg"})>>
generateKeyRATLS == <<Row("create", {}), ParseCert, ParseKey>>
generateKey ==
  IF ratls THEN generateKeyRATLS ELSE <<ParseCert, ParseCert, ParseKey>>
setupRATLS == <<Bind, Defaults, OwnCert, Setup>>
initAttestator == seedRand \o generateKey \o setupRATLS

Rows == CASE server = "Proxy" -> ProxySetListener
          [] server = "Attestator" -> initAttestator
          [] OTHER -> setListener

-----------------------------------------------------------------------------
(* The calls of the owner: <<this call, its result, the next call>>.       *)

(* Faulty variant: a client is not closed before the next accept.          *)
PolicyCallsNoReset == {
  <<"accept", "ok", "handshake">>,  <<"accept", "failed", "reset">>,
  <<"handshake", "ok", "read">>,    <<"handshake", "failed", "reset">>,
  <<"read", "ok", "accept">>,       <<"read", "failed", "reset">>,
  <<"reset", "ok", "accept">> }

(* runListener of PolicyListener: every way ends in resetClient.           *)
PolicyCalls == {
  <<"accept", "ok", "handshake">>,  <<"accept", "failed", "reset">>,
  <<"handshake", "ok", "read">>,    <<"handshake", "failed", "reset">>,
  <<"read", "ok", "reset">>,        <<"read", "failed", "reset">>,
  <<"reset", "ok", "accept">> }

(* runListener of RequestListener; an empty request is not answered.       *)
RequestCalls == {
  <<"accept", "ok", "handshake">>,  <<"accept", "failed", "over">>,
  <<"handshake", "ok", "read">>,    <<"handshake", "failed", "over">>,
  <<"read", "ok", "read">>,         <<"read", "ok", "write">>,
  <<"read", "failed", "accept">>,
  <<"write", "ok", "read">>,        <<"write", "failed", "read">> }

(* The loop Proxy.cpp keeps in a comment.  A handshake "fails" too when it *)
(* asks the client to say hello again, with a cookie.                      *)
ProxyCalls == {
  <<"accept", "ok", "id">>,         <<"accept", "failed", "reset">>,
  <<"id", "ok", "handshake">>,      <<"id", "failed", "reset">>,
  <<"handshake", "ok", "reset">>,   <<"handshake", "failed", "reset">>,
  <<"reset", "ok", "accept">> }

(* getClientMsg; it writes its answer whether it has read a message or not.*)
getClientMsg == {
  <<"idle", "ok", "begin">>,        <<"begin", "ok", "accept">>,
  <<"accept", "ok", "handshake">>,  <<"accept", "failed", "forget">>,
  <<"handshake", "ok", "read">>,    <<"handshake", "failed", "forget">>,
  <<"read", "ok", "write">>,        <<"read", "failed", "write">>,
  <<"write", "ok", "notify">>,      <<"write", "failed", "forget">>,
  <<"notify", "ok", "reset">>,      <<"notify", "failed", "forget">>,
  <<"reset", "ok", "forget">>,
  <<"forget", "ok", "idle">>,       <<"forget", "failed", "idle">> }

Calls == CASE server = "PolicyListener" -> PolicyCalls
           [] server = "RequestListener" -> RequestCalls
           [] server = "Proxy" -> ProxyCalls
           [] server = "Attestator" -> getClientMsg

First == IF server = "Attestator" THEN "idle" ELSE "accept"

CallNames == {"idle", "begin", "accept", "id", "handshake", "read", "write",
              "notify", "reset", "forget"}

TypeOK ==
  /\ server \in ServerNames
  /\ ratls \in BOOLEAN
  /\ attestType \in {"empty", "none", "epid", "dcap", "odd"}
  /\ createKey \in {"unset", "null", "found"}
  /\ pc \in {"init", "type", "lib", "rows", "refused", "over"} \cup CallNames
  /\ step \in Nat \ {0}
  /\ result \in {"ok", "failed"}
  /\ ctx \in [Contexts -> {"raw", "blank", "held"}]
  /\ session \in {"none", "fresh", "midway", "over"}
  /\ id \in BOOLEAN
  /\ lost \in Nat

Init ==
  /\ server \in Servers
  /\ ratls \in IF server \in {"Proxy", "Attestator"} THEN {FALSE} ELSE SGX
  /\ attestType = "empty" /\ createKey = "unset"
  /\ pc = "init" /\ step = 1 /\ result = "ok"
  /\ ctx = [c \in Contexts |-> "raw"]
  /\ session = "none" /\ id = FALSE /\ lost = 0

-----------------------------------------------------------------------------
(* The set-up.                                                             *)

SetUpEnds(how, next) ==
  /\ pc' = next /\ result' = how
  /\ UNCHANGED <<server, session, id>>

(* TLSServer::init, at the start of setListener.                           *)
TLSServerInit ==
  /\ pc = "init" /\ server # "Attestator"
  /\ ctx' = [c \in Contexts |->
               IF c \in Own \cup (IF server = "Proxy" THEN {"m_cookie_ctx"} ELSE {})
                 THEN "blank" ELSE ctx[c]]
  /\ SetUpEnds("ok", IF ratls THEN "type" ELSE "rows")
  /\ UNCHANGED <<ratls, attestType, createKey, step, lost>>

(* Attestator::Attestator.                                                 *)
AttestatorInit ==
  /\ pc = "init" /\ server = "Attestator"
  /\ ctx' = [c \in Contexts |->
               IF c \in {"m_client", "m_entropy", "m_cookie_ctx"}
                 THEN ctx[c] ELSE "blank"]
  /\ SetUpEnds("ok", "type")
  /\ UNCHANGED <<ratls, attestType, createKey, step, lost>>

(* RATLS::getAttestType: a file that is not there passes for an empty one. *)
GetAttestType ==
  /\ pc = "type" /\ server # "Attestator"
  /\ \/ /\ attestType' \in {"empty", "none", "epid", "dcap", "odd"}
        /\ SetUpEnds("ok", "lib")
     \/ SetUpEnds("failed", "refused") /\ UNCHANGED attestType
  /\ UNCHANGED <<ratls, createKey, step, ctx, lost>>

(* Attestator::getAttestType: when the file opens and cannot be read it    *)
(* stays open, and the result is -errno as a bool.                         *)
AttestatorType ==
  /\ pc = "type" /\ server = "Attestator"
  /\ \/ /\ attestType' \in {"none", "epid", "dcap", "odd"}
        /\ SetUpEnds("ok", "lib") /\ UNCHANGED lost
     \/ SetUpEnds("failed", "refused") /\ UNCHANGED <<attestType, lost>>
     \/ /\ SetUpEnds("failed", "lib") \/ SetUpEnds("failed", "refused")
        /\ lost' = lost + 1
        /\ UNCHANGED attestType
  /\ UNCHANGED <<ratls, createKey, step, ctx>>

(* Faulty variant: a key function that is not in the library is not        *)
(* noticed.                                                                *)
GetAttestLibAnyway ==
  /\ pc = "lib" /\ server # "Attestator"
  /\ \/ /\ ctx' = [ctx EXCEPT !["m_ra_tls_attest_lib"] = "held"]
        /\ createKey' \in {"found", "null"} /\ SetUpEnds("ok", "rows")
     \/ SetUpEnds("failed", "refused") /\ UNCHANGED <<createKey, ctx>>
  /\ UNCHANGED <<ratls, attestType, step, lost>>

(* RATLS::getAttestLib: dlopen, dlsym.  The type makes no difference.      *)
GetAttestLib ==
  /\ pc = "lib" /\ server # "Attestator"
  /\ \/ /\ ctx' = [ctx EXCEPT !["m_ra_tls_attest_lib"] = "held"]
        /\ \/ createKey' = "found" /\ SetUpEnds("ok", "rows")
           \/ createKey' = "null" /\ SetUpEnds("failed", "refused")
     \/ SetUpEnds("failed", "refused") /\ UNCHANGED <<createKey, ctx>>
  /\ UNCHANGED <<ratls, attestType, step, lost>>

(* Attestator::loadAttestLibrary: a failed dlsym is only printed.          *)
LoadAttestLibrary ==
  /\ pc = "lib" /\ server = "Attestator"
  /\ \/ /\ attestType = "none"
        /\ createKey' = "null" /\ SetUpEnds("ok", "rows")
        /\ UNCHANGED <<ratls, ctx>>
     \/ /\ attestType \in {"epid", "dcap"}
        /\ \/ /\ ctx' = [ctx EXCEPT !["m_ra_tls_attest_lib"] = "held"]
              /\ ratls' = TRUE
              /\ createKey' \in {"found", "null"}
              /\ SetUpEnds("ok", "rows")
           \/ SetUpEnds("failed", "refused") /\ UNCHANGED <<ratls, createKey, ctx>>
     \/ /\ attestType \notin {"none", "epid", "dcap"}
        /\ SetUpEnds("failed", "refused")
        /\ UNCHANGED <<ratls, createKey, ctx>>
  /\ UNCHANGED <<attestType, step, lost>>

(* Faulty variant: the result of a row that loads a certificate or a key   *)
(* is not looked at.                                                       *)
SetUpRowAnyway ==
  /\ pc = "rows" /\ step <= Len(Rows)
  /\ \E left \in {"blank", "held"} :
       /\ ctx' = [c \in Contexts |-> IF c \in Rows[step].fills THEN left ELSE ctx[c]]
       /\ IF left = "held" \/ Rows[step].label \in {"crt", "key"}
            THEN step' = step + 1 /\ SetUpEnds("ok", "rows")
            ELSE step' = step /\ SetUpEnds("failed", "refused")
  /\ UNCHANGED <<ratls, attestType, createKey, lost>>

(* A row fills its objects, or ends the set-up with each of them filled or *)
(* not; mbedtls_net_bind closes a socket it could not bind.                *)
SetUpRow ==
  /\ pc = "rows" /\ step <= Len(Rows)
  /\ LET row == Rows[step] IN
       \/ /\ ctx' = [c \in Contexts |-> IF c \in row.fills THEN "held" ELSE ctx[c]]
          /\ step' = step + 1
          /\ SetUpEnds("ok", "rows")
       \/ /\ \E left \in {"blank", "held"} :
               /\ row.label = "bind" => left = "blank"
               /\ ctx' = [c \in Contexts |->
                            IF c \in row.fills /\ ctx[c] # "held" THEN left ELSE ctx[c]]
          /\ SetUpEnds("failed", "refused") /\ UNCHANGED step
  /\ UNCHANGED <<ratls, attestType, createKey, lost>>

(* setListener or init returns true.                                       *)
SetUpDone ==
  /\ pc = "rows" /\ step > Len(Rows)
  /\ pc' = First /\ result' = "ok"
  /\ session' = "fresh"
  /\ UNCHANGED <<setupVars, ctx, id, lost>>

(* It has returned false: the owner's thread ends.  ~TLSServer frees       *)
(* nothing, ~Attestator everything.                                        *)
Refused ==
  /\ pc = "refused" /\ pc' = "over"
  /\ ctx' = [c \in Contexts |->
               IF server = "Attestator" /\ ctx[c] = "held" THEN "blank" ELSE ctx[c]]
  /\ UNCHANGED <<setupVars, result, session, id, lost>>

-----------------------------------------------------------------------------
(* The calls of the owner.                                                 *)

Returns(call, how) ==
  /\ pc = call /\ result' = how
  /\ \E t \in Calls : t[1] = call /\ t[2] = how /\ pc' = t[3]
  /\ UNCHANGED setupVars

Held == IF ctx["m_client"] = "held" THEN 1 ELSE 0

(* Faulty variant: getClientMsg goes on with the session there is.         *)
BeginNoReset ==
  /\ Returns("begin", "ok")
  /\ ctx' = [ctx EXCEPT !["m_client"] = "blank"]
  /\ UNCHANGED <<session, id, lost>>

(* getClientMsg makes its local client_fd and resets the session.          *)
Begin ==
  /\ Returns("begin", "ok")
  /\ ctx' = [ctx EXCEPT !["m_client"] = "blank"]
  /\ session' = "fresh" /\ id' = FALSE
  /\ UNCHANGED lost

(* mbedtls_net_accept: the descriptor in m_client, if any, is overwritten. *)
(* Over UDP the socket of m_server becomes the client's before another is  *)
(* made and bound: when that fails the client is there and the server is   *)
(* not (a socket that could not be bound serves nobody, and counts as      *)
(* none).                                                                  *)
Accept ==
  /\ \/ /\ Returns("accept", "ok")
        /\ ctx["m_server"] = "held" /\ lost + Held < MaxFds
        /\ ctx' = [ctx EXCEPT !["m_client"] = "held"]
     \/ /\ Returns("accept", "failed")
        /\ ctx' = [ctx EXCEPT !["m_client"] = "blank"]
     \/ /\ Returns("accept", "failed")
        /\ server = "Proxy" /\ ctx["m_server"] = "held"
        /\ ctx' = [ctx EXCEPT !["m_client"] = "held", !["m_server"] = "blank"]
  /\ lost' = lost + Held
  /\ UNCHANGED <<session, id>>

(* mbedtls_ssl_set_client_transport_id                                     *)
SetClientId ==
  /\ \/ Returns("id", "ok") /\ id' = TRUE
     \/ Returns("id", "failed") /\ UNCHANGED id
  /\ UNCHANGED <<ctx, session, lost>>

(* A handshake that is over is not made again.                             *)
Handshake ==
  /\ \/ /\ Returns("handshake", "ok") /\ session \in {"fresh", "over"}
        /\ session' = "over"
     \/ /\ Returns("handshake", "failed") /\ session # "over"
        /\ session' = "midway"
  /\ UNCHANGED <<ctx, id, lost>>

(* recvMsg, sendMsg and the reads and writes of getClientMsg; and the      *)
(* owner, who calls getClientMsg.                                          *)
Transfer ==
  /\ \E call \in {"idle", "read", "write", "notify"}, how \in {"ok", "failed"} :
       Returns(call, how)
  /\ UNCHANGED <<ctx, session, id, lost>>

(* resetClient, and the last two statements of getClientMsg.               *)
ResetClient ==
  /\ Returns("reset", "ok")
  /\ ctx' = [ctx EXCEPT !["m_client"] = "blank"]
  /\ session' = "fresh" /\ id' = FALSE
  /\ UNCHANGED lost

(* getClientMsg returns, and its client_fd is no more.                     *)
Forgets ==
  /\ pc = "forget" /\ Returns("forget", result)
  /\ ctx' = [ctx EXCEPT !["m_client"] = "raw"]
  /\ lost' = lost + Held
  /\ UNCHANGED <<session, id>>

(* ~Attestator                                                             *)
Destroyed ==
  /\ pc = "idle" /\ pc' = "over"
  /\ ctx' = [c \in Contexts |-> IF ctx[c] = "held" THEN "blank" ELSE ctx[c]]
  /\ UNCHANGED <<setupVars, result, session, id, lost>>

Over == pc = "over" /\ UNCHANGED vars

Next ==
  \/ TLSServerInit \/ AttestatorInit \/ GetAttestType \/ AttestatorType
  \/ GetAttestLib \/ LoadAttestLibrary \/ SetUpRow \/ SetUpDone \/ Refused
  \/ Begin \/ Accept \/ SetClientId \/ Handshake \/ Transfer
  \/ ResetClient \/ Forgets \/ Destroyed \/ Over

Spec == Init /\ [][Next]_vars

-----------------------------------------------------------------------------
(* What m_ssl depends on while it is used.  The Attestator's m_ctr_drbg    *)
(* points to the entropy of seedRand, which is gone.                       *)
Needed ==
  {"m_ssl", "m_conf", "m_srvcert", "m_pkey", "m_ctr_drbg"}
    \cup (IF server = "Attestator" THEN {} ELSE {"m_entropy"})
    \cup (IF server = "Proxy" THEN {"m_cookie_ctx"} ELSE {})

(* What a row of the set-up reads.                                         *)
Reads(label) ==
  CASE label \in {"key", "defaults", "cookie"} -> {"m_ctr_drbg"}
    [] label = "own" -> {"m_conf", "m_srvcert", "m_pkey"}
    [] label = "setup" ->
         {"m_conf"} \cup (IF server = "Proxy" THEN {"m_cookie_ctx"} ELSE {})
    [] label = "create" -> {"m_ra_tls_attest_lib"}
    [] OTHER -> {}

(* No statement of the set-up works on what an earlier one failed to make, *)
(* in either order of RA-TLS and certificate files; a TLSServer only calls *)
(* a key function that is there (TLSServer.cpp:146-287, RATLS.cpp:16-68;   *)
(* the Proxy's TLSServer.cpp:214-326; Attestator.cpp:47-118, 185-278,      *)
(* where a function that is not in the library is called all the same).    *)
SetUpInOrder ==
  pc = "rows" /\ step <= Len(Rows) =>
    /\ \A c \in Reads(Rows[step].label) : ctx[c] = "held"
    /\ Rows[step].label = "create" /\ server # "Attestator" =>
         createKey = "found"

(* A session is used only while all that m_ssl points to is there, but for *)
(* the Attestator's entropy, a local that is gone (Attestator.cpp:280-297):*)
(* a set-up that failed anywhere never gets to accept, the descriptor is   *)
(* the client's, still open, and the DTLS cookie has an address to be made *)
(* of (RequestListener.cpp:46-49, PolicyListener.cpp:41-44, the Proxy's    *)
(* TLSServer.cpp:65-79, 289-296, Attestator.cpp:299-404).                  *)
ServesWhole ==
  pc \in {"handshake", "read", "write", "notify"} =>
    /\ \A c \in Needed \cup {"m_client"} : ctx[c] = "held"
    /\ server = "Proxy" => id

(* A handshake starts on a session that was reset, whatever became of the  *)
(* client before; only RequestListener accepts into one that is over       *)
(* (TLSServer.cpp:39-42, 71-72, Attestator.cpp:303-304, 322).              *)
HandshakeFresh ==
  pc = "handshake" =>
    \/ session = "fresh"
    \/ server = "RequestListener" /\ session = "over"

(* The set-up is over when setListener returns, whether it bound the port  *)
(* before it failed or not.                                                *)
Phase == IF pc \in {"init", "type", "lib", "rows", "refused"} THEN "setting up"
         ELSE IF pc = "over" THEN "over" ELSE "serving"
PortBound == Phase # "setting up" /\ ctx["m_server"] = "held"
HasClient == ctx["m_client"] = "held"
Careful == server \in {"PolicyListener", "Proxy"}

Port == INSTANCE ServerPort
          WITH phase <- Phase, bound <- PortBound, client <- HasClient,
               leaked <- lost, careful <- Careful,
               failed <- result = "failed"

(* A server object is what TLSServer takes it for: set-up, accept and      *)
(* close can be single steps; a set-up that fails may leave the port bound *)
(* with nobody behind it; a descriptor is only lost when something failed, *)
(* never by PolicyListener or the Proxy; and nobody is taken up after the  *)
(* Proxy has lost its port in a failed accept (TLSServer.cpp:39-88,        *)
(* 146-217, RequestListener.cpp:67-68, PolicyListener.cpp:56, 68,          *)
(* Attestator.cpp:139-143, 310-402).                                       *)
ImplementsPort == Port!PortSpec

-----------------------------------------------------------------------------
(* The inductive invariant.  The set-up: what the rows so far fill is      *)
(* there, and so is the library when the rows are those of RA-TLS.         *)
SetUpInv ==
  /\ pc \in {"init", "type", "lib"} =>
       step = 1 /\ (server = "Attestator" => ~ratls)
  /\ pc = "rows" =>
       /\ step <= Len(Rows) + 1
       /\ \A k \in 1..(step - 1) : \A c \in Rows[k].fills : ctx[c] = "held"
       /\ ratls => /\ ctx["m_ra_tls_attest_lib"] = "held"
                   /\ server # "Attestator" => createKey = "found"
  /\ Phase = "setting up" => ~HasClient

(* From then on all of it stays, but for the Proxy's socket, and so does   *)
(* the client in use.                                                      *)
ServeInv ==
  /\ Phase = "serving" =>
       /\ \A c \in Needed : ctx[c] = "held"
       /\ server # "Proxy" => ctx["m_server"] = "held"
  /\ pc \in {"id", "handshake", "read", "write", "notify"} => HasClient
  /\ server = "Proxy" /\ pc \in {"handshake", "read", "write", "notify"} =>
       id /\ pc = "handshake"

(* Only RequestListener goes back to accept with a session that is over.   *)
SessionInv ==
  /\ pc \in {"accept", "id", "handshake"} =>
       \/ session = "fresh"
       \/ server = "RequestListener" /\ session = "over"
  /\ server = "RequestListener" /\ pc \in {"read", "write"} => session = "over"

(* Who may come to a call with a client that the call overwrites, and how. *)
ClientInv ==
  /\ pc = "accept" /\ HasClient =>
       server = "RequestListener" /\ result = "failed"
  /\ pc = "forget" /\ HasClient => result = "failed"
  /\ pc = "idle" => ~HasClient
  /\ pc \in {"idle", "begin", "forget"} => server = "Attestator"

IInv == TypeOK /\ SetUpInv /\ ServeInv /\ SessionInv /\ ClientInv
=============================================================================
