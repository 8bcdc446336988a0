--------------------------- MODULE TLSClientLife ---------------------------
(***************************************************************************)
(* The TLSClient of the Proxy and of the Deployer (the same code): the     *)
(* mbedtls objects it owns, connect with its early exits, terminate, and   *)
(* the order in which its owner calls it.  The Proxy has one TLSClient and *)
(* connects it again; the Deployer makes one for each policy, and the      *)
(* Validator of the Proxy, which no thread calls, one for each request.    *)
(***************************************************************************)
EXTENDS Naturals, Sequences

CONSTANTS Owners,       \* the owners looked at, out of OwnerNames
          AfterExit,    \* what mbedtls_exit makes of a running process
          MaxPolicies   \* bound: policies or requests an owner takes up

OwnerNames == {"Proxy", "Deployer", "Validator"}

ASSUME LifeAssumption ==
  /\ Owners \subseteq OwnerNames
  /\ AfterExit \subseteq {"running", "exited"} /\ AfterExit # {}
  /\ MaxPolicies \in Nat

VARIABLES owner,  \* whose TLSClient this is: never changes
          proc,   \* "running" or "exited"
          call,   \* the owner's call in progress, or the last one
          pc,     \* the statement of that call
          ret,    \* what the last call returned
          ctx,    \* what each mbedtls object is: "raw" memory, "blank" after
                  \* its init or free, "held" when it has something to free
          freed,  \* how far destroy is
          begun,  \* TLSClients made so far
          lost    \* history: descriptors no context knows any more

vars == <<owner, proc, call, pc, ret, ctx, freed, begun, lost>>

(* The members of TLSClient that have anything to free.                    *)
Contexts ==
  {"m_server", "m_entropy", "m_ctr_drbg", "m_ssl", "m_conf", "m_cacert"}

(* Faulty variant: destroy forgets the certificate.                        *)
DestroyOrderNoCert ==
  <<"m_server", "m_ssl", "m_conf", "m_ctr_drbg", "m_entropy">>

(* What destroy frees, in order.                                           *)
DestroyOrder ==
  <<"m_server", "m_cacert", "m_ssl", "m_conf", "m_ctr_drbg", "m_entropy">>

-----------------------------------------------------------------------------
(* The calls of the owner: <<this call, its result, the next call>>.       *)

(* Faulty variant: after a failed send the Proxy connects at once.         *)
ProxyReconnects == {
  <<"set", "ok", "send">>,           <<"set", "failed", "setFailed">>,
  <<"send", "ok", "recv">>,          <<"send", "failed", "setAgain">>,
  <<"recv", "ok", "send">>,          <<"recv", "failed", "send">>,
  <<"setAgain", "ok", "resend">>,    <<"setAgain", "failed", "againFailed">>,
  <<"resend", "ok", "recv">>,        <<"resend", "failed", "giveUp">>,
  <<"againFailed", "ok", "giveUp">>,
  <<"setFailed", "ok", "end">>,      <<"giveUp", "ok", "end">> }

(* manageClient, setTLSClient included: connect at "set" (line 34) and     *)
(* "setAgain" (51), terminate at "hangUp" (50), "giveUp" (53, 58) and in   *)
(* setTLSClient (74) at "setFailed" and "againFailed".                     *)
ProxyCalls == {
  <<"set", "ok", "send">>,           <<"set", "failed", "setFailed">>,
  <<"send", "ok", "recv">>,          <<"send", "failed", "hangUp">>,
  <<"recv", "ok", "send">>,          <<"recv", "failed", "send">>,
  <<"hangUp", "ok", "setAgain">>,
  <<"setAgain", "ok", "resend">>,    <<"setAgain", "failed", "againFailed">>,
  <<"resend", "ok", "recv">>,        <<"resend", "failed", "giveUp">>,
  <<"againFailed", "ok", "giveUp">>,
  <<"setFailed", "ok", "end">>,      <<"giveUp", "ok", "end">> }

(* deployPolicy; "end" is the end of the TLSClient's scope.                *)
DeployerCalls == {
  <<"set", "ok", "send">>,           <<"set", "failed", "end">>,
  <<"send", "ok", "hangUp">>,        <<"send", "failed", "end">>,
  <<"hangUp", "ok", "end">> }

(* validateRequest; it does not look at what it received.                  *)
ValidatorCalls == {
  <<"set", "ok", "send">>,           <<"set", "failed", "end">>,
  <<"send", "ok", "recv">>,          <<"send", "failed", "end">>,
  <<"recv", "ok", "hangUp">>,        <<"recv", "failed", "end">>,
  <<"hangUp", "ok", "end">> }

OwnerCalls == CASE owner = "Proxy" -> ProxyCalls
                [] owner = "Deployer" -> DeployerCalls
                [] owner = "Validator" -> ValidatorCalls

Connects == {"set", "setAgain"}
Sends == {"send", "resend"}
Terminates == {"setFailed", "hangUp", "againFailed", "giveUp"}
CallNames == Connects \cup Sends \cup Terminates \cup {"recv", "end"}

(* The first statement of a call.                                          *)
Entry(c) == IF c \in Connects THEN "init"
            ELSE IF c \in Sends THEN "write"
            ELSE IF c \in Terminates THEN "notify"
            ELSE IF c = "recv" THEN "read"
            ELSE "ended"

TypeOK ==
  /\ owner \in OwnerNames
  /\ proc \in {"running", "exited"}
  /\ call \in CallNames
  /\ pc \in {"init", "seed", "load", "net", "defaults", "setup", "hostname",
             "handshake", "verify", "undo", "write", "read", "notify",
             "destroy", "exit", "returned", "ended"}
  /\ ret \in {"ok", "failed"}
  /\ ctx \in [Contexts -> {"raw", "blank", "held"}]
  /\ freed \in 0..Len(DestroyOrder)
  /\ begun \in Nat
  /\ lost \in Nat

Init ==
  /\ owner \in Owners
  /\ proc = "running"
  /\ call = "set" /\ pc = "init" /\ ret = "failed"
  /\ ctx = [c \in Contexts |-> "raw"]
  /\ freed = 0 /\ begun = 1 /\ lost = 0

At(label) == proc = "running" /\ pc = label

(* Descriptors lost when the contexts are forgotten.                       *)
Forgotten == IF ctx["m_server"] = "held" THEN 1 ELSE 0

-----------------------------------------------------------------------------
(* connect                                                                 *)

(* Faulty variant: connect relies on the constructor for init.             *)
ConnectNoInit ==
  /\ At("init") /\ pc' = "seed"
  /\ UNCHANGED <<owner, proc, call, ret, ctx, freed, begun, lost>>

(* init writes over whatever the contexts are.                             *)
ConnectInit ==
  /\ At("init") /\ pc' = "seed"
  /\ ctx' = [c \in Contexts |-> "blank"]
  /\ lost' = lost + Forgotten
  /\ UNCHANGED <<owner, proc, call, ret, freed, begun>>

(* A statement that fills the contexts in cs: on failure each may be left  *)
(* with something to free, and connect goes on to destroy.                 *)
Fills(label, cs, next) ==
  /\ At(label)
  /\ \/ /\ pc' = next
        /\ ctx' = [c \in Contexts |-> IF c \in cs THEN "held" ELSE ctx[c]]
     \/ /\ pc' = "undo"
        /\ \E left \in {"blank", "held"} :
             ctx' = [c \in Contexts |-> IF c \in cs THEN left ELSE ctx[c]]
  /\ UNCHANGED <<owner, proc, call, ret, freed, begun, lost>>

ConnectSeed == Fills("seed", {"m_ctr_drbg", "m_entropy"}, "load")

(* Faulty variant: a certificate that does not load is not noticed.        *)
LoadAnyway ==
  /\ At("load") /\ pc' = "net"
  /\ \E left \in {"blank", "held"} : ctx' = [ctx EXCEPT !["m_cacert"] = left]
  /\ UNCHANGED <<owner, proc, call, ret, freed, begun, lost>>

LoadCertificate == Fills("load", {"m_cacert"}, "net")

(* mbedtls_net_connect: a socket that did not connect is closed there.     *)
ConnectNet ==
  /\ At("net")
  /\ \/ pc' = "defaults" /\ ctx' = [ctx EXCEPT !["m_server"] = "held"]
     \/ pc' = "undo" /\ UNCHANGED ctx
  /\ UNCHANGED <<owner, proc, call, ret, freed, begun, lost>>

(* setSSLConfig                                                            *)
ConfigDefaults == Fills("defaults", {"m_conf"}, "setup")

ConfigSetup == Fills("setup", {"m_ssl"}, "hostname")

ConfigHostname == Fills("hostname", {}, "handshake")

ConnectHandshake == Fills("handshake", {}, "verify")

(* A certificate that is not good makes no difference: ret is still 0.     *)
ConnectVerify ==
  /\ At("verify") /\ pc' = "returned" /\ ret' = "ok"
  /\ UNCHANGED <<owner, proc, call, ctx, freed, begun, lost>>

-----------------------------------------------------------------------------
(* destroy: in connect after a failure, and in terminate.                  *)

(* Faulty variant: the socket is not closed.                               *)
DestroyKeepsSocket ==
  /\ At("undo") \/ At("destroy")
  /\ freed < Len(DestroyOrder)
  /\ ctx' = IF DestroyOrder[freed + 1] = "m_server" THEN ctx
            ELSE [ctx EXCEPT ![DestroyOrder[freed + 1]] = "blank"]
  /\ freed' = freed + 1
  /\ UNCHANGED <<owner, proc, call, pc, ret, begun, lost>>

DestroyFrees ==
  /\ At("undo") \/ At("destroy")
  /\ freed < Len(DestroyOrder)
  /\ ctx' = [ctx EXCEPT ![DestroyOrder[freed + 1]] = "blank"]
  /\ freed' = freed + 1
  /\ UNCHANGED <<owner, proc, call, pc, ret, begun, lost>>

ConnectFails ==
  /\ At("undo") /\ freed = Len(DestroyOrder)
  /\ freed' = 0
  /\ pc' = "returned" /\ ret' = "failed"
  /\ UNCHANGED <<owner, proc, call, ctx, begun, lost>>

-----------------------------------------------------------------------------
(* sendMsg and recvMsg succeed or fail.                                    *)
Transfers ==
  /\ At("write") \/ At("read")
  /\ pc' = "returned" /\ ret' \in {"ok", "failed"}
  /\ UNCHANGED <<owner, proc, call, ctx, freed, begun, lost>>

(* terminate                                                               *)
TerminateNotify ==
  /\ At("notify") /\ pc' = "destroy"
  /\ UNCHANGED <<owner, proc, call, ret, ctx, freed, begun, lost>>

TerminateDestroyed ==
  /\ At("destroy") /\ freed = Len(DestroyOrder)
  /\ freed' = 0
  /\ pc' = "exit"
  /\ UNCHANGED <<owner, proc, call, ret, ctx, begun, lost>>

TerminateExit ==
  /\ At("exit")
  /\ proc' \in AfterExit
  /\ pc' = "returned" /\ ret' = "ok"
  /\ UNCHANGED <<owner, call, ctx, freed, begun, lost>>

-----------------------------------------------------------------------------
(* The owner.                                                              *)

OwnerCallsNext ==
  /\ At("returned")
  /\ \E t \in OwnerCalls :
       /\ t[1] = call /\ t[2] = ret
       /\ owner = "Proxy" \/ t[3] # "end"
       /\ call' = t[3]
       /\ pc' = Entry(t[3])
  /\ UNCHANGED <<owner, proc, ret, ctx, freed, begun, lost>>

(* A local TLSClient goes out of scope; ~TLSClient closes nothing.         *)
ScopeEnds ==
  /\ owner # "Proxy"
  /\ At("returned") /\ <<call, ret, "end">> \in OwnerCalls
  /\ ctx' = [c \in Contexts |-> "raw"]
  /\ lost' = lost + Forgotten
  /\ call' = "end" /\ pc' = Entry("end")
  /\ UNCHANGED <<owner, proc, ret, freed, begun>>

(* The next policy or request gets a new one.                              *)
NewClient ==
  /\ owner # "Proxy"
  /\ At("ended") /\ begun < MaxPolicies
  /\ begun' = begun + 1
  /\ call' = "set" /\ pc' = "init"
  /\ UNCHANGED <<owner, proc, ret, ctx, freed, lost>>

(* The Proxy's manageClient has returned, the bound is reached, or exit.   *)
Over ==
  /\ \/ proc = "exited"
     \/ pc = "ended" /\ (owner = "Proxy" \/ begun >= MaxPolicies)
  /\ UNCHANGED vars

Next ==
  \/ ConnectInit \/ ConnectSeed \/ LoadCertificate \/ ConnectNet
  \/ ConfigDefaults \/ ConfigSetup \/ ConfigHostname
  \/ ConnectHandshake \/ ConnectVerify \/ DestroyFrees \/ ConnectFails
  \/ Transfers \/ TerminateNotify \/ TerminateDestroyed \/ TerminateExit
  \/ OwnerCallsNext \/ ScopeEnds \/ NewClient \/ Over

Spec == Init /\ [][Next]_vars

-----------------------------------------------------------------------------
(* The contexts a statement reads, writes into or frees.                   *)
Uses(label) ==
  CASE label = "seed" -> {"m_ctr_drbg", "m_entropy"}
    [] label = "load" -> {"m_cacert"}
    [] label = "net" -> {"m_server"}
    [] label = "defaults" -> {"m_conf", "m_cacert", "m_ctr_drbg"}
    [] label = "setup" -> {"m_ssl", "m_conf"}
    [] label = "hostname" -> {"m_ssl", "m_server"}
    [] label \in {"handshake", "write", "read", "undo", "destroy"} -> Contexts
    [] label \in {"verify", "notify"} -> {"m_ssl"}
    [] OTHER -> {}

(* No statement touches an mbedtls object that was never initialised: the  *)
(* constructor initialises none, so every way through the owner has to     *)
(* pass connect first (TLSClient.cpp:10-11, 39; ProxyManager.cpp:49-60).   *)
NoRawUse == \A c \in Uses(pc) : ctx[c] # "raw"

(* init never runs over an object that still has something to free: each   *)
(* reconnection comes after a destroy (TLSClient.cpp:16-23, 39;            *)
(* ProxyManager.cpp:49-51).                                                *)
NothingOverwritten == pc = "init" => \A c \in Contexts : ctx[c] # "held"

(* While a session is in use, all that m_ssl points to is there: the       *)
(* configuration, certificates, random generator and socket                *)
(* (TLSClient.cpp:82, 123, 144, 217-248).                                  *)
SessionWhole ==
  pc \in {"handshake", "write", "read"} => \A c \in Contexts : ctx[c] = "held"

(* After a failed connect and after terminate no member of TLSClient has   *)
(* anything left to free: destroy forgets none (TLSClient.h:50-56,         *)
(* TLSClient.cpp:25-32, 101-103, 109-111).                                 *)
NothingKept ==
  \/ pc = "returned" /\ call \in Connects /\ ret = "failed"
  \/ pc = "returned" /\ call \in Terminates
  \/ pc = "exit"
  => \A c \in Contexts : ctx[c] = "blank"

(* As seen from outside, connected means that connect has returned true    *)
(* and the socket has not been closed.                                     *)
Link ==
  IF \/ call \in Sends \cup {"recv"}
     \/ call \in Connects /\ pc = "returned" /\ ret = "ok"
     \/ call \in {"hangUp", "giveUp"} /\ ctx["m_server"] = "held"
  THEN "up" ELSE "none"

Habit == IF owner = "Proxy" THEN "keeps" ELSE "drops"

Abstract == INSTANCE ClientLink
              WITH link <- Link, leaked <- lost, habit <- Habit

(* The client is what Proxy and Deployer take it for: a connection that is *)
(* made whole or not at all, one at a time; a descriptor is only lost by   *)
(* Deployer and Validator, when they drop a client that is connected       *)
(* (PolicyDeployer.cpp:37-46, Validator.cpp:54-69, ProxyManager.cpp:33-79).*)
ImplementsLink == Abstract!LinkSpec

-----------------------------------------------------------------------------
(* The inductive invariant: at which statement which contexts are held.    *)

AllFree == \A c \in Contexts : ctx[c] # "held"
AllBlank == \A c \in Contexts : ctx[c] = "blank"
AllHeld == \A c \in Contexts : ctx[c] = "held"

(* What the statements of connect before this one have filled.             *)
Filled(label) ==
  CASE label = "seed" -> {}
    [] label = "load" -> {"m_ctr_drbg", "m_entropy"}
    [] label = "net" -> {"m_ctr_drbg", "m_entropy", "m_cacert"}
    [] label = "defaults" -> Contexts \ {"m_conf", "m_ssl"}
    [] label = "setup" -> Contexts \ {"m_ssl"}
    [] OTHER -> Contexts

Filling == {"seed", "load", "net", "defaults", "setup", "hostname",
            "handshake", "verify"}

ConnectInv ==
  /\ pc \in {"init", "undo"} \cup Filling => call \in Connects
  /\ pc = "init" => AllFree
  /\ pc \in Filling =>
       \A c \in Contexts :
         ctx[c] = IF c \in Filled(pc) THEN "held" ELSE "blank"

DestroyInv ==
  /\ pc \notin {"undo", "destroy"} => freed = 0
  /\ pc \in {"undo", "destroy"} =>
       /\ \A c \in Contexts : ctx[c] # "raw"
       /\ \A i \in 1..Len(DestroyOrder) :
            i <= freed => ctx[DestroyOrder[i]] = "blank"

TerminateInv ==
  /\ pc \in {"notify", "destroy", "exit"} => call \in Terminates
  /\ pc = "notify" => AllHeld \/ AllBlank
  /\ pc = "notify" /\ call = "hangUp" => AllHeld
  /\ call \in {"setFailed", "againFailed"} => AllFree
  /\ pc = "exit" => AllBlank

OwnerInv ==
  /\ pc = "write" => call \in Sends
  /\ pc = "read" => call = "recv"
  /\ pc = "ended" <=> call = "end"
  /\ pc = "ended" => AllFree
  /\ pc \in {"write", "read"} => AllHeld
  /\ pc = "returned" =>
       \/ call \in Connects /\ ret = "ok" /\ AllHeld
       \/ call \in Connects /\ ret = "failed" /\ AllBlank
       \/ call \in Sends \cup {"recv"} /\ AllHeld
       \/ call \in Terminates /\ AllBlank

IInv == TypeOK /\ ConnectInv /\ DestroyInv /\ TerminateInv /\ OwnerInv
=============================================================================
