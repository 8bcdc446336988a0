-------------------------- MODULE ServerLifeProofs --------------------------
(***************************************************************************)
(* The life of a server object, for every object, both builds and any      *)
(* number of descriptors: no statement works on what is not there, and the *)
(* object is the port that its owner takes it for.                         *)
(***************************************************************************)
EXTENDS ServerLife, SequenceTheorems, TLAPS

(* The sequences of rows, written out.                                     *)
TLSServerRows ==
  IF ratls THEN <<Seed, Row("create", {}), ParseCert, ParseKey, Bind, Defaults,
                  OwnCert, Setup>>
           ELSE <<Seed, ParseCert, ParseKey, Bind, Defaults, OwnCert, Setup>>
ProxyRows ==
  <<Seed, ParseCert, ParseKey, Bind, Defaults, OwnCert,
    Row("cookie", {"m_cookie_ctx"}), Setup>>
AttestatorRows ==
  IF ratls THEN <<Row("seed", {"m_ctr_drbg"}), Row("create", {}), ParseCert,
                  ParseKey, Bind, Defaults, OwnCert, Setup>>
           ELSE <<Row("seed", {"m_ctr_drbg"}), ParseCert, ParseCert, ParseKey,
                  Bind, Defaults, OwnCert, Setup>>

(* The rows of setListener, with the functions it calls put in.            *)
LEMMA RowsAre ==
  /\ server = "Proxy" => Rows = ProxyRows
  /\ server = "Attestator" => Rows = AttestatorRows
  /\ server \notin {"Proxy", "Attestator"} => Rows = TLSServerRows
<1> DEFINE S == {Seed, Bind, Defaults, OwnCert, Setup, ParseCert, ParseKey,
                 Row("create", {}), Row("seed", {"m_ctr_drbg"}),
                 Row("cookie", {"m_cookie_ctx"})}
<1>1. /\ Seed \in S /\ Bind \in S /\ Defaults \in S /\ OwnCert \in S
      /\ Setup \in S /\ ParseCert \in S /\ ParseKey \in S
      /\ Row("create", {}) \in S /\ Row("seed", {"m_ctr_drbg"}) \in S
      /\ Row("cookie", {"m_cookie_ctx"}) \in S
  OBVIOUS
<1> HIDE DEF S
<1>2. ProxySetListener = ProxyRows
  <2>1. /\ ProxySetListener \in Seq(S) /\ Len(ProxySetListener) = 8
       /\ ProxyRows \in Seq(S) /\ Len(ProxyRows) = 8
       /\ \A i \in 1..8 : ProxySetListener[i] = ProxyRows[i]
    BY <1>1 DEF ProxySetListener, ProxyRows, ProxyLoadCertificate,
       ProxySSLConfig
  <2> QED
    BY <2>1, SeqEqual
<1>3. CASE ratls
  <2>1. initAttestator = AttestatorRows
    <3>1. /\ initAttestator \in Seq(S) /\ Len(initAttestator) = 8
         /\ AttestatorRows \in Seq(S) /\ Len(AttestatorRows) = 8
         /\ \A i \in 1..8 : initAttestator[i] = AttestatorRows[i]
      BY <1>1, <1>3 DEF initAttestator, AttestatorRows, seedRand, generateKey,
         generateKeyRATLS, setupRATLS
    <3> QED
      BY <3>1, SeqEqual
  <2>2. setListener = TLSServerRows
    <3>1. /\ setListener \in Seq(S) /\ Len(setListener) = 8
         /\ TLSServerRows \in Seq(S) /\ Len(TLSServerRows) = 8
         /\ \A i \in 1..8 : setListener[i] = TLSServerRows[i]
      BY <1>1, <1>3 DEF setListener, TLSServerRows, setCertificate,
         setSSLConfig
    <3> QED
      BY <3>1, SeqEqual
  <2> QED
    BY <1>2, <2>1, <2>2 DEF Rows
<1>4. CASE ~ratls
  <2>1. initAttestator = AttestatorRows
    <3>1. /\ initAttestator \in Seq(S) /\ Len(initAttestator) = 8
         /\ AttestatorRows \in Seq(S) /\ Len(AttestatorRows) = 8
         /\ \A i \in 1..8 : initAttestator[i] = AttestatorRows[i]
      BY <1>1, <1>4 DEF initAttestator, AttestatorRows, seedRand, generateKey,
         setupRATLS
    <3> QED
      BY <3>1, SeqEqual
  <2>2. setListener = TLSServerRows
    <3>1. /\ setListener \in Seq(S) /\ Len(setListener) = 7
         /\ TLSServerRows \in Seq(S) /\ Len(TLSServerRows) = 7
         /\ \A i \in 1..7 : setListener[i] = TLSServerRows[i]
      BY <1>1, <1>4 DEF setListener, TLSServerRows, loadCertificate,
         setSSLConfig
    <3> QED
      BY <3>1, SeqEqual
  <2> QED
    BY <1>2, <2>1, <2>2 DEF Rows
<1> QED
  BY <1>3, <1>4

(* What the rows fill, and that each reads what an earlier one fills.      *)
Given(c) == c = "m_ra_tls_attest_lib" /\ ratls
RowsFit ==
  /\ Len(Rows) \in 7..8
  /\ \A k \in 1..Len(Rows) :
       /\ Rows[k].fills \subseteq Contexts \ {"m_client"}
       /\ Rows[k].label = "create" => ratls
       /\ \A c \in Reads(Rows[k].label) :
            Given(c) \/ \E j \in 1..(k - 1) : c \in Rows[j].fills
  /\ \A c \in Needed \cup {"m_server"} :
       \E j \in 1..Len(Rows) : c \in Rows[j].fills

(* What a row reads, by its name.                                          *)
LEMMA ReadsAre ==
  /\ Reads("seed") = {} /\ Reads("bind") = {} /\ Reads("crt") = {}
  /\ Reads("key") = {"m_ctr_drbg"} /\ Reads("defaults") = {"m_ctr_drbg"}
  /\ Reads("cookie") = {"m_ctr_drbg"}
  /\ Reads("own") = {"m_conf", "m_srvcert", "m_pkey"}
  /\ Reads("setup") =
       {"m_conf"} \cup (IF server = "Proxy" THEN {"m_cookie_ctx"} ELSE {})
  /\ Reads("create") = {"m_ra_tls_attest_lib"}
BY DEF Reads

(* In each table a row reads only what the rows before it have filled.     *)
LEMMA RowsInOrder == RowsFit
<1> USE DEF Row, Seed, Bind, Defaults, OwnCert, Setup, ParseCert, ParseKey
<1>1. CASE server = "Proxy"
  <2>1. Rows = ProxyRows /\ Len(ProxyRows) = 8
    BY <1>1, RowsAre DEF ProxyRows
  <2>2. \A k \in 1..8 : /\ ProxyRows[k].fills \subseteq Contexts \ {"m_client"}
                        /\ ProxyRows[k].label = "create" => ratls
    BY <1>1 DEF ProxyRows, Contexts, Own
  <2>3. \A k \in 1..8 : \A c \in Reads(ProxyRows[k].label) :
          Given(c) \/ \E j \in 1..(k - 1) : c \in ProxyRows[j].fills
    BY <1>1, ReadsAre DEF ProxyRows, Given
  <2>4. \A c \in Needed \cup {"m_server"} :
          \E j \in 1..8 : c \in ProxyRows[j].fills
    BY <1>1 DEF ProxyRows, Needed
  <2> QED
    BY <2>1, <2>2, <2>3, <2>4 DEF RowsFit
<1>2. CASE server = "Attestator" /\ ratls
  <2>1. Rows = AttestatorRows /\ Len(AttestatorRows) = 8
    BY <1>2, RowsAre DEF AttestatorRows
  <2>2. \A k \in 1..8 : /\ AttestatorRows[k].fills \subseteq Contexts \ {"m_client"}
                        /\ AttestatorRows[k].label = "create" => ratls
    BY <1>2 DEF AttestatorRows, Contexts, Own
  <2>3. \A k \in 1..8 : \A c \in Reads(AttestatorRows[k].label) :
          Given(c) \/ \E j \in 1..(k - 1) : c \in AttestatorRows[j].fills
    BY <1>2, ReadsAre DEF AttestatorRows, Given
  <2>4. \A c \in Needed \cup {"m_server"} :
          \E j \in 1..8 : c \in AttestatorRows[j].fills
    BY <1>2 DEF AttestatorRows, Needed
  <2> QED
    BY <2>1, <2>2, <2>3, <2>4 DEF RowsFit
<1>3. CASE server = "Attestator" /\ ~ratls
  <2>1. Rows = AttestatorRows /\ Len(AttestatorRows) = 8
    BY <1>3, RowsAre DEF AttestatorRows
  <2>2. \A k \in 1..8 : /\ AttestatorRows[k].fills \subseteq Contexts \ {"m_client"}
                        /\ AttestatorRows[k].label = "create" => ratls
    BY <1>3 DEF AttestatorRows, Contexts, Own
  <2>3. \A k \in 1..8 : \A c \in Reads(AttestatorRows[k].label) :
          Given(c) \/ \E j \in 1..(k - 1) : c \in AttestatorRows[j].fills
    BY <1>3, ReadsAre DEF AttestatorRows, Given
  <2>4. \A c \in Needed \cup {"m_server"} :
          \E j \in 1..8 : c \in AttestatorRows[j].fills
    BY <1>3 DEF AttestatorRows, Needed
  <2> QED
    BY <2>1, <2>2, <2>3, <2>4 DEF RowsFit
<1>4. CASE server \notin {"Proxy", "Attestator"} /\ ratls
  <2>1. Rows = TLSServerRows /\ Len(TLSServerRows) = 8
    BY <1>4, RowsAre DEF TLSServerRows
  <2>2. \A k \in 1..8 : /\ TLSServerRows[k].fills \subseteq Contexts \ {"m_client"}
                        /\ TLSServerRows[k].label = "create" => ratls
    BY <1>4 DEF TLSServerRows, Contexts, Own
  <2>3. \A k \in 1..8 : \A c \in Reads(TLSServerRows[k].label) :
          Given(c) \/ \E j \in 1..(k - 1) : c \in TLSServerRows[j].fills
    BY <1>4, ReadsAre DEF TLSServerRows, Given
  <2>4. \A c \in Needed \cup {"m_server"} :
          \E j \in 1..8 : c \in TLSServerRows[j].fills
    BY <1>4 DEF TLSServerRows, Needed
  <2> QED
    BY <2>1, <2>2, <2>3, <2>4 DEF RowsFit
<1>5. CASE server \notin {"Proxy", "Attestator"} /\ ~ratls
  <2>1. Rows = TLSServerRows /\ Len(TLSServerRows) = 7
    BY <1>5, RowsAre DEF TLSServerRows
  <2>2. \A k \in 1..7 : /\ TLSServerRows[k].fills \subseteq Contexts \ {"m_client"}
                        /\ TLSServerRows[k].label = "create" => ratls
    BY <1>5 DEF TLSServerRows, Contexts, Own
  <2>3. \A k \in 1..7 : \A c \in Reads(TLSServerRows[k].label) :
          Given(c) \/ \E j \in 1..(k - 1) : c \in TLSServerRows[j].fills
    BY <1>5, ReadsAre DEF TLSServerRows, Given
  <2>4. \A c \in Needed \cup {"m_server"} :
          \E j \in 1..7 : c \in TLSServerRows[j].fills
    BY <1>5 DEF TLSServerRows, Needed
  <2> QED
    BY <2>1, <2>2, <2>3, <2>4 DEF RowsFit
<1> QED
  BY <1>1, <1>2, <1>3, <1>4, <1>5

-----------------------------------------------------------------------------
(* The rows depend on the object and on RA-TLS only.                       *)
LEMMA SameRows ==
  ASSUME UNCHANGED <<server, ratls>>
  PROVE  UNCHANGED <<Rows, Needed, Calls, First>>
BY DEF Rows, ProxySetListener, ProxyLoadCertificate, ProxySSLConfig, setListener,
   loadCertificate, setCertificate, setSSLConfig, initAttestator, seedRand,
   generateKey, generateKeyRATLS, setupRATLS, Needed, Calls, First

(* How long a table is.                                                    *)
LEMMA RowsCount == Len(Rows) = 7 \/ Len(Rows) = 8
BY RowsInOrder DEF RowsFit

(* The rows fit in the next state too.                                     *)
LEMMA RowsInOrderNext == RowsFit'
BY RowsInOrder, PTL

(* Nothing is made and nobody is served at the start.                      *)
LEMMA InitIInv == Init => IInv
<1> SUFFICES ASSUME Init PROVE IInv
  OBVIOUS
<1>1. TypeOK
  <2>1. ratls \in BOOLEAN /\ server \in ServerNames
    BY ServerAssumption DEF Init
  <2>2. ctx \in [Contexts -> {"raw", "blank", "held"}]
    BY DEF Init
  <2>3. /\ attestType = "empty" /\ createKey = "unset" /\ pc = "init"
        /\ result = "ok" /\ session = "none"
    BY DEF Init
  <2>4. id \in BOOLEAN
    BY DEF Init
  <2>5. step = 1 /\ lost = 0
    BY DEF Init
  <2>6. step \in Nat \ {0} /\ lost \in Nat
    BY <2>5
  <2> QED
    BY <2>1, <2>2, <2>3, <2>4, <2>6 DEF TypeOK
<1>2. SetUpInv /\ ServeInv /\ SessionInv /\ ClientInv
  <2>1. pc = "init" /\ step = 1 /\ ctx["m_client"] = "raw"
    BY DEF Init, Contexts, Own
  <2>2. server = "Attestator" => ~ratls
    BY DEF Init
  <2> QED
    BY <2>1, <2>2 DEF SetUpInv, ServeInv, SessionInv, ClientInv, Phase, HasClient
<1> QED
  BY <1>1, <1>2 DEF IInv

(* When the set-up is done, all that serving needs has been filled.        *)
LEMMA AllSetUp ==
  ASSUME IInv, SetUpDone
  PROVE  /\ \A c \in Needed \cup {"m_server"} : ctx[c] = "held"
         /\ UNCHANGED ctx
<1>1. /\ pc = "rows" /\ step > Len(Rows) /\ UNCHANGED ctx
      /\ step \in Nat /\ step <= Len(Rows) + 1
  BY DEF SetUpDone, IInv, SetUpInv, TypeOK
<1>2. step - 1 = Len(Rows)
  BY <1>1, RowsCount
<1>3. \A k \in 1..Len(Rows) : \A c \in Rows[k].fills : ctx[c] = "held"
  BY <1>1, <1>2 DEF IInv, SetUpInv
<1> QED
  BY <1>1, <1>3, RowsInOrder DEF RowsFit

(* A step of the set-up keeps the inductive invariant.                     *)
LEMMA SetUpStep ==
  ASSUME IInv,
         \/ TLSServerInit \/ AttestatorInit \/ GetAttestType \/ AttestatorType
         \/ GetAttestLib \/ LoadAttestLibrary \/ SetUpRow \/ SetUpDone \/ Refused
  PROVE  IInv'
<1> USE DEF IInv
<1>1. CASE TLSServerInit
  <2>1. TypeOK' /\ ctx'["m_client"] = "blank"
    BY <1>1 DEF TLSServerInit, SetUpEnds, TypeOK, Contexts, Own, CallNames
  <2>2. /\ pc' \in {"type", "rows"} /\ step' = step /\ step = 1
        /\ server' = server /\ server # "Attestator" /\ ratls' = ratls
        /\ pc' = "rows" => ~ratls
    BY <1>1 DEF TLSServerInit, SetUpEnds, SetUpInv
  <2>3. step' <= Len(Rows') + 1
    BY <2>2, RowsInOrderNext DEF RowsFit
  <2>4. SetUpInv'
    <3>1. \A k \in 1..(step' - 1) : FALSE
      BY <2>2
    <3> QED
      BY <2>1, <2>2, <2>3, <3>1 DEF SetUpInv, HasClient
  <2> QED
    BY <2>1, <2>2, <2>4 DEF ServeInv, SessionInv, ClientInv, Phase
<1>2. CASE AttestatorInit
  <2>1. TypeOK' /\ ctx'["m_client"] = ctx["m_client"]
    BY <1>2 DEF AttestatorInit, SetUpEnds, TypeOK, Contexts, Own, CallNames
  <2>2. /\ pc' = "type" /\ step' = step /\ step = 1
        /\ server' = server /\ ratls' = ratls
    BY <1>2 DEF AttestatorInit, SetUpEnds, SetUpInv
  <2>3. SetUpInv'
    BY <1>2, <2>1, <2>2 DEF AttestatorInit, SetUpInv, HasClient, Phase
  <2> QED
    BY <2>1, <2>2, <2>3 DEF ServeInv, SessionInv, ClientInv, Phase
<1>3. CASE GetAttestType \/ AttestatorType
  <2>1. /\ UNCHANGED <<ctx, server, ratls, step, createKey, session, id>>
        /\ pc = "type" /\ pc' \in {"lib", "refused"}
        /\ attestType' \in {attestType, "empty", "none", "epid", "dcap", "odd"}
        /\ lost' \in {lost, lost + 1} /\ result' \in {"ok", "failed"}
    BY <1>3 DEF GetAttestType, AttestatorType, SetUpEnds
  <2>2. TypeOK'
    BY <2>1 DEF TypeOK
  <2> QED
    BY <2>1, <2>2 DEF SetUpInv, ServeInv, SessionInv, ClientInv, Phase, HasClient
<1>4. CASE GetAttestLib \/ LoadAttestLibrary
  <2>1. TypeOK'
    BY <1>4 DEF GetAttestLib, LoadAttestLibrary, SetUpEnds, TypeOK, CallNames
  <2>2. /\ pc = "lib" /\ pc' \in {"rows", "refused"} /\ step' = 1
        /\ ctx'["m_client"] = ctx["m_client"]
    BY <1>4 DEF GetAttestLib, LoadAttestLibrary, SetUpEnds, SetUpInv, TypeOK,
       Contexts, Own
  <2>3. pc' = "rows" /\ ratls' =>
          /\ ctx'["m_ra_tls_attest_lib"] = "held"
          /\ server' # "Attestator" => createKey' = "found"
    BY <1>4 DEF GetAttestLib, LoadAttestLibrary, SetUpEnds, SetUpInv, TypeOK,
       Contexts, Own
  <2>4. step' <= Len(Rows') + 1
    BY <2>2, RowsInOrderNext DEF RowsFit
  <2>5. SetUpInv'
    BY <2>2, <2>3, <2>4 DEF SetUpInv, HasClient, Phase
  <2> QED
    BY <2>1, <2>2, <2>5 DEF ServeInv, SessionInv, ClientInv, Phase
<1>5. CASE SetUpRow
  <2> DEFINE row == Rows[step]
  <2>1. /\ step \in 1..Len(Rows) /\ row.fills \subseteq Contexts \ {"m_client"}
        /\ Len(Rows) \in 7..8
    <3>1. step \in 1..Len(Rows) /\ Len(Rows) \in 7..8
      BY <1>5, RowsCount DEF SetUpRow, TypeOK
    <3> QED
      BY <3>1, RowsInOrder DEF RowsFit
  <2>2. /\ UNCHANGED <<server, ratls, Rows, createKey, attestType, lost, session, id>>
        /\ pc = "rows"
    BY <1>5, SameRows DEF SetUpRow, SetUpEnds
  <2>3. \/ /\ ctx' = [c \in Contexts |-> IF c \in row.fills THEN "held" ELSE ctx[c]]
           /\ step' = step + 1 /\ pc' = "rows" /\ result' = "ok"
        \/ /\ \E left \in {"blank", "held"} :
                ctx' = [c \in Contexts |->
                          IF c \in row.fills /\ ctx[c] # "held" THEN left ELSE ctx[c]]
           /\ step' = step /\ pc' = "refused" /\ result' = "failed"
    BY <1>5 DEF SetUpRow, SetUpEnds
  <2> HIDE DEF row
  <2>4. /\ ctx' \in [Contexts -> {"raw", "blank", "held"}]
        /\ \A c \in Contexts : ctx[c] = "held" => ctx'[c] = "held"
        /\ ctx'["m_client"] = ctx["m_client"]
    BY <2>1, <2>3 DEF TypeOK, Contexts, Own
  <2>5. TypeOK'
    <3>1. step' \in Nat \ {0} /\ pc' \in {"rows", "refused"}
          /\ result' \in {"ok", "failed"}
      BY <2>1, <2>3
    <3> QED
      BY <2>2, <2>4, <3>1 DEF TypeOK
  <2>6. SetUpInv'
    <3>1. CASE pc' = "refused"
      BY <2>2, <2>4, <3>1 DEF SetUpInv, Phase, HasClient
    <3>2. CASE pc' = "rows"
      <4>1. step' = step + 1 /\ \A c \in row.fills : ctx'[c] = "held"
        BY <2>1, <2>3, <3>2
      <4>2. ASSUME NEW k \in 1..(step' - 1), NEW c \in Rows[k].fills
            PROVE  ctx'[c] = "held"
        <5>1. k \in 1..step /\ c \in Contexts
          <6>1. k \in 1..step
            BY <2>1, <4>1
          <6> QED
            BY <2>1, <6>1, RowsInOrder DEF RowsFit
        <5>2. CASE k = step
          BY <4>1, <5>2 DEF row
        <5>3. CASE k # step
          <6>1. k \in 1..(step - 1)
            BY <2>1, <5>1, <5>3
          <6>2. ctx[c] = "held"
            BY <2>2, <6>1 DEF SetUpInv
          <6> QED
            BY <2>4, <5>1, <6>2
        <5> QED
          BY <5>2, <5>3
      <4>3. "m_ra_tls_attest_lib" \in Contexts
        BY DEF Contexts
      <4> QED
        BY <2>1, <2>2, <2>4, <3>2, <4>1, <4>2, <4>3
           DEF SetUpInv, Phase, HasClient
    <3> QED
      BY <2>3, <3>1, <3>2
  <2> QED
    BY <2>3, <2>5, <2>6 DEF ServeInv, SessionInv, ClientInv, Phase
<1>6. CASE SetUpDone
  <2>1. /\ UNCHANGED <<server, ratls, ctx, step, attestType, createKey, id, lost>>
        /\ pc = "rows" /\ step > Len(Rows) /\ result' = "ok"
        /\ pc' = First /\ session' = "fresh" /\ Needed' = Needed
    BY <1>6, SameRows DEF SetUpDone, setupVars
  <2>2. \A c \in Needed \cup {"m_server"} : ctx[c] = "held"
    BY <1>6, AllSetUp
  <2>3. pc' = IF server = "Attestator" THEN "idle" ELSE "accept"
    BY <2>1 DEF First
  <2>4. TypeOK'
    BY <2>1, <2>3 DEF TypeOK, CallNames
  <2>5. ~HasClient'
    BY <2>1 DEF SetUpInv, Phase, HasClient
  <2> QED
    BY <2>1, <2>2, <2>3, <2>4, <2>5
       DEF SetUpInv, ServeInv, SessionInv, ClientInv, Phase
<1>7. CASE Refused
  <2>1. TypeOK' /\ pc' = "over"
    BY <1>7 DEF Refused, setupVars, TypeOK
  <2> QED
    BY <2>1 DEF SetUpInv, ServeInv, SessionInv, ClientInv, Phase
<1> QED
  BY <1>1, <1>2, <1>3, <1>4, <1>5, <1>6, <1>7

(* A call that returns goes on as its owner's table says.                  *)
LEMMA Follows ==
  ASSUME server \in ServerNames, NEW call, NEW how, Returns(call, how)
  PROVE  /\ server = "PolicyListener" => <<call, how, pc'>> \in PolicyCalls
         /\ server = "RequestListener" => <<call, how, pc'>> \in RequestCalls
         /\ server = "Proxy" => <<call, how, pc'>> \in ProxyCalls
         /\ server = "Attestator" => <<call, how, pc'>> \in getClientMsg
         /\ pc = call /\ result' = how
         /\ UNCHANGED <<server, ratls, attestType, createKey, step>>
<1>1. PICK t \in Calls : t[1] = call /\ t[2] = how /\ pc' = t[3]
  BY DEF Returns
<1>2. ASSUME server = "PolicyListener" PROVE <<call, how, pc'>> \in PolicyCalls
  BY <1>1, <1>2 DEF Calls, PolicyCalls
<1>3. ASSUME server = "RequestListener" PROVE <<call, how, pc'>> \in RequestCalls
  BY <1>1, <1>3 DEF Calls, RequestCalls
<1>4. ASSUME server = "Proxy" PROVE <<call, how, pc'>> \in ProxyCalls
  BY <1>1, <1>4 DEF Calls, ProxyCalls
<1>5. ASSUME server = "Attestator" PROVE <<call, how, pc'>> \in getClientMsg
  BY <1>1, <1>5 DEF Calls, getClientMsg
<1> QED
  BY <1>2, <1>3, <1>4, <1>5 DEF Returns, setupVars

(* The calls that follow each other, for all owners.                       *)
LEMMA Tables ==
  ASSUME server \in ServerNames, NEW call, NEW how, Returns(call, how)
  PROVE  /\ pc' \in CallNames \cup {"over"} /\ how \in {"ok", "failed"}
         /\ pc' \in {"id", "handshake", "read", "write", "notify"} =>
              (call = "accept" /\ how = "ok") \/
              call \in {"id", "handshake", "read", "write", "notify"}
         /\ pc' = "handshake" =>
              \/ call = "accept" /\ how = "ok" /\ server # "Proxy"
              \/ call = "id" /\ how = "ok" /\ server = "Proxy"
         /\ pc' = "id" => call = "accept" /\ how = "ok"
         /\ pc' \in {"read", "write", "notify"} => server # "Proxy"
         /\ pc' = "accept" =>
              \/ call = "reset" /\ server \in {"PolicyListener", "Proxy"}
              \/ call = "begin" /\ server = "Attestator"
              \/ call = "read" /\ how = "failed" /\ server = "RequestListener"
         /\ pc' \in {"read", "write"} /\ server = "RequestListener" =>
              \/ call = "handshake" /\ how = "ok"
              \/ call \in {"read", "write"}
         /\ pc' = "forget" =>
              how = "failed" \/ call = "reset"
         /\ pc' = "idle" => call = "forget"
         /\ pc' \in {"idle", "begin", "forget"} => server = "Attestator"
         /\ pc' = "over" => call \in {"accept", "handshake"}
                              /\ server = "RequestListener" /\ how = "failed"
<1> USE DEF CallNames
<1>1. CASE server = "PolicyListener"
  BY <1>1, Follows DEF PolicyCalls
<1>2. CASE server = "RequestListener"
  BY <1>2, Follows DEF RequestCalls
<1>3. CASE server = "Proxy"
  BY <1>3, Follows DEF ProxyCalls
<1>4. CASE server = "Attestator"
  BY <1>4, Follows DEF getClientMsg
<1> QED
  BY <1>1, <1>2, <1>3, <1>4 DEF ServerNames

(* The socket of the client is the only object a call touches, but for the *)
(* Proxy's other socket.                                                   *)
LEMMA OnlySockets ==
  ASSUME IInv, NEW call, NEW how, Returns(call, how), Phase = "serving",
         ctx' \in [Contexts -> {"raw", "blank", "held"}],
         \A c \in Contexts \ {"m_client"} :
           ctx'[c] = ctx[c] \/ (server = "Proxy" /\ c = "m_server"),
         session' \in {"none", "fresh", "midway", "over"},
         id' \in BOOLEAN, lost' \in Nat
  PROVE  /\ TypeOK' /\ SetUpInv'
         /\ \A c \in Needed : ctx'[c] = "held"
         /\ server # "Proxy" => ctx'["m_server"] = "held"
         /\ Needed' = Needed
<1>1. /\ UNCHANGED <<server, ratls, attestType, createKey, step>>
      /\ pc = call /\ result' = how
      /\ server \in ServerNames /\ pc' \in CallNames \cup {"over"}
      /\ how \in {"ok", "failed"}
  BY Follows, Tables DEF IInv, TypeOK
<1>2. Needed' = Needed
  BY <1>1, SameRows
<1>4. TypeOK'
  BY <1>1 DEF IInv, TypeOK
<1>5. SetUpInv'
  BY <1>1 DEF SetUpInv, Phase, CallNames
<1>6. /\ \A c \in Needed : ctx'[c] = "held"
      /\ server # "Proxy" => ctx'["m_server"] = "held"
  <2>1. \A c \in Needed : c \in Contexts \ {"m_client", "m_server"}
    BY DEF Needed, Contexts, Own
  <2>2. "m_server" \in Contexts \ {"m_client"}
    BY DEF Contexts, Own
  <2> QED
    BY <2>1, <2>2 DEF IInv, ServeInv
<1> QED
  BY <1>2, <1>4, <1>5, <1>6

(* A call of the owner keeps the inductive invariant.                      *)
LEMMA CallStep ==
  ASSUME IInv,
         \/ Begin \/ Accept \/ SetClientId \/ Handshake \/ Transfer
         \/ ResetClient \/ Forgets
  PROVE  IInv'
<1>1. PICK call, how : Returns(call, how)
  BY DEF Begin, Accept, SetClientId, Handshake, Transfer, ResetClient, Forgets
<1>2. /\ UNCHANGED <<server, ratls>> /\ pc = call /\ result' = how
      /\ server \in ServerNames /\ how \in {"ok", "failed"}
  BY <1>1, Follows, Tables DEF IInv, TypeOK
<1>3. Phase = "serving"
  <2>1. pc \notin {"init", "type", "lib", "rows", "refused", "over"}
    BY DEF Begin, Accept, SetClientId, Handshake, Transfer, ResetClient,
           Forgets, Returns
  <2> QED
    BY <2>1 DEF Phase
<1>4. lost' \in Nat
  <2>1. lost \in Nat /\ Held \in {0, 1}
    BY DEF IInv, TypeOK, Held
  <2>2. lost' = lost \/ lost' = lost + Held
    BY DEF Begin, Accept, SetClientId, Handshake, Transfer, ResetClient, Forgets
  <2> QED
    BY <2>1, <2>2
<1>5. session' \in {"none", "fresh", "midway", "over"} /\ id' \in BOOLEAN
  BY DEF IInv, TypeOK, Begin, Accept, SetClientId, Handshake, Transfer,
         ResetClient, Forgets
<1>6. /\ ctx' \in [Contexts -> {"raw", "blank", "held"}]
      /\ \A c \in Contexts \ {"m_client"} :
           ctx'[c] = ctx[c] \/ (server = "Proxy" /\ c = "m_server")
  <2>1. \/ \E left \in {"raw", "blank", "held"} :
              ctx' = ctx \/ ctx' = [ctx EXCEPT !["m_client"] = left]
        \/ /\ server = "Proxy"
           /\ ctx' = [ctx EXCEPT !["m_client"] = "held", !["m_server"] = "blank"]
    BY DEF Begin, Accept, SetClientId, Handshake, Transfer, ResetClient, Forgets
  <2>2. ctx \in [Contexts -> {"raw", "blank", "held"}]
    BY DEF IInv, TypeOK
  <2>3. CASE /\ server = "Proxy"
             /\ ctx' = [ctx EXCEPT !["m_client"] = "held", !["m_server"] = "blank"]
    BY <2>2, <2>3
  <2>4. CASE ctx' = ctx
    BY <2>2, <2>4
  <2>5. ASSUME NEW left \in {"raw", "blank", "held"},
               ctx' = [ctx EXCEPT !["m_client"] = left]
        PROVE  /\ ctx' \in [Contexts -> {"raw", "blank", "held"}]
               /\ \A c \in Contexts \ {"m_client"} : ctx'[c] = ctx[c]
    <3>1. DOMAIN ctx = Contexts
      BY <2>2
    <3>2. \A c \in Contexts : ctx'[c] = IF c = "m_client" THEN left ELSE ctx[c]
      BY <2>5, <3>1
    <3>3. ctx' = [c \in Contexts |-> ctx'[c]]
      BY <2>5, <3>1
    <3> QED
      BY <2>2, <3>2, <3>3
  <2> QED
    BY <2>1, <2>3, <2>4, <2>5
<1>7. /\ TypeOK' /\ SetUpInv' /\ Needed' = Needed
      /\ \A c \in Needed : ctx'[c] = "held"
      /\ server # "Proxy" => ctx'["m_server"] = "held"
  BY <1>1, <1>3, <1>4, <1>5, <1>6, OnlySockets
<1>8. "m_client" \in Contexts /\ ctx \in [Contexts -> {"raw", "blank", "held"}]
  BY DEF Contexts, Own, IInv, TypeOK
<1>9. ServeInv' /\ SessionInv' /\ ClientInv'
  <2> USE <1>1, <1>2, <1>7, <1>8, Tables
      DEF ServeInv, SessionInv, ClientInv, HasClient, Phase
  <2>1. CASE Begin
    BY <2>1 DEF Begin, Returns, IInv
  <2>2. CASE Accept
    BY <2>2 DEF Accept, Returns, IInv
  <2>3. CASE SetClientId
    BY <2>3 DEF SetClientId, Returns, IInv
  <2>4. CASE Handshake
    BY <2>4 DEF Handshake, Returns, IInv
  <2>5. CASE Transfer
    BY <2>5 DEF Transfer, Returns, IInv
  <2>6. CASE ResetClient
    BY <2>6 DEF ResetClient, Returns, IInv
  <2>7. CASE Forgets
    BY <2>7 DEF Forgets, Returns, IInv
  <2> QED
    BY <2>1, <2>2, <2>3, <2>4, <2>5, <2>6, <2>7
<1> QED
  BY <1>7, <1>9 DEF IInv

(* Every step keeps the inductive invariant.                               *)
LEMMA NextIInv == IInv /\ [Next]_vars => IInv'
<1> SUFFICES ASSUME IInv, [Next]_vars PROVE IInv'
  OBVIOUS
<1>1. CASE UNCHANGED vars
  <2>1. /\ UNCHANGED <<server, ratls, attestType, createKey, step, pc, result>>
        /\ UNCHANGED <<ctx, session, id, lost, Rows, Needed>>
    BY <1>1, SameRows DEF vars, setupVars
  <2>2. TypeOK'
    BY <2>1 DEF IInv, TypeOK
  <2>3. SetUpInv' /\ ServeInv' /\ SessionInv' /\ ClientInv'
    BY <2>1 DEF IInv, SetUpInv, ServeInv, SessionInv, ClientInv, Phase, HasClient
  <2> QED
    BY <2>2, <2>3 DEF IInv
<1>2. CASE \/ TLSServerInit \/ AttestatorInit \/ GetAttestType \/ AttestatorType
           \/ GetAttestLib \/ LoadAttestLibrary \/ SetUpRow \/ SetUpDone
           \/ Refused
  BY <1>2, SetUpStep
<1>3. CASE \/ Begin \/ Accept \/ SetClientId \/ Handshake \/ Transfer
           \/ ResetClient \/ Forgets
  BY <1>3, CallStep
<1>4. CASE Destroyed
  <2>1. /\ ctx' \in [Contexts -> {"raw", "blank", "held"}] /\ pc' = "over"
        /\ UNCHANGED <<server, ratls, attestType, createKey, step>>
        /\ UNCHANGED <<result, session, id, lost>>
    BY <1>4 DEF Destroyed, setupVars, IInv, TypeOK
  <2>2. TypeOK'
    BY <2>1 DEF IInv, TypeOK
  <2> QED
    BY <2>1, <2>2 DEF IInv, SetUpInv, ServeInv, SessionInv, ClientInv, Phase
<1> QED
  BY <1>1, <1>2, <1>3, <1>4 DEF Next, Over

(* The inductive invariant holds in every reachable state.                 *)
THEOREM Invariance == Spec => []IInv
<1> QED
  BY InitIInv, NextIInv, PTL DEF Spec

(* Every variable of a server object keeps its type.                       *)
THEOREM TypeCorrect == Spec => []TypeOK
<1>1. IInv => TypeOK
  BY DEF IInv
<1> QED
  BY <1>1, Invariance, PTL

(* No statement of the set-up works on what an earlier one failed to make  *)
(* (TLSServer.cpp:146-287, RATLS.cpp:16-68, Attestator.cpp:47-278).        *)
THEOREM InOrder == Spec => []SetUpInOrder
<1>1. ASSUME IInv PROVE SetUpInOrder
  <2> SUFFICES ASSUME pc = "rows", step <= Len(Rows)
               PROVE  /\ \A c \in Reads(Rows[step].label) : ctx[c] = "held"
                      /\ Rows[step].label = "create" /\ server # "Attestator" =>
                           createKey = "found"
    BY DEF SetUpInOrder
  <2>1. step \in 1..Len(Rows)
    BY <1>1, RowsCount DEF IInv, TypeOK
  <2>2. ASSUME NEW c \in Reads(Rows[step].label) PROVE ctx[c] = "held"
    <3>1. Given(c) \/ \E j \in 1..(step - 1) : c \in Rows[j].fills
      BY <2>1, RowsInOrder DEF RowsFit
    <3> QED
      BY <1>1, <3>1 DEF IInv, SetUpInv, Given
  <2>3. Rows[step].label = "create" => ratls
    BY <2>1, RowsInOrder DEF RowsFit
  <2> QED
    BY <1>1, <2>2, <2>3 DEF IInv, SetUpInv
<1> QED
  BY <1>1, Invariance, PTL

(* A session is used only while all that m_ssl points to is there          *)
(* (TLSServer.cpp:39-88, Attestator.cpp:299-404).                          *)
THEOREM Whole == Spec => []ServesWhole
<1>1. ASSUME IInv PROVE ServesWhole
  <2> SUFFICES ASSUME pc \in {"handshake", "read", "write", "notify"}
               PROVE  /\ \A c \in Needed \cup {"m_client"} : ctx[c] = "held"
                      /\ server = "Proxy" => id
    BY DEF ServesWhole
  <2> QED
    BY <1>1 DEF IInv, ServeInv, HasClient, Phase
<1> QED
  BY <1>1, Invariance, PTL

(* A handshake starts on a session that was reset, or on RequestListener's *)
(* that is over (TLSServer.cpp:39-42, 71-72).                              *)
THEOREM Fresh == Spec => []HandshakeFresh
<1>1. IInv => HandshakeFresh
  BY DEF IInv, SessionInv, HandshakeFresh
<1> QED
  BY <1>1, Invariance, PTL

-----------------------------------------------------------------------------
(* Nothing is bound and nobody is served at the start.                     *)
LEMMA PortStarts == Init => Port!PortInit
<1> SUFFICES ASSUME Init PROVE Port!PortInit
  OBVIOUS
<1>1. pc = "init" /\ lost = 0 /\ ctx["m_client"] = "raw"
  BY DEF Init, Contexts, Own
<1> QED
  BY <1>1 DEF Port!PortInit, Phase, PortBound, HasClient, Careful

(* A step of the set-up is the whole set-up as its owner sees it, a lost   *)
(* file, or nothing.                                                       *)
LEMMA PortSetsUp ==
  ASSUME IInv, IInv',
         \/ TLSServerInit \/ AttestatorInit \/ GetAttestType \/ AttestatorType
         \/ GetAttestLib \/ LoadAttestLibrary \/ SetUpRow \/ SetUpDone \/ Refused
  PROVE  [Port!PortNext]_(Port!portVars)
<1>1. Phase = "setting up" /\ PortBound = FALSE /\ HasClient = FALSE
  <2>1. Phase = "setting up"
    BY DEF TLSServerInit, AttestatorInit, GetAttestType, AttestatorType,
       GetAttestLib, LoadAttestLibrary, SetUpRow, SetUpDone, Refused, Phase
  <2> QED
    BY <2>1 DEF IInv, SetUpInv, PortBound, HasClient
<1>2. server' = server /\ Careful' = Careful
  BY DEF TLSServerInit, AttestatorInit, GetAttestType, AttestatorType,
     GetAttestLib, LoadAttestLibrary, SetUpRow, SetUpDone, Refused, SetUpEnds,
     setupVars, Careful
<1>3. CASE \/ TLSServerInit \/ AttestatorInit \/ GetAttestType \/ GetAttestLib
           \/ LoadAttestLibrary \/ SetUpRow
  <2>1. pc' \in {"type", "lib", "rows", "refused"} /\ lost' = lost
    BY <1>3 DEF TLSServerInit, AttestatorInit, GetAttestType, GetAttestLib,
       LoadAttestLibrary, SetUpRow, SetUpEnds
  <2>2. Phase' = "setting up" /\ PortBound' = FALSE /\ HasClient' = FALSE
    <3>1. Phase' = "setting up"
      BY <2>1 DEF Phase
    <3> QED
      BY <3>1 DEF IInv, SetUpInv, PortBound, HasClient
  <2> QED
    BY <1>1, <1>2, <2>1, <2>2 DEF Port!portVars
<1>4. CASE AttestatorType
  <2>1. pc' \in {"lib", "refused"} /\ server = "Attestator" /\ Careful = FALSE
    BY <1>4 DEF AttestatorType, SetUpEnds, Careful
  <2>2. Phase' = "setting up" /\ PortBound' = FALSE /\ HasClient' = FALSE
    <3>1. Phase' = "setting up"
      BY <2>1 DEF Phase
    <3> QED
      BY <3>1 DEF IInv, SetUpInv, PortBound, HasClient
  <2>3. lost' = lost \/ (lost' = lost + 1 /\ result' = "failed")
    BY <1>4 DEF AttestatorType, SetUpEnds
  <2>4. CASE lost' = lost
    BY <1>1, <1>2, <2>2, <2>4 DEF Port!portVars
  <2>5. CASE lost' = lost + 1 /\ result' = "failed"
    <3>1. Port!Mislay
      BY <1>1, <1>2, <2>1, <2>2, <2>5 DEF Port!Mislay, Port!Leak
    <3> QED
      BY <3>1 DEF Port!PortNext
  <2> QED
    BY <2>3, <2>4, <2>5
<1>5. CASE SetUpDone \/ Refused
  <2>1. lost' = lost /\ HasClient' = FALSE
    <3>1. "m_client" \in Contexts
      BY DEF Contexts, Own
    <3> QED
      BY <1>1, <1>5, <3>1 DEF SetUpDone, Refused, HasClient
  <2>2. \/ Phase' = "serving" /\ PortBound'
        \/ Phase' = "over" /\ PortBound' \in BOOLEAN
    <3>1. CASE SetUpDone
      <4>1. pc' \in {"idle", "accept"}
        BY <3>1 DEF SetUpDone, First
      <4>2. Phase' = "serving"
        BY <4>1 DEF Phase
      <4> QED
        BY <3>1, <4>2, AllSetUp DEF PortBound
    <3>2. CASE Refused
      BY <3>2 DEF Refused, Phase, PortBound
    <3> QED
      BY <1>5, <3>1, <3>2
  <2>3. Port!SetListener
    BY <1>1, <1>2, <2>1, <2>2 DEF Port!SetListener
  <2> QED
    BY <2>3 DEF Port!PortNext
<1> QED
  BY <1>3, <1>4, <1>5

(* A call after which the port is not what it was has failed, and lost it. *)
LEMMA PortLost ==
  ASSUME IInv, PortBound' # PortBound,
         \/ Begin \/ Accept \/ SetClientId \/ Handshake \/ Transfer
         \/ ResetClient \/ Forgets
  PROVE  Port!PortNext
<1>1. Phase # "setting up" /\ Phase' # "setting up"
  <2>1. PICK call, how : Returns(call, how)
    BY DEF Begin, Accept, SetClientId, Handshake, Transfer, ResetClient, Forgets
  <2>2. pc' \in CallNames \cup {"over"}
    BY <2>1, Tables DEF IInv, TypeOK
  <2>3. pc \notin {"init", "type", "lib", "rows", "refused"}
    BY DEF Begin, Accept, SetClientId, Handshake, Transfer, ResetClient,
           Forgets, Returns
  <2> QED
    BY <2>2, <2>3 DEF Phase, CallNames
<1>2. /\ server = "Proxy" /\ ctx["m_server"] = "held"
      /\ Returns("accept", "failed") /\ lost' = lost + Held
      /\ ctx' = [ctx EXCEPT !["m_client"] = "held", !["m_server"] = "blank"]
  BY <1>1 DEF IInv, TypeOK, Begin, Accept, SetClientId, Handshake, Transfer,
     ResetClient, Forgets, Contexts, Own, PortBound
<1>3. ctx'["m_client"] = "held" /\ ctx'["m_server"] = "blank"
  BY <1>2 DEF IInv, TypeOK, Contexts, Own
<1>4. /\ pc = "accept" /\ pc' # "over" /\ result' = "failed" /\ server' = server
      /\ pc' \in CallNames \cup {"over"}
  BY <1>2, Follows, Tables DEF IInv, TypeOK
<1>5. ~HasClient /\ lost' = lost
  <2>1. ~HasClient /\ lost \in Nat
    BY <1>2, <1>4 DEF IInv, ClientInv, TypeOK
  <2> QED
    BY <1>2, <2>1 DEF HasClient, Held
<1>6. Phase = "serving" /\ Phase' = "serving"
  BY <1>4 DEF Phase, CallNames
<1>7. PortBound /\ ~PortBound' /\ HasClient' /\ Careful' = Careful
  BY <1>2, <1>3, <1>4, <1>6 DEF PortBound, HasClient, Careful
<1> QED
  BY <1>4, <1>5, <1>6, <1>7 DEF Port!PortNext, Port!LosePort

(* A call of the owner takes a client, lets it go, forgets it, ends, or    *)
(* cannot be seen.                                                         *)
LEMMA PortServes ==
  ASSUME IInv, IInv', PortBound' = PortBound,
         \/ Begin \/ Accept \/ SetClientId \/ Handshake \/ Transfer
         \/ ResetClient \/ Forgets
  PROVE  [Port!PortNext]_(Port!portVars)
<1>1. PICK call, how : Returns(call, how)
  BY DEF Begin, Accept, SetClientId, Handshake, Transfer, ResetClient, Forgets
<1>2. /\ server' = server /\ Careful' = Careful /\ pc = call /\ result' = how
      /\ server \in ServerNames /\ pc' \in CallNames \cup {"over"}
  BY <1>1, Follows, Tables DEF IInv, TypeOK, Careful
<1>3. Phase = "serving" /\ Phase' = IF pc' = "over" THEN "over" ELSE "serving"
  <2>1. pc \notin {"init", "type", "lib", "rows", "refused", "over"}
    BY DEF Begin, Accept, SetClientId, Handshake, Transfer, ResetClient,
           Forgets, Returns
  <2> QED
    BY <1>2, <2>1 DEF Phase, CallNames
<1>4. /\ PortBound' = PortBound /\ PortBound \in BOOLEAN
      /\ server # "Proxy" => PortBound = TRUE
      /\ Accept /\ result' = "ok" => PortBound = TRUE
  <2>1. server # "Proxy" => ctx["m_server"] = "held"
    BY <1>3 DEF IInv, ServeInv
  <2>2. Accept /\ result' = "ok" => ctx["m_server"] = "held"
    BY DEF Accept, Returns
  <2> QED
    BY <1>3, <2>1, <2>2 DEF PortBound
<1>5. "m_client" \in Contexts /\ ctx \in [Contexts -> {"raw", "blank", "held"}]
  BY DEF Contexts, Own, IInv, TypeOK
<1>6. CASE lost' = lost /\ HasClient' = HasClient
  <2>1. CASE pc' = "over"
    BY <1>2, <1>3, <1>4, <1>6, <2>1 DEF Port!PortNext, Port!End
  <2>2. CASE pc' # "over"
    BY <1>2, <1>3, <1>4, <1>6, <2>2 DEF Port!portVars
  <2> QED
    BY <2>1, <2>2
<1>7. CASE Begin \/ ResetClient
  <2>1. HasClient' = FALSE /\ lost' = lost /\ pc' # "over"
    BY <1>1, <1>2, <1>5, <1>7, Tables DEF Begin, ResetClient, HasClient, Returns
  <2>2. HasClient \in BOOLEAN
    BY DEF HasClient
  <2>3. CASE HasClient = TRUE
    BY <1>2, <1>3, <1>4, <2>1, <2>3 DEF Port!PortNext, Port!Release
  <2> QED
    BY <1>6, <2>1, <2>2, <2>3
<1>8. CASE SetClientId \/ Handshake \/ Transfer
  BY <1>6, <1>8 DEF SetClientId, Handshake, Transfer, HasClient
<1>9. CASE Accept
  <2>1. pc = "accept" /\ lost' = lost + Held /\ lost \in Nat
    BY <1>9 DEF Accept, Returns, IInv, TypeOK
  <2>2. CASE HasClient
    <3>1. /\ Held = 1 /\ server = "RequestListener" /\ result = "failed"
          /\ Careful = FALSE
      BY <2>1, <2>2 DEF IInv, ClientInv, Held, HasClient, Careful
    <3>2. \/ pc' # "over" /\ HasClient' \in BOOLEAN
          \/ pc' = "over" /\ HasClient' = FALSE
      <4>1. pc' = "over" => how = "failed"
        BY <1>1, <1>2, Tables
      <4> QED
        BY <1>2, <1>5, <1>9, <3>1, <4>1 DEF Accept, Returns, HasClient
    <3>3. Port!Forget
      BY <1>2, <1>3, <1>4, <2>1, <2>2, <3>1, <3>2 DEF Port!Forget, Port!Leak
    <3> QED
      BY <3>3 DEF Port!PortNext
  <2>3. CASE ~HasClient
    <3>1. lost' = lost
      BY <2>1, <2>3 DEF Held, HasClient
    <3>2. CASE Returns("accept", "ok")
      <4>1. HasClient' = TRUE /\ pc' # "over" /\ PortBound = TRUE
        <5>1. result' = "ok"
          BY <3>2 DEF Returns
        <5>2. ctx'["m_client"] = "held"
          BY <1>5, <1>9, <5>1 DEF Accept, Returns
        <5> QED
          BY <1>1, <1>2, <1>4, <1>9, <5>1, <5>2, Tables DEF HasClient
      <4> QED
        BY <1>2, <1>3, <1>4, <2>3, <3>1, <4>1 DEF Port!PortNext, Port!Take
    <3>3. CASE Returns("accept", "failed")
      <4>1. ctx'["m_client"] = "blank"
        <5>1. ctx'["m_server"] = ctx["m_server"]
          BY <1>3, <1>4, <1>9 DEF PortBound, IInv, TypeOK, Accept, Contexts, Own
        <5> QED
          BY <1>5, <1>9, <3>3, <5>1 DEF Accept, Returns, Contexts, Own
      <4> QED
        BY <1>6, <2>3, <3>1, <4>1 DEF HasClient
    <3> QED
      BY <1>9, <3>2, <3>3 DEF Accept
  <2> QED
    BY <2>2, <2>3
<1>10. CASE Forgets
  <2>1. /\ pc = "forget" /\ lost' = lost + Held /\ lost \in Nat
        /\ HasClient' = FALSE /\ pc' # "over"
    BY <1>1, <1>2, <1>5, <1>10, Tables DEF Forgets, HasClient, IInv, TypeOK
  <2>2. server = "Attestator" /\ Careful = FALSE
    BY <2>1 DEF IInv, ClientInv, Careful
  <2>3. CASE HasClient
    <3>1. Held = 1 /\ result = "failed"
      BY <2>1, <2>3 DEF IInv, ClientInv, Held, HasClient
    <3>2. Port!Forget
      BY <1>2, <1>3, <1>4, <2>1, <2>2, <2>3, <3>1 DEF Port!Forget, Port!Leak
    <3> QED
      BY <3>2 DEF Port!PortNext
  <2>4. CASE ~HasClient
    BY <1>6, <2>1, <2>4 DEF Held, HasClient
  <2> QED
    BY <2>3, <2>4
<1> QED
  BY <1>7, <1>8, <1>9, <1>10

(* Every step is a step of the port, or cannot be seen.                    *)
LEMMA PortStep ==
  IInv /\ IInv' /\ [Next]_vars => [Port!PortNext]_(Port!portVars)
<1> SUFFICES ASSUME IInv, IInv', [Next]_vars
             PROVE  [Port!PortNext]_(Port!portVars)
  OBVIOUS
<1>1. CASE UNCHANGED vars
  BY <1>1 DEF vars, setupVars, Port!portVars, Phase, PortBound, HasClient,
              Careful
<1>2. CASE \/ TLSServerInit \/ AttestatorInit \/ GetAttestType \/ AttestatorType
           \/ GetAttestLib \/ LoadAttestLibrary \/ SetUpRow \/ SetUpDone
           \/ Refused
  BY <1>2, PortSetsUp
<1>3. CASE \/ Begin \/ Accept \/ SetClientId \/ Handshake \/ Transfer
           \/ ResetClient \/ Forgets
  BY <1>3, PortServes, PortLost
<1>4. CASE Destroyed
  <2>1. /\ Phase = "serving" /\ Phase' = "over"
        /\ PortBound' \in BOOLEAN /\ (PortBound' => PortBound)
    BY <1>4 DEF Destroyed, Phase, PortBound, IInv, TypeOK, Contexts, Own
  <2>2. HasClient = FALSE /\ HasClient' = FALSE
    BY <1>4 DEF Destroyed, IInv, TypeOK, ClientInv, HasClient, Contexts, Own
  <2>3. lost' = lost /\ Careful' = Careful
    BY <1>4 DEF Destroyed, setupVars, Careful
  <2> QED
    BY <2>1, <2>2, <2>3 DEF Port!PortNext, Port!End
<1> QED
  BY <1>1, <1>2, <1>3, <1>4 DEF Next, Over

(* A server object is the port its owner takes it for                      *)
(* (TLSServer.cpp:39-88, 146-217, Attestator.cpp:139-143, 310-402).        *)
THEOREM Refinement == Spec => ImplementsPort
<1> QED
  BY PortStarts, PortStep, Invariance, PTL DEF Spec, ImplementsPort, Port!PortSpec
=============================================================================
