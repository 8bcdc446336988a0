# SGXess_Controll in TLA+

This directory is a verification development of the SGXess_Controll programs: TLA+ modules that
model the daemons as their C++ code runs, TLC configurations that model-check them on small
instances, and TLAPS proofs of what matters most for every instance. Paths below are relative to
the repository (`src/` there is left out: `Controller/src/...`).

## 1. The system

Five programs. A *client* wants to reach a workload behind a *Proxy* (a sidecar). The Proxy notes
its address and asks the *Controller* over TLS whether it may come in. What the Controller answers
should follow *policies*: an *Admin* sends a policy file to the *Deployer*, which sends it over TLS
to the Controller.

```
 Admin --TCP 30005--> Deployer --TLS 30010--> Controller <--TLS 30011-- Proxy <--TCP 30020-- Client
                      PolicyListener          PolicyListener  RequestListener   ProxyListener
                      PolicyManager           PolicyManager (mapPolicy)         ProxyManager
                      PolicyDeployer                                            TLSClient
```

### Inventory

| Component | State it keeps | Operations | Interaction |
|---|---|---|---|
| Controller `RequestListener` (`Controller/src/network/requestlistener`) | one `TLSServer`: the listening socket, `m_client`, `m_ssl` | `run`: set up, accept; then per request receive, `validateRequest`, reply | own thread; proxies on 30011; reads the manager's table without its mutex |
| Controller `PolicyListener` (`.../policylistener`) | one `TLSServer` | `run`: set up; per deployer accept, receive once, reset, `insertPolicy` | own thread; deployers on 30010; inserts in the manager's list |
| Controller `PolicyManager` (`.../policy`) | `m_updateList` with its mutex, `mapPolicy` | `insertPolicy`, `popPolicy`, `updatePolicy`, `validateRequest`, `managePolicy` | main thread; called by both listeners |
| Controller `TLSServer` (`.../network/tls`) | descriptors, handshake state | `setListener`, `acceptClient`, `recvMsg`, `sendMsg`, `resetClient`, `terminate` | mbedtls and the kernel; the two objects share the descriptors of the process |
| Controller `RATLS`, `Attestator`, `Listener` | the attestation library, a key and certificate made with it; a server of its own | find the attestation type, load the library, make the certificate; `init`, `getClientMsg` | `RATLS` is part of `setListener` when the build has SGX; no thread makes an `Attestator` |
| Proxy `ProxyListener` (`Proxy/src`) | listening socket, client's address | accept, note the IP, `insertClient`, close | own thread |
| Proxy `ProxyManager` | `m_clientList` with its mutex, `m_tlsClient` | `insertClient`, `popClient`, `setTLSClient`, `manageClient` | main thread; asks the Controller |
| Proxy `TLSClient` | one TLS session | `connect`, `sendMsg`, `recvMsg`, `terminate` | Controller 30011 |
| Proxy `TLSServer`, `Validator` | a DTLS server with cookies; one `TLSClient` for each request | `setListener`, `acceptClient`, `resetClient`; `validateRequest` | compiled, and only used in a comment of `main` |
| Deployer `PolicyListener`, `PolicyManager` (`Deployer/src`) | listening socket; `m_policyList` with its mutex | accept, receive a framed message, `insertPolicy`; `popPolicy`, `deployPolicy` | listener thread and main thread |
| Deployer `PolicyDeployer`, `TLSClient` | one TLS session per policy | connect, send, terminate | Controller 30010 |
| `SocketUtil`, Admin | a socket | send a length and a string; receive loop | Admin to Deployer |
| Client | a socket | connect, one test message, leave | the Proxy only looks at its address |
| `Policy`, `PolicyRules`, `PolicySelector` | name, namespace, action | `setPolicy` | Controller and Deployer; the calls that would use it are commented out |

### What is hard here, and what makes each part correct

*Two threads and one list.* The same code exists three times: a listener pushes strings on a
`std::list`, the manager's loop polls it. Correct: one thread at a time in the list; every string
handled once, in order; every string gets out although the loop lets go of the mutex and sleeps.

*One `m_ssl`, many connections.* A `TLSServer` has a single session object which is only made fresh
by `resetClient`. `PolicyListener` calls it on every path; in `RequestListener` the call is commented
out. Correct: a request or policy is only taken while the keys and the descriptor belong to the same
peer; replies go to the peer that asked, once per request, in order; descriptors do not leak.

*Timeouts.* A read of the Controller gives up after 10 s and reports success with an empty string.
Correct: nothing is answered twice, nothing stale is inserted, nobody waits for ever.

*Failures half-way.* Failed handshakes, failed accepts, resets and lost sessions; `mbedtls_exit` in the
middle of the client's `terminate`; ignored results of `recvMsg`. Correct: no client is skipped, doubled or
given another client's answer; a listener ends only when it has to.

*A byte stream cut in chunks.* The Admin announces a length and sends the text; the Deployer's receive
loop counts down over chunks of any size into a buffer of 256 bytes that it appends as a C string.
Correct: nothing of another Admin's text gets in, the count stays in step with the stream, whoever sent
everything is let go.

*Objects set up in steps.* `connect` fills six mbedtls objects that point to one another and may fail at
each step; its constructor initialises none. Correct: whatever the path, nothing is used raw, nothing
is overwritten while it holds something, a failure leaves nothing behind. The same for `Policy`, which
yaml-cpp's exceptions may leave half set: what passes for valid must be of one document.

A server object is set up in up to nine such steps, in two orders, and a failure leaves nothing usable:
correct is that nobody is ever served with a part of it, and that every handshake starts on a session that was reset.

*Two programs that count on each other.* The Proxy waits without a timeout for a Controller that waits 10 s for
the Proxy; either may break off at any statement; another proxy may hold the one session there is. Correct: an
answer is the answer to the client it is printed for, and nobody waits but in the one place where the
Controller does not take a connection up.

*Shared table.* `validateRequest` reads `mapPolicy` without the mutex while the main thread fills it.
Correct: a lookup that goes wrong may deny, and never lets anybody in.

`PROJECT.json` lists every hazard at its line, with the properties that are about it.

## 2. Modules

| Module | Models |
|---|---|
| `FifoHandoff` | abstract: a FIFO hand-off of strings between threads; blank strings are dropped |
| `WorkList` | the list, its mutex, the inserting threads and the manager's loop, statement by statement |
| `WorkListProofs` | its invariants and its refinement of `FifoHandoff`, proved |
| `TLSServer` | the Controller's two `TLSServer` objects with their peers: backlog, descriptors, sessions, data |
| `Controller` | `EXTENDS TLSServer`: the threads of `RequestListener`, `PolicyListener` and `PolicyManager` |
| `ControllerProofs` | the Controller's inductive invariant and what follows from it; which reply belongs to which request and which policy to which deployer, proved |
| `SocketFraming` | an Admin's message from `SocketUtil::send` to the Deployer's `SocketUtil::recv`, chunk by chunk |
| `Deployer` | `EXTENDS SocketFraming`: `PolicyListener`, `PolicyManager`, `PolicyDeployer` and the connections they hold |
| `DeployerProofs` | the Deployer's types, what can end its listener, the order of the policies, and whose text is saved, proved |
| `Proxy` | `ProxyListener`, `ProxyManager` and its TLS session; of the Controller only that it answers or goes away |
| `ProxyProofs` | the Proxy's inductive invariant; whose answers are printed, and in which order, proved |
| `AccessControl` | `EXTENDS Controller`: clients, the Proxy and the Controller together, over the Controller's own sessions |
| `AccessProofs` | the inductive invariant of the two programs together; nobody is let in, and the two implement `Proxy`, proved |
| `ServerPort` | abstract: a port that is set up whole or refused, with one client at a time, closed or lost before the next; a failed accept may cost the port |
| `ServerLife` | every server object (`TLSServer` of Controller and Proxy, `RATLS`, `Attestator`) statement by statement, and the calls of its owner |
| `ServerLifeProofs` | what is set up at which row, whose session it is, and the refinement of `ServerPort`, proved |
| `ClientLink` | abstract: a connection that is made whole or not at all, and closed or dropped before the next |
| `TLSClientLife` | the `TLSClient` of Proxy, Deployer and `Validator`, statement by statement: the six objects of mbedtls, `connect`, `destroy`, `terminate`, and the calls of its owner |
| `TLSClientLifeProofs` | which objects are held at which statement, and the refinement of `ClientLink`, proved |
| `PolicyParse` | a `Policy` object and the documents it is set from, with what yaml-cpp raises |
| `PolicyParseProofs` | what of its document a call has found said at each check, proved |
| `MCWorkList`, `MCController`, `MCDeployer`, `MCProxy`, `MCAccessControl`, `MCServerLife`, `MCTLSClientLife`, `MCPolicyParse` | the small instances TLC checks |

How they fit together:

- `Controller`, `Deployer` and `Proxy` take a push or a pop on their list as one step. `WorkList` is where the
  statements between `lock` and `unlock` are interleaved, and its refinement of `FifoHandoff` is what
  justifies that step.
- `Deployer` and `Proxy` take `connect` and `terminate` as one step each. `TLSClientLife` is where they run
  statement by statement, and its refinement of `ClientLink` is what justifies that: a `connect` that
  fails leaves nothing behind, and a descriptor is lost exactly where `Deployer` counts one in `leaked`.
- `TLSServer` takes the set-up, an accept and a reset as one step each. `ServerLife` is where they run statement by
  statement, and its refinement of `ServerPort` is what justifies that: a refused set-up never serves, there is
  one client at a time, and its descriptor is only lost where something failed, never by an owner that resets. That a failed
  accept loses the port happens over UDP only, so never in the Controller.
- `Proxy` takes the Controller as a peer that answers each request once, in order, or goes away.
  `AccessControl` puts the two together: the Controller is that of `Controller`, unchanged, the Proxy's main thread works on the
  Controller's own sessions, wires and replies, and `ImplementsProxy` says that what comes of it is a behaviour of
  `Proxy`. `Deployer` takes the Controller as a peer that owes nothing.
- `PolicyParse` stands alone, as the code does.

### Correspondence with the code

`map` in `PROJECT.json` names the lines of every definition. In general a variable has the name of the
member or local it stands for (`m_mutex`, `m_client`, `m_ssl`, `mapPolicy`, `m_updateList`, `vRet`,
`clientIP`, `dataLen`, `data`, `clientSock`, `session` for `m_tlsClient`), `pc`, `lpc` or `mpc` says where a thread is, and variables described as
*history* (`handled`, `sent`, `answered`, `inserted`, `popped`, `accepted`, `printed`, `deployed`, `lost`) only record
what happened, for the properties.

Strings are opaque values. A *chunk* is what one `mbedtls_ssl_read` of at most 1023 bytes leaves in a
`std::string`: `msg.append(buf)` stops at the first NUL, which takes off the padding with which the Proxy
fills a request to its buffer size. A policy that needs several reads is a sequence of chunks.

mbedtls and the kernel are outside the repository and are modelled from how the code uses them:

- a handshake on a session that is over one is a no-op, and the keys stay those of the old peer until
  `mbedtls_ssl_session_reset`;
- `mbedtls_net_accept` overwrites the descriptor it is given and does not close the old one;
- over UDP, as in the Proxy's own `TLSServer`, it makes the listening socket the client's and binds another; when that fails
  the client is held and the port is gone;
- `accept` reserves a descriptor before it waits, and fails (at once, only) when none is left. The
  other reasons for `accept` to fail (an interrupted call, a connection aborted in the backlog) are
  left out, and `EndsOnlyStarved` leans on that;
- a read on a session that is over the handshake with an earlier peer times out while the new one sends nothing
  (`remote` is `"hello"`), which is success with an empty string, and fails when its ClientHello comes;
- `mbedtls_exit` is `exit` unless the platform layer is configured otherwise: both are modelled
  (`AfterExit`, a set of outcomes);
- writing to a peer that is gone succeeds or fails; what was written is lost;
- the unlocked lookup of `mapPolicy` while an insert runs is a data race. Its outcome is taken to be the
  entry or a miss; that the build could also crash there is not modelled.

- `mbedtls_net_connect` closes a socket that did not connect. Another statement of `connect` that fails
  may leave its objects with or without something to free;
- `mbedtls_ssl_write` takes at most one record (`MaxRecord`).

Of `SocketUtil`: the length is the first thing on its connection and smaller than any TCP segment, so a
read never splits it; a blocking `::send` takes everything; a read takes any number of the bytes that
have arrived, up to what is asked for. When a read fills the buffer there is no NUL in it, and `append`
goes on behind it: what it finds there is nothing or `Junk` (undefined behaviour; that it could also crash
is not modelled). A reset may or may not take bytes with it that have not been read.

In `AccessControl` the session of `Proxy` is computed: `conn` is the connection the `TLSClient` has, it is *up* while the
Controller's end has keys for it and *down* once that is gone; what is *asked* is what was sent and not answered, the
replies are what was answered and not read (`nread`). A session breaks for both ends in one step. The replies on
their way, and what the Controller has not read, may or may not be lost with it. The thread of the Controller's
`PolicyListener` is left out there: all it shares with the others is descriptors, and `MaxFds` is what it leaves.

In `ServerLife` a set-up is a table too: a row for each statement that can fail, with the objects it fills. The two
orders of `setListener` (certificate files, or RA-TLS) are two such tables.

In `TLSClientLife` the calls of the owner are a table: the call, its result, the next call. `set` and `setAgain`
are the two uses of `connect` in `ProxyManager` (lines 34 and 51), `send` and `resend` of `sendMsg` (49, 56),
`hangUp`, `giveUp`, `setFailed` and `againFailed` those of `terminate` (50; 53 and 58; 74 in either case).

In `PolicyParse` a YAML node is a record of its type, text and entries, and the operators on it give what
yaml-cpp gives in `Controller/include/yaml-cpp/node`: the first entry that has a key, a zombie for a missing key of a `const` node, an undefined
node otherwise, an exception where it throws one. `PolicyRules::setFrom` returns false on every path, so rules
are never stored; what is left of them in the model is what reading them may raise. `*begin()` of something
empty is undefined behaviour: the process ends, or goes on as if nothing had been raised. `"empty"` stands for
an empty string, in a member of `Policy` as in the attestation type of `ServerLife`.

Some definitions follow a comment "Faulty variant". They are the code with a bug put in (a dropped
reset, a missing lock, a stale local), used to confirm that each property notices; no specification
contains them.

## 3. What TLC checks

| Run | Instance | Properties | What it shows |
|---|---|---|---|
| `worklist` | 2 inserting threads, 2 strings and the empty one, 3 inserts | `MutualExclusion`, `ImplementsHandoff`, `EverythingTaken` | no interleaving breaks the hand-off; the loop takes everything out |
| `controller` | 2 proxies with 2 requests each, 1 deployer with a short policy, 3 descriptors | `TypeOK`, `RepliesMatchRequests`, `SingleSession`, `DeniedByDefault`, `WorksOnLiveSession`, `SessionServed`, `EndsOnlyStarved`, `DeployerReleased`, `NextProxyTaken` | requests and replies stay paired across time-outs, crashes and reconnections, while both listeners compete for the descriptors; who waits behind a session is taken up once it is gone |
| `policies` | 2 deployers, 2 descriptors, policies of one and of two chunks | `NoPolicyLeak`, `InsertedOnce` | each deployer gets through once, nothing leaks, nothing stale is inserted |
| `proxy` | 3 clients from 2 addresses, `mbedtls_exit` may return | `TypeOK`, `ResponseIsClients`, `NothingSkipped` | the retry path neither skips nor mixes up clients |
| `access` | 2 clients; a Proxy with two connections, another with one; 2 descriptors | `NobodyLetIn`, `RetryInVain`, `ImplementsProxy`, `EveryClientAnswered` | what each program takes the other for is what it is; time-outs, resets and the other proxy never add up to an answer for the wrong client, or to a standstill outside `connect` |
| `server` | all four server objects, with SGX and without, 3 descriptors | `SetUpInOrder`, `ServesWhole`, `HandshakeFresh`, `ImplementsPort` | every way through the set-up and the calls of the owner |
| `deployer` | 2 Admins with texts of 1 and 3 bytes, a buffer of 2, 2 descriptors, `mbedtls_exit` may return | `TypeOK`, `SavedFromOneAdmin`, `NothingSkipped`, `DeployedInOrder`, `ListenerEndsOnlyStarved`, `SentIsLetGo`, `ListDrains` | chunks in any sizes, early ends and resets; deployments that fail half-way neither reorder nor repeat the others |
| `client` | all three owners, up to 3 policies or requests | `NoRawUse`, `NothingOverwritten`, `SessionWhole`, `NothingKept`, `ImplementsLink` | every way through `connect`, `terminate` and their callers |
| `policy_parse` | 56 documents: complete, with a fault in one place, or with a key twice | `AcceptedIsWhole`, `CompleteNotRefused`, `ActionUnderItsName` | calls that end half-way do not make a mixed policy pass for valid |

Each of the following runs checks one statement the comments of the code make and TLC finds a
counterexample of (the `findings` of `PROJECT.json` quote them):

| Run | Property | What happens |
|---|---|---|
| `reconnect` | `NoProxyRejected` | a proxy that connects after the first session is turned away: `m_ssl` is never reset |
| `overread` | `SavedAsSent` | a chunk that fills the buffer is saved with what lies behind the buffer |
| `early_close` | `EndedIsLetGo` | an Admin that ends early keeps the listener in its receive loop for ever |

The models also hold behaviour that a reader of the comments may not expect and that no run is
spent on: the connections `RequestListener` drops without closing use up the descriptors, and `PolicyListener` then
serves nobody (the exception `DeployerReleased` makes); `terminate` ends the Deployer after its first deployment, and the
policies that wait are lost (`ListDrains` excepts the end of the process); a session that is lost is never
made again while the Controller's process goes on (`RetryInVain`), so the Proxy ends, or waits in `connect` for ever; a
connection that `RequestListener` took up and that says nothing is read from every 10 s, and all others wait (the exception `NextProxyTaken` makes);
a handshake that fails before the first session ends the thread of `RequestListener`; of a policy
longer than one read the Controller inserts the first 1023 bytes, and the Deployer sends one record;
a policy popped by the Controller's manager changes nothing; `connect` returns true over a bad
certificate; a `Policy` constructed from a refused text has an uninitialised action.

### Bounds

Two inserting threads are more than the code has (one listener per list), so the result does not lean on
there being one. Three inserts let an insert happen before, inside and after every pop, with the empty
string in any place. Two proxy connections are the least at which a session can be taken over by the
wrong peer, and the code keeps no state about a third that it does not keep about the second; two
requests are the least at which an answer can be repeated or shifted. With `MaxFds` of 3 in `controller` two lost proxies and the
deployer use the descriptors up, and one lost proxy leaves enough for the next; so it is in `reconnect`. The silent connection
that `NextProxyTaken` excepts matters only with three proxies (one gone, one silent, one that waits); with two the property
holds without that exception. One demo entry and two client addresses give a table hit and a miss.
Three clients from two addresses let two clients wait while a third is asked about, and make an answer
given to the wrong client visible. A reconnecting peer is a second connection.
In `access` the Proxy has two connections, one for the session and one for the only attempt to make it again; after
that, `RetryInVain` shows, it never uses a third. The other proxy may connect before it, so that the Proxy waits in
the backlog, or after. Two clients, one of them in the demo table, make an answer that comes late or is lost and one that
belongs to the next client visible. Two descriptors are one session and one the Controller loses.
Three descriptors in `server` let one be lost before the client that is lost, or closed, next.
In the Deployer, texts of 1 and 3 bytes with a buffer of 2 are shorter than the buffer, as long as it, and longer,
so that a chunk may be short, full and the last; a record of 2 cuts the longest. Two descriptors are the listener's and one deployment's: the
first that leaks ends the listener. Three policies let a dropped `TLSClient` be followed by one that is
closed and one that fails. The documents of `MCPolicyParse` have at most one fault each, as the code looks at
one field after the other and stops at the first, or a key twice; `MCNodes` is everything they are made of; calls on one object are not bounded.

`CHECK_DEADLOCK` is on in every run: the manager's polling loops always have a step.

### Fairness

- every thread that can run does in the end (`WF` for each thread). A read of the Controller needs no
  peer: it ends after 10 s (`mbedtls_ssl_conf_read_timeout`), as does a handshake;
- `accept` only moves when there is a connection, so weak fairness of a thread promises nothing of it;
- `SF` for taking the mutex in `WorkList`: `std::mutex` is not fair, but both sides leave it for an
  accept or a sleep of a second between two uses;
- peers owe the Controller nothing, neither connecting, nor sending, nor leaving. A read that finds the ClientHello of a
  silent peer is therefore taken out of the fairness of the thread (`HelloRead`): a silent peer may stay so. Admins and the
  Controller owe the Deployer nothing;
- the Proxy's reads have no timeout, and need none: `EveryClientAnswered` holds with weak fairness of the threads of
  the two programs alone, the Proxy's ClientHello included, nothing being owed by clients, other proxies or the network. Its one exception, `KeptWaiting`,
  is the handshake in `connect`, which has no timeout either: nothing makes it fail (`ConnectBreaks` has no fairness) while
  the Controller leaves the connection in its backlog, serving another proxy or having ended its thread.

## 4. What is proved

TLAPS checks these for all values of the constants, under the `ASSUME` of the modules only (sets of
connections are finite and disjoint, the special values are no connections, the bounds are naturals; documents
are made of nodes of the parser, all the way down).

`WorkListProofs`:
- `Invariance`, `TypeCorrect`, `ListProtected`. The inductive invariant adds to the types: the mutex names
  exactly the thread between `lock` and `unlock` (`LockInv`), and from `front()` to `pop_front()` the head of the
  list is what was copied (`FrontInv`). Mutual exclusion alone is not inductive: it says nothing of a
  thread about to lock.
- `Refinement`: every step is `Put`, `Take` or invisible in `FifoHandoff`, by way of `HandoffStep`. `FrontInv` is what
  makes `pop_front` remove the string that is served.

`ControllerProofs`:
- `Invariance` of `IInv`, in the parts `TypeOK`, `ClientInv`, `SessionInv`, `DenyInv`, `LeakInv`. `ClientInv` ties each
  connection to the port it came in by and each `m_client` in use to an open descriptor; without it a
  reply could go to a deployer. `SessionInv` says who has been answered: only the peer of `m_ssl`.
- `OneSession` (`SingleSession`), `Denied` (`DeniedByDefault`), `NoLeak` (`NoPolicyLeak`), `LiveSessions` (`WorksOnLiveSession`) follow from
  it, `EndsStarved` (`EndsOnlyStarved`) is an action property proved from it.
- `RepliesPaired` (`RepliesMatchRequests`), from `MatchInv`: of each proxy the answers so far are to the requests so far, and at
  most one request is not answered, which is on the wire or in hand, never both. "Never both" is what a read
  that times out could break, and what the property itself does not say.
- `PolicyOnce` (`InsertedOnce`), from `OnceInv`: a deployer is in one place at a time (the backlog, `m_client`, the local
  string, the list), and until its text is taken the first thing on its wire is the first it sent. `BacklogInv` (nobody is
  twice in the backlog) closes the induction.

`DeployerProofs`:
- `Invariance`, `TypeCorrect`, `EndsStarved` (`ListenerEndsOnlyStarved`). The count of missing bytes stays a natural number
  because a read is never asked for more than is missing. `OpenInv` (the listener has at most one
  connection open, the one it receives from, and none while it enters `accept`) is what makes starvation the
  fault of leaked descriptors: without it the listener's own connections could fill the table.
- `NothingLost` (`NothingSkipped`) and `OrderKept` (`DeployedInOrder`), from `QueueInvariance` of `QInv`. `NothingSkipped` is nearly
  inductive by itself; `OrderInv` adds to `DeployedInOrder` that nothing written lies beyond what the manager is done with or,
  once `sendMsg` has returned, has in hand (`UpTo`): the policy written next is then a later one. `HandInv`, that the
  one in hand is not empty, is why no empty text is written.
- `FromOneAdmin` (`SavedFromOneAdmin`), from `FromInvariance` of `FromInv`. `PlaceInv`: a connection is at one place at a time, in the
  backlog, with the listener or saved, and saved once. `WireInv`: of a connection nothing was read of, what was sent
  is on the wire. `ReadInv` is the strengthening: in the receive loop, what is read (but for `Junk`) is the text but for its last
  `dataLen` bytes, and these are what is on the wire, or nothing is where they are not sent yet or will not come.
  The lemmas are about sequences: `Parts`, that a chunk moves the cut of the text, and `JunkAppended`, that what is read
  differs from the text by `Junk` only, before and after. `OnlyJunkAdded` says that without `SelectSeq`, an operator with an operator
  as parameter.

`ProxyProofs`:
- `TypeCorrect`, `OwnResponses` (`ResponseIsClients`), `InOrder` (`NothingSkipped`), from `IInv`. `PairInv` is the strengthening: only while an
  answer is awaited is anything on the session, and then it is the request of the client in hand or the reply to
  it. Without it an old reply could be the next one read.

`AccessProofs`:
- `AccessInvariance` of `AInv`, which has `IInv` and `MatchInv` of the Controller in it: every step of the composition is a step of
  `Controller` (`ControllerStep`), so both are taken over as they are. New are `KeyInv` (a connection of a proxy has keys only if
  `m_ssl` is over its handshake), `RetryInv` (the Proxy is past its first `connect` only if it got that session, and
  that session is never replaced: lemma `PinnedStep`) and `LinkInv` (unread and unanswered together are the client in hand, or nothing).
- `NobodyGetsIn` (`NobodyLetIn`): the reply read is the one to the request sent (`MatchInv`), and it denies (`DenyInv`).
- `NoSecondAttempt` (`RetryInVain`), from `RetryInv`.
- `RefinesProxy` (`ImplementsProxy`): `ShapeOfLink` reads off `AInv` what is on the session as `Proxy` sees it, before and after a
  step; every step is then the one of `Proxy` of the same name, a reply of `RequestReply` is `ControllerReplies`, a break is
  `ControllerGone`, the first half of `connect` and all other steps of the Controller cannot be seen.

`ServerLifeProofs`:
- `Invariance` of `IInv`. Of the tables all that is needed is `RowsFit`: each row reads only what is given or what the rows before it
  fill, and a whole table fills what serving needs; it is proved once for the four servers, with SGX and without
  (`RowsInOrder`). `SetUpInv` then says that at row `step` what is filled is what the rows before it fill, `ServeInv` that all of it is there while
  it serves, `SessionInv` that a session is fresh where a handshake is next (but for the one of `RequestListener`), `ClientInv` which
  calls may come upon a client that was not let go.
- `TypeCorrect`, `InOrder` (`SetUpInOrder`), `Whole` (`ServesWhole`, which excepts the entropy of the Attestator: it is a local of
  `seedRand` and gone while the random generator still points to it), `Fresh` (`HandshakeFresh`) follow.
- `Refinement` of `ServerPort`, from `PortSetsUp` and `PortServes`: the last row, or a refusal, is `SetListener`, an accept is `Take`, a reset
  `Release`, an accept or an end that forgets a client `Forget`, a failed accept over UDP `LosePort` (`PortLost`), a certificate file that stays open
  `Mislay`, all else cannot be seen.

`TLSClientLifeProofs`:
- `Invariance` of `IInv`: `ConnectInv` (the objects the statements so far have filled, and no others, are held),
  `DestroyInv` (those up to `freed` are blank, none is raw; that `destroy` gets to each is `DestroyReachesAll`), `TerminateInv` (it finds a whole session or a
  blank client, never a part of one) and `OwnerInv` (the same between calls). `NoRaw`, `NoOverwrite`, `WholeSession`,
  `KeepsNothing` follow; each is about one place and none is inductive.
- `Refinement` of `ClientLink`: a `connect` that returns true is `Open`, the first step of `destroy` in `terminate` is
  `Close`, the end of scope after a failed send is `Drop`, all else cannot be seen.

`PolicyParseProofs`:
- `Invariance` of `IInv`: `CallInv` says at each check of `setPolicy` what the document has been found to say so far, and that the
  Policy has it. `Whole` (`AcceptedIsWhole`) and `Accepted` (`CompleteNotRefused`) are parts of `IInv` and need it: a call that
  has come to its end knows only its last check. `UnderItsName` (`ActionUnderItsName`) is an action property from it.
- `PartField` ties the calls of yaml-cpp to what a document says: a field is read without an exception exactly when it says something.
- `FineRules`: what reading the rules raises is an exception or undefined behaviour, never a result of `setPolicy`, whatever they are.
  It rests on documents being made of nodes of the parser (`PolicyParseAssumption`).

Model-checked only: liveness (`EverythingTaken`, `SessionServed`, `DeployerReleased`, `NextProxyTaken`, `ListDrains`,
`EveryClientAnswered`, `SentIsLetGo`), which the prover cannot reach. Every invariant and every action property of a passing
run is a theorem as well.

## 5. What is not modelled, and why

- `Validator::validate` and `run`: `validate` hands a detached thread the address of its own parameter, which is gone when
  the thread reads it, so what the thread works on is undefined from its first statement. `validateRequest`, which
  it would call, is one of the owners in `TLSClientLife`.
- `recv` and `send` of the Proxy's `TLSServer`: callbacks of mbedtls that pass on what the socket gives.
- `terminate` of the servers, and the copies of `TLSClient` and `SocketUtil` in programs that do not use them: never called.
- What `ServerLife` leaves of a refused set-up is its objects: ~`TLSServer` frees none of them, and the port may stay
  bound (`Controller/src/network/tls/TLSServer.cpp:206-209`). The buffers of `RATLS` for key and certificate, never freed
  either, are not counted.
- The loops around `mbedtls_ssl_write` for `WANT_READ` and `WANT_WRITE`: the sockets block.
- In `AccessControl`, a connection that only one end takes for broken, and a Controller that ends and is started again while the Proxy
  runs. A new process has a new `m_ssl`, so the retry of `Proxy/src/ProxyManager.cpp:56` would get through there: `RetryInVain` and the
  part of `AInv` under it are about one process of the Controller.
- `PolicyRules::setTo`: no path reaches it.
- Logging and console output, except the Proxy's answers; wording and buffer layout.
- Keys, certificates and their content: a certificate is good or not.
- Out of memory, signals, and failures of thread creation.
- yaml-cpp and the library binaries: third-party. The headers of yaml-cpp, twice, are more than half of the repository's
  lines; modelled is the access to nodes that `Policy` uses, and what it throws.

## 6. Plan

Done, in this order: the work list with its abstract specification and proofs; the Controller (the
system's centre) with its proofs; the Proxy; the message framing and the Deployer with its proofs; the life of `TLSClient` with its refinement, proved; `PolicyParse`; the life of the servers with its refinement; Proxy and
Controller together, with the proofs of both and of the refinement; the proofs of the servers, of `PolicyParse` and of what the
Deployer saves.

Next: `PolicyDistribution`, Admin to Controller as a whole, an abstract channel that the Deployer's and the Controller's lists
implement. Its Controller half is `InsertedOnce`, its Deployer half `SavedFromOneAdmin` and `DeployedInOrder`.
