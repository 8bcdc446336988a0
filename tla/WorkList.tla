------------------------------ MODULE WorkList ------------------------------
(***************************************************************************)
(* The mutex-protected std::list<std::string> between a listener thread    *)
(* and the manager's loop.  The same code appears three times:             *)
(*   Controller PolicyManager  insertPolicy / popPolicy / managePolicy     *)
(*   Deployer   PolicyManager  insertPolicy / popPolicy / managePolicy     *)
(*   Proxy      ProxyManager   insertClient / popClient / manageClient     *)
(* Every statement between m_mutex.lock() and m_mutex.unlock() is a step   *)
(* of its own, so that all interleavings of the threads are explored.      *)
(***************************************************************************)
EXTENDS Naturals, Sequences

CONSTANTS Producers,    \* the threads that insert
          Manager,      \* the thread that runs the manager's loop
          Free,         \* value of the mutex when nobody holds it
          Items,        \* the strings that are inserted
          Blank,        \* the empty string
          MaxInserts    \* bound on the number of inserts of a behaviour

ASSUME WorkListAssumption ==
  /\ Manager \notin Producers
  /\ Free \notin Producers \cup {Manager}
  /\ Blank \in Items
  /\ MaxInserts \in Nat

VARIABLES m_mutex,    \* holder of the mutex, or Free
          list,       \* m_updateList, m_policyList or m_clientList
          pc,         \* where each thread is
          arg,        \* arg[p]: the argument of p's current insert
          got,        \* the manager's local string
          handled,    \* history: strings the loop body has been run for
          inserts     \* number of inserts begun, only there for the bound

vars == <<m_mutex, list, pc, arg, got, handled, inserts>>

Threads == Producers \cup {Manager}

ProducerPCs == {"listen", "lock", "push", "unlock"}
ManagerPCs == {"loop", "lock", "test", "popfront", "unlock", "check", "sleep"}

TypeOK ==
  /\ m_mutex \in Threads \cup {Free}
  /\ list \in Seq(Items)
  /\ pc \in [Threads -> ProducerPCs \cup ManagerPCs]
  /\ \A p \in Producers : pc[p] \in ProducerPCs
  /\ pc[Manager] \in ManagerPCs
  /\ arg \in [Producers -> Items]
  /\ got \in Items
  /\ handled \in Seq(Items)
  /\ inserts \in 0..MaxInserts

Init ==
  /\ m_mutex = Free
  /\ list = <<>>
  /\ pc = [t \in Threads |-> IF t = Manager THEN "loop" ELSE "listen"]
  /\ arg = [p \in Producers |-> Blank]
  /\ got = Blank
  /\ handled = <<>>
  /\ inserts = 0

Goto(t, to) == pc' = [pc EXCEPT ![t] = to]

Lock(t) == m_mutex = Free /\ m_mutex' = t

Unlock == m_mutex' = Free

-----------------------------------------------------------------------------
(* The listener's thread: insertPolicy / insertClient.                     *)

InsertCall(p, x) ==
  /\ pc[p] = "listen" /\ inserts < MaxInserts
  /\ arg' = [arg EXCEPT ![p] = x]
  /\ inserts' = inserts + 1
  /\ Goto(p, "lock")
  /\ UNCHANGED <<m_mutex, list, got, handled>>

(* Faulty variants: try_lock without looking at its result; push_front.    *)
InsertLockTry(p) ==
  /\ pc[p] = "lock" /\ Goto(p, "push")
  /\ UNCHANGED <<m_mutex, list, arg, got, handled, inserts>>

InsertLock(p) ==
  /\ pc[p] = "lock" /\ Lock(p) /\ Goto(p, "push")
  /\ UNCHANGED <<list, arg, got, handled, inserts>>

InsertPushFront(p) ==
  /\ pc[p] = "push"
  /\ list' = <<arg[p]>> \o list
  /\ Goto(p, "unlock")
  /\ UNCHANGED <<m_mutex, arg, got, handled, inserts>>

InsertPush(p) ==
  /\ pc[p] = "push"
  /\ list' = Append(list, arg[p])
  /\ Goto(p, "unlock")
  /\ UNCHANGED <<m_mutex, arg, got, handled, inserts>>

InsertUnlock(p) ==
  /\ pc[p] = "unlock" /\ Unlock /\ Goto(p, "listen")
  /\ UNCHANGED <<list, arg, got, handled, inserts>>

-----------------------------------------------------------------------------
(* The manager's thread: managePolicy / manageClient around popPolicy.     *)

PopCall ==
  /\ pc[Manager] = "loop"
  /\ got' = Blank
  /\ Goto(Manager, "lock")
  /\ UNCHANGED <<m_mutex, list, arg, handled, inserts>>

PopLock ==
  /\ pc[Manager] = "lock" /\ Lock(Manager) /\ Goto(Manager, "test")
  /\ UNCHANGED <<list, arg, got, handled, inserts>>

PopTest ==
  /\ pc[Manager] = "test"
  /\ IF list = <<>>
       THEN got' = got /\ Goto(Manager, "unlock")
       ELSE got' = Head(list) /\ Goto(Manager, "popfront")
  /\ UNCHANGED <<m_mutex, list, arg, handled, inserts>>

PopFront ==
  /\ pc[Manager] = "popfront"
  /\ list' = Tail(list)
  /\ Goto(Manager, "unlock")
  /\ UNCHANGED <<m_mutex, arg, got, handled, inserts>>

PopUnlock ==
  /\ pc[Manager] = "unlock" /\ Unlock /\ Goto(Manager, "check")
  /\ UNCHANGED <<list, arg, got, handled, inserts>>

(* policy.empty(): sleep(1) and try again; otherwise run the loop's body.  *)
LoopSleep ==
  /\ pc[Manager] = "check" /\ got = Blank
  /\ Goto(Manager, "sleep")
  /\ UNCHANGED <<m_mutex, list, arg, got, handled, inserts>>

(* Faulty variant: the string is tested again without another pop.         *)
LoopWakeNoPop ==
  /\ pc[Manager] = "sleep" /\ Goto(Manager, "check")
  /\ UNCHANGED <<m_mutex, list, arg, got, handled, inserts>>

(* sleep(1) is over.                                                       *)
LoopWake ==
  /\ pc[Manager] = "sleep" /\ Goto(Manager, "loop")
  /\ UNCHANGED <<m_mutex, list, arg, got, handled, inserts>>

LoopBody ==
  /\ pc[Manager] = "check" /\ got # Blank
  /\ handled' = Append(handled, got)
  /\ Goto(Manager, "loop")
  /\ UNCHANGED <<m_mutex, list, arg, got, inserts>>

-----------------------------------------------------------------------------
Insert(p) ==
  \/ \E x \in Items : InsertCall(p, x)
  \/ InsertLock(p) \/ InsertPush(p) \/ InsertUnlock(p)

Manage ==
  \/ PopCall \/ PopLock \/ PopTest \/ PopFront \/ PopUnlock
  \/ LoopSleep \/ LoopWake \/ LoopBody

Next == Manage \/ \E p \in Producers : Insert(p)

Spec == Init /\ [][Next]_vars

(* The scheduler runs every thread that can run.  std::mutex is not fair,  *)
(* but a listener holds it for one push_back and then blocks in accept, so *)
(* a waiting thread that finds the mutex free again and again gets it.     *)
Fairness ==
  /\ WF_vars(Manage) /\ SF_vars(PopLock)
  /\ \A p \in Producers :
       /\ WF_vars(InsertPush(p) \/ InsertUnlock(p))
       /\ SF_vars(InsertLock(p))

FairSpec == Spec /\ Fairness

-----------------------------------------------------------------------------
(* Threads between lock() and unlock(), and threads that touch the list.   *)
InCritical(t) ==
  \/ t \in Producers /\ pc[t] \in {"push", "unlock"}
  \/ t = Manager /\ pc[t] \in {"test", "popfront", "unlock"}

(* The std::list is never used by two threads at once: whoever is between  *)
(* lock() and unlock() is alone there (PolicyManager.cpp:15-32 and its two *)
(* copies).                                                                *)
MutualExclusion ==
  \A t, u \in Threads : InCritical(t) /\ InCritical(u) => t = u

(* What the manager holds in its hand but has not yet run the body for.    *)
Served ==
  IF pc[Manager] \in {"unlock", "check"} /\ got # Blank
    THEN Append(handled, got) ELSE handled

(* The work list implements the hand-off: push_back is Put, pop_front is   *)
(* Take, every other step is invisible.                                    *)
Handoff == INSTANCE FifoHandoff WITH pending <- list, served <- Served

(* Strings are handled in insertion order, each exactly once, none lost    *)
(* between pop_front and the loop's body and none invented, whatever the   *)
(* interleaving of insertPolicy and popPolicy.                             *)
ImplementsHandoff == Handoff!Spec

(* Every string a listener inserted is eventually taken out by the loop,   *)
(* even though the loop sleeps and gives the mutex up between two pops.    *)
EverythingTaken == Handoff!KeepsTaking

-----------------------------------------------------------------------------
(* The inductive invariant.  The mutex names the thread between lock and   *)
(* unlock; the local string is empty until the pop fills it; between       *)
(* front() and pop_front() the head of the list is still the one copied.   *)
LockInv == \A t \in Threads : InCritical(t) <=> m_mutex = t

FrontInv ==
  /\ pc[Manager] \in {"lock", "test"} => got = Blank
  /\ pc[Manager] = "popfront" => list # <<>> /\ got = Head(list)

IInv == TypeOK /\ LockInv /\ FrontInv
=============================================================================
