--------------------------- MODULE WorkListProofs ---------------------------
(***************************************************************************)
(* WorkList is correct for any number of inserting threads, any strings    *)
(* and any number of inserts: the list is used by one thread at a time,    *)
(* and the mutex-protected code implements the first-in first-out hand-off *)
(* of FifoHandoff.                                                         *)
(***************************************************************************)
EXTENDS WorkList, TLAPS

USE WorkListAssumption

(* The daemon starts with an unlocked mutex and an empty list.             *)
LEMMA InitIInv == Init => IInv
<1> SUFFICES ASSUME Init PROVE IInv
  OBVIOUS
<1> USE DEF Init, Threads
<1>1. TypeOK
  BY DEF TypeOK, ProducerPCs, ManagerPCs
<1>2. LockInv
  BY DEF LockInv, InCritical
<1>3. FrontInv
  BY DEF FrontInv
<1> QED
  BY <1>1, <1>2, <1>3 DEF IInv

(* No step of any thread breaks the typing of the state.                   *)
LEMMA TypeStep == TypeOK /\ FrontInv /\ [Next]_vars => TypeOK'
<1> SUFFICES ASSUME TypeOK, FrontInv, [Next]_vars PROVE TypeOK'
  OBVIOUS
<1> USE DEF TypeOK, Threads, ProducerPCs, ManagerPCs, Goto
<1>1. CASE UNCHANGED vars
  BY <1>1 DEF vars
<1>2. ASSUME NEW p \in Producers, Insert(p) PROVE TypeOK'
  <2>1. ASSUME NEW x \in Items, InsertCall(p, x) PROVE TypeOK'
    BY <2>1 DEF InsertCall
  <2>2. CASE InsertLock(p)
    BY <2>2 DEF InsertLock, Lock
  <2>3. CASE InsertPush(p)
    BY <2>3 DEF InsertPush
  <2>4. CASE InsertUnlock(p)
    BY <2>4 DEF InsertUnlock, Unlock
  <2> QED
    BY <1>2, <2>1, <2>2, <2>3, <2>4 DEF Insert
<1>3. CASE Manage
  <2>1. CASE PopCall
    BY <2>1 DEF PopCall
  <2>2. CASE PopLock
    BY <2>2 DEF PopLock, Lock
  <2>3. CASE PopTest
    BY <2>3 DEF PopTest
  <2>4. CASE PopFront
    <3>1. list' \in Seq(Items)
      BY <2>4 DEF PopFront, FrontInv
    <3> QED
      BY <2>4, <3>1 DEF PopFront
  <2>5. CASE PopUnlock
    BY <2>5 DEF PopUnlock, Unlock
  <2>6. CASE LoopSleep
    BY <2>6 DEF LoopSleep
  <2>7. CASE LoopWake
    BY <2>7 DEF LoopWake
  <2>8. CASE LoopBody
    BY <2>8 DEF LoopBody
  <2> QED
    BY <1>3, <2>1, <2>2, <2>3, <2>4, <2>5, <2>6, <2>7, <2>8 DEF Manage
<1> QED
  BY <1>1, <1>2, <1>3 DEF Next

(* Whoever enters the critical section takes the mutex, whoever leaves it  *)
(* gives it back, and nobody else touches it.                              *)
LEMMA LockStep == TypeOK /\ LockInv /\ [Next]_vars => LockInv'
<1> SUFFICES ASSUME TypeOK, LockInv, [Next]_vars PROVE LockInv'
  OBVIOUS
<1> USE DEF TypeOK, LockInv, InCritical, Threads, Goto
<1>1. CASE UNCHANGED vars
  BY <1>1 DEF vars
<1>2. ASSUME NEW p \in Producers, Insert(p) PROVE LockInv'
  <2>1. ASSUME NEW x \in Items, InsertCall(p, x) PROVE LockInv'
    BY <2>1 DEF InsertCall
  <2>2. CASE InsertLock(p)
    BY <2>2 DEF InsertLock, Lock
  <2>3. CASE InsertPush(p)
    BY <2>3 DEF InsertPush
  <2>4. CASE InsertUnlock(p)
    BY <2>4 DEF InsertUnlock, Unlock
  <2> QED
    BY <1>2, <2>1, <2>2, <2>3, <2>4 DEF Insert
<1>3. CASE Manage
  <2>1. CASE PopCall
    BY <2>1 DEF PopCall
  <2>2. CASE PopLock
    BY <2>2 DEF PopLock, Lock
  <2>3. CASE PopTest
    BY <2>3 DEF PopTest
  <2>4. CASE PopFront
    BY <2>4 DEF PopFront
  <2>5. CASE PopUnlock
    BY <2>5 DEF PopUnlock, Unlock
  <2>6. CASE LoopSleep
    BY <2>6 DEF LoopSleep
  <2>7. CASE LoopWake
    BY <2>7 DEF LoopWake
  <2>8. CASE LoopBody
    BY <2>8 DEF LoopBody
  <2> QED
    BY <1>3, <2>1, <2>2, <2>3, <2>4, <2>5, <2>6, <2>7, <2>8 DEF Manage
<1> QED
  BY <1>1, <1>2, <1>3 DEF Next

(* The manager's local string is blank until the pop fills it, and the     *)
(* string it copied stays at the head of the list until it is popped: a    *)
(* listener could only append to the list in between.                      *)
LEMMA FrontStep == TypeOK /\ FrontInv /\ [Next]_vars => FrontInv'
<1> SUFFICES ASSUME TypeOK, FrontInv, [Next]_vars PROVE FrontInv'
  OBVIOUS
<1> USE DEF TypeOK, FrontInv, Threads, Goto
<1>1. CASE UNCHANGED vars
  BY <1>1 DEF vars
<1>2. ASSUME NEW p \in Producers, Insert(p) PROVE FrontInv'
  <2>1. ASSUME NEW x \in Items, InsertCall(p, x) PROVE FrontInv'
    BY <2>1 DEF InsertCall
  <2>2. CASE InsertLock(p)
    BY <2>2 DEF InsertLock
  <2>3. CASE InsertPush(p)
    <3>1. list # <<>> => list' # <<>> /\ Head(list') = Head(list)
      BY <2>3 DEF InsertPush
    <3> QED
      BY <2>3, <3>1 DEF InsertPush
  <2>4. CASE InsertUnlock(p)
    BY <2>4 DEF InsertUnlock
  <2> QED
    BY <1>2, <2>1, <2>2, <2>3, <2>4 DEF Insert
<1>3. CASE Manage
  BY <1>3 DEF Manage, PopCall, PopLock, PopTest, PopFront, PopUnlock,
              LoopSleep, LoopWake, LoopBody
<1> QED
  BY <1>1, <1>2, <1>3 DEF Next

(* The three parts together are inductive.                                 *)
LEMMA IInvStep == IInv /\ [Next]_vars => IInv'
BY TypeStep, LockStep, FrontStep DEF IInv

(* IInv holds in every state of the daemon.                                *)
THEOREM Invariance == Spec => []IInv
BY InitIInv, IInvStep, PTL DEF Spec

(* The variables of the work list always have their types: in particular   *)
(* pop_front is never called on an empty list.                             *)
THEOREM TypeCorrect == Spec => []TypeOK
<1>1. IInv => TypeOK
  BY DEF IInv
<1> QED
  BY Invariance, <1>1, PTL

(* The std::list is never used by two threads at once                      *)
(* (PolicyManager.cpp:15-32 and its two copies).                           *)
THEOREM ListProtected == Spec => []MutualExclusion
<1>1. IInv => MutualExclusion
  BY DEF IInv, LockInv, MutualExclusion
<1> QED
  BY Invariance, <1>1, PTL

(* A step of the threads is a Put, a Take or invisible to the hand-off.    *)
LEMMA HandoffStep == IInv /\ [Next]_vars => [Handoff!Next]_Handoff!vars
<1> SUFFICES ASSUME IInv, [Next]_vars PROVE [Handoff!Next]_Handoff!vars
  OBVIOUS
<1> USE DEF IInv, TypeOK, FrontInv, Threads, Goto, Handoff!vars, Served
<1>1. CASE UNCHANGED vars
  BY <1>1 DEF vars
<1>2. ASSUME NEW p \in Producers, Insert(p)
      PROVE  [Handoff!Next]_Handoff!vars
  <2>1. ASSUME NEW x \in Items, InsertCall(p, x) PROVE UNCHANGED Handoff!vars
    BY <2>1 DEF InsertCall
  <2>2. CASE InsertLock(p)
    BY <2>2 DEF InsertLock
  <2>3. CASE InsertPush(p)
    <3>1. UNCHANGED Served
      BY <2>3 DEF InsertPush
    <3>2. Handoff!Put(arg[p])
      BY <2>3, <3>1 DEF InsertPush, Handoff!Put
    <3> QED
      BY <3>2 DEF Handoff!Next
  <2>4. CASE InsertUnlock(p)
    BY <2>4 DEF InsertUnlock
  <2> QED
    BY <1>2, <2>1, <2>2, <2>3, <2>4 DEF Insert
<1>3. CASE Manage
  <2>1. CASE PopFront
    <3>1. list # <<>> /\ list' = Tail(list) /\ got = Head(list)
      BY <2>1 DEF PopFront
    <3>2. Served' = IF Head(list) = Blank THEN Served
                    ELSE Append(Served, Head(list))
      BY <2>1, <3>1 DEF PopFront
    <3> QED
      BY <3>1, <3>2 DEF Handoff!Next, Handoff!Take
  <2>2. CASE PopTest
    BY <2>2 DEF PopTest
  <2>3. CASE PopCall \/ PopLock \/ PopUnlock \/ LoopSleep \/ LoopWake
             \/ LoopBody
    BY <2>3 DEF PopCall, PopLock, PopUnlock, LoopSleep, LoopWake, LoopBody
  <2> QED
    BY <1>3, <2>1, <2>2, <2>3 DEF Manage
<1> QED
  BY <1>1, <1>2, <1>3 DEF Next

(* Whatever the interleaving, strings are handled in insertion order, each *)
(* exactly once: the code implements FifoHandoff.                          *)
THEOREM Refinement == Spec => ImplementsHandoff
<1>1. Init => Handoff!Init
  BY DEF Init, Handoff!Init, Served
<1> QED
  BY <1>1, Invariance, HandoffStep, PTL
     DEF Spec, ImplementsHandoff, Handoff!Spec
=============================================================================
