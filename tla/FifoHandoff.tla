---------------------------- MODULE FifoHandoff ----------------------------
(***************************************************************************)
(* What the work lists of the three daemons promise: a listener thread     *)
(* submits strings, the manager thread serves them one at a time, in the   *)
(* order of submission, each exactly once.  An empty string means "nothing *)
(* to do" to the manager's loop, so a submitted empty string is dropped.   *)
(***************************************************************************)
EXTENDS Naturals, Sequences

CONSTANTS Items,   \* the strings that can be submitted
          Blank    \* the empty string

VARIABLES pending,   \* submitted and not yet taken, oldest first
          served     \* taken and not blank, oldest first

vars == <<pending, served>>

Init == /\ pending = <<>>
        /\ served = <<>>

Put(x) == /\ pending' = Append(pending, x)
          /\ UNCHANGED served

Take == /\ pending # <<>>
        /\ pending' = Tail(pending)
        /\ served' = IF Head(pending) = Blank THEN served
                     ELSE Append(served, Head(pending))

Next == \/ \E x \in Items : Put(x)
        \/ Take

Spec == Init /\ [][Next]_vars

(* The manager keeps taking as long as something is pending.               *)
KeepsTaking == WF_vars(Take)
=============================================================================
