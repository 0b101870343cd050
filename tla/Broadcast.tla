------------------------------ MODULE Broadcast -----------------------------
(***************************************************************************)
(* What a fan-out promises, whatever its order or parallelism: in a call   *)
(* that completes, every child has been settled exactly once, either       *)
(* passed over or asked to handle the record, and the error that is        *)
(* returned names exactly the children that refused it.  A call may also be*)
(* abandoned: nobody wants the record, or a child's Enabled panics.        *)
(***************************************************************************)
EXTENDS Integers

CONSTANT Goroutine

VARIABLES
  size,      \* the number of children
  status,    \* of each goroutine's latest call
  outcome,   \* how each child was settled in it
  reported   \* the children named by the error it returned

Settled == {"passed", "accepted", "refused"}

Init ==
  /\ size \in Nat
  /\ status = [g \in Goroutine |-> "none"]
  /\ outcome = [g \in Goroutine |-> [c \in 1 .. size |-> "pending"]]
  /\ reported = [g \in Goroutine |-> {}]

Begin(g) ==
  /\ status[g] # "open"
  /\ status' = [status EXCEPT ![g] = "open"]
  /\ outcome' = [outcome EXCEPT ![g] = [c \in 1 .. size |-> "pending"]]
  /\ reported' = [reported EXCEPT ![g] = {}]
  /\ UNCHANGED size

Settle(g, c, result) ==
  /\ status[g] = "open"
  /\ outcome[g][c] = "pending"
  /\ outcome' = [outcome EXCEPT ![g][c] = result]
  /\ UNCHANGED <<size, status, reported>>

Complete(g) ==
  /\ status[g] = "open"
  /\ \A c \in 1 .. size : outcome[g][c] \in Settled
  /\ status' = [status EXCEPT ![g] = "complete"]
  /\ reported' = [reported EXCEPT ![g] = {c \in 1 .. size : outcome[g][c] = "refused"}]
  /\ UNCHANGED <<size, outcome>>

Abandon(g) ==
  /\ status[g] = "open"
  /\ status' = [status EXCEPT ![g] = "abandoned"]
  /\ UNCHANGED <<size, outcome, reported>>

Next ==
  \E g \in Goroutine :
     \/ Begin(g)
     \/ \E c \in 1 .. size, result \in Settled : Settle(g, c, result)
     \/ Complete(g)
     \/ Abandon(g)

vars == <<size, status, outcome, reported>>

Spec == Init /\ [][Next]_vars
=============================================================================
