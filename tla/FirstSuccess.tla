---------------------------- MODULE FirstSuccess ----------------------------
(***************************************************************************)
(* What "first success" promises, whatever the order of attempts: in one   *)
(* call no child is attempted twice, the first child that accepts ends the *)
(* call with the nil error, and a call that ends without one has settled   *)
(* every child and reports the last refusal, if any.  A call may also be   *)
(* abandoned: nobody wants the record, or a child's Enabled panics.        *)
(***************************************************************************)
EXTENDS Integers

CONSTANT Goroutine

VARIABLES
  size,      \* the number of children
  status,    \* of each goroutine's latest call
  outcome,   \* how each child was settled in it
  verdict    \* the child whose error the call reports, 0 for nil

Nil == 0

Init ==
  /\ size \in Nat
  /\ status = [g \in Goroutine |-> "none"]
  /\ outcome = [g \in Goroutine |-> [c \in 1 .. size |-> "pending"]]
  /\ verdict = [g \in Goroutine |-> Nil]

Begin(g) ==
  /\ status[g] # "open"
  /\ status' = [status EXCEPT ![g] = "open"]
  /\ outcome' = [outcome EXCEPT ![g] = [c \in 1 .. size |-> "pending"]]
  /\ verdict' = [verdict EXCEPT ![g] = Nil]
  /\ UNCHANGED size

Attempt(g, c, result) ==
  /\ status[g] = "open"
  /\ outcome[g][c] = "pending"
  /\ outcome' = [outcome EXCEPT ![g][c] = result]
  /\ UNCHANGED size

Pass(g, c) == Attempt(g, c, "passed") /\ UNCHANGED <<status, verdict>>

Refuse(g, c) ==
  /\ Attempt(g, c, "refused")
  /\ verdict' = [verdict EXCEPT ![g] = c]
  /\ UNCHANGED status

Accept(g, c) ==
  /\ Attempt(g, c, "accepted")
  /\ status' = [status EXCEPT ![g] = "complete"]
  /\ verdict' = [verdict EXCEPT ![g] = Nil]

GiveUp(g) ==
  /\ status[g] = "open"
  /\ \A c \in 1 .. size : outcome[g][c] \in {"passed", "refused"}
  /\ status' = [status EXCEPT ![g] = "complete"]
  /\ UNCHANGED <<size, outcome, verdict>>

Abandon(g) ==
  /\ status[g] = "open"
  /\ status' = [status EXCEPT ![g] = "abandoned"]
  /\ verdict' = [verdict EXCEPT ![g] = Nil]
  /\ UNCHANGED <<size, outcome>>

Next ==
  \E g \in Goroutine :
     \/ Begin(g)
     \/ \E c \in 1 .. size : Pass(g, c) \/ Refuse(g, c) \/ Accept(g, c)
     \/ GiveUp(g)
     \/ Abandon(g)

vars == <<size, status, outcome, verdict>>

Spec == Init /\ [][Next]_vars
=============================================================================
