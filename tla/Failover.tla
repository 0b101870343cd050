------------------------------ MODULE Failover ------------------------------
(***************************************************************************)
(* FailoverHandler: the children are tried in the order they were given    *)
(* until one of them accepts the record.                                   *)
(***************************************************************************)
EXTENDS Dispatch

VARIABLE err   \* Handle's local err: the child that failed last, or Nil

vars == <<dispatchVars, err>>

TypeOK ==
  /\ DispatchTypeOK
  /\ err \in [Goroutine -> Children \cup {Nil}]

Init ==
  /\ DispatchInit(0 .. MaxHandlers)
  /\ err = [g \in Goroutine |-> Nil]

-----------------------------------------------------------------------------

FailoverEnabled(g) == Enabled(g) /\ UNCHANGED err

Handle(g) ==
  /\ pc[g] = "Handle"
  /\ pc' = [pc EXCEPT ![g] = "loop"]
  /\ pos' = [pos EXCEPT ![g] = 1]
  /\ err' = [err EXCEPT ![g] = Nil]
  /\ UNCHANGED <<size, threshold, level, fate, fresh>>

HandleTry(g) == Visit(g, pos[g]) /\ UNCHANGED err

(* Mutants of HandleAttempted: a success does not end the loop; the first  *)
(* error is kept instead of the last.                                      *)
HandleAttemptedGoesOn(g, outcome) ==
  /\ Settle(g, pos[g], outcome, "loop")
  /\ err' = [err EXCEPT ![g] = try(outcome, pos[g])]

HandleAttemptedFirst(g, outcome) ==
  LET result == try(outcome, pos[g])
  IN  /\ Settle(g, pos[g], outcome, IF result = Nil THEN "returned" ELSE "loop")
      /\ err' = IF result # Nil /\ err[g] # Nil THEN err ELSE [err EXCEPT ![g] = result]

(* The attempt comes back: err is overwritten by every attempt, and nil    *)
(* ends the call.                                                          *)
HandleAttempted(g, outcome) ==
  LET result == try(outcome, pos[g])
  IN  /\ Settle(g, pos[g], outcome, IF result = Nil THEN "returned" ELSE "loop")
      /\ err' = [err EXCEPT ![g] = result]

HandleGiveUp(g) == Exhaust(g) /\ UNCHANGED err

Advance(g) ==
  FailoverEnabled(g) \/ Handle(g) \/ HandleTry(g) \/ HandleGiveUp(g)

ChildComesBack(g) == \E outcome \in Outcome : HandleAttempted(g, outcome)

Environment ==
  /\ \/ \E c \in Children, l \in Level : SetLevel(c, l)
     \/ \E g \in Goroutine, l \in Level, method \in {"Enabled", "Handle"} :
           Call(g, l, method)
  /\ UNCHANGED err

Next ==
  \/ Environment
  \/ \E g \in Goroutine : Advance(g) \/ ChildComesBack(g)

(* The goroutine inside a call keeps running, and children come back.      *)
Fairness ==
  \A g \in Goroutine : WF_vars(Advance(g)) /\ WF_vars(ChildComesBack(g))

Spec == Init /\ [][Next]_vars

FairSpec == Spec /\ Fairness

-----------------------------------------------------------------------------

(* Priority order: FailoverHandler.Handle turns to a child only after each *)
(* child before it was disabled or failed in this same call, so a backup   *)
(* never gets a record that a higher child took or was not asked about.    *)
PriorityRespected ==
  \A g \in Goroutine : \A c \in Children : fate[g][c] # "untried" =>
     \A b \in 1 .. c - 1 : fate[g][b] \in {"disabled", "error", "panic"}

(* No silent loss.  If no level moves during a call, a nil error means     *)
(* that exactly one child accepted the record or that no child was enabled *)
(* for it; a record dropped by Enabled is one that no child wants.         *)
NoSilentLoss ==
  \A g \in Goroutine : fresh[g] =>
     /\ pc[g] = "returned" /\ err[g] = Nil =>
           \/ \E c \in Children : Reached(g) \ Failed(g) = {c}
           \/ \A c \in Children : ~ Admits(g, c)
     /\ pc[g] = "dropped" => \A c \in Children : ~ Admits(g, c)

(* FailoverHandler is a first-success dispatch: nobody is attempted twice, *)
(* and the error it returns is the last one, or nil after a success.       *)
F == INSTANCE FirstSuccess WITH
  status  <- [g \in Goroutine |-> CallStatus(g)],
  outcome <- [g \in Goroutine |-> [c \in Children |-> Settlement(g, c)]],
  verdict <- [g \in Goroutine |->
               IF pc[g] \in {"loop", "child", "returned"} THEN err[g] ELSE Nil]

ImplementsFirstSuccess == F!Init /\ [][F!Next]_(F!vars)

(* A call into the handler comes back, however levels move meanwhile.      *)
CallReturns ==
  \A g \in Goroutine : (pc[g] \notin Rest) ~> (pc[g] \in Rest)
=============================================================================
