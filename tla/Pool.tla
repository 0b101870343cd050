-------------------------------- MODULE Pool --------------------------------
(***************************************************************************)
(* PoolHandler: the children are tried in turn, from one chosen at random  *)
(* and around the end of the slice, until one of them accepts the record.  *)
(***************************************************************************)
EXTENDS Dispatch

VARIABLES
  start,  \* Handle's local start: the random offset of the call
  err     \* Handle's local err: the child that failed last, or Nil

vars == <<dispatchVars, start, err>>

TypeOK ==
  /\ DispatchTypeOK
  /\ start \in [Goroutine -> 0 .. MaxHandlers]
  /\ err \in [Goroutine -> Children \cup {Nil}]

Init ==
  /\ DispatchInit(0 .. MaxHandlers)
  /\ start = [g \in Goroutine |-> 0]
  /\ err = [g \in Goroutine |-> Nil]

(* The values of rand.IntN(len(h.handlers)).                               *)
Starts == 0 .. size - 1

(* Mutant of Slot: the end of the slice stops the walk instead of wrapping.*)
SlotClamped(s, p) == IF s + p > size THEN size ELSE s + p

(* Mutant of Slot: i := j, every record goes to the first child.           *)
SlotFromFirst(s, p) == p

(* The child at turn p = j + 1 of the loop, children counting from 1.      *)
Slot(s, p) == ((s + p - 1) % size) + 1

-----------------------------------------------------------------------------

PoolEnabled(g) == Enabled(g) /\ UNCHANGED <<start, err>>

(* An empty pool returns nil before it draws a start.                      *)
HandleEmpty(g) ==
  /\ pc[g] = "Handle"
  /\ size = 0
  /\ pc' = [pc EXCEPT ![g] = "returned"]
  /\ err' = [err EXCEPT ![g] = Nil]
  /\ UNCHANGED <<size, threshold, level, pos, fate, fresh, start>>

Handle(g) ==
  /\ pc[g] = "Handle"
  /\ size # 0
  /\ pc' = [pc EXCEPT ![g] = "loop"]
  /\ pos' = [pos EXCEPT ![g] = 1]
  /\ err' = [err EXCEPT ![g] = Nil]
  /\ \E s \in Starts : start' = [start EXCEPT ![g] = s]
  /\ UNCHANGED <<size, threshold, level, fate, fresh>>

HandleTry(g) ==
  Visit(g, Slot(start[g], pos[g])) /\ UNCHANGED <<start, err>>

HandleAttempted(g, outcome) ==
  LET c      == Slot(start[g], pos[g])
      result == try(outcome, c)
  IN  /\ Settle(g, c, outcome, IF result = Nil THEN "returned" ELSE "loop")
      /\ err' = [err EXCEPT ![g] = result]
      /\ UNCHANGED start

(* Mutant of HandleGiveUp: return nil for return err.                      *)
HandleGiveUpNil(g) ==
  Exhaust(g) /\ err' = [err EXCEPT ![g] = Nil] /\ UNCHANGED start

HandleGiveUp(g) == Exhaust(g) /\ UNCHANGED <<start, err>>

Advance(g) ==
  PoolEnabled(g) \/ HandleEmpty(g) \/ Handle(g) \/ HandleTry(g) \/ HandleGiveUp(g)

ChildComesBack(g) == \E outcome \in Outcome : HandleAttempted(g, outcome)

Environment ==
  /\ \/ \E c \in Children, l \in Level : SetLevel(c, l)
     \/ \E g \in Goroutine, l \in Level, method \in {"Enabled", "Handle"} :
           Call(g, l, method)
  /\ UNCHANGED <<start, err>>

Next ==
  \/ Environment
  \/ \E g \in Goroutine : Advance(g) \/ ChildComesBack(g)

(* The goroutine inside a call keeps running, and children come back.      *)
Fairness ==
  \A g \in Goroutine : WF_vars(Advance(g)) /\ WF_vars(ChildComesBack(g))

Spec == Init /\ [][Next]_vars

FairSpec == Spec /\ Fairness

-----------------------------------------------------------------------------

(* How far behind the start of the call child c is, around the slice.      *)
Distance(g, c) == (c - 1 - start[g]) % size

(* Round robin: whatever the random start, PoolHandler.Handle goes around  *)
(* the slice without skipping a child: those settled after so many turns   *)
(* are an arc of that many children that begins at the start.              *)
GoesAround ==
  \A g \in Goroutine : pc[g] \in {"loop", "child", "returned"} /\ size # 0 =>
     {c \in Children : fate[g][c] \notin {"untried", "running"}}
       = {c \in Children : Distance(g, c) < pos[g] - 1}

(* Who carries the load.  A child is available to a call if it is enabled  *)
(* and does not fail in it.  If no level moves during a call of Handle, it *)
(* is the available child nearest behind the start that accepts the record *)
(* and no other.  So the random start spreads the load evenly as long as   *)
(* all are available, and the load of one that is not falls on the next.   *)
Available(g) == {c \in Children : Admits(g, c)} \ Failed(g)

NearestAvailableTakesIt ==
  \A g \in Goroutine : fresh[g] /\ pc[g] = "returned" =>
     \A c \in Children :
        fate[g][c] = "ok" <=> /\ c \in Available(g)
                             /\ \A d \in Available(g) : Distance(g, c) <= Distance(g, d)

(* No silent loss.  If no level moves during a call, a nil error means     *)
(* that exactly one child accepted the record or that no child was enabled *)
(* for it; a record dropped by Enabled is one that no child wants.         *)
NoSilentLoss ==
  \A g \in Goroutine : fresh[g] =>
     /\ pc[g] = "returned" /\ err[g] = Nil =>
           \/ \E c \in Children : Reached(g) \ Failed(g) = {c}
           \/ \A c \in Children : ~ Admits(g, c)
     /\ pc[g] = "dropped" => \A c \in Children : ~ Admits(g, c)

(* PoolHandler is a first-success dispatch as well: nobody is attempted    *)
(* twice in one call, around the end of the slice included.                *)
F == INSTANCE FirstSuccess WITH
  status  <- [g \in Goroutine |-> CallStatus(g)],
  outcome <- [g \in Goroutine |-> [c \in Children |-> Settlement(g, c)]],
  verdict <- [g \in Goroutine |->
               IF pc[g] \in {"loop", "child", "returned"} THEN err[g] ELSE Nil]

ImplementsFirstSuccess == F!Init /\ [][F!Next]_(F!vars)

(* A call into the handler comes back, however levels move meanwhile.      *)
CallReturns ==
  \A g \in Goroutine : (pc[g] \notin Rest) ~> (pc[g] \in Rest)
=============================================================================
