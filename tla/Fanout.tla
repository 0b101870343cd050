------------------------------- MODULE Fanout -------------------------------
(***************************************************************************)
(* FanoutHandler: every enabled child is handed its own clone of the       *)
(* record, one after the other, and the failures are joined.               *)
(***************************************************************************)
EXTENDS Dispatch

VARIABLE errs   \* the children whose errors Handle has collected

vars == <<dispatchVars, errs>>

TypeOK ==
  /\ DispatchTypeOK
  /\ errs \in [Goroutine -> SUBSET Children]

(* The constructor returns a single handler unwrapped, so a FanoutHandler  *)
(* never has exactly one child.                                            *)
FanoutSizes == (0 .. MaxHandlers) \ {1}

Init ==
  /\ DispatchInit(FanoutSizes)
  /\ errs = [g \in Goroutine |-> {}]

-----------------------------------------------------------------------------

FanoutEnabled(g) == Enabled(g) /\ UNCHANGED errs

(* Mutant of Handle: the slice of errors is kept in the shared handler.    *)
HandleShared(g) ==
  /\ pc[g] = "Handle"
  /\ pc' = [pc EXCEPT ![g] = "loop"]
  /\ pos' = [pos EXCEPT ![g] = 1]
  /\ errs' = [h \in Goroutine |-> {}]
  /\ UNCHANGED <<size, threshold, level, fate, fresh>>

Handle(g) ==
  /\ pc[g] = "Handle"
  /\ pc' = [pc EXCEPT ![g] = "loop"]
  /\ pos' = [pos EXCEPT ![g] = 1]
  /\ errs' = [errs EXCEPT ![g] = {}]
  /\ UNCHANGED <<size, threshold, level, fate, fresh>>

HandleVisit(g) == Visit(g, pos[g]) /\ UNCHANGED errs

(* Mutants of HandleCollect: every result is collected, nil too; the first *)
(* failure ends the call.                                                  *)
HandleCollectAll(g, outcome) ==
  /\ Settle(g, pos[g], outcome, "loop")
  /\ errs' = [errs EXCEPT ![g] = @ \cup {try(outcome, pos[g])}]

HandleCollectStops(g, outcome) ==
  /\ Settle(g, pos[g], outcome, IF try(outcome, pos[g]) = Nil THEN "loop" ELSE "returned")
  /\ errs' = IF try(outcome, pos[g]) = Nil
             THEN errs
             ELSE [errs EXCEPT ![g] = @ \cup {try(outcome, pos[g])}]

(* The child comes back, and its error is kept for errors.Join.            *)
HandleCollect(g, outcome) ==
  /\ Settle(g, pos[g], outcome, "loop")
  /\ errs' = IF try(outcome, pos[g]) = Nil
             THEN errs
             ELSE [errs EXCEPT ![g] = @ \cup {try(outcome, pos[g])}]

HandleReturn(g) == Exhaust(g) /\ UNCHANGED errs

Advance(g) ==
  FanoutEnabled(g) \/ Handle(g) \/ HandleVisit(g) \/ HandleReturn(g)

Environment ==
  /\ \/ \E c \in Children, l \in Level : SetLevel(c, l)
     \/ \E g \in Goroutine, l \in Level, method \in {"Enabled", "Handle"} :
           Call(g, l, method)
  /\ UNCHANGED errs

Next ==
  \/ Environment
  \/ \E g \in Goroutine :
        Advance(g) \/ \E outcome \in Outcome : HandleCollect(g, outcome)

(* The goroutine inside Handle keeps running; a child that is not hung     *)
(* comes back from its Handle.                                             *)
ChildComesBack(g, c) ==
  pos[g] = c /\ \E outcome \in Outcome : HandleCollect(g, outcome)

Fairness ==
  \A g \in Goroutine :
     /\ WF_vars(Advance(g))
     /\ \A c \in 1 .. MaxHandlers : WF_vars(ChildComesBack(g, c))

Spec == Init /\ [][Next]_vars

FairSpec == Spec /\ Fairness

-----------------------------------------------------------------------------

(* Failure isolation.  If no level moves during a call, the children that  *)
(* got the record are exactly those enabled for it, whatever the others    *)
(* did (FanoutHandler.Handle goes on after an error or a panic), and a     *)
(* record the Enabled loop drops is one that no child wants.               *)
ServesExactlyTheEnabled ==
  \A g \in Goroutine : fresh[g] =>
     /\ pc[g] = "returned" => Reached(g) = {c \in Children : Admits(g, c)}
     /\ pc[g] = "dropped"  => \A c \in Children : ~ Admits(g, c)

(* FanoutHandler is a broadcast: each child settled exactly once per call, *)
(* and errors.Join reports the failed children, all of them and no other.  *)
B == INSTANCE Broadcast WITH
  status   <- [g \in Goroutine |-> CallStatus(g)],
  outcome  <- [g \in Goroutine |-> [c \in Children |-> Settlement(g, c)]],
  reported <- [g \in Goroutine |-> IF pc[g] = "returned" THEN errs[g] ELSE {}]

ImplementsBroadcast == B!Init /\ [][B!Next]_(B!vars)

(* A call into the handler comes back, however levels move meanwhile, as   *)
(* long as every child's Handle does.                                      *)
CallReturns ==
  \A g \in Goroutine : (pc[g] \notin Rest) ~> (pc[g] \in Rest)
=============================================================================
