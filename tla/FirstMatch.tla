----------------------------- MODULE FirstMatch -----------------------------
(***************************************************************************)
(* FirstMatchHandler: the routes are asked in order whether they match the *)
(* record, and the first that does gets it, or nobody when that one is     *)
(* disabled.  A predicate is the user's function: it may answer anything   *)
(* each time it is called, and it may panic.                               *)
(***************************************************************************)
EXTENDS Dispatch

VARIABLES
  err,   \* the error Handle returned: the child it came from, or Nil
  asked  \* history: how often each route's predicates ran in the call

vars == <<dispatchVars, err, asked>>

TypeOK ==
  /\ DispatchTypeOK
  /\ err \in [Goroutine -> Children \cup {Nil}]
  /\ asked \in [Goroutine -> [Children -> 0 .. 2]]

Init ==
  /\ DispatchInit(0 .. MaxHandlers)
  /\ err = [g \in Goroutine |-> Nil]
  /\ asked = [g \in Goroutine |-> [c \in Children |-> 0]]

-----------------------------------------------------------------------------

FirstMatchEnabled(g) == Enabled(g) /\ UNCHANGED <<err, asked>>

Handle(g) ==
  /\ pc[g] = "Handle"
  /\ pc' = [pc EXCEPT ![g] = "loop"]
  /\ pos' = [pos EXCEPT ![g] = 1]
  /\ err' = [err EXCEPT ![g] = Nil]
  /\ asked' = [asked EXCEPT ![g] = [c \in Children |-> 0]]
  /\ UNCHANGED <<size, threshold, level, fate, fresh>>

(* isMatch runs the route's predicates outside try: their panic leaves the *)
(* whole call.                                                             *)
isMatch(g) ==
  /\ pc[g] = "loop"
  /\ pos[g] <= size
  /\ asked' = [asked EXCEPT ![g][pos[g]] = @ + 1]
  /\ \/ /\ pc' = [pc EXCEPT ![g] = "matched"]
        /\ UNCHANGED <<pos, fate>>
     \/ /\ fate' = [fate EXCEPT ![g][pos[g]] = "unmatched"]
        /\ pos' = [pos EXCEPT ![g] = @ + 1]
        /\ UNCHANGED pc
     \/ /\ pc' = [pc EXCEPT ![g] = "panicked"]
        /\ UNCHANGED <<pos, fate>>
  /\ UNCHANGED <<size, threshold, level, fresh, err>>

(* Mutant of skipPredicates: the flag is lost in the copy.                 *)
predicatesKept == FALSE

(* The constructor sets this flag in its copy of every route.              *)
skipPredicates == TRUE

(* Mutant of HandleMatched: a disabled match falls through to the next.    *)
HandleMatchedOrNext(g) ==
  LET c == pos[g]
  IN  /\ pc[g] = "matched"
      /\ \/ /\ Admits(g, c)
            /\ pc' = [pc EXCEPT ![g] = "child"]
            /\ fate' = [fate EXCEPT ![g][c] = "running"]
            /\ UNCHANGED pos
         \/ /\ ~ Admits(g, c)
            /\ pc' = [pc EXCEPT ![g] = "loop"]
            /\ fate' = [fate EXCEPT ![g][c] = "disabled"]
            /\ pos' = [pos EXCEPT ![g] = @ + 1]
      /\ UNCHANGED <<size, threshold, level, fresh, err, asked>>

(* The matched route: if it is enabled its Handle runs, which asks the     *)
(* predicates again only if it was not told to skip them; if it is not the *)
(* call ends there; its Enabled may panic.                                 *)
HandleMatched(g) ==
  LET c == pos[g]
  IN  /\ pc[g] = "matched"
      /\ \/ /\ Admits(g, c)
            /\ pc' = [pc EXCEPT ![g] = "child"]
            /\ fate' = [fate EXCEPT ![g][c] = "running"]
            /\ asked' = IF skipPredicates THEN asked ELSE [asked EXCEPT ![g][c] = @ + 1]
         \/ /\ ~ Admits(g, c)
            /\ pc' = [pc EXCEPT ![g] = "returned"]
            /\ fate' = [fate EXCEPT ![g][c] = "disabled"]
            /\ UNCHANGED asked
         \/ /\ pc' = [pc EXCEPT ![g] = "panicked"]
            /\ UNCHANGED <<fate, asked>>
      /\ UNCHANGED <<size, threshold, level, pos, fresh, err>>

HandleReturn(g, outcome) ==
  /\ Settle(g, pos[g], outcome, "returned")
  /\ err' = [err EXCEPT ![g] = try(outcome, pos[g])]
  /\ UNCHANGED asked

(* Mutant of HandleNoMatch: the routes are asked again until one matches.  *)
HandleUntilMatch(g) ==
  /\ pc[g] = "loop" /\ pos[g] > size
  /\ pos' = [pos EXCEPT ![g] = 1]
  /\ fate' = [fate EXCEPT ![g] = [c \in Children |-> "untried"]]
  /\ asked' = [asked EXCEPT ![g] = [c \in Children |-> 0]]
  /\ UNCHANGED <<size, threshold, pc, level, fresh, err>>

HandleNoMatch(g) == Exhaust(g) /\ UNCHANGED <<err, asked>>

Advance(g) ==
  \/ FirstMatchEnabled(g) \/ Handle(g)
  \/ isMatch(g) \/ HandleMatched(g) \/ HandleNoMatch(g)

ChildComesBack(g) == \E outcome \in Outcome : HandleReturn(g, outcome)

Environment ==
  /\ \/ \E c \in Children, l \in Level : SetLevel(c, l)
     \/ \E g \in Goroutine, l \in Level, method \in {"Enabled", "Handle"} :
           Call(g, l, method)
  /\ UNCHANGED <<err, asked>>

Next ==
  \/ Environment
  \/ \E g \in Goroutine : Advance(g) \/ ChildComesBack(g)

(* The goroutine inside a call keeps running: predicates answer or panic,  *)
(* and children come back.                                                 *)
Fairness ==
  \A g \in Goroutine : WF_vars(Advance(g)) /\ WF_vars(ChildComesBack(g))

Spec == Init /\ [][Next]_vars

FairSpec == Spec /\ Fairness

-----------------------------------------------------------------------------

(* First match: at the end of a call every route before the first match    *)
(* was asked and did not match, no route behind it was asked or got the    *)
(* record, and the first match got it unless it was disabled; an error is  *)
(* that of the route that got the record.                                  *)
OnlyTheFirstMatchIsServed ==
  \A g \in Goroutine : pc[g] = "returned" =>
     \/ /\ \A c \in Children : fate[g][c] = "unmatched"
        /\ err[g] = Nil
     \/ \E c \in Children :
           /\ \A b \in 1 .. c - 1 : fate[g][b] = "unmatched"
           /\ \A d \in c + 1 .. size : fate[g][d] = "untried"
           /\ fate[g][c] \in Outcome \cup {"disabled"}
           /\ fresh[g] => (fate[g][c] = "disabled" <=> ~ Admits(g, c))
           /\ err[g] = IF fate[g][c] \in {"error", "panic"} THEN c ELSE Nil

(* No double matching: FirstMatch hands the record to routes that skip     *)
(* their predicates, so a predicate with a state of its own, a sampler for *)
(* instance, runs at most once per record and route, and once on the route *)
(* that is served and on each that was turned down.                        *)
PredicatesRunOnce ==
  \A g \in Goroutine : pc[g] \in {"loop", "matched", "child", "returned", "panicked"} =>
     \A c \in Children :
        /\ asked[g][c] <= 1
        /\ fate[g][c] # "untried" => asked[g][c] = 1

(* A call comes back, whatever the predicates answer, also when a matched  *)
(* route's level moves between its match and its turn.                     *)
CallReturns ==
  \A g \in Goroutine : (pc[g] \notin Rest) ~> (pc[g] \in Rest)
=============================================================================
