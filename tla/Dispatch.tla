------------------------------ MODULE Dispatch ------------------------------
(***************************************************************************)
(* The part that FanoutHandler, FailoverHandler, PoolHandler and           *)
(* FirstMatchHandler have in common: goroutines log through one shared,    *)
(* immutable handler that holds a slice of child slog.Handlers, and walk   *)
(* that slice.                                                             *)
(*                                                                         *)
(* A goroutine is inside at most one call.  It first runs the handler's    *)
(* Enabled method, as slog.Logger does, or enters Handle directly, as a    *)
(* parent handler or a test may do.  Child handlers belong to the user: a  *)
(* child is enabled from some level up, that level may be moved by anyone  *)
(* at any time (slog.LevelVar), its Enabled may panic, and its Handle may  *)
(* succeed, return an error or panic.                                      *)
(*                                                                         *)
(* fate and fresh are history variables: they record what happened to each *)
(* child in the current call and whether a level moved since it began.     *)
(***************************************************************************)
EXTENDS Integers

CONSTANTS
  Goroutine,    \* the goroutines that log
  MaxHandlers,  \* bound on len(h.handlers)
  MaxLevel      \* levels are 0..MaxLevel

ASSUME DispatchAssumption == MaxHandlers \in Nat /\ MaxLevel \in Nat

VARIABLES
  size,       \* len(h.handlers), fixed when the handler is constructed
  threshold,  \* the lowest level each child is enabled for
  pc,         \* where each goroutine is
  level,      \* the level of the record each goroutine logs
  pos,        \* loop counter of the Enabled or Handle loop, from 1
  fate,       \* what became of each child in the goroutine's current call
  fresh       \* no level moved since the goroutine's current call began

dispatchVars == <<size, threshold, pc, level, pos, fate, fresh>>

Level    == 0 .. MaxLevel
Children == 1 .. size

Rest    == {"idle", "dropped", "returned", "panicked"}
Control == Rest \cup {"Enabled", "Handle", "loop", "matched", "child"}

Outcome == {"ok", "error", "panic"}   \* of a child's Handle
Fate    == Outcome \cup {"untried", "unmatched", "disabled", "running"}

DispatchTypeOK ==
  /\ size \in 0 .. MaxHandlers
  /\ threshold \in [Children -> Level]
  /\ pc \in [Goroutine -> Control]
  /\ level \in [Goroutine -> Level]
  /\ pos \in [Goroutine -> 1 .. size + 1]
  /\ fate \in [Goroutine -> [Children -> Fate]]
  /\ fresh \in [Goroutine -> BOOLEAN]

DispatchInit(sizes) ==
  /\ size \in sizes
  /\ threshold \in [Children -> Level]
  /\ pc = [g \in Goroutine |-> "idle"]
  /\ level = [g \in Goroutine |-> 0]
  /\ pos = [g \in Goroutine |-> 1]
  /\ fate = [g \in Goroutine |-> [c \in Children |-> "untried"]]
  /\ fresh = [g \in Goroutine |-> TRUE]

-----------------------------------------------------------------------------

(* What a child's own Enabled method answers for the goroutine's record.   *)
Admits(g, c) == level[g] >= threshold[c]

(* try runs a child's Handle and turns a panic into an error.  Errors are  *)
(* told apart by the child they came from; Nil is the nil error.           *)
Nil == 0

(* Mutant of try: the deferred function recovers and forgets to set err.   *)
tryForgets(outcome, c) == IF outcome = "error" THEN c ELSE Nil

try(outcome, c) == IF outcome \in {"error", "panic"} THEN c ELSE Nil

(* Somebody moves a child's level.                                         *)
SetLevel(c, l) ==
  /\ l # threshold[c]
  /\ threshold' = [threshold EXCEPT ![c] = l]
  /\ fresh' = [g \in Goroutine |-> FALSE]
  /\ UNCHANGED <<size, pc, level, pos, fate>>

(* The logger, a parent handler or a test calls into the handler.          *)
Call(g, l, method) ==
  /\ pc[g] \in Rest
  /\ pc' = [pc EXCEPT ![g] = method]
  /\ level' = [level EXCEPT ![g] = l]
  /\ pos' = [pos EXCEPT ![g] = 1]
  /\ fate' = [fate EXCEPT ![g] = [c \in Children |-> "untried"]]
  /\ fresh' = [fresh EXCEPT ![g] = TRUE]
  /\ UNCHANGED <<size, threshold>>

(* One turn of the Enabled loop: the first enabled child answers TRUE and  *)
(* the caller goes on to Handle; no child left answers FALSE and the       *)
(* record is dropped; a panic of the child's Enabled is not recovered.     *)
Enabled(g) ==
  /\ pc[g] = "Enabled"
  /\ \/ /\ pos[g] <= size
        /\ Admits(g, pos[g])
        /\ pc' = [pc EXCEPT ![g] = "Handle"]
        /\ UNCHANGED pos
     \/ /\ pos[g] <= size
        /\ ~ Admits(g, pos[g])
        /\ pos' = [pos EXCEPT ![g] = @ + 1]
        /\ UNCHANGED pc
     \/ /\ pos[g] > size
        /\ pc' = [pc EXCEPT ![g] = "dropped"]
        /\ UNCHANGED pos
     \/ /\ pos[g] <= size
        /\ pc' = [pc EXCEPT ![g] = "panicked"]
        /\ UNCHANGED pos
  /\ UNCHANGED <<size, threshold, level, fate, fresh>>

(* One turn of a Handle loop at child c, up to the call of its Handle: the *)
(* child's Enabled runs outside try, so its panic leaves the whole call.   *)
Visit(g, c) ==
  /\ pc[g] = "loop"
  /\ pos[g] <= size
  /\ \/ /\ Admits(g, c)
        /\ pc' = [pc EXCEPT ![g] = "child"]
        /\ fate' = [fate EXCEPT ![g][c] = "running"]
        /\ UNCHANGED pos
     \/ /\ ~ Admits(g, c)
        /\ fate' = [fate EXCEPT ![g][c] = "disabled"]
        /\ pos' = [pos EXCEPT ![g] = @ + 1]
        /\ UNCHANGED pc
     \/ /\ pc' = [pc EXCEPT ![g] = "panicked"]
        /\ UNCHANGED <<pos, fate>>
  /\ UNCHANGED <<size, threshold, level, fresh>>

(* Mutants of Settle: the counter is advanced twice, or not at all.        *)
SettleSkips(g, c, outcome, next) ==
  /\ pc[g] = "child"
  /\ pc' = [pc EXCEPT ![g] = next]
  /\ fate' = [fate EXCEPT ![g][c] = outcome]
  /\ pos' = [pos EXCEPT ![g] = @ + 2]
  /\ UNCHANGED <<size, threshold, level, fresh>>

SettleStays(g, c, outcome, next) ==
  /\ pc[g] = "child"
  /\ pc' = [pc EXCEPT ![g] = next]
  /\ fate' = [fate EXCEPT ![g][c] = outcome]
  /\ UNCHANGED <<size, threshold, level, pos, fresh>>

(* The child's Handle comes back to the loop, which goes on or returns.    *)
Settle(g, c, outcome, next) ==
  /\ pc[g] = "child"
  /\ pc' = [pc EXCEPT ![g] = next]
  /\ fate' = [fate EXCEPT ![g][c] = outcome]
  /\ pos' = [pos EXCEPT ![g] = @ + 1]
  /\ UNCHANGED <<size, threshold, level, fresh>>

(* The loop runs out of children.                                          *)
Exhaust(g) ==
  /\ pc[g] = "loop"
  /\ pos[g] > size
  /\ pc' = [pc EXCEPT ![g] = "returned"]
  /\ UNCHANGED <<size, threshold, level, pos, fate, fresh>>

-----------------------------------------------------------------------------

(* The children whose Handle was called in the goroutine's current call,   *)
(* and those among them that failed.                                       *)
Reached(g) == {c \in Children : fate[g][c] \in Outcome}
Failed(g)  == {c \in Children : fate[g][c] \in {"error", "panic"}}

(* In the Enabled loop nothing was tried yet, and no child behind the      *)
(* counter wants the record.                                               *)
EnabledInv(g) ==
  /\ pc[g] \in {"Enabled", "Handle"} => \A c \in Children : fate[g][c] = "untried"
  /\ pc[g] \in {"Enabled", "dropped"} /\ fresh[g] =>
        \A c \in Children : c < pos[g] => ~ Admits(g, c)
  /\ pc[g] = "dropped" => pos[g] > size

(* How a call looks from outside, for the abstract specifications: whether *)
(* it is going on, and how it has settled each child.                      *)
CallStatus(g) ==
  CASE pc[g] = "idle" -> "none"
    [] pc[g] = "returned" -> "complete"
    [] pc[g] \in {"dropped", "panicked"} -> "abandoned"
    [] OTHER -> "open"

Settlement(g, c) ==
  CASE fate[g][c] = "disabled" -> "passed"
    [] fate[g][c] = "ok" -> "accepted"
    [] fate[g][c] \in {"error", "panic"} -> "refused"
    [] OTHER -> "pending"
=============================================================================
