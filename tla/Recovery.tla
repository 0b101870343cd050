------------------------------ MODULE Recovery ------------------------------
(***************************************************************************)
(* HandlerErrorRecovery: the failures of one handler are told to a         *)
(* callback of the user's, and its panics go no further.  The callback may *)
(* itself panic, while Handle's body runs or while its deferred function   *)
(* does.                                                                   *)
(*                                                                         *)
(* inner and broke are history: how the wrapped handler came back in the   *)
(* current call, and in which calls of the callback it panicked.           *)
(***************************************************************************)
EXTENDS Integers, Sequences

CONSTANT Goroutine   \* the goroutines that log

VARIABLES
  pc,      \* where each goroutine is
  result,  \* the error Handle returned or is about to return
  told,    \* the failures the callback was called with, in order
  inner,   \* how the wrapped Handle came back
  broke    \* the places from which the callback panicked

recoveryVars == <<pc, result, told, inner, broke>>

Failure == {"error", "panic"}
Rest    == {"idle", "dropped", "returned", "panicked"}
Place   == {"body", "deferred"}   \* where the callback runs

RecoveryTypeOK ==
  /\ pc \in [Goroutine -> Rest \cup Place \cup {"Enabled", "Handle"}]
  /\ result \in [Goroutine -> {"nil", "error"}]
  /\ \A g \in Goroutine :
        /\ told[g] \in Seq(Failure \cup {"callback"})
        /\ Len(told[g]) <= 2
  /\ inner \in [Goroutine -> Failure \cup {"none", "ok"}]
  /\ broke \in [Goroutine -> SUBSET Place]

RecoveryInit ==
  /\ pc = [g \in Goroutine |-> "idle"]
  /\ result = [g \in Goroutine |-> "nil"]
  /\ told = [g \in Goroutine |-> <<>>]
  /\ inner = [g \in Goroutine |-> "none"]
  /\ broke = [g \in Goroutine |-> {}]

-----------------------------------------------------------------------------

(* The logger asks Enabled first; a parent or a test may not.              *)
Call(g, method) ==
  /\ pc[g] \in Rest
  /\ pc' = [pc EXCEPT ![g] = method]
  /\ result' = [result EXCEPT ![g] = "nil"]
  /\ told' = [told EXCEPT ![g] = <<>>]
  /\ inner' = [inner EXCEPT ![g] = "none"]
  /\ broke' = [broke EXCEPT ![g] = {}]

(* Enabled is the wrapped handler's own, panics included.                  *)
Enabled(g) ==
  /\ pc[g] = "Enabled"
  /\ \E answer \in {"Handle", "dropped", "panicked"} : pc' = [pc EXCEPT ![g] = answer]
  /\ UNCHANGED <<result, told, inner, broke>>

(* Mutants of Handle: a panic is recovered and not told; a panic is not    *)
(* recovered.                                                              *)
HandleQuiet(g, outcome) ==
  /\ pc[g] = "Handle"
  /\ inner' = [inner EXCEPT ![g] = outcome]
  /\ pc' = [pc EXCEPT ![g] = IF outcome = "error" THEN "body" ELSE "returned"]
  /\ told' = IF outcome # "error" THEN told
             ELSE [told EXCEPT ![g] = Append(@, outcome)]
  /\ UNCHANGED <<result, broke>>

HandleUndeferred(g, outcome) ==
  /\ pc[g] = "Handle"
  /\ inner' = [inner EXCEPT ![g] = outcome]
  /\ pc' = [pc EXCEPT ![g] = CASE outcome = "ok" -> "returned"
                               [] outcome = "error" -> "body"
                               [] outcome = "panic" -> "panicked"]
  /\ told' = IF outcome # "error" THEN told
             ELSE [told EXCEPT ![g] = Append(@, outcome)]
  /\ UNCHANGED <<result, broke>>

(* The wrapped Handle comes back: nil and errors to the body, which keeps  *)
(* the error to return it, a panic to the deferred function.  In either    *)
(* case a failure is handed to the callback.                               *)
Handle(g, outcome) ==
  /\ pc[g] = "Handle"
  /\ inner' = [inner EXCEPT ![g] = outcome]
  /\ pc' = [pc EXCEPT ![g] = CASE outcome = "ok" -> "returned"
                               [] outcome = "error" -> "body"
                               [] outcome = "panic" -> "deferred"]
  /\ told' = IF outcome = "ok" THEN told
             ELSE [told EXCEPT ![g] = Append(@, outcome)]
  /\ UNCHANGED <<result, broke>>

(* Mutant of Propagate: the error is handled and dropped.                  *)
PropagateNothing(g) ==
  /\ pc[g] = "body"
  /\ pc' = [pc EXCEPT ![g] = "returned"]
  /\ UNCHANGED <<result, told, inner, broke>>

(* The callback returns to the body, which returns the error.              *)
Propagate(g) ==
  /\ pc[g] = "body"
  /\ pc' = [pc EXCEPT ![g] = "returned"]
  /\ result' = [result EXCEPT ![g] = "error"]
  /\ UNCHANGED <<told, inner, broke>>

(* The callback panics in the body: err is lost, the deferred function     *)
(* recovers and calls the callback again, with what it panicked with.      *)
RecoveryPanics(g) ==
  /\ pc[g] = "body"
  /\ pc' = [pc EXCEPT ![g] = "deferred"]
  /\ told' = [told EXCEPT ![g] = Append(@, "callback")]
  /\ broke' = [broke EXCEPT ![g] = @ \cup {"body"}]
  /\ UNCHANGED <<result, inner>>

(* Mutant of Recovered: a callback that panics is called until it returns. *)
RecoveredRetries(g) ==
  /\ pc[g] = "deferred"
  /\ \/ /\ pc' = [pc EXCEPT ![g] = "returned"]
        /\ UNCHANGED <<told, broke>>
     \/ /\ told' = [told EXCEPT ![g] = Append(@, "callback")]
        /\ broke' = [broke EXCEPT ![g] = @ \cup {"deferred"}]
        /\ UNCHANGED pc
  /\ UNCHANGED <<result, inner>>

(* The deferred function ends: the result was never assigned and is nil,   *)
(* or the callback panics again and nothing is left to recover from that.  *)
Recovered(g) ==
  /\ pc[g] = "deferred"
  /\ \/ /\ pc' = [pc EXCEPT ![g] = "returned"]
        /\ UNCHANGED broke
     \/ /\ pc' = [pc EXCEPT ![g] = "panicked"]
        /\ broke' = [broke EXCEPT ![g] = @ \cup {"deferred"}]
  /\ UNCHANGED <<result, told, inner>>

RecoveryNext ==
  \E g \in Goroutine :
     \/ \E method \in {"Enabled", "Handle"} : Call(g, method)
     \/ Enabled(g)
     \/ \E outcome \in Failure \cup {"ok"} : Handle(g, outcome)
     \/ Propagate(g)
     \/ RecoveryPanics(g)
     \/ Recovered(g)

RecoverySpec == RecoveryInit /\ [][RecoveryNext]_recoveryVars

-----------------------------------------------------------------------------

(* Nothing fails unheard and nothing is made up: by the time Handle comes  *)
(* back, by return or by panic, the callback was called first with the     *)
(* handler's own failure, and a second time only about its own panic.      *)
CallbackHearsEveryFailure ==
  \A g \in Goroutine : pc[g] \in {"returned", "panicked"} =>
     told[g] = (IF inner[g] \in Failure THEN <<inner[g]>> ELSE <<>>)
               \o (IF "body" \in broke[g] THEN <<"callback">> ELSE <<>>)

(* "This ensures that logging errors don't crash the application": once    *)
(* Handle has begun, a panic leaves it only if the callback panicked, and  *)
(* did so in the deferred function.                                        *)
PanicsAreContained ==
  \A g \in Goroutine : pc[g] = "panicked" /\ inner[g] # "none" =>
     "deferred" \in broke[g] /\ (inner[g] = "error" => "body" \in broke[g])

(* "Propagating the original error": an error of the handler that went     *)
(* through a callback which came back is what the caller of Handle, a      *)
(* failover for instance, gets.                                            *)
ErrorsPropagate ==
  \A g \in Goroutine :
     pc[g] = "returned" /\ inner[g] = "error" /\ broke[g] = {} => result[g] = "error"

(* "The error from the underlying handler (never nil if an error           *)
(* occurred)": Handle returns nil only if nothing went wrong.              *)
NeverNilIfErrorOccurred ==
  \A g \in Goroutine : pc[g] = "returned" /\ inner[g] \in Failure =>
     result[g] = "error"
=============================================================================
