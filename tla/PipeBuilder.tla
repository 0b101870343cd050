----------------------------- MODULE PipeBuilder ----------------------------
(***************************************************************************)
(* Building a middleware chain.  A PipeBuilder is mutable: its method Pipe *)
(* appends to a slice that may be the caller's own, and Handler empties it *)
(* while it wraps the final handler.  A middleware is the user's function  *)
(* and may panic, which abandons the build half way.                       *)
(*                                                                         *)
(* Middlewares are numbered as they are made; what a built handler does to *)
(* a record is the sequence of its middlewares, outermost first.  given,   *)
(* spread, drained and broken are history: what a builder was given since  *)
(* it was last emptied, whether its slice came from the caller, whether    *)
(* Handler has emptied it, whether a build panicked.                       *)
(***************************************************************************)
EXTENDS Integers, Sequences

CONSTANTS
  MaxMiddlewares,  \* bound on the middlewares made
  MaxBuilders,     \* bound on the calls of Pipe
  MaxHandlers      \* bound on the handlers built

ASSUME PipeAssumption ==
  MaxMiddlewares \in Nat \ {0, 1} /\ MaxBuilders \in Nat /\ MaxHandlers \in Nat

Unwritten == 0

INSTANCE GoSlice WITH Empty <- Unwritten

VARIABLES
  heap,      \* the backing arrays
  owned,     \* a slice the caller built, with room to spare or not
  builders,  \* every PipeBuilder
  handlers,  \* every handler built
  build,     \* the call of Handler in progress
  made       \* the number of middlewares made so far

vars == <<heap, owned, builders, handlers, build, made>>

NoBuild == [builder |-> 0, chain |-> <<>>]

IsSlice(s) == /\ s.array \in DOMAIN heap
              /\ s.len \in 0 .. Len(heap[s.array])

TypeOK ==
  /\ made \in 0 .. MaxMiddlewares
  /\ \A a \in DOMAIN heap : heap[a] \in Seq(0 .. made)
  /\ IsSlice(owned)
  /\ Len(builders) \in 0 .. MaxBuilders
  /\ \A b \in DOMAIN builders :
        /\ IsSlice(builders[b].slice)
        /\ builders[b].given \in Seq(1 .. made)
        /\ {builders[b].spread, builders[b].drained, builders[b].broken} \subseteq BOOLEAN
  /\ Len(handlers) \in 0 .. MaxHandlers
  /\ \A h \in DOMAIN handlers :
        handlers[h].chain \in Seq(1 .. made)
  /\ build.builder \in 0 .. Len(builders)
  /\ build.chain \in Seq(1 .. made)

(* The caller's slice holds two middlewares.                               *)
OwnedMiddlewares == <<1, 2>>

Init ==
  /\ \E spare \in {<<>>, <<Unwritten>>} : heap = <<OwnedMiddlewares \o spare>>
  /\ owned = Slice(1, 2)
  /\ builders = <<>>
  /\ handlers = <<>>
  /\ build = NoBuild
  /\ made = 2

-----------------------------------------------------------------------------

NewBuilder(s, middlewares, spread) ==
  [slice |-> s, given |-> middlewares, spread |-> spread, drained |-> FALSE,
   broken |-> FALSE]

(* Pipe(m1, ..., mn): the variadic call allocates the array.               *)
Pipe(n) ==
  LET middlewares == [i \in 1 .. n |-> made + i]
  IN  /\ build = NoBuild
      /\ Len(builders) < MaxBuilders /\ made + n <= MaxMiddlewares
      /\ heap' = Allocate(heap, middlewares)
      /\ builders' = Append(builders,
                        NewBuilder(Allocated(heap, middlewares), middlewares, FALSE))
      /\ made' = made + n
      /\ UNCHANGED <<owned, handlers, build>>

(* Pipe(s...): the builder keeps the caller's slice.                       *)
PipeSpread ==
  /\ build = NoBuild
  /\ Len(builders) < MaxBuilders
  /\ builders' = Append(builders, NewBuilder(owned, Contents(heap, owned), TRUE))
  /\ UNCHANGED <<heap, owned, handlers, build, made>>

(* Mutant of PipeAdd: the middleware replaces the first one.               *)
PipeAddInFront(b) ==
  LET s == builders[b].slice
      middleware == made + 1
  IN  /\ build = NoBuild
      /\ middleware <= MaxMiddlewares
      /\ heap' = HeapAfterAppend(heap, Slice(s.array, 0), middleware)
      /\ builders' = [builders EXCEPT
            ![b].given = Append(@, middleware)]
      /\ made' = middleware
      /\ UNCHANGED <<owned, handlers, build>>

(* The method Pipe of builder b.                                           *)
PipeAdd(b) ==
  LET s == builders[b].slice
      middleware == made + 1
  IN  /\ build = NoBuild
      /\ middleware <= MaxMiddlewares
      /\ heap' = HeapAfterAppend(heap, s, middleware)
      /\ builders' = [builders EXCEPT
            ![b].slice = SliceAfterAppend(heap, s),
            ![b].given = Append(@, middleware)]
      /\ made' = middleware
      /\ UNCHANGED <<owned, handlers, build>>

Handler(b) ==
  /\ build = NoBuild
  /\ Len(handlers) < MaxHandlers
  /\ build' = [builder |-> b, chain |-> <<>>]
  /\ UNCHANGED <<heap, owned, builders, handlers, made>>

(* Mutants of HandlerWrap: two middlewares are cut off for each that is    *)
(* applied; the chain is wrapped the other way round.                      *)
HandlerWrapCuts ==
  LET b == build.builder
      s == builders[b].slice
  IN  /\ build # NoBuild
      /\ s.len > 0
      /\ build' = [build EXCEPT !.chain = <<heap[s.array][s.len]>> \o @]
      /\ builders' = [builders EXCEPT ![b].slice.len = @ - 2]
      /\ UNCHANGED <<heap, owned, handlers, made>>

HandlerWrapInside ==
  LET b == build.builder
      s == builders[b].slice
  IN  /\ build # NoBuild
      /\ s.len > 0
      /\ build' = [build EXCEPT !.chain = @ \o <<heap[s.array][s.len]>>]
      /\ builders' = [builders EXCEPT ![b].slice.len = @ - 1]
      /\ UNCHANGED <<heap, owned, handlers, made>>

(* One turn of the loop takes the last middleware off the builder and      *)
(* wraps the handler in it; if the middleware panics, it is off all the    *)
(* same and the caller has no handler.                                     *)
HandlerWrap ==
  LET b == build.builder
      s == builders[b].slice
      middleware == heap[s.array][s.len]
  IN  /\ build # NoBuild
      /\ s.len > 0
      /\ \/ /\ build' = [build EXCEPT !.chain = <<middleware>> \o @]
            /\ builders' = [builders EXCEPT ![b].slice.len = @ - 1]
         \/ /\ build' = NoBuild
            /\ builders' = [builders EXCEPT ![b].slice.len = @ - 1, ![b].broken = TRUE]
      /\ UNCHANGED <<heap, owned, handlers, made>>

HandlerReturn ==
  LET b == build.builder
  IN  /\ build # NoBuild
      /\ builders[b].slice.len = 0
      /\ handlers' = Append(handlers,
           [chain |-> build.chain, given |-> builders[b].given,
            spread |-> builders[b].spread, broken |-> builders[b].broken])
      /\ builders' = [builders EXCEPT ![b].given = <<>>, ![b].drained = TRUE]
      /\ build' = NoBuild
      /\ UNCHANGED <<heap, owned, made>>

Next ==
  \/ \E n \in 0 .. MaxMiddlewares : Pipe(n)
  \/ PipeSpread
  \/ \E b \in DOMAIN builders : PipeAdd(b) \/ Handler(b)
  \/ HandlerWrap
  \/ HandlerReturn

Spec == Init /\ [][Next]_vars

-----------------------------------------------------------------------------

(* A builder over a list of its own whose middlewares never panic builds,  *)
(* each time, the chain of what was added since it was last emptied, the   *)
(* first added outermost; other builders and the caller cannot disturb it. *)
PrivateBuildsAreExact ==
  \A h \in DOMAIN handlers :
     ~ handlers[h].spread /\ ~ handlers[h].broken =>
        handlers[h].chain = handlers[h].given

(* The caller's slice is not written through a builder that got it with    *)
(* Pipe(s...), unless that builder is added to after Handler emptied it or *)
(* after a panic cut it short.                                             *)
CallersSliceIsKept ==
  (\A b \in DOMAIN builders : builders[b].spread =>
      ~ builders[b].drained /\ ~ builders[b].broken)
   => Contents(heap, owned) = OwnedMiddlewares
=============================================================================
