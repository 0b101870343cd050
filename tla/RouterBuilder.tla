---------------------------- MODULE RouterBuilder ---------------------------
(***************************************************************************)
(* Building a router.  Add and FirstMatch return a new router and leave    *)
(* the old one usable, but the new one keeps the old one's slice: routers  *)
(* derived from one another share a backing array.  Handler copies.        *)
(*                                                                         *)
(* Routes are numbered as they are added.  added, ancestors and parent are *)
(* history: what a router was given and the routers it was derived from.   *)
(***************************************************************************)
EXTENDS Integers, Sequences, FiniteSets

CONSTANTS
  MaxRoutes,    \* bound on the calls of Add
  MaxRouters,   \* bound on the routers, the first one included
  MaxHandlers   \* bound on the calls of Handler

ASSUME RouterAssumption ==
  MaxRoutes \in Nat /\ MaxRouters \in Nat \ {0} /\ MaxHandlers \in Nat

INSTANCE GoSlice WITH Empty <- 0

VARIABLES
  heap,      \* the backing arrays
  routers,   \* every router value the program holds
  handlers,  \* every handler built from one
  routes     \* the number of routes added so far

vars == <<heap, routers, handlers, routes>>

IsSlice(s) == /\ s.array \in DOMAIN heap
              /\ s.len \in 0 .. Len(heap[s.array])

TypeOK ==
  /\ routes \in 0 .. MaxRoutes
  /\ \A a \in DOMAIN heap : heap[a] \in Seq(0 .. routes)
  /\ Len(routers) \in 1 .. MaxRouters
  /\ \A r \in DOMAIN routers :
        /\ IsSlice(routers[r].slice)
        /\ routers[r].firstMatch \in BOOLEAN
        /\ routers[r].added \in Seq(1 .. routes)
        /\ routers[r].ancestors \subseteq 1 .. r - 1
  /\ Len(handlers) \in 0 .. MaxHandlers
  /\ \A h \in DOMAIN handlers :
        /\ IsSlice(handlers[h].slice)
        /\ handlers[h].router \in DOMAIN routers

(* Router(): an empty slice, and its array has no room.                    *)
NewRouter(s) ==
  [slice |-> s, firstMatch |-> FALSE, added |-> <<>>, ancestors |-> {}, parent |-> 0]

Init ==
  /\ heap = <<<<>>>>
  /\ routers = <<NewRouter(Slice(1, 0))>>
  /\ handlers = <<>>
  /\ routes = 0

-----------------------------------------------------------------------------

(* A router derived from router r.                                         *)
Derive(r, s, firstMatch, added) ==
  Append(routers, [slice |-> s, firstMatch |-> firstMatch, added |-> added,
                   ancestors |-> routers[r].ancestors \cup {r}, parent |-> r])

Add(r) ==
  LET s == routers[r].slice
  IN  /\ routes < MaxRoutes /\ Len(routers) < MaxRouters
      /\ routes' = routes + 1
      /\ heap' = HeapAfterAppend(heap, s, routes + 1)
      /\ routers' = Derive(r, SliceAfterAppend(heap, s), routers[r].firstMatch,
                           Append(routers[r].added, routes + 1))
      /\ UNCHANGED handlers

(* Mutant of FirstMatch: the handlers are not taken over.                  *)
FirstMatchEmpty(r) ==
  /\ Len(routers) < MaxRouters
  /\ routers' = Derive(r, Slice(1, 0), TRUE, routers[r].added)
  /\ UNCHANGED <<heap, handlers, routes>>

FirstMatch(r) ==
  /\ Len(routers) < MaxRouters
  /\ routers' = Derive(r, routers[r].slice, TRUE, routers[r].added)
  /\ UNCHANGED <<heap, handlers, routes>>

(* Mutants of Handler: the handler keeps the router's slice; the copy is   *)
(* one longer than what was copied.                                        *)
HandlerShared(r) ==
  /\ Len(handlers) < MaxHandlers
  /\ handlers' = Append(handlers, [slice |-> routers[r].slice, router |-> r])
  /\ UNCHANGED <<heap, routers, routes>>

HandlerLonger(r) ==
  LET copied == Contents(heap, routers[r].slice)
  IN  /\ Len(handlers) < MaxHandlers
      /\ heap' = Allocate(heap, copied)
      /\ handlers' = Append(handlers,
            [slice |-> Slice(Len(heap) + 1, Len(copied) + 1), router |-> r])
      /\ UNCHANGED <<routers, routes>>

(* In both modes the handler gets a slice of its own: lo.Map copies for    *)
(* FirstMatch, the flattening loop for Fanout.                             *)
Handler(r) ==
  LET copied == Contents(heap, routers[r].slice)
  IN  /\ Len(handlers) < MaxHandlers
      /\ heap' = Allocate(heap, copied)
      /\ handlers' = Append(handlers, [slice |-> Allocated(heap, copied), router |-> r])
      /\ UNCHANGED <<routers, routes>>

Next == \E r \in DOMAIN routers : Add(r) \/ FirstMatch(r) \/ Handler(r)

Spec == Init /\ [][Next]_vars

-----------------------------------------------------------------------------

(* Router r was derived along a line: nothing else was derived from the    *)
(* routers it comes from.                                                  *)
Linear(r) ==
  \A a \in routers[r].ancestors :
     Cardinality({d \in DOMAIN routers : routers[d].parent = a}) = 1

(* The fluent style Router().Add(...).Add(...).FirstMatch().Handler() is   *)
(* safe: along such a chain neither a router nor a handler built from it   *)
(* ever loses or swaps a route, through every growth of the array and      *)
(* whatever is derived elsewhere.                                          *)
ChainsKeepTheirRoutes ==
  /\ \A r \in DOMAIN routers :
        Linear(r) => Contents(heap, routers[r].slice) = routers[r].added
  /\ \A h \in DOMAIN handlers :
        LET r == handlers[h].router
        IN  Linear(r) => Contents(heap, handlers[h].slice) = routers[r].added

(* A handler in use is frozen: deriving more routers from the one it was   *)
(* built from, in any order, never changes where it sends records.         *)
BuiltHandlersAreFrozen ==
  [][\A h \in DOMAIN handlers :
        /\ handlers'[h] = handlers[h]
        /\ Contents(heap', handlers[h].slice) = Contents(heap, handlers[h].slice)]_vars

(* "Add registers a new handler with optional predicates to the router":   *)
(* the router Add returns has every handler that was registered with it.   *)
AddRegistersTheHandler ==
  \A r \in DOMAIN routers : Contents(heap, routers[r].slice) = routers[r].added
=============================================================================
