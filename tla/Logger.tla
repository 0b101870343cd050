------------------------------- MODULE Logger -------------------------------
(***************************************************************************)
(* A composition of handlers in use: it is built, loggers are derived from *)
(* it with attributes and groups, records are logged.  Build and Nodes     *)
(* follow the tree of handlers as its methods do, and are closed like      *)
(* them: see HandlerTree.                                                  *)
(***************************************************************************)
EXTENDS HandlerTree

CONSTANTS
  Compositions,    \* the compositions to build
  Additions,       \* the attribute lists given to WithAttrs, in the order of their use
  Groups,          \* the names given to WithGroup
  Records,         \* the records logged
  Values,          \* the values of attributes
  RoutePredicates, \* the predicates of routes
  Moods,           \* what the user's handlers may do
  Draws,           \* what the pools may draw
  MaxSteps,        \* bound: the length of a derivation
  MaxDepth,        \* bound: the levels of a composition
  Build(_),        \* the handler the constructors make of a composition
  Nodes(_)         \* a handler and all the handlers in it

VARIABLES
  made,    \* the composition as the user wrote it
  steps,   \* what was derived since
  handler, \* the handler in use
  event    \* the last record logged and what came of it, or the empty tuple

vars == <<made, steps, handler, event>>

BuildOf(c) ==
  CASE c.kind = "fanout"     -> Fanout(MapOver(c.handlers, Build))
    [] c.kind = "firstmatch" -> FirstMatch(MapOver(c.handlers, Build))
    [] c.kind \in {"failover", "pool"} -> [c EXCEPT !.handlers = MapOver(@, Build)]
    [] c.kind \in {"route", "recovery"} -> [c EXCEPT !.handler = Build(@)]
    [] c.kind = "middleware" -> [c EXCEPT !.next = Build(@)]
    [] OTHER -> c

NodesOf(h) ==
  {h} \cup CASE h.kind \in {"sink", "inline"}    -> {}
             [] h.kind \in {"route", "recovery"} -> Nodes(h.handler)
             [] h.kind = "middleware"            -> Nodes(h.next)
             [] OTHER -> UNION {Nodes(h.handlers[i]) : i \in DOMAIN h.handlers}

Leaves(h) == {n \in Nodes(h) : n.kind \in {"sink", "inline"}}
Routes(h) == {n \in Nodes(h) : n.kind = "route"}
Pools(h) == {n \in Nodes(h) : n.kind = "pool"}
(* The handlers of h that say themselves whether they are enabled.         *)
Deciding(h) == {n \in Leaves(h) : n.kind = "inline" => n.enabledFunc}
Names(nodes) == {n.name : n \in nodes}

-----------------------------------------------------------------------------
(* The compositions: handlers of handlers, as deep as MaxDepth.            *)

Plain(attr) == \E value \in Values : attr.leaves = {[path |-> <<>>, value |-> value]}

Attribute ==
  {attr \in [key : STRING, leaves : SUBSET [path : Seq(STRING), value : Values]] :
     Plain(attr) \/ IsGroup(attr)}

(* What WithAttrs is called with: some attributes, none of them a group.   *)
Addition == Seq({attr \in Attribute : Plain(attr)}) \ {<<>>}

UsersHandlers ==
  [kind : {"sink"}, name : STRING, groups : Seq(STRING), attrs : Seq(Attribute)]
  \cup [kind : {"inline"}, name : STRING, enabledFunc : BOOLEAN,
        groups : Seq(STRING), attrs : Seq(Attribute)]

RoutesTo(handlers) ==
  [kind : {"route"}, predicates : Seq(RoutePredicates), handler : handlers,
   groups : Seq(STRING), attrs : Seq(Attribute), skipPredicates : BOOLEAN]

Over(handlers) ==
  [kind : {"fanout", "failover"}, handlers : Seq(handlers)]
  \cup [kind : {"pool"}, name : STRING, handlers : Seq(handlers)]
  \cup RoutesTo(handlers)
  \cup [kind : {"firstmatch"}, handlers : Seq(RoutesTo(handlers))]
  \cup [kind : {"recovery"}, handler : handlers]
  \cup [kind : {"middleware"}, hooks : SUBSET Methods, next : handlers]

Tree[n \in Nat] == IF n = 0 THEN UsersHandlers ELSE Tree[n - 1] \cup Over(Tree[n - 1])

Handlers == UNION {Tree[n] : n \in Nat}

(* The operators that follow the tree are what their definitions say.      *)
Recursion ==
  /\ DynamicDispatch(Handlers)
  /\ \A h \in Handlers : Build(h) = BuildOf(h) /\ Nodes(h) = NodesOf(h)

(* A composition is made of handlers that nothing was derived from yet,    *)
(* and a name stands for one of the user's handlers.                       *)
Composition(c) ==
  /\ c \in Tree[MaxDepth]
  /\ \A n \in Leaves(c) \cup Routes(c) : n.groups = <<>> /\ n.attrs = <<>>
  /\ \A n \in Leaves(c) : n.name \notin {"predicates", "callback"}
  /\ \A m, n \in Leaves(c) : m.name = n.name => m = n

SaysAll(p) == p.is \in {"AttrValueIs", "AttrKindIs"}

ASSUME LoggerAssumption ==
  /\ MaxDepth \in Nat
  /\ \A c \in Compositions : Composition(c)
  /\ MaxSteps \in Nat /\ MaxSteps <= Len(Additions)
  /\ Additions \in Seq(Addition) /\ Mark \in Addition
  /\ Groups \subseteq STRING
  /\ \A r \in Records : r = Record(r.level, r.message, r.attrs) /\ r.attrs \in Seq(Attribute)
  /\ \A p \in RoutePredicates : SaysAll(p) => p.arg \in Seq({p.arg[i] : i \in DOMAIN p.arg})
  /\ Moods \subseteq {"ok", "error", "panic", "off"}
  /\ Draws \subseteq Nat

-----------------------------------------------------------------------------

AttrsStep(attrs) == [step |-> "attrs", attrs |-> attrs]
GroupStep(name) == [step |-> "group", name |-> name]

(* What the user's handlers in h may do and the pools in it may draw.      *)
Environments(h) ==
  LET silent == Names(Leaves(h)) \ Names(Deciding(h))
  IN  [mood  : {m \in [Names(Leaves(h)) -> Moods] : \A name \in silent : m[name] # "off"},
       start : [Names(Pools(h)) -> Draws]]

Init ==
  /\ made \in Compositions
  /\ steps = <<>>
  /\ handler = Build(made)
  /\ event = <<>>

With ==
  LET attrs == Additions[Cardinality({i \in DOMAIN steps : steps[i].step = "attrs"}) + 1]
  IN  /\ Len(steps) < MaxSteps
      /\ handler' = WithAttrs(handler, attrs)
      /\ steps' = Append(steps, AttrsStep(attrs))
      /\ event' = <<>>
      /\ UNCHANGED made

WithName(name) ==
  /\ name # "" => Len(steps) < MaxSteps
  /\ handler' = WithGroup(handler, name)
  /\ steps' = IF name = "" THEN steps ELSE Append(steps, GroupStep(name))
  /\ event' = <<>>
  /\ UNCHANGED made

(* slog.Logger asks Enabled and calls Handle if the answer is yes.         *)
Log(r, env) ==
  /\ event = <<>>
  /\ event' = [record |-> r, env |-> env,
               outcome |-> IF Enabled(handler, env) THEN Handle(handler, r, env) ELSE Nothing]
  /\ UNCHANGED <<made, steps, handler>>

Next ==
  \/ With
  \/ \E name \in Groups : WithName(name)
  \/ \E r \in Records, env \in Environments(made) : Log(r, env)

Spec == Init /\ [][Next]_vars

-----------------------------------------------------------------------------

(* No middleware answers Enabled in the place of the handlers behind it.   *)
EnabledIsTheirs(h) ==
  \A n \in Nodes(h) : n.kind = "middleware" => "Enabled" \notin n.hooks

TypeOK ==
  /\ made \in Compositions
  /\ Len(steps) <= MaxSteps
  /\ handler.kind \in {"sink", "inline", "fanout", "failover", "pool", "route",
                       "firstmatch", "recovery", "middleware"}
  /\ event = <<>> \/ event.outcome.result \in {"ok", "error", "panic"}

Called(leaf) == \E i \in DOMAIN event.outcome.calls : event.outcome.calls[i].to = leaf.name

(* A handler as it is when no middleware in it adds anything.              *)
Unmarked(h) == \A n \in Nodes(h) : n.kind = "middleware" => n.hooks \subseteq {"Enabled"}

(* Whether values have one path, or one of them is below the other.        *)
Clash(path, other) == IsPrefix(path, other) \/ IsPrefix(other, path)

(* What counts of the attributes a handler writes: of values that clash    *)
(* the later.                                                              *)
Latest(attrs) ==
  UNION {{leaf \in Written(attrs[i]) :
            \A j \in i + 1 .. Len(attrs) : \A later \in Written(attrs[j]) :
               ~ Clash(leaf.path, later.path)} : i \in DOMAIN attrs}

(* A route's predicates decide on what is logged: the attributes they see, *)
(* which the route keeps on its own and groups by itself, are those that   *)
(* the user's handlers behind it write, value by value and path by path,   *)
(* through all the composites and wrappers in between, except that of the  *)
(* values added for one key they see the last alone.                       *)
PredicatesSeeWhatIsLogged ==
  event = <<>> => \A h \in Routes(handler) : Unmarked(h.handler) =>
     \A n \in Leaves(h.handler), r \in Records : n.kind = "sink" =>
        Logged(Seen(h, r).attrs) = Latest(n.attrs) \cup Logged(NestAll(n.groups, r.attrs))

(* A handler that is off gets no record through any composition, although  *)
(* each level of it asks Enabled on its own.                               *)
DisabledHearNothing ==
  event # <<>> /\ EnabledIsTheirs(made) =>
     \A h \in Deciding(made) : Called(h) => event.env.mood[h.name] # "off"

(* A composition without routes that says it is enabled has somebody who   *)
(* takes the record, and one that says it is not has nobody who would.     *)
EnabledIsKept ==
  event # <<>> /\ EnabledIsTheirs(made) /\ Routes(made) = {} =>
     (\E h \in Leaves(made) : Called(h)) <=>
     (\E h \in Leaves(made) : event.env.mood[h.name] # "off")

MeansAll(p, attrs) ==
  IF p.is = "AttrValueIs" THEN HasAllValues(MapOf(p.arg), attrs)
                          ELSE HasAllKinds(MapOf(p.arg), attrs)

(* AttrValueIs and AttrKindIs, which count, hold for the records that have *)
(* all the specified attributes, as long as no key occurs twice.           *)
DistinctAttrsAreAllThere ==
  event = <<>> => \A h \in Routes(handler), r \in Records :
     LET seen == Seen(h, r)
     IN  DistinctKeys(seen.attrs) =>
            \A i \in DOMAIN h.predicates :
               SaysAll(h.predicates[i]) =>
                  (Holds(h.predicates[i], seen) <=> MeansAll(h.predicates[i], seen.attrs))

(* "checks if the record has all specified attributes with exact values"   *)
(* (router_predicate.go): a record that gets through has them all.         *)
MatchHasAllAttributes ==
  event = <<>> => \A h \in Routes(handler), r \in Records :
     LET seen == Seen(h, r)
     IN  \A i \in DOMAIN h.predicates :
            SaysAll(h.predicates[i]) /\ Holds(h.predicates[i], seen) =>
               MeansAll(h.predicates[i], seen.attrs)
=============================================================================
