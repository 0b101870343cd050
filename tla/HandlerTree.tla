----------------------------- MODULE HandlerTree ----------------------------
(***************************************************************************)
(* Handlers composed of handlers, as values: how each of them answers      *)
(* Enabled, what its Handle makes happen, and what WithAttrs and WithGroup *)
(* derive from it.  A call runs on one goroutine from beginning to end;    *)
(* what other goroutines do in between is the subject of Dispatch and the  *)
(* modules on top of it.                                                   *)
(*                                                                         *)
(* Handlers know each other as slog.Handler.  Its four methods are         *)
(* CONSTANT operators here, as the code calls them without knowing the     *)
(* type; what the method of each type does is defined, and DynamicDispatch *)
(* says that a call runs the method of the handler's type.                 *)
(*                                                                         *)
(* env is what the user's code does during a call: mood[name] is "off" for *)
(* a handler that is not enabled, or how its Handle ends ("ok", "error" or *)
(* "panic"), and start[name] is the number that pool draws.                *)
(***************************************************************************)
EXTENDS Predicates

CONSTANTS Enabled(_, _), Handle(_, _, _), WithAttrs(_, _), WithGroup(_, _)

(* The result of Handle: the user code it called, in order, and its end.   *)
Outcome(calls, result) == [calls |-> calls, result |-> result]
Nothing == Outcome(<<>>, "ok")

try(outcome) == IF outcome.result = "panic" THEN [outcome EXCEPT !.result = "error"] ELSE outcome

MapOver(handlers, F(_)) == [i \in DOMAIN handlers |-> F(handlers[i])]

(* Mutant of AnyEnabled: the first handler answers for all of them.        *)
FirstEnabled(h, env) == h.handlers # <<>> /\ Enabled(h.handlers[1], env)

AnyEnabled(h, env) == \E i \in DOMAIN h.handlers : Enabled(h.handlers[i], env)

(* Mutant of Turns: nobody is asked whether it is enabled.                 *)
TurnsOfAll(handlers, r, env) == MapOver(handlers, LAMBDA h : try(Handle(h, r, env)))

(* What each of the handlers does if it is its turn.                       *)
Turns(handlers, r, env) ==
  LET Turn(h) == IF Enabled(h, env) THEN try(Handle(h, r, env)) ELSE Nothing
  IN  MapOver(handlers, Turn)

(* Mutant of End: a handler that is off has no result.                     *)
EndOfEnabled(name, env) == env.mood[name]

(* A handler that is off handles what it is given nevertheless.            *)
End(name, env) == IF env.mood[name] = "off" THEN "ok" ELSE env.mood[name]

CallsOf(outcomes) == FlattenSeq(MapOver(outcomes, LAMBDA o : o.calls))

-----------------------------------------------------------------------------
(* The handlers at the end: Sink stands for the user's handlers, which     *)
(* write attributes in the groups that are open when they are added.       *)

Sink(name) == [kind |-> "sink", name |-> name, groups |-> <<>>, attrs |-> <<>>]

(* A user's Handle is called with the record; what was derived it knows.   *)
UsersHandle(h, r, env) ==
  Outcome(<<[to |-> h.name, groups |-> h.groups, attrs |-> h.attrs, record |-> r]>>,
          End(h.name, env))

SinkWithAttrs(h, attrs) == [h EXCEPT !.attrs = @ \o NestAll(h.groups, attrs)]

SinkWithGroup(h, name) == IF name = "" THEN h ELSE [h EXCEPT !.groups = Append(@, name)]

(* Inline handlers keep groups and attributes apart.  enabledFunc is the   *)
(* user's; a HandleInlineHandler has none and is enabled always, and is an *)
(* InlineHandler for the rest.                                             *)
InlineHandler(name) ==
  [kind |-> "inline", name |-> name, enabledFunc |-> TRUE, groups |-> <<>>, attrs |-> <<>>]

HandleInlineHandler(name) == [InlineHandler(name) EXCEPT !.enabledFunc = FALSE]

InlineEnabled(h, env) == h.enabledFunc => env.mood[h.name] # "off"

InlineHandle(h, r, env) == UsersHandle(h, r, env)

InlineWithAttrs(h, attrs) == [h EXCEPT !.attrs = @ \o attrs]

InlineWithGroup(h, name) == IF name = "" THEN h ELSE [h EXCEPT !.groups = Append(@, name)]

-----------------------------------------------------------------------------
(* Fan-out.                                                                *)

FanoutHandler(handlers) == [kind |-> "fanout", handlers |-> handlers]

Fanout(handlers) ==
  LET flat == FlattenSeq(MapOver(handlers,
                 LAMBDA h : IF h.kind = "fanout" THEN h.handlers ELSE <<h>>))
  IN  IF Len(flat) = 1 THEN flat[1] ELSE FanoutHandler(flat)

FanoutHandle(h, r, env) ==
  LET turns == Turns(h.handlers, r, env)
  IN  Outcome(CallsOf(turns),
              IF \E i \in DOMAIN turns : turns[i].result = "error" THEN "error" ELSE "ok")

FanoutWithAttrs(h, attrs) == Fanout(MapOver(h.handlers, LAMBDA c : WithAttrs(c, attrs)))

FanoutWithGroup(h, name) ==
  IF name = "" THEN h ELSE Fanout(MapOver(h.handlers, LAMBDA c : WithGroup(c, name)))

-----------------------------------------------------------------------------
(* Failover and pool: the first success ends the loop, the last failure is *)
(* returned.                                                               *)

FirstSuccess(handlers, r, env) ==
  LET turns == Turns(handlers, r, env)
      asked == {i \in DOMAIN turns : Enabled(handlers[i], env)}
      taken == {i \in asked : turns[i].result = "ok"}
  IN  IF taken = {}
      THEN Outcome(CallsOf(turns), IF asked = {} THEN "ok" ELSE "error")
      ELSE Outcome(CallsOf(SubSeq(turns, 1, Min(taken))), "ok")

Failover(handlers) == [kind |-> "failover", handlers |-> handlers]

FailoverHandle(h, r, env) == FirstSuccess(h.handlers, r, env)

FailoverWithAttrs(h, attrs) == Failover(MapOver(h.handlers, LAMBDA c : WithAttrs(c, attrs)))

FailoverWithGroup(h, name) ==
  IF name = "" THEN h ELSE Failover(MapOver(h.handlers, LAMBDA c : WithGroup(c, name)))

(* The name says which pool it is, and so what it draws.                   *)
Pool(name, handlers) == [kind |-> "pool", name |-> name, handlers |-> handlers]

PoolHandle(h, r, env) ==
  LET n == Len(h.handlers)
      order == [j \in 1 .. n |-> h.handlers[((env.start[h.name] + j - 1) % n) + 1]]
  IN  FirstSuccess(order, r, env)

PoolWithAttrs(h, attrs) ==
  Pool(h.name, MapOver(h.handlers, LAMBDA c : WithAttrs(c, attrs)))

PoolWithGroup(h, name) ==
  IF name = "" THEN h ELSE Pool(h.name, MapOver(h.handlers, LAMBDA c : WithGroup(c, name)))

-----------------------------------------------------------------------------
(* Routes.                                                                 *)

RoutableHandler(handler, predicates) ==
  [kind |-> "route", predicates |-> predicates, handler |-> handler,
   groups |-> <<>>, attrs |-> <<>>, skipPredicates |-> FALSE]

(* The record as the predicates of the route see it.                       *)
Seen(h, r) == [r EXCEPT !.attrs = AppendRecordAttrsToAttrs(h.attrs, h.groups, r)]

isMatch(h, r) == \A i \in DOMAIN h.predicates : Holds(h.predicates[i], Seen(h, r))

Asked(h, r) == <<[to |-> "predicates", sees |-> Logged(Seen(h, r).attrs)]>>

RoutableEnabled(h, env) == Enabled(h.handler, env)

RoutableHandle(h, r, env) ==
  IF h.skipPredicates THEN Handle(h.handler, r, env)
  ELSE LET inner == IF isMatch(h, r) THEN Handle(h.handler, r, env) ELSE Nothing
       IN  [inner EXCEPT !.calls = Asked(h, r) \o @]

(* Mutant of RoutableWithAttrs: the groups that are open are forgotten.     *)
RoutableWithAttrsFlat(h, attrs) ==
  [h EXCEPT !.handler = WithAttrs(@, attrs), !.attrs = @ \o attrs]

RoutableWithAttrs(h, attrs) ==
  [h EXCEPT !.handler = WithAttrs(@, attrs),
            !.attrs = AppendAttrsToGroup(h.groups, @, attrs)]

RoutableWithGroup(h, name) ==
  IF name = "" THEN h
  ELSE [h EXCEPT !.handler = WithGroup(@, name), !.groups = Append(@, name)]

FirstMatchHandler(handlers) == [kind |-> "firstmatch", handlers |-> handlers]

FirstMatch(handlers) ==
  FirstMatchHandler(MapOver(handlers, LAMBDA h : [h EXCEPT !.skipPredicates = TRUE]))

FirstMatchHandle(h, r, env) ==
  LET matching == {i \in DOMAIN h.handlers : isMatch(h.handlers[i], r)}
      first    == Min(matching)
      asked    == IF matching = {} THEN h.handlers ELSE SubSeq(h.handlers, 1, first)
      served   == IF matching # {} /\ Enabled(h.handlers[first], env)
                  THEN try(Handle(h.handlers[first], r, env)) ELSE Nothing
  IN  [served EXCEPT !.calls = FlattenSeq(MapOver(asked, LAMBDA c : Asked(c, r))) \o @]

FirstMatchWithAttrs(h, attrs) ==
  FirstMatchHandler(MapOver(h.handlers, LAMBDA c : RoutableWithAttrs(c, attrs)))

FirstMatchWithGroup(h, name) ==
  IF name = "" THEN h
  ELSE FirstMatchHandler(MapOver(h.handlers, LAMBDA c : RoutableWithGroup(c, name)))

-----------------------------------------------------------------------------
(* Recovery.                                                               *)

RecoverHandlerError(handler) == [kind |-> "recovery", handler |-> handler]

RecoveryEnabled(h, env) == Enabled(h.handler, env)

(* A panic is recovered and leaves the result nil.                         *)
RecoveryHandle(h, r, env) ==
  LET inner == Handle(h.handler, r, env)
  IN  IF inner.result = "ok" THEN inner
      ELSE Outcome(Append(inner.calls, [to |-> "callback", record |-> r]),
                   IF inner.result = "panic" THEN "ok" ELSE "error")

RecoveryWithAttrs(h, attrs) == RecoverHandlerError(WithAttrs(h.handler, attrs))

RecoveryWithGroup(h, name) ==
  IF name = "" THEN h ELSE RecoverHandlerError(WithGroup(h.handler, name))

-----------------------------------------------------------------------------
(* Inline middlewares.  Each of the five types has all four methods: the   *)
(* ones in hooks call the user's functions, the others those of next, and  *)
(* both that derive wrap what comes back in the same type again.  The      *)
(* functions here call next and leave a mark, an attribute on the record   *)
(* or on the derived handler; the one for Enabled says yes on its own.     *)
(* None is nil and none answers nil, for which the constructors panic.     *)

Methods == {"Enabled", "Handle", "WithAttrs", "WithGroup"}

Middleware(hooks, next) == [kind |-> "middleware", hooks |-> hooks, next |-> next]

InlineMiddleware(next) == Middleware(Methods, next)

EnabledInlineMiddleware(next) == Middleware({"Enabled"}, next)

HandleInlineMiddleware(next) == Middleware({"Handle"}, next)

WithAttrsInlineMiddleware(next) == Middleware({"WithAttrs"}, next)

WithGroupInlineMiddleware(next) == Middleware({"WithGroup"}, next)

Mark == <<StringAttr("mark", "hooked")>>

MiddlewareEnabled(h, env) == "Enabled" \in h.hooks \/ Enabled(h.next, env)

MiddlewareHandle(h, r, env) ==
  Handle(h.next, IF "Handle" \in h.hooks THEN AddAttrs(r, Mark) ELSE r, env)

MiddlewareWithAttrs(h, attrs) ==
  Middleware(h.hooks,
     WithAttrs(h.next, IF "WithAttrs" \in h.hooks THEN attrs \o Mark ELSE attrs))

(* Mutant of MiddlewareWithGroup: the derived handler is not wrapped.      *)
MiddlewareWithGroupBare(h, name) ==
  IF name = "" THEN h
  ELSE LET next == WithGroup(h.next, name)
       IN  IF "WithGroup" \in h.hooks THEN WithAttrs(next, Mark) ELSE next

MiddlewareWithGroup(h, name) ==
  LET next == WithGroup(h.next, name)
  IN  IF name = "" THEN h
      ELSE Middleware(h.hooks, IF "WithGroup" \in h.hooks THEN WithAttrs(next, Mark) ELSE next)

-----------------------------------------------------------------------------

(* What the methods of each type do.                                       *)

EnabledOf(h, env) ==
  CASE h.kind = "sink"       -> env.mood[h.name] # "off"
    [] h.kind = "inline"     -> InlineEnabled(h, env)
    [] h.kind = "route"      -> RoutableEnabled(h, env)
    [] h.kind = "recovery"   -> RecoveryEnabled(h, env)
    [] h.kind = "middleware" -> MiddlewareEnabled(h, env)
    [] OTHER                 -> AnyEnabled(h, env)

HandleOf(h, r, env) ==
  CASE h.kind = "sink"       -> UsersHandle(h, r, env)
    [] h.kind = "inline"     -> InlineHandle(h, r, env)
    [] h.kind = "fanout"     -> FanoutHandle(h, r, env)
    [] h.kind = "failover"   -> FailoverHandle(h, r, env)
    [] h.kind = "pool"       -> PoolHandle(h, r, env)
    [] h.kind = "route"      -> RoutableHandle(h, r, env)
    [] h.kind = "firstmatch" -> FirstMatchHandle(h, r, env)
    [] h.kind = "recovery"   -> RecoveryHandle(h, r, env)
    [] h.kind = "middleware" -> MiddlewareHandle(h, r, env)

WithAttrsOf(h, attrs) ==
  CASE h.kind = "sink"       -> SinkWithAttrs(h, attrs)
    [] h.kind = "inline"     -> InlineWithAttrs(h, attrs)
    [] h.kind = "fanout"     -> FanoutWithAttrs(h, attrs)
    [] h.kind = "failover"   -> FailoverWithAttrs(h, attrs)
    [] h.kind = "pool"       -> PoolWithAttrs(h, attrs)
    [] h.kind = "route"      -> RoutableWithAttrs(h, attrs)
    [] h.kind = "firstmatch" -> FirstMatchWithAttrs(h, attrs)
    [] h.kind = "recovery"   -> RecoveryWithAttrs(h, attrs)
    [] h.kind = "middleware" -> MiddlewareWithAttrs(h, attrs)

WithGroupOf(h, name) ==
  CASE h.kind = "sink"       -> SinkWithGroup(h, name)
    [] h.kind = "inline"     -> InlineWithGroup(h, name)
    [] h.kind = "fanout"     -> FanoutWithGroup(h, name)
    [] h.kind = "failover"   -> FailoverWithGroup(h, name)
    [] h.kind = "pool"       -> PoolWithGroup(h, name)
    [] h.kind = "route"      -> RoutableWithGroup(h, name)
    [] h.kind = "firstmatch" -> FirstMatchWithGroup(h, name)
    [] h.kind = "recovery"   -> RecoveryWithGroup(h, name)
    [] h.kind = "middleware" -> MiddlewareWithGroup(h, name)

DynamicDispatch(handlers) ==
  \A h \in handlers :
     /\ \A env : Enabled(h, env) = EnabledOf(h, env)
     /\ \A r, env : Handle(h, r, env) = HandleOf(h, r, env)
     /\ \A attrs : WithAttrs(h, attrs) = WithAttrsOf(h, attrs)
     /\ \A name : WithGroup(h, name) = WithGroupOf(h, name)
=============================================================================
