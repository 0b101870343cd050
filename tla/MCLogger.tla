------------------------------ MODULE MCLogger ------------------------------
(***************************************************************************)
(* Compositions for TLC: every composite over every other, beside a child  *)
(* that recovers or routes, every wrapper in and around every composite,   *)
(* and routes with each of the predicates.                                 *)
(***************************************************************************)
EXTENDS Meaning

A == Sink("a")
B == InlineHandler("b")
C == HandleInlineHandler("c")

Go(type, of) == [type |-> type, of |-> of]
Predicate(is, arg) == [is |-> is, arg |-> arg]

WantsA == Predicate("AttrValueIs", <<Go("string", "a"), Go("int64", 1)>>)
WantsAB == Predicate("AttrValueIs",
  <<Go("string", "a"), Go("int64", 1), Go("string", "b"), Go("string", "x")>>)

Predicates1 ==
  {WantsA, WantsAB,
   Predicate("AttrValueIs", <<Go("string", "a"), Go("int", 1)>>),
   Predicate("AttrValueIs", <<Go("string", "a")>>),
   Predicate("AttrKindIs", <<Go("string", "g"), Go("slog.Kind", "Group")>>),
   Predicate("AttrKindIs", <<Go("string", "a"), Go("slog.Kind", "Int64"),
                             Go("string", "b"), Go("slog.Kind", "String")>>),
   Predicate("LevelIs", <<"info", "warn">>), Predicate("LevelIsNot", <<"info">>),
   Predicate("MessageIs", {"db", "down"}), Predicate("MessageIsNot", {"db"}),
   Predicate("MessageContains", {"db"}), Predicate("MessageNotContains", {"down"})}

MCPredicates == {p \in Predicates1 : Constructed(p)}

FirstMatchOf(x, y) ==
  FirstMatchHandler(<<RoutableHandler(x, <<WantsA>>),
                      RoutableHandler(y, <<Predicate("MessageContains", {"db"})>>)>>)

Wrapped(h) ==
  {h, RecoverHandlerError(h), RoutableHandler(h, <<WantsA>>),
   InlineMiddleware(h), EnabledInlineMiddleware(h), HandleInlineMiddleware(h),
   WithAttrsInlineMiddleware(h), WithGroupInlineMiddleware(h)}

Composed(name, x, y) ==
  {FanoutHandler(<<x, y>>), Failover(<<x, y>>), Pool(name, <<x, y>>), FirstMatchOf(x, y)}

MCCompositions ==
  UNION {Composed("outer", x, d) :
           x \in {A, RecoverHandlerError(A), RoutableHandler(A, <<WantsA>>)},
           d \in Composed("inner", B, C)}
  \cup UNION {Composed("outer", w, B) : w \in Wrapped(A)}
  \cup UNION {Wrapped(h) : h \in Composed("inner", B, C)
                                \cup {FanoutHandler(<<A>>),
                                      FanoutHandler(<<FanoutHandler(<<>>), A>>),
                                      FanoutHandler(<<FanoutHandler(<<B, A>>), C>>),
                                      Failover(<<FanoutHandler(<<RecoverHandlerError(A)>>), B>>)}}
  \cup {FanoutHandler(<<RoutableHandler(A, <<p>>), B>>) : p \in MCPredicates}

(* a is added again and again, g has the name of the group.                *)
MCAdditions ==
  <<<<IntAttr("a", 1), IntAttr("g", 3)>>,
    <<StringAttr("b", "x"), IntAttr("a", 2)>>,
    <<IntAttr("a", 3), IntAttr("a", 1)>>>>

MCRecords ==
  {Record("info", {"db", "down"}, <<StringAttr("b", "x")>>),
   Record("warn", {"db"}, <<IntAttr("a", 1)>>)}

MCValues == {Value("int64", 1), Value("int64", 2), Value("int64", 3),
             Value("string", "x"), Value("string", "hooked")}

(* A call of a method runs the one of the handler's type.  (The LETs are   *)
(* for TLC's coverage: it unfolds a definition given for a constant where  *)
(* it is an application, without end if that leads back to the constant.)  *)
MCEnabled(h, env) == LET called == h IN EnabledOf(called, env)
MCHandle(h, r, env) == LET called == h IN HandleOf(called, r, env)
MCWithAttrs(h, attrs) == LET called == h IN WithAttrsOf(called, attrs)
MCWithGroup(h, name) == LET called == h IN WithGroupOf(called, name)
MCBuild(c) == LET built == c IN BuildOf(built)
MCNodes(h) == LET root == h IN NodesOf(root)
=============================================================================
