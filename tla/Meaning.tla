------------------------------- MODULE Meaning ------------------------------
(***************************************************************************)
(* What a composition means once something was derived from it, told       *)
(* without any of the code's flattening, copying and rewrapping: every     *)
(* handler in it is given the steps itself.  The derived handler acts like *)
(* that.                                                                   *)
(***************************************************************************)
EXTENDS Logger

GroupsIn(s) == LET groups == SelectSeq(s, LAMBDA x : x.step = "group")
               IN  [i \in DOMAIN groups |-> groups[i].name]

AttrsIn(s) == FlattenSeq([i \in DOMAIN s |-> IF s[i].step = "attrs" THEN s[i].attrs ELSE <<>>])

(* All the attributes of s, each in the groups that were open.             *)
Nested(s) ==
  FlattenSeq([i \in DOMAIN s |->
     IF s[i].step = "attrs" THEN NestAll(GroupsIn(SubSeq(s, 1, i)), s[i].attrs) ELSE <<>>])

(* Of all the attributes of s those whose place no later one takes.        *)
Lasting(s) ==
  LET all == Nested(s)
      Taken(i) == \E j \in i + 1 .. Len(all) : \E x \in Written(all[i]), y \in Written(all[j]) :
                    Clash(x.path, y.path)
  IN  FlattenSeq([i \in DOMAIN all |-> IF Taken(i) THEN <<>> ELSE <<all[i]>>])

(* What a middleware lets through of s.                                    *)
Hooked(hooks, s) ==
  FlattenSeq([i \in DOMAIN s |->
     IF s[i].step = "attrs"
     THEN IF "WithAttrs" \in hooks THEN <<AttrsStep(s[i].attrs \o Mark)>> ELSE <<s[i]>>
     ELSE IF "WithGroup" \in hooks THEN <<s[i], AttrsStep(Mark)>> ELSE <<s[i]>>])

(* The handlers a fan-out has in the end, its inner fan-outs counted out.  *)
RECURSIVE Width(_)
Width(c) == IF c.kind = "fanout" THEN FoldSeq(LAMBDA h, n : Width(h) + n, 0, c.handlers) ELSE 1

(* The composition with every handler in it given the steps itself; a      *)
(* fan-out of one handler is that handler.                                 *)
RECURSIVE Applied(_, _)
Applied(c, s) ==
  LET Each(h) == Applied(h, s)
  IN  CASE c.kind = "sink"   -> [c EXCEPT !.groups = GroupsIn(s), !.attrs = Nested(s)]
        [] c.kind = "inline" -> [c EXCEPT !.groups = GroupsIn(s), !.attrs = AttrsIn(s)]
        [] c.kind = "fanout" ->
             IF Width(c) = 1
             THEN Each(c.handlers[CHOOSE i \in DOMAIN c.handlers : Width(c.handlers[i]) = 1])
             ELSE [c EXCEPT !.handlers = MapOver(@, Each)]
        [] c.kind = "firstmatch" -> FirstMatch(MapOver(c.handlers, Each))
        [] c.kind \in {"failover", "pool"} -> [c EXCEPT !.handlers = MapOver(@, Each)]
        [] c.kind = "route" ->
             [c EXCEPT !.handler = Each(@), !.groups = GroupsIn(s), !.attrs = Lasting(s)]
        [] c.kind = "recovery"   -> [c EXCEPT !.handler = Each(@)]
        [] c.kind = "middleware" -> [c EXCEPT !.next = Applied(@, Hooked(c.hooks, s))]

-----------------------------------------------------------------------------

(* Deriving commutes with composing: whatever the composition and the      *)
(* derivation, a record makes the derived handler call the same handlers,  *)
(* predicates and callbacks, with the same groups, attributes and marks,   *)
(* in the same order, and end in the same way, as the composition would if *)
(* every handler in it had been derived by itself.  A flattened fan-out    *)
(* that loses a child, a rewrapping that loses a middleware, a route that  *)
(* loses its predicates or checks them twice would show here.              *)
DerivedActsAsComposed ==
  event # <<>> =>
     LET meant == Applied(made, steps)
     IN  event.outcome = IF Enabled(meant, event.env)
                         THEN Handle(meant, event.record, event.env) ELSE Nothing
=============================================================================
