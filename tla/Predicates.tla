------------------------------ MODULE Predicates ----------------------------
(***************************************************************************)
(* The ready-made predicates of routes.  A message is the set of the words *)
(* it contains; a predicate is the name of its constructor and what that   *)
(* was given.                                                              *)
(***************************************************************************)
EXTENDS Attributes

LevelIs(levels, r) == \E i \in DOMAIN levels : r.level = levels[i]

LevelIsNot(levels, r) == \A i \in DOMAIN levels : r.level # levels[i]

MessageIs(msg, r) == r.message = msg

MessageIsNot(msg, r) == r.message # msg

MessageContains(part, r) == part \subseteq r.message

MessageNotContains(part, r) == ~ (part \subseteq r.message)

(* The variadic arguments of the last two predicates: pairs of a string    *)
(* and a value of some type.  Their constructors panic for others.         *)
ArePairs(args, types) ==
  /\ Len(args) % 2 = 0
  /\ \A i \in DOMAIN args : args[i].type \in (IF i % 2 = 1 THEN {"string"} ELSE types)

(* The map of the pairs: a later pair replaces an earlier one of its key.  *)
MapOf(args) ==
  LET keyAt == {i \in DOMAIN args : i % 2 = 1}
  IN  [key \in {args[i].of : i \in keyAt} |->
          args[Max({i \in keyAt : args[i].of = key}) + 1]]

(* attr.Value.Any() == v, for a v that is comparable.                      *)
HasValue(attr, value) == attr.leaves = {[path |-> <<>>, value |-> value]}

(* attr.Value.Kind() == ty.                                                *)
KindOfType == [int64 |-> "Int64", string |-> "String"]

HasKind(attr, kind) ==
  IF IsGroup(attr) THEN kind.of = "Group"
  ELSE \A leaf \in attr.leaves : KindOfType[leaf.value.type] = kind.of

(* The attributes that are wanted and fit.                                 *)
WithValue(wanted, attrs) ==
  {i \in DOMAIN attrs : /\ attrs[i].key \in DOMAIN wanted
                        /\ HasValue(attrs[i], wanted[attrs[i].key])}

WithKind(wanted, attrs) ==
  {i \in DOMAIN attrs : /\ attrs[i].key \in DOMAIN wanted
                        /\ HasKind(attrs[i], wanted[attrs[i].key])}

(* Mutant of CountReached: one of the keys is enough.                      *)
CountBegun(wanted, fitting) == fitting # {}

(* Both predicates count the attributes that fit and stop at the number of *)
(* keys wanted.                                                            *)
CountReached(wanted, fitting) == Cardinality(fitting) >= Cardinality(DOMAIN wanted)

AttrValueIs(args, r) == CountReached(MapOf(args), WithValue(MapOf(args), r.attrs))

AttrKindIs(args, r) == CountReached(MapOf(args), WithKind(MapOf(args), r.attrs))

(* Whether the constructor of a predicate returns.                         *)
Constructed(p) ==
  /\ p.is = "AttrValueIs" => ArePairs(p.arg, {"int", "int64", "string"})
  /\ p.is = "AttrKindIs" => ArePairs(p.arg, {"slog.Kind"})

Holds(p, r) ==
  CASE p.is = "LevelIs"            -> LevelIs(p.arg, r)
    [] p.is = "LevelIsNot"         -> LevelIsNot(p.arg, r)
    [] p.is = "MessageIs"          -> MessageIs(p.arg, r)
    [] p.is = "MessageIsNot"       -> MessageIsNot(p.arg, r)
    [] p.is = "MessageContains"    -> MessageContains(p.arg, r)
    [] p.is = "MessageNotContains" -> MessageNotContains(p.arg, r)
    [] p.is = "AttrValueIs"        -> AttrValueIs(p.arg, r)
    [] p.is = "AttrKindIs"         -> AttrKindIs(p.arg, r)

-----------------------------------------------------------------------------

(* What the comments of AttrValueIs and AttrKindIs say: the record has all *)
(* the specified attributes.                                               *)
HasAllValues(wanted, attrs) ==
  \A key \in DOMAIN wanted :
     \E i \in DOMAIN attrs : attrs[i].key = key /\ HasValue(attrs[i], wanted[key])

HasAllKinds(wanted, attrs) ==
  \A key \in DOMAIN wanted :
     \E i \in DOMAIN attrs : attrs[i].key = key /\ HasKind(attrs[i], wanted[key])

DistinctKeys(attrs) == \A i, j \in DOMAIN attrs : attrs[i].key = attrs[j].key => i = j
=============================================================================
