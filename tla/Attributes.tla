------------------------------ MODULE Attributes ----------------------------
(***************************************************************************)
(* Attributes of log records, with groups in groups.  An attribute is its  *)
(* key and its leaves, each a path of keys below it and a value: a plain   *)
(* attribute has one leaf with an empty path, a group has none of these.   *)
(* A group given by the user has no two attributes of one key, and order   *)
(* in a group is left out.  A value is its Go type and what it is.         *)
(***************************************************************************)
EXTENDS Integers, Sequences, FiniteSets, FiniteSetsExt, SequencesExt

Value(type, of) == [type |-> type, of |-> of]

Attr(key, value) == [key |-> key, leaves |-> {[path |-> <<>>, value |-> value]}]

IsGroup(attr) == \A leaf \in attr.leaves : leaf.path # <<>>

(* slog.Int keeps its argument as an int64, slog.String as it is.          *)
IntAttr(key, n) == Attr(key, Value("int64", n))
StringAttr(key, s) == Attr(key, Value("string", s))

Record(level, message, attrs) == [level |-> level, message |-> message, attrs |-> attrs]

(* record.AddAttrs.                                                        *)
AddAttrs(r, attrs) == [r EXCEPT !.attrs = @ \o attrs]

(* The attribute inside of the groups, the first group outermost.          *)
Nest(groups, attr) ==
  IF groups = <<>> THEN attr
  ELSE [key |-> Head(groups),
        leaves |-> {[leaf EXCEPT !.path = Tail(groups) \o <<attr.key>> \o @] :
                       leaf \in attr.leaves}]

NestAll(groups, attrs) == [i \in DOMAIN attrs |-> Nest(groups, attrs[i])]

(* What is written in the end: every value with its full path.             *)
Written(attr) == {[leaf EXCEPT !.path = <<attr.key>> \o @] : leaf \in attr.leaves}

Logged(attrs) == UNION {Written(attrs[i]) : i \in DOMAIN attrs}

(* slogcommon.UniqAttrs: of the attributes of one key the last remains, in *)
(* the place of the first.                                                 *)
UniqAttrs(attrs) ==
  LET firsts     == {i \in DOMAIN attrs : \A j \in 1 .. i - 1 : attrs[j].key # attrs[i].key}
      Nth(n)     == CHOOSE i \in firsts : Cardinality({j \in firsts : j <= i}) = n
      Final(key) == Max({i \in DOMAIN attrs : attrs[i].key = key})
  IN  [n \in 1 .. Cardinality(firsts) |-> attrs[Final(attrs[Nth(n)].key)]]

(* Whether what is at the path goes when attributes are added inside the   *)
(* groups: one of them has its place, or it has the place of a group.      *)
Replaced(path, groups, new) ==
  \/ IsPrefix(path, groups)
  \/ \E i \in DOMAIN new : IsPrefix(Append(groups, new[i].key), path)

(* slogcommon.AppendAttrsToGroup: attributes added while groups are open   *)
(* join the first attribute that is the outermost group, if there is one.  *)
AppendAttrsToGroup(groups, attrs, new) ==
  LET outer  == Head(groups)
      joined == {i \in DOMAIN attrs : attrs[i].key = outer /\ IsGroup(attrs[i])}
      uniq   == UniqAttrs(new)
      added  == UNION {Nest(groups, uniq[i]).leaves : i \in DOMAIN uniq}
  IN  IF groups = <<>> THEN UniqAttrs(attrs \o new)
      ELSE IF joined = {} THEN UniqAttrs(Append(attrs, [key |-> outer, leaves |-> added]))
      ELSE [attrs EXCEPT ![Min(joined)].leaves =
              {leaf \in @ : ~ Replaced(leaf.path, Tail(groups), new)} \cup added]

(* slogcommon.AppendRecordAttrsToAttrs: the record's attributes are put    *)
(* into the groups one by one, behind those of the handler.                *)
AppendRecordAttrsToAttrs(attrs, groups, r) == attrs \o NestAll(groups, r.attrs)
=============================================================================
