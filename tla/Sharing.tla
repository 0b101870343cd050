------------------------------- MODULE Sharing ------------------------------
(***************************************************************************)
(* What the children of one composite share in memory.  A composite hands  *)
(* the attributes given to WithAttrs to each child in turn, as they are or *)
(* as a shallow copy, and later a record, as it is or as a clone.  A child *)
(* is the user's code: it may keep a slice, write into it, append to it,   *)
(* and it may add attributes to its record long after its Handle returned, *)
(* from a goroutine of its own.                                            *)
(*                                                                         *)
(* An attribute is a cell of an array: a text, with the child that wrote   *)
(* it when one did, or a group, which is the array of the attributes in    *)
(* it.  There is at most one group in a slice.  Copies of a cell share the *)
(* array of their group.                                                   *)
(***************************************************************************)
EXTENDS Integers, Sequences, FiniteSets

CONSTANTS
  Kind,        \* the composites: fanout, failover, pool, firstmatch, recovery
  Behaviour,   \* what a child does with what it is given
  MaxChildren, \* bound on the children
  Front        \* the attributes a record holds by value, 5 in slog

ASSUME SharingAssumption ==
  /\ Kind \subseteq {"fanout", "failover", "pool", "firstmatch", "recovery"}
  /\ Behaviour \subseteq {"inline", "retainer", "appender", "gdpr", "stamper"}
  /\ MaxChildren \in Nat \ {0, 1} /\ Front \in Nat \ {0}

Plain(text) == [text |-> text, by |-> 0, group |-> 0]
Stamp(c) == [text |-> "stamp", by |-> c, group |-> 0]
Group(array) == [text |-> "group", by |-> 0, group |-> array]
Blank == Plain("")

INSTANCE GoSlice WITH Empty <- Blank

VARIABLES
  kind,    \* the composite
  does,    \* what each child does
  heap,    \* the arrays
  given,   \* the slice the user gives to WithAttrs
  logged,  \* the record the user logs
  phase,   \* "derive" in WithAttrs, "log" in Handle, "done"
  turn,    \* the child whose turn it is
  kept,    \* the slice each child made of the attributes
  sees,    \* the attributes each route keeps for its predicates
  held,    \* the record each child has, or the empty tuple
  stamped, \* the children that have added an attribute to their record
  wrote    \* history: what the user wrote in the attributes and the record

vars == <<kind, does, heap, given, logged, phase, turn, kept, sees, held, stamped, wrote>>

Children == DOMAIN does

(* A record holds its first attributes by value and the rest in a slice;   *)
(* behind a clipped slice there is no room.                                *)
RecordOf(front, back, clipped) == [front |-> front, back |-> back, clipped |-> clipped]
AttrsOf(h, r) == r.front \o Contents(h, r.back)

(* The attributes as one sees them, the groups opened.                     *)
Shown(h, cells) ==
  [i \in DOMAIN cells |-> IF cells[i].group = 0 THEN <<cells[i]>> ELSE h[cells[i].group]]

GroupsOf(cells) == {cells[i].group : i \in DOMAIN cells} \ {0}

NoSlice == Slice(1, 0)

Init ==
  /\ kind \in Kind
  /\ does \in UNION {[1 .. n -> Behaviour] :
                        n \in IF kind = "recovery" THEN {2} ELSE 2 .. MaxChildren}
  /\ \E attrs \in {<<Plain("clear")>>, <<Plain("clear"), Group(1)>>},
        inFront \in {Front - 1, Front},
        back \in {<<>>, <<Plain("clear")>>, <<Group(3)>>},
        room \in {<<>>, <<Blank>>} :
        /\ inFront < Front => back = <<>>
        /\ heap = << <<Plain("clear")>>, attrs \o room, <<Plain("clear")>>, back \o room >>
        /\ given = Slice(2, Len(attrs))
        /\ logged = RecordOf([i \in 1 .. inFront |-> Plain("clear")], Slice(4, Len(back)), FALSE)
  /\ phase = "derive"
  /\ turn = 1
  /\ kept = [c \in Children |-> NoSlice]
  /\ sees = [c \in Children |-> <<>>]
  /\ held = [c \in Children |-> <<>>]
  /\ stamped = {}
  /\ wrote = [attrs |-> Shown(heap, Contents(heap, given)),
              record |-> Shown(heap, AttrsOf(heap, logged)),
              groups |-> [attrs  |-> GroupsOf(Contents(heap, given)),
                          record |-> GroupsOf(AttrsOf(heap, logged))]]

-----------------------------------------------------------------------------
(* anonymize writes over the array of a group and returns a group of a new *)
(* array; other attributes it returns changed.                             *)

MaskedText(x) == IF x.text = "clear" THEN Plain("masked") ELSE x

(* Mutant of HeapAfterAnonymize: the new group has no array.               *)
HeapAfterMasking(h, cells) ==
  [a \in DOMAIN h |-> IF a \in GroupsOf(cells)
                      THEN [i \in DOMAIN h[a] |-> MaskedText(h[a][i])] ELSE h[a]]

HeapAfterAnonymize(h, cells) ==
  LET masked == [a \in DOMAIN h |-> IF a \in GroupsOf(cells)
                                    THEN [i \in DOMAIN h[a] |-> MaskedText(h[a][i])]
                                    ELSE h[a]]
  IN  masked \o [i \in 1 .. Cardinality(GroupsOf(cells)) |-> masked[CHOOSE a \in GroupsOf(cells) : TRUE]]

Anonymized(h, cells) ==
  [i \in DOMAIN cells |-> IF cells[i].group = 0 THEN MaskedText(cells[i]) ELSE Group(Len(h) + 1)]

-----------------------------------------------------------------------------
(* WithAttrs.                                                              *)

(* Mutant of CopiesAttrs: only the fan-out copies.                         *)
CopiesAttrsInFanout(k) == k = "fanout"

(* The composites that give each child a slice of its own.                 *)
CopiesAttrs(k) == k \in {"fanout", "firstmatch"}

Made(h, s) == [heap |-> h, slice |-> s]

(* The slice s in the hands of child c: an inline handler copies it, a     *)
(* retainer keeps it, an appender appends to it, the GDPR middleware       *)
(* writes over it, each as it likes.                                       *)
InlineWithAttrs(h, s) == Made(Allocate(h, Contents(h, s)), Allocated(h, Contents(h, s)))

Appended(h, s, c) == Made(HeapAfterAppend(h, s, Stamp(c)), SliceAfterAppend(h, s))

gdprWithAttrs(h, s) ==
  LET cells == Contents(h, s)
      new   == Anonymized(h, cells)
  IN  Made([HeapAfterAnonymize(h, cells) EXCEPT
              ![s.array] = new \o SubSeq(@, s.len + 1, Len(@))], s)

ChildWithAttrs(h, s, c) ==
  CASE does[c] = "retainer" -> Made(h, s)
    [] does[c] = "appender" -> Appended(h, s, c)
    [] does[c] = "gdpr"     -> gdprWithAttrs(h, s)
    [] OTHER                -> InlineWithAttrs(h, s)

(* Mutant of WithAttrs: the route copies the attributes first.             *)
WithAttrsCopiedFirst ==
  LET cells == Contents(heap, given)
      own   == IF CopiesAttrs(kind) THEN Made(Allocate(heap, cells), Allocated(heap, cells))
                                    ELSE Made(heap, given)
      made  == ChildWithAttrs(own.heap, own.slice, turn)
  IN  /\ phase = "derive"
      /\ turn \in Children
      /\ ~ (kind = "recovery" /\ turn = 2)
      /\ heap' = made.heap
      /\ kept' = [kept EXCEPT ![turn] = made.slice]
      /\ sees' = [sees EXCEPT ![turn] = cells]
      /\ turn' = turn + 1
      /\ UNCHANGED <<kind, does, given, logged, phase, held, stamped, wrote>>

(* One child's turn in WithAttrs.  A route derives its handler first and   *)
(* copies the attributes for its predicates after that.  The callback of a *)
(* recovery handler, its second child here, is not derived.                *)
WithAttrs ==
  LET cells == Contents(heap, given)
      own   == IF CopiesAttrs(kind) THEN Made(Allocate(heap, cells), Allocated(heap, cells))
                                    ELSE Made(heap, given)
      made  == ChildWithAttrs(own.heap, own.slice, turn)
  IN  /\ phase = "derive"
      /\ turn \in Children
      /\ ~ (kind = "recovery" /\ turn = 2)
      /\ heap' = made.heap
      /\ kept' = [kept EXCEPT ![turn] = made.slice]
      /\ sees' = [sees EXCEPT ![turn] = Contents(made.heap, own.slice)]
      /\ turn' = turn + 1
      /\ UNCHANGED <<kind, does, given, logged, phase, held, stamped, wrote>>

Derived ==
  /\ phase = "derive"
  /\ turn \notin Children \/ (kind = "recovery" /\ turn = 2)
  /\ phase' = "log"
  /\ turn' = 1
  /\ UNCHANGED <<kind, does, heap, given, logged, kept, sees, held, stamped, wrote>>

-----------------------------------------------------------------------------
(* Handle.                                                                 *)

Clone(r) == [r EXCEPT !.clipped = TRUE]

(* Mutant of Passed: the record itself is handed to every child.           *)
PassedItself(k, r) == r

(* The record as the composite passes it on.                               *)
Passed(k, r) == IF k \in {"fanout", "failover", "pool"} THEN Clone(r) ELSE r

Keep == UNCHANGED <<kind, does, given, logged, kept, sees, stamped, wrote>>

(* Child c takes the record: the GDPR middleware makes a new one at once,  *)
(* the others hold on to it.                                               *)
Take(c) ==
  LET r == Passed(kind, logged)
      cells == AttrsOf(heap, r)
  IN  IF does[c] = "gdpr"
      THEN /\ heap' = HeapAfterAnonymize(heap, cells)
           /\ held' = [held EXCEPT ![c] = RecordOf(Anonymized(heap, cells), NoSlice, TRUE)]
      ELSE /\ held' = [held EXCEPT ![c] = r]
           /\ UNCHANGED heap

(* The loops of the fan-out, which reaches every child, and of the         *)
(* failover, the pool (whose first child is where it starts) and the       *)
(* recovery handler, which go on only after a failure.                     *)
Handle ==
  /\ phase = "log"
  /\ kind # "firstmatch"
  /\ turn \in Children
  /\ Take(turn)
  /\ turn' = turn + 1
  /\ \/ UNCHANGED phase
     \/ kind # "fanout" /\ phase' = "done"
  /\ Keep

(* A first-match handler passes the record to one route.                   *)
HandleFirstMatch ==
  /\ phase = "log"
  /\ kind = "firstmatch"
  /\ \E c \in Children : Take(c)
  /\ phase' = "done"
  /\ UNCHANGED turn
  /\ Keep

(* record.AddAttrs: when there is room behind the slice and somebody wrote *)
(* there already, slog moves the slice and leaves a note in it.            *)
AddAttrs(c) ==
  LET r       == held[c]
      inFront == Len(r.front) < Front
      taken   == /\ ~ r.clipped
                 /\ HasRoom(heap, r.back)
                 /\ heap[r.back.array][r.back.len + 1] # Blank
      moved   == Contents(heap, r.back) \o
                 (IF taken THEN <<Plain("!BUG")>> ELSE <<>>) \o <<Stamp(c)>>
  IN  /\ does[c] = "stamper"
      /\ held[c] # <<>>
      /\ c \notin stamped
      /\ stamped' = stamped \cup {c}
      /\ \/ /\ inFront
            /\ held' = [held EXCEPT ![c].front = Append(@, Stamp(c))]
            /\ UNCHANGED heap
         \/ /\ ~ inFront /\ (taken \/ r.clipped)
            /\ heap' = Allocate(heap, moved)
            /\ held' = [held EXCEPT ![c] = RecordOf(r.front, Allocated(heap, moved), FALSE)]
         \/ /\ ~ inFront /\ ~ taken /\ ~ r.clipped
            /\ heap' = HeapAfterAppend(heap, r.back, Stamp(c))
            /\ held' = [held EXCEPT ![c].back = SliceAfterAppend(heap, r.back)]
      /\ UNCHANGED <<kind, does, given, logged, phase, turn, kept, sees, wrote>>

Next ==
  \/ WithAttrs \/ Derived
  \/ Handle \/ HandleFirstMatch
  \/ \E c \in Children : AddAttrs(c)

Spec == Init /\ [][Next]_vars

-----------------------------------------------------------------------------

TypeOK ==
  /\ phase \in {"derive", "log", "done"}
  /\ turn \in 1 .. Len(does) + 1
  /\ \A a \in DOMAIN heap : GroupsOf(heap[a]) \subseteq DOMAIN heap
  /\ \A c \in Children : kept[c].len \in 0 .. Len(heap[kept[c].array])
  /\ stamped \subseteq {c \in Children : held[c] # <<>>}

(* What child c makes of attributes when it is alone with them.            *)
Alone(c, shown) ==
  IF does[c] = "gdpr" THEN [i \in DOMAIN shown |-> [k \in DOMAIN shown[i] |-> MaskedText(shown[i][k])]]
  ELSE shown

Stamped(c, set) == IF c \in set THEN << <<Stamp(c)>> >> ELSE <<>>

Doing(what) == {c \in Children : does[c] = what}
EditsGroups(groups) == Doing("gdpr") # {} /\ groups # {}

KeepsItsAttrs(c) ==
  Shown(heap, Contents(heap, kept[c])) = Alone(c, wrote.attrs) \o Stamped(c, Doing("appender"))

KeepsItsRecord(c) ==
  Shown(heap, AttrsOf(heap, held[c])) = Alone(c, wrote.record) \o Stamped(c, stamped)

(* slog gives a handler the slice it is passed, to keep or to change.  A   *)
(* child that does so spoils nothing for its siblings behind a fan-out or  *)
(* a first-match handler, which copy the slice, as long as nobody writes   *)
(* into a group; behind a failover or a pool, which do not copy, only as   *)
(* long as nobody writes and no two children append.                       *)
DerivedAttrsAreOwn ==
  \/ EditsGroups(wrote.groups.attrs)
  \/ Doing("gdpr") # {} /\ kind \in {"failover", "pool"}
  \/ Cardinality(Doing("appender")) > 1 /\ kind \in {"failover", "pool"}
  \/ \A c \in Children : kept[c] # NoSlice => KeepsItsAttrs(c)

(* A route's predicates see the derived attributes as the handler behind   *)
(* the route has them, even one that writes over them in place.            *)
RoutesSeeWhatTheirHandlerKeeps ==
  kind = "firstmatch" =>
     \A c \in Children : kept[c] # NoSlice =>
        Shown(heap, Contents(heap, kept[c])) = Shown(heap, sees[c]) \o Stamped(c, Doing("appender"))

(* A record stays what it was but for what its holder adds, whenever and   *)
(* in whatever order the holders do so, and nobody is told that it was     *)
(* copied unsafely; unless somebody writes into a group, or the callback   *)
(* of a recovery handler and the handler it recovers both add attributes,  *)
(* since these two are given one record.                                   *)
RecordsAreOwn ==
  \/ EditsGroups(wrote.groups.record)
  \/ kind = "recovery" /\ Doing("stamper") = {1, 2}
  \/ \A c \in Children : held[c] # <<>> => KeepsItsRecord(c)
=============================================================================
