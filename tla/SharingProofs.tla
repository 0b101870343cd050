---------------------------- MODULE SharingProofs ---------------------------
(***************************************************************************)
(* What the children of a composite share in memory does them no harm, for *)
(* any number of children, whatever they do with what they are given, and  *)
(* with as many attributes as fit into the front of a record.              *)
(*                                                                         *)
(* Four arrays are there at the start, and the argument is about who can   *)
(* write into them: into a group only a GDPR middleware, into the user's   *)
(* attributes only the children of a composite that does not copy, behind  *)
(* the user's record only a child with a record that is not clipped.  All  *)
(* other arrays are written by the one who allocates them.                 *)
(***************************************************************************)
EXTENDS Sharing, SequenceTheorems, FiniteSetTheorems, TLAPS

SliceType == [array : Nat, len : Nat]

(* An attribute in a heap of n arrays, and a record.                       *)
Texts == {"clear", "masked", "stamp", "group", "!BUG", ""}
Cell(n) == [text : Texts, by : Nat, group : 0 .. n]
Records(n) == [front : Seq(Cell(n)), back : SliceType, clipped : BOOLEAN]

Within(h, s) == s.array \in DOMAIN h /\ s.len \in 0 .. Len(h[s.array])

Clear == Plain("clear")

(* What the user wrote, as cells.                                          *)
Attrs == IF wrote.groups.attrs = {} THEN <<Clear>> ELSE <<Clear, Group(1)>>
Behind == IF wrote.groups.record = {} THEN Clear ELSE Group(3)

(* What no step changes.                                                   *)
Fixed ==
  /\ kind \in Kind
  /\ \E n \in 2 .. MaxChildren : does \in [1 .. n -> Behaviour]
  /\ kind = "recovery" => DOMAIN does = 1 .. 2
  /\ given = Slice(2, Len(Attrs))
  /\ logged.front \in Seq({Clear}) /\ Len(logged.front) \in {Front - 1, Front}
  /\ \E n \in {0, 1} : logged = RecordOf(logged.front, Slice(4, n), FALSE)
  /\ Len(logged.front) < Front => logged.back.len = 0
  /\ wrote.groups.attrs \in {{}, {1}}
  /\ wrote.groups.record \in {{}, {3}}
  /\ wrote.groups.record # {} => logged.back.len = 1
  /\ wrote.attrs = [i \in 1 .. given.len |-> <<Clear>>]
  /\ wrote.record = [i \in 1 .. Len(logged.front) + logged.back.len |-> <<Clear>>]

HeapTyped ==
  /\ heap \in Seq(Seq(Cell(Len(heap))))
  /\ Len(heap) >= 4
  /\ Within(heap, given) /\ Within(heap, logged.back)

Typed ==
  /\ phase \in {"derive", "log", "done"}
  /\ turn \in 1 .. Len(does) + 1
  /\ kept \in [Children -> SliceType]
  /\ sees \in [Children -> Seq(Cell(Len(heap)))]
  /\ held \in [Children -> Records(Len(heap)) \cup {<<>>}]
  /\ \A c \in Children : Within(heap, kept[c])
  /\ stamped \subseteq {c \in Doing("stamper") : held[c] # <<>>}
  /\ phase = "derive" => \A c \in Children : held[c] = <<>>
  /\ phase = "log" => \A c \in Children : c >= turn => held[c] = <<>>

(* The groups hold what the user put in them unless somebody writes into   *)
(* groups; the cells of the user's record stay as they are; and so do the  *)
(* attributes, unless they are handed out as they are to a GDPR middleware.*)
OriginalsKept ==
  /\ Doing("gdpr") = {} => heap[1] = <<Clear>> /\ heap[3] = <<Clear>>
  /\ logged.back.len = 1 => heap[4][1] = Behind
  /\ \A i \in 1 .. given.len : heap[2][i].group \notin {2, 3, 4}
  /\ \/ CopiesAttrs(kind)
     \/ Doing("gdpr") = {}
     \/ kind = "recovery" /\ phase = "derive" /\ turn = 1
     => \A i \in 1 .. given.len : heap[2][i] = Attrs[i]

(* Slice s of heap h has the elements of xs, cell by cell.                 *)
Has(h, s, xs) ==
  /\ s.len = Len(xs)
  /\ \A i \in 1 .. s.len : h[s.array][i] = xs[i]

Derivation(c) == kept[c] # NoSlice

Mark(c) == IF does[c] = "appender" THEN <<Stamp(c)>> ELSE <<>>

(* Where the slices that the children made of the attributes can be.       *)
KeptApart ==
  \A c \in Children : Derivation(c) =>
     /\ kept[c].array = 2 \/ kept[c].array > 4
     /\ CopiesAttrs(kind) => kept[c].array > 4
     /\ kept[c].array = 2 => kept[c].len = given.len + Len(Mark(c))

RouteKept ==
  kind = "firstmatch" =>
     \A c \in Children : Derivation(c) => Has(heap, kept[c], sees[c] \o Mark(c))

(* The attributes that DerivedAttrsAreOwn speaks of.                       *)
AttrsApply ==
  /\ ~ EditsGroups(wrote.groups.attrs)
  /\ kind \in {"failover", "pool"} =>
        /\ Doing("gdpr") = {}
        /\ \A c, d \in Doing("appender") : c = d

AttrsKept ==
  AttrsApply =>
     \A c \in Children : Derivation(c) =>
        Has(heap, kept[c], IF does[c] = "gdpr" THEN <<Plain("masked")>> ELSE Attrs \o Mark(c))

OneDerivation ==
  kind = "recovery" => ~ Derivation(2) /\ (phase = "derive" /\ turn = 1 => ~ Derivation(1))

(* The records that RecordsAreOwn speaks of.                               *)
RecordsApply ==
  /\ ~ EditsGroups(wrote.groups.record)
  /\ ~ (kind = "recovery" /\ Doing("stamper") = {1, 2})

(* The record child c has: the one it was passed, a new one with masked    *)
(* attributes, or one that it put its own attribute into.                  *)
StampedBehind(c) ==
  /\ held[c].back.len = logged.back.len + 1
  /\ \A i \in 1 .. logged.back.len : heap[held[c].back.array][i] = heap[4][i]
  /\ heap[held[c].back.array][logged.back.len + 1] = Stamp(c)

HeldKept ==
  \A c \in Children : held[c] # <<>> =>
     /\ does[c] = "gdpr" =>
          /\ held[c].back = NoSlice
          /\ wrote.groups.record = {} =>
                held[c].front = [i \in 1 .. Len(logged.front) + logged.back.len |-> Plain("masked")]
     /\ does[c] # "gdpr" /\ c \notin stamped => held[c] = Passed(kind, logged)
     /\ c \in stamped =>
          \/ /\ Len(logged.front) < Front
             /\ held[c].front = Append(logged.front, Stamp(c))
             /\ held[c].back = logged.back
          \/ /\ Len(logged.front) = Front
             /\ held[c].front = logged.front
             /\ held[c].back.array = 4 \/ held[c].back.array > 4
             /\ Within(heap, held[c].back)
             /\ RecordsApply => StampedBehind(c)

(* A record that is not clipped has one holder who may add to it, and the  *)
(* room behind it is free until that one does.                             *)
RoomKept ==
  /\ kind = "firstmatch" =>
        /\ \A c, d \in Children : held[c] # <<>> /\ held[d] # <<>> => c = d
        /\ phase = "log" => \A c \in Children : held[c] = <<>>
  /\ stamped = {} /\ logged.back.len < Len(heap[4]) =>
        heap[4][logged.back.len + 1] = Blank

IInv ==
  /\ Fixed /\ HeapTyped /\ Typed /\ OriginalsKept /\ KeptApart /\ RouteKept
  /\ AttrsKept /\ OneDerivation /\ HeldKept /\ RoomKept

-----------------------------------------------------------------------------

(* The elements of a slice are its cells.                                  *)
LEMMA ContentsAreCells ==
  ASSUME NEW S, NEW h \in Seq(Seq(S)), NEW s \in SliceType,
         s.array \in DOMAIN h, s.len \in 0 .. Len(h[s.array])
  PROVE  /\ Contents(h, s) \in Seq(S)
         /\ Len(Contents(h, s)) = s.len
         /\ \A i \in 1 .. s.len : Contents(h, s)[i] = h[s.array][i]
<1>1. h[s.array] \in Seq(S)
  BY ElementOfSeq
<1>2. \A i \in 1 .. s.len : h[s.array][i] \in S
  BY <1>1, ElementOfSeq
<1>3. 1 \in Int /\ s.len \in Int
  BY DEF SliceType
<1>4. /\ SubSeq(h[s.array], 1, s.len) \in Seq(S)
      /\ Len(SubSeq(h[s.array], 1, s.len)) = IF 1 <= s.len THEN s.len - 1 + 1 ELSE 0
      /\ \A i \in 1 .. s.len - 1 + 1 : SubSeq(h[s.array], 1, s.len)[i] = h[s.array][1 + i - 1]
  BY <1>2, <1>3, SubSeqProperties
<1>5. \A i \in 1 .. s.len : 1 + i - 1 = i /\ i \in 1 .. s.len - 1 + 1
  BY <1>3
<1> QED
  BY <1>3, <1>4, <1>5 DEF Contents, SliceType

(* append puts one element behind the slice, keeps the elements before it, *)
(* and writes no other cell of an array that was there.                    *)
OneCellWritten(h, s, x, g, t) ==
  /\ Len(g) >= Len(h)
  /\ t \in SliceType /\ t.len = s.len + 1
  /\ t.array \in DOMAIN g /\ t.len \in 0 .. Len(g[t.array])
  /\ t.array = s.array \/ t.array \notin DOMAIN h
  /\ \A i \in 1 .. s.len : g[t.array][i] = h[s.array][i]
  /\ g[t.array][t.len] = x
  /\ \A a \in DOMAIN h :
        /\ Len(g[a]) = Len(h[a])
        /\ a # s.array => g[a] = h[a]
        /\ \A i \in 1 .. Len(h[a]) :
              g[a][i] # h[a][i] => a = s.array /\ a = t.array /\ i = s.len + 1

LEMMA AppendWritesOneCell ==
  ASSUME NEW S, Blank \in S, NEW h \in Seq(Seq(S)), NEW x \in S, NEW s \in SliceType,
         s.array \in DOMAIN h, s.len \in 0 .. Len(h[s.array]),
         NEW g, g = HeapAfterAppend(h, s, x),
         NEW t, t = SliceAfterAppend(h, s)
  PROVE  g \in Seq(Seq(S)) /\ OneCellWritten(h, s, x, g, t)
<1> USE DEF OneCellWritten
<1>1. h[s.array] \in Seq(S) /\ Len(h[s.array]) \in Nat /\ Len(h) \in Nat /\ s.len \in Nat
  BY ElementOfSeq, LenProperties DEF SliceType
<1>2. CASE HasRoom(h, s)
  <2> DEFINE row == [h[s.array] EXCEPT ![s.len + 1] = x]
  <2>1. s.len + 1 \in 1 .. Len(h[s.array])
    BY <1>1, <1>2 DEF HasRoom
  <2>2. /\ row \in Seq(S) /\ Len(row) = Len(h[s.array])
        /\ \A j \in 1 .. Len(h[s.array]) : row[j] = IF j = s.len + 1 THEN x ELSE h[s.array][j]
    BY <1>1, <2>1, ExceptSeq
  <2>3. g = [h EXCEPT ![s.array] = row]
    BY <1>2 DEF HeapAfterAppend
  <2> HIDE DEF row
  <2>4. /\ g \in Seq(Seq(S)) /\ Len(g) = Len(h)
        /\ \A a \in 1 .. Len(h) : g[a] = IF a = s.array THEN row ELSE h[a]
    BY <2>2, <2>3, ExceptSeq
  <2>5. t = [array |-> s.array, len |-> s.len + 1]
    BY <1>2 DEF SliceAfterAppend, Slice
  <2>6. t \in SliceType /\ t.array = s.array /\ t.len = s.len + 1
    BY <1>1, <2>5 DEF SliceType
  <2>7. g[s.array] = row /\ DOMAIN h = 1 .. Len(h) /\ DOMAIN g = 1 .. Len(h)
    BY <2>4, LenProperties
  <2>8. \A i \in 1 .. s.len : row[i] = h[s.array][i]
    BY <1>1, <2>1, <2>2
  <2>9. row[s.len + 1] = x
    BY <2>1, <2>2
  <2>10. ASSUME NEW a \in DOMAIN h
         PROVE  /\ Len(g[a]) = Len(h[a])
                /\ a # s.array => g[a] = h[a]
                /\ \A i \in 1 .. Len(h[a]) : g[a][i] # h[a][i] => a = s.array /\ a = t.array /\ i = s.len + 1
    BY <2>2, <2>4, <2>6, <2>7
  <2> QED
    BY <1>1, <2>1, <2>2, <2>4, <2>6, <2>7, <2>8, <2>9, <2>10
<1>3. CASE ~ HasRoom(h, s)
  <2> DEFINE size == IF s.len = 0 THEN 1 ELSE 2 * s.len
             row  == [i \in 1 .. size |-> IF i <= s.len THEN h[s.array][i]
                                          ELSE IF i = s.len + 1 THEN x ELSE Blank]
  <2>1. size \in Nat /\ s.len + 1 \in 1 .. size
    BY <1>1
  <2>2. g = Append(h, row)
    BY <1>3 DEF HeapAfterAppend
  <2>3. \A i \in 1 .. s.len : h[s.array][i] \in S
    BY <1>1, ElementOfSeq
  <2>4. \A i \in 1 .. size : row[i] \in S
    BY <1>1, <2>1, <2>3
  <2>5. row \in [1 .. size -> S]
    BY <2>4
  <2>7. \A i \in 1 .. s.len : row[i] = h[s.array][i]
    BY <1>1, <2>1
  <2>8. row[s.len + 1] = x
    BY <1>1, <2>1
  <2> HIDE DEF row, size
  <2>6. row \in Seq(S) /\ Len(row) = size
    BY <2>1, <2>5
  <2>9. /\ g \in Seq(Seq(S)) /\ Len(g) = Len(h) + 1 /\ g[Len(h) + 1] = row
        /\ \A a \in 1 .. Len(h) : g[a] = h[a]
    BY <2>2, <2>6, AppendProperties
  <2>10. t = [array |-> Len(h) + 1, len |-> s.len + 1]
    BY <1>3 DEF SliceAfterAppend, Slice
  <2>11. t \in SliceType /\ t.array = Len(h) + 1 /\ t.len = s.len + 1
    BY <1>1, <2>10 DEF SliceType
  <2>12. DOMAIN h = 1 .. Len(h) /\ DOMAIN g = 1 .. Len(h) + 1
    BY <2>9, LenProperties
  <2>13. /\ g[t.array] = row /\ t.array \in DOMAIN g /\ t.array \notin DOMAIN h
         /\ t.len \in 0 .. Len(g[t.array])
    BY <1>1, <2>1, <2>6, <2>9, <2>11, <2>12
  <2>14. \A a \in DOMAIN h : g[a] = h[a]
    BY <2>9, <2>12
  <2>15. Len(g) >= Len(h)
    BY <1>1, <2>9
  <2> QED
    BY <2>7, <2>8, <2>9, <2>11, <2>13, <2>14, <2>15
<1> QED
  BY <1>2, <1>3
-----------------------------------------------------------------------------

(* Cells, records and heaps stay what they are as the heap grows.          *)
LEMMA CellsGrow ==
  ASSUME NEW n \in Nat, NEW m \in Nat, n <= m
  PROVE  /\ Cell(n) \subseteq Cell(m) /\ Seq(Cell(n)) \subseteq Seq(Cell(m))
         /\ Seq(Seq(Cell(n))) \subseteq Seq(Seq(Cell(m)))
         /\ Records(n) \subseteq Records(m)
<1>1. 0 .. n \subseteq 0 .. m
  OBVIOUS
<1>2. Cell(n) \subseteq Cell(m)
  BY <1>1 DEF Cell
<1>3. Seq(Cell(n)) \subseteq Seq(Cell(m))
  BY <1>2, SeqMonotonic
<1>4. Seq(Seq(Cell(n))) \subseteq Seq(Seq(Cell(m)))
  BY <1>3, SeqMonotonic
<1>5. Records(n) \subseteq Records(m)
  BY <1>3 DEF Records
<1> QED
  BY <1>2, <1>3, <1>4, <1>5

(* The cells that the model writes are cells of any heap.                  *)
LEMMA TextsAreCells ==
  ASSUME NEW n \in Nat
  PROVE  /\ Clear \in Cell(n) /\ Blank \in Cell(n) /\ Plain("masked") \in Cell(n)
         /\ Plain("!BUG") \in Cell(n)
         /\ \A c \in Nat : Stamp(c) \in Cell(n)
         /\ \A a \in 1 .. n : Group(a) \in Cell(n)
         /\ \A x \in Cell(n) : MaskedText(x) \in Cell(n) /\ (x.group = 0 => MaskedText(x).group = 0)
<1>1. 0 \in 0 .. n /\ 0 \in Nat /\ \A a \in 1 .. n : a \in 0 .. n
  OBVIOUS
<1>2. /\ Clear \in Cell(n) /\ Blank \in Cell(n) /\ Plain("masked") \in Cell(n)
      /\ Plain("!BUG") \in Cell(n) /\ Plain("masked").group = 0
  BY <1>1 DEF Clear, Blank, Plain, Cell, Texts
<1>3. \A c \in Nat : Stamp(c) \in Cell(n)
  BY <1>1 DEF Stamp, Cell, Texts
<1>4. \A a \in 1 .. n : Group(a) \in Cell(n)
  BY <1>1 DEF Group, Cell, Texts
<1> QED
  BY <1>2, <1>3, <1>4 DEF MaskedText

(* Heap g is heap h with cells written and arrays added.                   *)
Grown(h, g) ==
  /\ g \in Seq(Seq(Cell(Len(g))))
  /\ Len(g) >= Len(h) /\ Len(g) \in Nat
  /\ \A a \in DOMAIN h : a \in DOMAIN g /\ Len(g[a]) = Len(h[a])

LEMMA GrownIsTransitive ==
  ASSUME NEW h, NEW g, NEW f, Len(h) \in Nat, Grown(h, g), Grown(g, f)
  PROVE  Grown(h, f)
BY DEF Grown

(* A copy of some cells is in an array of its own.                         *)
OwnArray(h, cells, g, t) ==
  /\ Len(g) = Len(h) + 1
  /\ t \in SliceType /\ t.array = Len(h) + 1 /\ t.len = Len(cells)
  /\ t.array \notin DOMAIN h /\ Within(g, t)
  /\ g[t.array] = cells
  /\ \A a \in DOMAIN h : g[a] = h[a]

LEMMA AllocateGrows ==
  ASSUME NEW h, h \in Seq(Seq(Cell(Len(h)))), NEW cells \in Seq(Cell(Len(h))),
         NEW g, g = Allocate(h, cells), NEW t, t = Allocated(h, cells)
  PROVE  Grown(h, g) /\ OwnArray(h, cells, g, t)
<1>1. Len(h) \in Nat /\ DOMAIN h = 1 .. Len(h) /\ Len(cells) \in Nat
  BY LenProperties
<1>2. g = Append(h, cells)
  BY DEF Allocate
<1>3. /\ g \in Seq(Seq(Cell(Len(h)))) /\ Len(g) = Len(h) + 1
      /\ \A a \in 1 .. Len(h) : g[a] = h[a]
      /\ g[Len(h) + 1] = cells
  BY <1>2, AppendProperties
<1>4. Len(g) \in Nat /\ Len(g) >= Len(h) /\ DOMAIN g = 1 .. Len(h) + 1
  BY <1>1, <1>3, LenProperties
<1>5. g \in Seq(Seq(Cell(Len(g))))
  BY <1>1, <1>3, <1>4, CellsGrow
<1>6. t = [array |-> Len(h) + 1, len |-> Len(cells)]
  BY DEF Allocated, Slice
<1>7. t \in SliceType /\ t.array = Len(h) + 1 /\ t.len = Len(cells)
  BY <1>1, <1>6 DEF SliceType
<1>8. t.array \notin DOMAIN h /\ t.array \in DOMAIN g /\ g[t.array] = cells
  BY <1>1, <1>3, <1>4, <1>7
<1>9. t.len \in 0 .. Len(g[t.array])
  BY <1>1, <1>7, <1>8
<1>10. \A a \in DOMAIN h : a \in DOMAIN g /\ g[a] = h[a]
  BY <1>1, <1>3, <1>4
<1> QED
  BY <1>3, <1>4, <1>5, <1>7, <1>8, <1>9, <1>10 DEF Grown, OwnArray, Within

(* append within a heap of cells, whichever array it ends up in.           *)
LEMMA AppendGrows ==
  ASSUME NEW h, h \in Seq(Seq(Cell(Len(h)))), NEW x \in Cell(Len(h)), NEW s \in SliceType,
         Within(h, s), NEW g, g = HeapAfterAppend(h, s, x),
         NEW t, t = SliceAfterAppend(h, s)
  PROVE  Grown(h, g) /\ OneCellWritten(h, s, x, g, t)
<1>1. Len(h) \in Nat
  BY LenProperties
<1>2. Blank \in Cell(Len(h))
  BY <1>1, TextsAreCells
<1>3. g \in Seq(Seq(Cell(Len(h)))) /\ OneCellWritten(h, s, x, g, t)
  <2>1. s.array \in DOMAIN h /\ s.len \in 0 .. Len(h[s.array])
    BY DEF Within
  <2> QED
    BY <1>2, <2>1, AppendWritesOneCell, Zenon
<1>4. Len(g) \in Nat /\ DOMAIN g = 1 .. Len(g) /\ DOMAIN h = 1 .. Len(h)
  BY <1>3, LenProperties
<1>5. Len(g) >= Len(h) /\ \A a \in DOMAIN h : Len(g[a]) = Len(h[a])
  BY <1>3 DEF OneCellWritten
<1>6. g \in Seq(Seq(Cell(Len(g))))
  BY <1>1, <1>3, <1>4, <1>5, CellsGrow
<1>7. \A a \in DOMAIN h : a \in DOMAIN g
  BY <1>1, <1>4, <1>5
<1> QED
  BY <1>3, <1>4, <1>5, <1>6, <1>7 DEF Grown

(* anonymize writes into the groups of the cells and makes a new one if    *)
(* there is one; what is not a group it returns changed.                   *)
Masking(h, cells, g, new) ==
  /\ Grown(h, g)
  /\ \A a \in DOMAIN h : a \notin GroupsOf(cells) => g[a] = h[a]
  /\ new \in Seq(Cell(Len(g))) /\ Len(new) = Len(cells)
  /\ \A i \in 1 .. Len(cells) :
        /\ new[i].group = 0 \/ new[i].group > Len(h)
        /\ cells[i].group = 0 => new[i] = MaskedText(cells[i]) /\ new[i].group = 0

LEMMA AnonymizeMasks ==
  ASSUME NEW h, h \in Seq(Seq(Cell(Len(h)))), NEW cells \in Seq(Cell(Len(h))),
         NEW g, g = HeapAfterAnonymize(h, cells), NEW new, new = Anonymized(h, cells)
  PROVE  Masking(h, cells, g, new)
<1>1. /\ Len(h) \in Nat /\ DOMAIN h = 1 .. Len(h)
      /\ Len(cells) \in Nat /\ DOMAIN cells = 1 .. Len(cells)
  BY LenProperties
<1>2. PICK n : n = Len(h)
  OBVIOUS
<1>3. PICK G : G = GroupsOf(cells)
  OBVIOUS
<1>4. PICK masked : masked = [a \in DOMAIN h |-> IF a \in G THEN [i \in DOMAIN h[a] |-> MaskedText(h[a][i])]
                                                 ELSE h[a]]
  OBVIOUS
<1>5. /\ \A i \in 1 .. Len(cells) : cells[i] \in Cell(n)
      /\ \A a \in 1 .. n : h[a] \in Seq(Cell(n))
  BY <1>1, <1>2, ElementOfSeq
<1>6. G \subseteq 1 .. n
  <2>1. ASSUME NEW x \in G PROVE x \in 1 .. n
    <3>1. PICK i \in 1 .. Len(cells) : x = cells[i].group /\ x # 0
      BY <1>1, <1>3 DEF GroupsOf
    <3>2. x \in 0 .. n
      BY <1>5, <3>1 DEF Cell
    <3> QED
      BY <1>1, <1>2, <3>1, <3>2
  <2> QED
    BY <2>1
<1>7. IsFiniteSet(G) /\ Cardinality(G) \in Nat /\ (Cardinality(G) = 0 <=> G = {})
  <2>1. IsFiniteSet(1 .. n)
    BY <1>1, <1>2, FS_Interval
  <2>2. IsFiniteSet(G)
    BY <1>6, <2>1, FS_Subset
  <2> QED
    BY <2>2, FS_CardinalityType, FS_EmptySet
<1>8. ASSUME NEW a \in 1 .. n
      PROVE  /\ masked[a] \in Seq(Cell(n)) /\ Len(masked[a]) = Len(h[a])
             /\ a \notin G => masked[a] = h[a]
  <2>1. CASE a \notin G
    BY <1>1, <1>2, <1>4, <1>5, <2>1
  <2>2. CASE a \in G
    <3>1. masked[a] = [i \in DOMAIN h[a] |-> MaskedText(h[a][i])]
      BY <1>1, <1>2, <1>4, <2>2
    <3>2. Len(h[a]) \in Nat /\ DOMAIN h[a] = 1 .. Len(h[a])
      BY <1>5, LenProperties
    <3>3. \A i \in 1 .. Len(h[a]) : MaskedText(h[a][i]) \in Cell(n)
      <4>1. \A i \in 1 .. Len(h[a]) : h[a][i] \in Cell(n)
        BY <1>5, ElementOfSeq
      <4> QED
        BY <1>1, <1>2, <4>1, TextsAreCells
    <3>4. masked[a] \in [1 .. Len(h[a]) -> Cell(n)]
      BY <3>1, <3>2, <3>3
    <3>5. \A S : \A k \in Nat : \A f \in [1 .. k -> S] : f \in Seq(S) /\ Len(f) = k
      OBVIOUS
    <3> QED
      BY <2>2, <3>2, <3>4, <3>5
  <2> QED
    BY <2>1, <2>2
<1>9. masked \in Seq(Seq(Cell(n))) /\ Len(masked) = n
  <2>1. masked \in [1 .. n -> Seq(Cell(n))]
    BY <1>1, <1>2, <1>4, <1>8
  <2>2. \A S : \A k \in Nat : \A f \in [1 .. k -> S] : f \in Seq(S) /\ Len(f) = k
    OBVIOUS
  <2> QED
    BY <1>1, <1>2, <2>1, <2>2
<1>10. PICK more : more = [i \in 1 .. Cardinality(G) |-> masked[CHOOSE a \in G : TRUE]]
  OBVIOUS
<1>11. more \in Seq(Seq(Cell(n))) /\ Len(more) = Cardinality(G)
  <2>1. ASSUME NEW i \in 1 .. Cardinality(G) PROVE masked[CHOOSE a \in G : TRUE] \in Seq(Cell(n))
    <3>1. G # {}
      BY <1>7
    <3>2. (CHOOSE a \in G : TRUE) \in G
      BY <3>1
    <3> QED
      BY <1>6, <1>8, <3>2
  <2>2. more \in [1 .. Cardinality(G) -> Seq(Cell(n))]
    BY <1>10, <2>1
  <2>3. \A S : \A k \in Nat : \A f \in [1 .. k -> S] : f \in Seq(S) /\ Len(f) = k
    OBVIOUS
  <2> QED
    BY <1>7, <2>2, <2>3
<1>12. g = masked \o more
  BY <1>3, <1>4, <1>10 DEF HeapAfterAnonymize
<1>13. /\ g \in Seq(Seq(Cell(n))) /\ Len(g) = n + Cardinality(G)
       /\ \A a \in 1 .. n : g[a] = masked[a]
  <2>1. /\ masked \o more \in Seq(Seq(Cell(n)))
        /\ Len(masked \o more) = Len(masked) + Len(more)
        /\ \A a \in 1 .. Len(masked) + Len(more) :
              (masked \o more)[a] = IF a <= Len(masked) THEN masked[a] ELSE more[a - Len(masked)]
    BY <1>9, <1>11, ConcatProperties
  <2>2. \A a \in 1 .. n : a \in 1 .. n + Cardinality(G) /\ a <= n
    BY <1>1, <1>2, <1>7
  <2> QED
    BY <1>9, <1>11, <1>12, <2>1, <2>2
<1>14. Len(g) \in Nat /\ Len(g) >= n /\ DOMAIN g = 1 .. Len(g) /\ n \in Nat
  BY <1>1, <1>2, <1>7, <1>13, LenProperties
<1>15. Grown(h, g)
  <2>1. g \in Seq(Seq(Cell(Len(g))))
    BY <1>13, <1>14, CellsGrow
  <2>2. ASSUME NEW a \in DOMAIN h PROVE a \in DOMAIN g /\ Len(g[a]) = Len(h[a])
    <3>1. a \in 1 .. n /\ a \in 1 .. Len(g)
      BY <1>1, <1>2, <1>14
    <3> QED
      BY <1>8, <1>13, <1>14, <3>1
  <2> QED
    BY <1>2, <1>14, <2>1, <2>2 DEF Grown
<1>16. \A a \in DOMAIN h : a \notin G => g[a] = h[a]
  BY <1>1, <1>2, <1>8, <1>13
<1>17. ASSUME NEW i \in 1 .. Len(cells)
       PROVE  /\ new[i] \in Cell(Len(g))
              /\ new[i].group = 0 \/ new[i].group > n
              /\ cells[i].group = 0 => new[i] = MaskedText(cells[i]) /\ new[i].group = 0
  <2>1. new[i] = IF cells[i].group = 0 THEN MaskedText(cells[i]) ELSE Group(n + 1)
    BY <1>1, <1>2 DEF Anonymized
  <2>2. CASE cells[i].group = 0
    <3>1. MaskedText(cells[i]) \in Cell(n) /\ MaskedText(cells[i]).group = 0
      BY <1>1, <1>2, <1>5, <2>2, TextsAreCells
    <3> QED
      BY <1>14, <2>1, <2>2, <3>1, CellsGrow
  <2>3. CASE cells[i].group # 0
    <3>1. cells[i].group \in G
      BY <1>1, <1>3, <2>3 DEF GroupsOf
    <3>2. n + 1 \in 1 .. Len(g)
      BY <1>7, <1>13, <1>14, <3>1
    <3>3. new[i] \in Cell(Len(g))
      BY <1>14, <2>1, <2>3, <3>2, TextsAreCells
    <3>4. new[i].group = n + 1
      BY <2>1, <2>3 DEF Group
    <3> QED
      BY <1>14, <2>3, <3>3, <3>4
  <2> QED
    BY <2>2, <2>3
<1>18. new \in Seq(Cell(Len(g))) /\ Len(new) = Len(cells)
  <2>1. DOMAIN new = 1 .. Len(cells) /\ new = [i \in 1 .. Len(cells) |-> new[i]]
    BY <1>1 DEF Anonymized
  <2>2. new \in [1 .. Len(cells) -> Cell(Len(g))]
    BY <1>17, <2>1
  <2>3. \A S : \A k \in Nat : \A f \in [1 .. k -> S] : f \in Seq(S) /\ Len(f) = k
    OBVIOUS
  <2> QED
    BY <1>1, <2>2, <2>3
<1> QED
  BY <1>2, <1>3, <1>15, <1>16, <1>17, <1>18 DEF Masking

-----------------------------------------------------------------------------

(* What child c may do with slice s: who does not write leaves its         *)
(* elements alone, and has them, with its mark, wherever its own slice is; *)
(* a GDPR middleware changes them in place, group by group.                *)
Kept(h, s, c, g, t) ==
  /\ Grown(h, g) /\ t \in SliceType /\ Within(g, t)
  /\ t.array = s.array \/ t.array \notin DOMAIN h
  /\ t.len = s.len + Len(Mark(c))
  /\ \A a \in DOMAIN h :
        a # s.array /\ ~ (does[c] = "gdpr" /\ a \in GroupsOf(Contents(h, s))) => g[a] = h[a]
  /\ does[c] \notin {"gdpr", "appender"} => \A a \in DOMAIN h : g[a] = h[a]
  /\ does[c] # "gdpr" =>
        /\ \A i \in 1 .. s.len : g[s.array][i] = h[s.array][i]
        /\ \A i \in 1 .. s.len : g[t.array][i] = h[s.array][i]
        /\ does[c] = "appender" => g[t.array][t.len] = Stamp(c)
  /\ does[c] = "gdpr" =>
        /\ t = s
        /\ \A i \in 1 .. s.len :
              /\ g[s.array][i].group = 0 \/ g[s.array][i].group > Len(h)
              /\ h[s.array][i].group = 0 => g[s.array][i] = MaskedText(h[s.array][i])

(* An appender's mark is one cell, and the others leave none.              *)
LEMMA MarkTyped ==
  ASSUME NEW c, NEW n \in Nat, c \in Nat
  PROVE  /\ Mark(c) \in Seq(Cell(n)) /\ Len(Mark(c)) \in Nat
         /\ Len(Mark(c)) = IF does[c] = "appender" THEN 1 ELSE 0
         /\ does[c] = "appender" => Mark(c)[1] = Stamp(c)
<1>1. Stamp(c) \in Cell(n)
  BY TextsAreCells
<1> QED
  BY <1>1 DEF Mark

(* The GDPR middleware masks the slice it is given, in place.              *)
LEMMA GdprWrites ==
  ASSUME NEW h, h \in Seq(Seq(Cell(Len(h)))), NEW s \in SliceType, Within(h, s),
         NEW c \in Nat, does[c] = "gdpr",
         NEW g, g = gdprWithAttrs(h, s).heap, NEW t, t = gdprWithAttrs(h, s).slice
  PROVE  Kept(h, s, c, g, t)
<1>1. /\ Len(h) \in Nat /\ DOMAIN h = 1 .. Len(h)
      /\ s.array \in DOMAIN h /\ s.len \in 0 .. Len(h[s.array]) /\ s.len \in Nat
      /\ h[s.array] \in Seq(Cell(Len(h))) /\ Len(h[s.array]) \in Nat
  <2>1. Len(h) \in Nat /\ DOMAIN h = 1 .. Len(h)
    BY LenProperties
  <2>2. s.array \in DOMAIN h /\ s.len \in 0 .. Len(h[s.array]) /\ s.len \in Nat
    BY DEF Within, SliceType
  <2>3. h[s.array] \in Seq(Cell(Len(h)))
    BY <2>1, <2>2, ElementOfSeq
  <2> QED
    BY <2>1, <2>2, <2>3, LenProperties
<1>2. PICK cells : cells = Contents(h, s)
  OBVIOUS
<1>3. /\ cells \in Seq(Cell(Len(h))) /\ Len(cells) = s.len
      /\ \A i \in 1 .. s.len : cells[i] = h[s.array][i]
  BY <1>1, <1>2, ContentsAreCells
<1>4. PICK f, new : f = HeapAfterAnonymize(h, cells) /\ new = Anonymized(h, cells)
  OBVIOUS
<1>5. Masking(h, cells, f, new)
  BY <1>3, <1>4, AnonymizeMasks
<1>6. /\ Grown(h, f) /\ new \in Seq(Cell(Len(f))) /\ Len(new) = s.len
      /\ \A a \in DOMAIN h : a \notin GroupsOf(cells) => f[a] = h[a]
      /\ \A i \in 1 .. s.len :
            /\ new[i].group = 0 \/ new[i].group > Len(h)
            /\ cells[i].group = 0 => new[i] = MaskedText(cells[i])
  BY <1>3, <1>5 DEF Masking
<1>7. /\ f \in Seq(Seq(Cell(Len(f)))) /\ Len(f) \in Nat /\ DOMAIN f = 1 .. Len(f)
      /\ s.array \in DOMAIN f /\ Len(f[s.array]) = Len(h[s.array])
      /\ f[s.array] \in Seq(Cell(Len(f)))
  <2>1. f \in Seq(Seq(Cell(Len(f)))) /\ s.array \in DOMAIN f /\ Len(f[s.array]) = Len(h[s.array])
    BY <1>1, <1>6 DEF Grown
  <2> QED
    BY <2>1, ElementOfSeq, LenProperties
<1>8. PICK rest, row : rest = SubSeq(f[s.array], s.len + 1, Len(f[s.array])) /\ row = new \o rest
  OBVIOUS
<1>9. rest \in Seq(Cell(Len(f))) /\ Len(rest) = Len(f[s.array]) - s.len
  <2>1. \A i \in s.len + 1 .. Len(f[s.array]) : f[s.array][i] \in Cell(Len(f))
    <3>1. \A i \in s.len + 1 .. Len(f[s.array]) : i \in 1 .. Len(f[s.array])
      BY <1>1, <1>7
    <3> QED
      BY <1>7, <3>1, ElementOfSeq
  <2>2. s.len + 1 \in Int /\ Len(f[s.array]) \in Int
    BY <1>1, <1>7
  <2>3. /\ rest \in Seq(Cell(Len(f)))
        /\ Len(rest) = IF s.len + 1 <= Len(f[s.array]) THEN Len(f[s.array]) - (s.len + 1) + 1 ELSE 0
    BY <1>8, <2>1, <2>2, SubSeqProperties
  <2>4. PICK k, n : k = s.len /\ n = Len(f[s.array])
    OBVIOUS
  <2>5. k \in Nat /\ n \in Nat /\ k <= n
    BY <1>1, <1>7, <2>4
  <2>6. (IF k + 1 <= n THEN n - (k + 1) + 1 ELSE 0) = n - k
    BY ONLY <2>5
  <2> QED
    BY <2>3, <2>4, <2>6
<1>10. /\ row \in Seq(Cell(Len(f))) /\ Len(row) = Len(f[s.array])
       /\ \A i \in 1 .. s.len : row[i] = new[i]
  <2>1. /\ row \in Seq(Cell(Len(f))) /\ Len(row) = Len(new) + Len(rest)
        /\ \A i \in 1 .. Len(new) + Len(rest) : row[i] = IF i <= Len(new) THEN new[i] ELSE rest[i - Len(new)]
    <3>1. new \in Seq(Cell(Len(f))) /\ rest \in Seq(Cell(Len(f)))
      BY <1>6, <1>9
    <3> QED
      BY <1>8, <3>1, ConcatProperties
  <2>2. Len(new) + Len(rest) = Len(f[s.array]) /\ \A i \in 1 .. s.len : i \in 1 .. Len(f[s.array])
    <3>1. PICK k, n, m : k = s.len /\ n = Len(f[s.array]) /\ m = Len(rest)
      OBVIOUS
    <3>2. Len(new) = k /\ m = n - k /\ k \in Nat /\ n \in Nat /\ k <= n
      BY <1>1, <1>6, <1>7, <1>9, <3>1
    <3>3. k + m = n /\ \A i \in 1 .. k : i \in 1 .. n
      BY ONLY <3>2
    <3> QED
      BY <3>1, <3>2, <3>3
  <2> QED
    BY <1>6, <2>1, <2>2
<1>11. g = [f EXCEPT ![s.array] = row] /\ t = s
  BY <1>2, <1>4, <1>8 DEF gdprWithAttrs, Made
<1>12. /\ g \in Seq(Seq(Cell(Len(f)))) /\ Len(g) = Len(f) /\ DOMAIN g = DOMAIN f
       /\ \A a \in DOMAIN f : g[a] = IF a = s.array THEN row ELSE f[a]
  <2>1. /\ g \in Seq(Seq(Cell(Len(f)))) /\ Len(g) = Len(f)
        /\ \A a \in 1 .. Len(f) : g[a] = IF a = s.array THEN row ELSE f[a]
    BY <1>7, <1>10, <1>11, ExceptSeq
  <2> QED
    BY <1>7, <2>1, LenProperties
<1>13. Grown(h, g)
  <2>1. ASSUME NEW a \in DOMAIN h PROVE a \in DOMAIN g /\ Len(g[a]) = Len(h[a])
    BY <1>6, <1>10, <1>12 DEF Grown
  <2> QED
    BY <1>6, <1>12, <2>1 DEF Grown
<1>14. Within(g, t)
  BY <1>1, <1>7, <1>10, <1>11, <1>12 DEF Within
<1>15. \A a \in DOMAIN h : a # s.array /\ a \notin GroupsOf(cells) => g[a] = h[a]
  BY <1>6, <1>12 DEF Grown
<1>16. \A i \in 1 .. s.len :
          /\ g[s.array][i].group = 0 \/ g[s.array][i].group > Len(h)
          /\ h[s.array][i].group = 0 => g[s.array][i] = MaskedText(h[s.array][i])
  <2>1. g[s.array] = row
    BY <1>7, <1>12
  <2>2. \A i \in 1 .. s.len : row[i] = new[i] /\ cells[i] = h[s.array][i]
    BY <1>3, <1>10
  <2> QED
    BY <1>6, <2>1, <2>2
<1>17. Len(Mark(c)) = 0
  BY <1>1, MarkTyped
<1> QED
  BY <1>1, <1>2, <1>11, <1>13, <1>14, <1>15, <1>16, <1>17 DEF Kept

(* Every other child copies, keeps or appends to the slice.                *)
LEMMA ChildKeeps ==
  ASSUME NEW h, h \in Seq(Seq(Cell(Len(h)))), NEW s \in SliceType, Within(h, s),
         NEW c \in Nat, does[c] \in Behaviour,
         NEW g, g = ChildWithAttrs(h, s, c).heap, NEW t, t = ChildWithAttrs(h, s, c).slice
  PROVE  Kept(h, s, c, g, t)
<1>1. /\ Len(h) \in Nat /\ DOMAIN h = 1 .. Len(h)
      /\ s.array \in DOMAIN h /\ s.len \in 0 .. Len(h[s.array]) /\ s.len \in Nat
  BY LenProperties DEF Within, SliceType
<1>2. Len(Mark(c)) = IF does[c] = "appender" THEN 1 ELSE 0
  BY <1>1, MarkTyped
<1>3. CASE does[c] = "gdpr"
  <2>1. g = gdprWithAttrs(h, s).heap /\ t = gdprWithAttrs(h, s).slice
    BY <1>3 DEF ChildWithAttrs
  <2> QED
    BY <1>3, <2>1, GdprWrites
<1>4. CASE does[c] = "retainer"
  <2>1. g = h /\ t = s
    BY <1>4 DEF ChildWithAttrs, Made
  <2> QED
    BY <1>1, <1>2, <1>4, <2>1 DEF Kept, Grown
<1>5. CASE does[c] = "appender"
  <2>1. g = HeapAfterAppend(h, s, Stamp(c)) /\ t = SliceAfterAppend(h, s)
    BY <1>5 DEF ChildWithAttrs, Appended, Made
  <2>2. Stamp(c) \in Cell(Len(h))
    BY <1>1, TextsAreCells
  <2>3. Grown(h, g) /\ OneCellWritten(h, s, Stamp(c), g, t)
    BY <2>1, <2>2, AppendGrows
  <2>4. /\ t \in SliceType /\ Within(g, t) /\ t.len = s.len + 1
        /\ t.array = s.array \/ t.array \notin DOMAIN h
        /\ \A i \in 1 .. s.len : g[t.array][i] = h[s.array][i]
        /\ g[t.array][t.len] = Stamp(c)
        /\ \A a \in DOMAIN h : a # s.array => g[a] = h[a]
    BY <2>3 DEF OneCellWritten, Within
  <2>5. \A i \in 1 .. s.len : g[s.array][i] = h[s.array][i]
    <3>1. \A i \in 1 .. Len(h[s.array]) : g[s.array][i] # h[s.array][i] => i = s.len + 1
      BY <1>1, <2>3 DEF OneCellWritten
    <3>2. Len(h[s.array]) \in Nat
      <4>1. h[s.array] \in Seq(Cell(Len(h)))
        BY <1>1, ElementOfSeq
      <4> QED
        BY <4>1, LenProperties
    <3>3. \A i \in 1 .. s.len : i \in 1 .. Len(h[s.array]) /\ i # s.len + 1
      BY <1>1, <3>2
    <3> QED
      BY <3>1, <3>3
  <2> QED
    BY <1>2, <1>5, <2>3, <2>4, <2>5 DEF Kept
<1>6. CASE does[c] \notin {"gdpr", "retainer", "appender"}
  <2>1. PICK cells : cells = Contents(h, s)
    OBVIOUS
  <2>2. g = Allocate(h, cells) /\ t = Allocated(h, cells)
    BY <1>6, <2>1 DEF ChildWithAttrs, InlineWithAttrs, Made
  <2>3. /\ cells \in Seq(Cell(Len(h))) /\ Len(cells) = s.len
        /\ \A i \in 1 .. s.len : cells[i] = h[s.array][i]
    BY <1>1, <2>1, ContentsAreCells
  <2>4. Grown(h, g) /\ OwnArray(h, cells, g, t)
    BY <2>2, <2>3, AllocateGrows
  <2>5. /\ t \in SliceType /\ Within(g, t) /\ t.len = s.len /\ t.array \notin DOMAIN h
        /\ g[t.array] = cells /\ \A a \in DOMAIN h : g[a] = h[a]
    BY <2>3, <2>4 DEF OwnArray
  <2> QED
    BY <1>1, <1>2, <1>6, <2>3, <2>4, <2>5 DEF Kept
<1> QED
  BY <1>3, <1>4, <1>5, <1>6

-----------------------------------------------------------------------------

(* A composite has two children or more, a recovery handler just two.      *)
LEMMA ChildrenAre ==
  ASSUME Fixed
  PROVE  /\ Len(does) \in Nat /\ Len(does) >= 2 /\ Children = 1 .. Len(does)
         /\ 1 \in Children /\ 2 \in Children
         /\ \A c \in Children : c \in Nat /\ does[c] \in Behaviour
         /\ kind = "recovery" => Children = 1 .. 2
<1>1. PICK n \in 2 .. MaxChildren : does \in [1 .. n -> Behaviour]
  BY DEF Fixed
<1>2. n \in Nat /\ n >= 2
  BY SharingAssumption
<1>3. does \in Seq(Behaviour) /\ Len(does) = n /\ DOMAIN does = 1 .. n
  <2>1. \A S : \A k \in Nat : \A f \in [1 .. k -> S] : f \in Seq(S) /\ Len(f) = k
    OBVIOUS
  <2> QED
    BY <1>1, <1>2, <2>1
<1> QED
  BY <1>1, <1>2, <1>3 DEF Children, Fixed

(* The user's two slices, and the arrays that are there from the start.    *)
LEMMA OriginalsTyped ==
  ASSUME Fixed, HeapTyped
  PROVE  /\ Len(heap) \in Nat /\ DOMAIN heap = 1 .. Len(heap) /\ Len(heap) >= 4
         /\ 1 \in DOMAIN heap /\ 2 \in DOMAIN heap /\ 3 \in DOMAIN heap /\ 4 \in DOMAIN heap
         /\ given \in SliceType /\ given.array = 2 /\ given.len = Len(Attrs)
         /\ given.len \in {1, 2} /\ given.len \in 0 .. Len(heap[2])
         /\ logged.back \in SliceType /\ logged.back.array = 4
         /\ logged.back.len \in {0, 1} /\ logged.back.len \in 0 .. Len(heap[4])
         /\ logged = RecordOf(logged.front, logged.back, FALSE)
         /\ Len(heap[2]) \in Nat /\ Len(heap[4]) \in Nat
         /\ Len(logged.front) \in Nat
         /\ Attrs \in Seq(Cell(Len(heap)))
         /\ logged.front \in Seq(Cell(Len(heap)))
<1>1. /\ Len(heap) \in Nat /\ DOMAIN heap = 1 .. Len(heap) /\ Len(heap) >= 4
      /\ 1 \in DOMAIN heap /\ 2 \in DOMAIN heap /\ 3 \in DOMAIN heap /\ 4 \in DOMAIN heap
  BY LenProperties DEF HeapTyped
<1>2. Clear \in Cell(Len(heap)) /\ Group(1) \in Cell(Len(heap))
  BY <1>1, TextsAreCells
<1>3. Attrs \in Seq(Cell(Len(heap))) /\ Len(Attrs) \in {1, 2}
  BY <1>2 DEF Attrs
<1>4. given \in SliceType /\ given.array = 2 /\ given.len = Len(Attrs)
  BY <1>3 DEF Fixed, Slice, SliceType
<1>5. PICK n \in {0, 1} : logged = RecordOf(logged.front, Slice(4, n), FALSE)
  BY DEF Fixed
<1>6. logged.back = [array |-> 4, len |-> n]
  BY <1>5 DEF RecordOf, Slice
<1>7. logged.back \in SliceType /\ logged.back.array = 4 /\ logged.back.len = n
  BY <1>6 DEF SliceType
<1>8. logged = RecordOf(logged.front, logged.back, FALSE)
  BY <1>5, <1>6 DEF Slice
<1>9. Len(heap[2]) \in Nat /\ Len(heap[4]) \in Nat
  <2>1. heap[2] \in Seq(Cell(Len(heap))) /\ heap[4] \in Seq(Cell(Len(heap)))
    BY <1>1, ElementOfSeq DEF HeapTyped
  <2> QED
    BY <2>1, LenProperties
<1>10. logged.front \in Seq(Cell(Len(heap))) /\ Len(logged.front) \in Nat
  <2>1. {Clear} \subseteq Cell(Len(heap))
    BY <1>2
  <2> QED
    BY <2>1, SeqMonotonic, LenProperties DEF Fixed
<1>11. given.len \in 0 .. Len(heap[2]) /\ logged.back.len \in 0 .. Len(heap[4])
  BY <1>4, <1>7 DEF HeapTyped, Within
<1> QED
  BY <1>1, <1>3, <1>4, <1>7, <1>8, <1>9, <1>10, <1>11

(* What one child's turn in WithAttrs does to the memory: G is what it is  *)
(* given, t the slice it makes of it, u what a route keeps.                *)
Turn(c, g, t, u) ==
  /\ Grown(heap, g) /\ t \in SliceType /\ Within(g, t)
  /\ u \in Seq(Cell(Len(g)))
  /\ t.len = given.len + Len(Mark(c))
  /\ \A a \in DOMAIN heap :
        /\ ~ (a = 2 /\ ~ CopiesAttrs(kind))
        /\ ~ (does[c] = "gdpr" /\ a \in GroupsOf(Contents(heap, given)))
        => g[a] = heap[a]
  /\ does[c] \notin {"gdpr", "appender"} => \A a \in DOMAIN heap : g[a] = heap[a]
  /\ IF CopiesAttrs(kind) THEN t.array \notin DOMAIN heap
                          ELSE t.array = 2 \/ t.array \notin DOMAIN heap
  /\ does[c] # "gdpr" =>
        /\ \A i \in 1 .. given.len : g[2][i] = heap[2][i]
        /\ \A i \in 1 .. given.len : g[t.array][i] = heap[2][i]
        /\ does[c] = "appender" => g[t.array][t.len] = Stamp(c)
  /\ does[c] = "gdpr" =>
        /\ ~ CopiesAttrs(kind) => t = given
        /\ \A i \in 1 .. given.len :
              /\ g[t.array][i].group = 0 \/ g[t.array][i].group > Len(heap)
              /\ heap[2][i].group = 0 => g[t.array][i] = MaskedText(heap[2][i])
  /\ CopiesAttrs(kind) =>
        /\ Len(u) = given.len
        /\ \A i \in 1 .. given.len : g[t.array][i] = u[i]

LEMMA WithAttrsTurn ==
  ASSUME Fixed, HeapTyped, Typed, WithAttrs
  PROVE  /\ turn \in Children
         /\ Turn(turn, heap', kept'[turn], sees'[turn])
         /\ kept' = [kept EXCEPT ![turn] = kept'[turn]]
         /\ sees' = [sees EXCEPT ![turn] = sees'[turn]]
<1>0. turn \in Children /\ turn \in Nat /\ does[turn] \in Behaviour
  BY ChildrenAre DEF WithAttrs
<1>1. PICK cells, own, made :
        /\ cells = Contents(heap, given)
        /\ own = IF CopiesAttrs(kind) THEN Made(Allocate(heap, cells), Allocated(heap, cells))
                                      ELSE Made(heap, given)
        /\ made = ChildWithAttrs(own.heap, own.slice, turn)
  OBVIOUS
<1>2. PICK c, h, s, g, t, u :
        /\ c = turn /\ h = own.heap /\ s = own.slice
        /\ g = made.heap /\ t = made.slice /\ u = Contents(made.heap, own.slice)
  OBVIOUS
<1>3. /\ heap' = g /\ kept' = [kept EXCEPT ![turn] = t] /\ sees' = [sees EXCEPT ![turn] = u]
  BY <1>1, <1>2 DEF WithAttrs
<1>4. kept'[turn] = t /\ sees'[turn] = u
  BY <1>0, <1>3 DEF Typed
<1>5. /\ heap \in Seq(Seq(Cell(Len(heap)))) /\ Len(heap) \in Nat /\ DOMAIN heap = 1 .. Len(heap)
      /\ given \in SliceType /\ given.array = 2 /\ 2 \in DOMAIN heap
      /\ given.len \in 0 .. Len(heap[2]) /\ given.len \in Nat
  BY OriginalsTyped DEF HeapTyped, SliceType
<1>6. /\ cells \in Seq(Cell(Len(heap))) /\ Len(cells) = given.len
      /\ \A i \in 1 .. given.len : cells[i] = heap[2][i]
  BY <1>1, <1>5, ContentsAreCells
<1>7. /\ h \in Seq(Seq(Cell(Len(h)))) /\ s \in SliceType /\ Within(h, s)
      /\ Grown(heap, h) /\ Contents(h, s) = cells /\ s.len = given.len
      /\ \A i \in 1 .. given.len : h[s.array][i] = heap[2][i]
      /\ \A a \in DOMAIN heap : h[a] = heap[a]
      /\ IF CopiesAttrs(kind) THEN s.array \notin DOMAIN heap ELSE h = heap /\ s = given
  <2>1. CASE CopiesAttrs(kind)
    <3>1. h = Allocate(heap, cells) /\ s = Allocated(heap, cells)
      BY <1>1, <1>2, <2>1 DEF Made
    <3>2. Grown(heap, h) /\ OwnArray(heap, cells, h, s)
      BY <1>5, <1>6, <3>1, AllocateGrows
    <3>3. /\ s \in SliceType /\ s.len = Len(cells) /\ s.array \notin DOMAIN heap /\ Within(h, s)
          /\ h[s.array] = cells /\ \A a \in DOMAIN heap : h[a] = heap[a]
          /\ h \in Seq(Seq(Cell(Len(h)))) /\ Len(h) >= Len(heap) /\ Len(h) \in Nat
      BY <3>2 DEF OwnArray, Grown
    <3>4. Contents(h, s) = cells
      <4>1. /\ Contents(h, s) \in Seq(Cell(Len(h))) /\ Len(Contents(h, s)) = s.len
            /\ \A i \in 1 .. s.len : Contents(h, s)[i] = h[s.array][i]
        BY <3>3, ContentsAreCells DEF Within
      <4>2. cells \in Seq(Cell(Len(h)))
        BY <1>5, <1>6, <3>3, CellsGrow
      <4> QED
        BY <3>3, <4>1, <4>2, SeqEqual
    <3> QED
      BY <1>6, <2>1, <3>2, <3>3, <3>4
  <2>2. CASE ~ CopiesAttrs(kind)
    <3>1. h = heap /\ s = given
      BY <1>1, <1>2, <2>2 DEF Made
    <3>2. Grown(heap, heap)
      BY <1>5 DEF Grown
    <3> QED
      BY <1>1, <1>5, <2>2, <3>1, <3>2 DEF Within
  <2> QED
    BY <2>1, <2>2
<1>8. Kept(h, s, c, g, t)
  BY <1>0, <1>1, <1>2, <1>7, ChildKeeps
<1>9. /\ Grown(h, g) /\ t \in SliceType /\ Within(g, t)
      /\ t.array = s.array \/ t.array \notin DOMAIN h
      /\ t.len = given.len + Len(Mark(c))
      /\ \A a \in DOMAIN h :
            a # s.array /\ ~ (does[c] = "gdpr" /\ a \in GroupsOf(cells)) => g[a] = h[a]
  BY <1>7, <1>8 DEF Kept
<1>10. /\ does[c] # "gdpr" =>
            /\ \A i \in 1 .. given.len : g[s.array][i] = heap[2][i]
            /\ \A i \in 1 .. given.len : g[t.array][i] = heap[2][i]
            /\ does[c] = "appender" => g[t.array][t.len] = Stamp(c)
       /\ does[c] = "gdpr" =>
            /\ t = s
            /\ \A i \in 1 .. given.len :
                  /\ g[s.array][i].group = 0 \/ g[s.array][i].group > Len(h)
                  /\ heap[2][i].group = 0 => g[s.array][i] = MaskedText(heap[2][i])
  BY <1>7, <1>8 DEF Kept
<1>11. /\ Grown(heap, g) /\ Len(h) >= Len(heap) /\ Len(h) \in Nat
       /\ DOMAIN heap \subseteq DOMAIN h
       /\ g \in Seq(Seq(Cell(Len(g))))
  <2>1. Len(h) >= Len(heap) /\ Len(h) \in Nat /\ DOMAIN heap \subseteq DOMAIN h
    BY <1>7 DEF Grown
  <2> QED
    <3>1. Grown(heap, g)
      <4>1. Len(heap) \in Nat /\ Grown(heap, h) /\ Grown(h, g)
        BY <1>5, <1>7, <1>9
      <4> QED
        BY <4>1, GrownIsTransitive
    <3> QED
      BY <2>1, <3>1 DEF Grown
<1>12. s.array \in DOMAIN g /\ s.len \in 0 .. Len(g[s.array])
  BY <1>7, <1>9 DEF Grown, Within
<1>13. /\ u \in Seq(Cell(Len(g))) /\ Len(u) = given.len
       /\ \A i \in 1 .. given.len : u[i] = g[s.array][i]
  <2>1. u = Contents(g, s)
    BY <1>2
  <2>2. g \in Seq(Seq(Cell(Len(g)))) /\ s \in SliceType /\ s.len = given.len
    BY <1>7, <1>11
  <2>3. /\ Contents(g, s) \in Seq(Cell(Len(g))) /\ Len(Contents(g, s)) = s.len
        /\ \A i \in 1 .. s.len : Contents(g, s)[i] = g[s.array][i]
    BY <1>12, <2>2, ContentsAreCells, Zenon
  <2> QED
    BY <2>1, <2>2, <2>3
<1>14. \A a \in DOMAIN heap :
          /\ ~ (a = 2 /\ ~ CopiesAttrs(kind))
          /\ ~ (does[c] = "gdpr" /\ a \in GroupsOf(cells))
          => g[a] = heap[a]
  BY <1>5, <1>7, <1>9, <1>11
<1>15. IF CopiesAttrs(kind) THEN t.array \notin DOMAIN heap
                            ELSE t.array = 2 \/ t.array \notin DOMAIN heap
  BY <1>5, <1>7, <1>9, <1>11
<1>16. does[c] # "gdpr" =>
          /\ \A i \in 1 .. given.len : g[2][i] = heap[2][i]
          /\ \A i \in 1 .. given.len : g[t.array][i] = heap[2][i]
          /\ does[c] = "appender" => g[t.array][t.len] = Stamp(c)
  <2>1. CASE CopiesAttrs(kind)
    BY <1>5, <1>10, <1>14, <2>1
  <2>2. CASE ~ CopiesAttrs(kind)
    BY <1>5, <1>7, <1>10, <2>2
  <2> QED
    BY <2>1, <2>2
<1>17. does[c] = "gdpr" =>
          /\ ~ CopiesAttrs(kind) => t = given
          /\ \A i \in 1 .. given.len :
                /\ g[t.array][i].group = 0 \/ g[t.array][i].group > Len(heap)
                /\ heap[2][i].group = 0 => g[t.array][i] = MaskedText(heap[2][i])
  <2> SUFFICES ASSUME does[c] = "gdpr"
               PROVE  /\ ~ CopiesAttrs(kind) => t = given
                      /\ \A i \in 1 .. given.len :
                            /\ g[t.array][i].group = 0 \/ g[t.array][i].group > Len(heap)
                            /\ heap[2][i].group = 0 => g[t.array][i] = MaskedText(heap[2][i])
    OBVIOUS
  <2>1. ~ CopiesAttrs(kind) => t = given
    BY <1>7, <1>10
  <2>2. ASSUME NEW i \in 1 .. given.len
        PROVE  g[t.array][i].group = 0 \/ g[t.array][i].group > Len(heap)
    <3>1. g[t.array][i].group = 0 \/ g[t.array][i].group > Len(h)
      BY <1>10
    <3>2. g[t.array][i].group \in Int
      <4>1. g[t.array] \in Seq(Cell(Len(g))) /\ i \in 1 .. Len(g[t.array])
        <5>1. t.array \in DOMAIN g /\ s.len \in 0 .. Len(g[t.array]) /\ t = s
          BY <1>10, <1>12
        <5>2. g[t.array] \in Seq(Cell(Len(g)))
          BY <1>11, <5>1, ElementOfSeq, LenProperties
        <5> QED
          BY <1>5, <1>7, <5>1, <5>2, LenProperties
      <4>2. g[t.array][i] \in Cell(Len(g))
        BY <4>1, ElementOfSeq
      <4> QED
        BY <4>2 DEF Cell
    <3>3. Len(h) \in Nat /\ Len(heap) \in Nat /\ Len(h) >= Len(heap)
      BY <1>5, <1>11
    <3> QED
      BY ONLY <3>1, <3>2, <3>3
  <2>3. ASSUME NEW i \in 1 .. given.len, heap[2][i].group = 0
        PROVE  g[t.array][i] = MaskedText(heap[2][i])
    BY <1>10, <2>3
  <2> QED
    BY <2>1, <2>2, <2>3
<1>18. \A i \in 1 .. given.len : g[t.array][i] = u[i]
  BY <1>10, <1>13
<1>19. does[c] \notin {"gdpr", "appender"} => \A a \in DOMAIN heap : g[a] = heap[a]
  BY <1>7, <1>8, <1>11 DEF Kept
<1>20. Turn(c, g, t, u)
  BY <1>1, <1>9, <1>11, <1>13, <1>14, <1>15, <1>16, <1>17, <1>18, <1>19 DEF Turn
<1> QED
  BY <1>0, <1>2, <1>3, <1>4, <1>20

(* What only names the composite and the user's input never changes.       *)
LEMMA FixedStays ==
  ASSUME Fixed, UNCHANGED <<kind, does, given, logged, wrote>>
  PROVE  /\ Fixed' /\ Children' = Children /\ Attrs' = Attrs /\ Behind' = Behind
         /\ \A c : Mark(c)' = Mark(c)
         /\ \A what : Doing(what)' = Doing(what)
         /\ AttrsApply' <=> AttrsApply
         /\ RecordsApply' <=> RecordsApply
<1>1. Children' = Children /\ Attrs' = Attrs /\ Behind' = Behind
  BY DEF Children, Attrs, Behind
<1>2. Fixed'
  BY <1>1 DEF Fixed
<1>3. (\A c : Mark(c)' = Mark(c)) /\ (\A what : Doing(what)' = Doing(what))
  BY <1>1 DEF Mark, Doing
<1>4. /\ EditsGroups(wrote.groups.attrs)' <=> EditsGroups(wrote.groups.attrs)
      /\ EditsGroups(wrote.groups.record)' <=> EditsGroups(wrote.groups.record)
  BY <1>1 DEF EditsGroups, Doing
<1>5. AttrsApply' <=> AttrsApply
  BY <1>1, <1>4 DEF AttrsApply, Doing
<1>6. RecordsApply' <=> RecordsApply
  BY <1>1, <1>4 DEF RecordsApply, Doing
<1> QED
  BY <1>1, <1>2, <1>3, <1>5, <1>6

(* The user's two slices stay where they are while the heap grows.         *)
LEMMA HeapGrows ==
  ASSUME Fixed, HeapTyped, Grown(heap, heap'), UNCHANGED <<kind, does, given, logged, wrote>>
  PROVE  /\ HeapTyped'
         /\ Len(heap) \in Nat /\ Len(heap') \in Nat /\ Len(heap') >= Len(heap)
         /\ \A a \in DOMAIN heap : a \in DOMAIN heap' /\ Len(heap'[a]) = Len(heap[a])
         /\ \A s : Within(heap, s) => Within(heap', s)
         /\ Seq(Cell(Len(heap))) \subseteq Seq(Cell(Len(heap')))
         /\ Records(Len(heap)) \subseteq Records(Len(heap'))
<1>1. /\ Len(heap) \in Nat /\ Len(heap') \in Nat /\ Len(heap') >= Len(heap)
      /\ \A a \in DOMAIN heap : a \in DOMAIN heap' /\ Len(heap'[a]) = Len(heap[a])
      /\ heap' \in Seq(Seq(Cell(Len(heap'))))
  BY OriginalsTyped DEF Grown
<1>2. \A s : Within(heap, s) => Within(heap', s)
  BY <1>1 DEF Within
<1>3. HeapTyped'
  BY <1>1, <1>2 DEF HeapTyped
<1> QED
  BY <1>1, <1>2, <1>3, CellsGrow

(* The user's attributes have no group but array 1, or none with an array  *)
(* that a record or the attributes are in.                                 *)
LEMMA GivenGroups ==
  ASSUME Fixed, HeapTyped, OriginalsKept
  PROVE  /\ \A a \in {2, 3, 4} : a \notin GroupsOf(Contents(heap, given))
         /\ (\A i \in 1 .. given.len : heap[2][i] = Attrs[i]) =>
               \A a \in DOMAIN heap : a # 1 => a \notin GroupsOf(Contents(heap, given))
<1>1. PICK cells : cells = Contents(heap, given)
  OBVIOUS
<1>2. /\ cells \in Seq(Cell(Len(heap))) /\ Len(cells) = given.len
      /\ \A i \in 1 .. given.len : cells[i] = heap[2][i]
  <2>1. /\ heap \in Seq(Seq(Cell(Len(heap)))) /\ given \in SliceType /\ given.array = 2
        /\ given.array \in DOMAIN heap /\ given.len \in 0 .. Len(heap[given.array])
    BY OriginalsTyped DEF HeapTyped
  <2>2. /\ Contents(heap, given) \in Seq(Cell(Len(heap)))
        /\ Len(Contents(heap, given)) = given.len
        /\ \A i \in 1 .. given.len : Contents(heap, given)[i] = heap[given.array][i]
    BY <2>1, ContentsAreCells, Zenon
  <2> QED
    BY <1>1, <2>1, <2>2
<1>3. DOMAIN cells = 1 .. given.len
  BY <1>2, LenProperties
<1>4. \A a \in {2, 3, 4} : a \notin GroupsOf(cells)
  BY <1>2, <1>3 DEF GroupsOf, OriginalsKept
<1>5. ASSUME \A i \in 1 .. given.len : heap[2][i] = Attrs[i], NEW a \in DOMAIN heap, a # 1
      PROVE  a \notin GroupsOf(cells)
  <2>1. \A i \in 1 .. given.len : Attrs[i].group \in {0, 1}
    <3>1. Clear.group = 0 /\ Group(1).group = 1
      BY DEF Clear, Plain, Group
    <3>2. given.len = Len(Attrs)
      BY OriginalsTyped
    <3> QED
      BY <3>1, <3>2 DEF Attrs
  <2> QED
    BY <1>2, <1>3, <1>5, <2>1 DEF GroupsOf
<1> QED
  BY <1>1, <1>4, <1>5

(* Who may be derived where the attributes are as the user wrote them.     *)
LEMMA GivenAsWritten ==
  ASSUME Fixed, OriginalsKept, phase = "derive", kind = "recovery" => turn = 1,
         CopiesAttrs(kind) \/ Doing("gdpr") = {} \/ AttrsApply
  PROVE  \A i \in 1 .. given.len : heap[2][i] = Attrs[i]
<1>1. kind \in {"fanout", "failover", "pool", "firstmatch", "recovery"}
  BY SharingAssumption DEF Fixed
<1>2. \/ CopiesAttrs(kind)
      \/ Doing("gdpr") = {}
      \/ kind = "recovery" /\ phase = "derive" /\ turn = 1
  BY <1>1 DEF AttrsApply, CopiesAttrs
<1> QED
  BY <1>2 DEF OriginalsKept

(* A child's turn in WithAttrs, conjunct by conjunct.  The hard one is     *)
(* AttrsKept for the children that had their turn before: either every     *)
(* child has an array of its own, or this one does not write into the      *)
(* attributes and is the only one that writes behind them.                 *)
LEMMA WithAttrsKeepsInv ==
  ASSUME IInv, WithAttrs
  PROVE  IInv'
<1>0. /\ Fixed /\ HeapTyped /\ Typed /\ OriginalsKept /\ KeptApart /\ RouteKept
      /\ AttrsKept /\ OneDerivation /\ HeldKept /\ RoomKept
  BY DEF IInv
<1>1. PICK c, g, t, u : c = turn /\ g = heap' /\ t = kept'[turn] /\ u = sees'[turn]
  OBVIOUS
<1>2. /\ c \in Children /\ Turn(c, g, t, u)
      /\ kept' = [kept EXCEPT ![c] = t] /\ sees' = [sees EXCEPT ![c] = u]
  BY <1>0, <1>1, WithAttrsTurn
<1>3. /\ phase = "derive" /\ phase' = "derive" /\ turn' = c + 1
      /\ kind = "recovery" => c = 1
      /\ held' = held /\ stamped' = stamped
      /\ UNCHANGED <<kind, does, given, logged, wrote>>
  <2>1. ~ (kind = "recovery" /\ c = 2)
    BY <1>1 DEF WithAttrs
  <2>2. kind = "recovery" => c \in 1 .. 2
    BY <1>0, <1>2, ChildrenAre
  <2>3. kind = "recovery" => c = 1
    BY <2>1, <2>2
  <2> QED
    BY <1>1, <2>3 DEF WithAttrs
<1>4. /\ Fixed' /\ Children' = Children /\ Attrs' = Attrs /\ Behind' = Behind
      /\ \A d : Mark(d)' = Mark(d)
      /\ \A what : Doing(what)' = Doing(what)
      /\ AttrsApply' <=> AttrsApply
  BY <1>0, <1>3, FixedStays
<1>5. /\ Grown(heap, g) /\ t \in SliceType /\ Within(g, t) /\ u \in Seq(Cell(Len(g)))
      /\ t.len = given.len + Len(Mark(c))
      /\ IF CopiesAttrs(kind) THEN t.array \notin DOMAIN heap
                              ELSE t.array = 2 \/ t.array \notin DOMAIN heap
  BY <1>2 DEF Turn
<1>6. /\ \A a \in DOMAIN heap :
            /\ ~ (a = 2 /\ ~ CopiesAttrs(kind))
            /\ ~ (does[c] = "gdpr" /\ a \in GroupsOf(Contents(heap, given)))
            => g[a] = heap[a]
      /\ does[c] \notin {"gdpr", "appender"} => \A a \in DOMAIN heap : g[a] = heap[a]
  BY <1>2, Zenon DEF Turn
<1>7. does[c] # "gdpr" =>
        /\ \A i \in 1 .. given.len : g[2][i] = heap[2][i]
        /\ \A i \in 1 .. given.len : g[t.array][i] = heap[2][i]
        /\ does[c] = "appender" => g[t.array][t.len] = Stamp(c)
  BY <1>2 DEF Turn
<1>8. does[c] = "gdpr" =>
        /\ ~ CopiesAttrs(kind) => t = given
        /\ \A i \in 1 .. given.len :
              /\ g[t.array][i].group = 0 \/ g[t.array][i].group > Len(heap)
              /\ heap[2][i].group = 0 => g[t.array][i] = MaskedText(heap[2][i])
  BY <1>2 DEF Turn
<1>9. CopiesAttrs(kind) => Len(u) = given.len /\ \A i \in 1 .. given.len : g[t.array][i] = u[i]
  BY <1>2 DEF Turn
<1>10. /\ HeapTyped'
       /\ Len(heap) \in Nat /\ Len(g) \in Nat /\ Len(g) >= Len(heap)
       /\ \A a \in DOMAIN heap : a \in DOMAIN g /\ Len(g[a]) = Len(heap[a])
       /\ \A s : Within(heap, s) => Within(g, s)
       /\ Seq(Cell(Len(heap))) \subseteq Seq(Cell(Len(g)))
       /\ Records(Len(heap)) \subseteq Records(Len(g))
  BY <1>0, <1>1, <1>3, <1>5, HeapGrows
<1>11. /\ DOMAIN heap = 1 .. Len(heap) /\ Len(heap) >= 4
       /\ 1 \in DOMAIN heap /\ 2 \in DOMAIN heap /\ 3 \in DOMAIN heap /\ 4 \in DOMAIN heap
       /\ given.array = 2 /\ given.len \in {1, 2} /\ given.len = Len(Attrs)
       /\ logged.back.len \in {0, 1} /\ Len(heap[4]) \in Nat
  BY <1>0, OriginalsTyped
<1>12. /\ \A a \in {2, 3, 4} : a \notin GroupsOf(Contents(heap, given))
       /\ g[3] = heap[3] /\ g[4] = heap[4]
       /\ CopiesAttrs(kind) => g[2] = heap[2]
  <2>1. \A a \in {2, 3, 4} : a \notin GroupsOf(Contents(heap, given))
    BY <1>0, GivenGroups
  <2> QED
    BY <1>6, <1>11, <2>1
<1>13. t.array # 2 => t.array > 4 /\ t.array > Len(heap)
  <2>1. t.array \in Nat /\ t.array \in DOMAIN g /\ DOMAIN g = 1 .. Len(g)
    <3>1. DOMAIN g = 1 .. Len(g)
      BY <1>5, LenProperties DEF Grown
    <3> QED
      BY <1>5, <3>1 DEF Within, SliceType
  <2> QED
    BY <1>5, <1>10, <1>11, <2>1
<1>14. CopiesAttrs(kind) \/ Doing("gdpr") = {} \/ AttrsApply =>
          /\ \A i \in 1 .. given.len : heap[2][i] = Attrs[i]
          /\ \A a \in DOMAIN heap : a > 4 => g[a] = heap[a]
  <2> SUFFICES ASSUME CopiesAttrs(kind) \/ Doing("gdpr") = {} \/ AttrsApply
               PROVE  /\ \A i \in 1 .. given.len : heap[2][i] = Attrs[i]
                      /\ \A a \in DOMAIN heap : a > 4 => g[a] = heap[a]
    OBVIOUS
  <2>1. \A i \in 1 .. given.len : heap[2][i] = Attrs[i]
    BY <1>0, <1>1, <1>3, GivenAsWritten
  <2>2. \A a \in DOMAIN heap : a # 1 => a \notin GroupsOf(Contents(heap, given))
    BY <1>0, <2>1, GivenGroups
  <2>3. \A a \in DOMAIN heap : a > 4 => a # 1 /\ a # 2
    BY <1>11
  <2> QED
    BY <1>6, <2>1, <2>2, <2>3
<1>15. /\ kept'[c] = t /\ sees'[c] = u
       /\ \A d \in Children : d # c => kept'[d] = kept[d] /\ sees'[d] = sees[d]
       /\ \A d \in Children : kept[d] \in SliceType /\ Within(heap, kept[d])
       /\ \A d \in Children : sees[d] \in Seq(Cell(Len(heap)))
  BY <1>0, <1>2 DEF Typed
<1>16. Len(Mark(c)) = (IF does[c] = "appender" THEN 1 ELSE 0) /\ c \in Nat
  BY <1>0, <1>2, ChildrenAre, MarkTyped
<1>17. Typed'
  <2>1. turn' \in 1 .. Len(does') + 1
    BY <1>0, <1>2, <1>3, ChildrenAre
  <2>2. kept' \in [Children' -> SliceType] /\ sees' \in [Children' -> Seq(Cell(Len(g)))]
    BY <1>0, <1>2, <1>4, <1>5, <1>10 DEF Typed
  <2>3. held' \in [Children' -> Records(Len(g)) \cup {<<>>}]
    BY <1>0, <1>3, <1>4, <1>10 DEF Typed
  <2>4. \A d \in Children' : Within(g, kept'[d])
    BY <1>4, <1>5, <1>10, <1>15
  <2>5. /\ stamped' \subseteq {d \in Doing("stamper")' : held'[d] # <<>>}
        /\ \A d \in Children' : held'[d] = <<>>
    BY <1>0, <1>3, <1>4 DEF Typed
  <2> QED
    BY <1>1, <1>3, <2>1, <2>2, <2>3, <2>4, <2>5 DEF Typed
<1>18. OriginalsKept'
  <2>1. Doing("gdpr") = {} => g[1] = <<Clear>> /\ g[3] = <<Clear>>
    <3>1. ASSUME Doing("gdpr") = {} PROVE does[c] # "gdpr"
      BY <1>2, <3>1 DEF Doing
    <3> QED
      BY <1>0, <1>6, <1>11, <1>12, <3>1 DEF OriginalsKept
  <2>2. logged.back.len = 1 => g[4][1] = Behind
    BY <1>0, <1>12 DEF OriginalsKept
  <2>3. ASSUME NEW i \in 1 .. given.len PROVE g[2][i].group \notin {2, 3, 4}
    <3>1. CASE CopiesAttrs(kind) \/ does[c] # "gdpr"
      BY <1>0, <1>7, <1>12, <3>1 DEF OriginalsKept
    <3>2. CASE ~ CopiesAttrs(kind) /\ does[c] = "gdpr"
      BY <1>8, <1>11, <3>2
    <3> QED
      BY <3>1, <3>2
  <2>4. ASSUME CopiesAttrs(kind) \/ Doing("gdpr") = {}, NEW i \in 1 .. given.len
        PROVE  g[2][i] = Attrs[i]
    <3>1. CASE CopiesAttrs(kind)
      BY <1>12, <1>14, <3>1
    <3>2. CASE Doing("gdpr") = {}
      <4>1. does[c] # "gdpr"
        BY <1>2, <3>2 DEF Doing
      <4> QED
        BY <1>7, <1>14, <3>2, <4>1
    <3> QED
      BY <2>4, <3>1, <3>2
  <2>5. turn' # 1
    BY <1>2, <1>3, <1>0, ChildrenAre
  <2> QED
    BY <1>1, <1>3, <1>4, <2>1, <2>2, <2>3, <2>4, <2>5 DEF OriginalsKept
<1>19. KeptApart'
  <2>1. ASSUME NEW d \in Children, kept'[d] # NoSlice
        PROVE  /\ kept'[d].array = 2 \/ kept'[d].array > 4
               /\ CopiesAttrs(kind) => kept'[d].array > 4
               /\ kept'[d].array = 2 => kept'[d].len = given.len + Len(Mark(d))
    <3>1. CASE d = c
      BY <1>5, <1>11, <1>13, <1>15, <3>1
    <3>2. CASE d # c
      BY <1>0, <1>15, <2>1, <3>2 DEF KeptApart, Derivation
    <3> QED
      BY <3>1, <3>2
  <2> QED
    BY <1>3, <1>4, <2>1 DEF KeptApart, Derivation
<1>20. RouteKept'
  <2> SUFFICES ASSUME kind = "firstmatch", NEW d \in Children, kept'[d] # NoSlice
               PROVE  Has(g, kept'[d], sees'[d] \o Mark(d))
    BY <1>1, <1>3, <1>4 DEF RouteKept, Derivation
  <2>1. CopiesAttrs(kind)
    BY DEF CopiesAttrs
  <2>2. CASE d = c
    <3>1. /\ Len(u) = given.len /\ \A i \in 1 .. given.len : g[t.array][i] = u[i]
      BY <1>9, <2>1
    <3>2. /\ Mark(c) \in Seq(Cell(Len(g))) /\ Len(Mark(c)) \in Nat
          /\ does[c] = "appender" => Mark(c)[1] = Stamp(c)
      BY <1>10, <1>16, MarkTyped
    <3>3. does[c] = "appender" => g[t.array][t.len] = Stamp(c)
      BY <1>7
    <3>4. /\ Len(u \o Mark(c)) = Len(u) + Len(Mark(c))
          /\ \A i \in 1 .. Len(u) + Len(Mark(c)) :
                (u \o Mark(c))[i] = IF i <= Len(u) THEN u[i] ELSE Mark(c)[i - Len(u)]
      BY <1>5, <3>2, ConcatProperties
    <3>5. t.len = Len(u \o Mark(c)) /\ given.len \in Nat
      BY <1>5, <1>11, <3>1, <3>4
    <3>6. ASSUME NEW i \in 1 .. t.len PROVE g[t.array][i] = (u \o Mark(c))[i]
      <4>1. CASE i <= given.len
        BY <3>1, <3>4, <3>5, <4>1
      <4>2. CASE ~ (i <= given.len)
        <5>1. does[c] = "appender" /\ i = t.len /\ i - Len(u) = 1
          BY <1>5, <1>16, <3>1, <3>5, <4>2
        <5> QED
          BY <3>1, <3>2, <3>3, <3>4, <3>5, <4>2, <5>1
      <4> QED
        BY <4>1, <4>2
    <3> QED
      BY <1>15, <2>2, <3>5, <3>6 DEF Has
  <2>3. CASE d # c
    <3>1. Has(heap, kept[d], sees[d] \o Mark(d)) /\ kept'[d] = kept[d] /\ sees'[d] = sees[d]
      BY <1>0, <1>15, <2>3 DEF RouteKept, Derivation
    <3>2. g[kept[d].array] = heap[kept[d].array]
      <4>1. kept[d].array > 4 /\ kept[d].array \in DOMAIN heap
        BY <1>0, <1>15, <2>1, <2>3 DEF KeptApart, Derivation, Within
      <4> QED
        BY <1>14, <2>1, <4>1
    <3> QED
      BY ONLY <3>1, <3>2 DEF Has
  <2> QED
    BY <2>2, <2>3
<1>21. AttrsKept'
  <2> SUFFICES ASSUME AttrsApply, NEW d \in Children, kept'[d] # NoSlice
               PROVE  Has(g, kept'[d], IF does[d] = "gdpr" THEN <<Plain("masked")>>
                                       ELSE Attrs \o Mark(d))
    BY <1>1, <1>3, <1>4 DEF AttrsKept, Derivation
  <2>1. \A i \in 1 .. given.len : heap[2][i] = Attrs[i]
    BY <1>14
  <2>2. Attrs \in Seq(Cell(Len(heap)))
    BY <1>0, OriginalsTyped
  <2>3. CASE d = c /\ does[c] = "gdpr"
    <3>1. wrote.groups.attrs = {}
      BY <1>2, <2>3 DEF AttrsApply, EditsGroups, Doing
    <3>2. Attrs = <<Clear>> /\ given.len = 1 /\ heap[2][1] = Clear
      <4>1. Attrs = <<Clear>>
        BY <3>1 DEF Attrs
      <4>2. given.len = 1
        BY <1>11, <4>1
      <4> QED
        BY <2>1, <4>1, <4>2
    <3>3. Clear.group = 0 /\ MaskedText(Clear) = Plain("masked")
      BY DEF Clear, Plain, MaskedText
    <3>4. g[t.array][1] = Plain("masked")
      BY <1>8, <2>3, <3>2, <3>3
    <3>5. t.len = 1
      BY <1>5, <1>16, <2>3, <3>2
    <3> QED
      BY <1>15, <2>3, <3>4, <3>5 DEF Has
  <2>4. CASE d = c /\ does[c] # "gdpr"
    <3>1. /\ Mark(c) \in Seq(Cell(Len(heap))) /\ Len(Mark(c)) \in Nat
          /\ does[c] = "appender" => Mark(c)[1] = Stamp(c)
      BY <1>10, <1>16, MarkTyped
    <3>2. /\ Len(Attrs \o Mark(c)) = Len(Attrs) + Len(Mark(c))
          /\ \A i \in 1 .. Len(Attrs) + Len(Mark(c)) :
                (Attrs \o Mark(c))[i] = IF i <= Len(Attrs) THEN Attrs[i] ELSE Mark(c)[i - Len(Attrs)]
      BY <2>2, <3>1, ConcatProperties
    <3>3. t.len = Len(Attrs \o Mark(c)) /\ Len(Attrs) = given.len /\ given.len \in Nat
      BY <1>5, <1>11, <3>2
    <3>4. ASSUME NEW i \in 1 .. t.len PROVE g[t.array][i] = (Attrs \o Mark(c))[i]
      <4>1. CASE i <= given.len
        BY <1>7, <2>1, <2>4, <3>2, <3>3, <4>1
      <4>2. CASE ~ (i <= given.len)
        <5>1. does[c] = "appender" /\ i = t.len /\ i - Len(Attrs) = 1
          BY <1>5, <1>16, <3>3, <4>2
        <5> QED
          BY <1>7, <3>1, <3>2, <3>3, <4>2, <5>1
      <4> QED
        BY <4>1, <4>2
    <3> QED
      BY <1>15, <2>4, <3>3, <3>4 DEF Has
  <2>5. CASE d # c
    <3>1. PICK xs : xs = IF does[d] = "gdpr" THEN <<Plain("masked")>> ELSE Attrs \o Mark(d)
      OBVIOUS
    <3>2. Has(heap, kept[d], xs) /\ kept'[d] = kept[d]
      BY <1>0, <1>15, <2>5, <3>1 DEF AttrsKept, Derivation
    <3>3. kept[d].array \in DOMAIN heap
      BY <1>15 DEF Within
    <3>4. CASE kept[d].array > 4
      BY <1>14, <3>1, <3>2, <3>3, <3>4 DEF Has
    <3>5. CASE kept[d].array = 2
      <4>1. /\ ~ CopiesAttrs(kind) /\ kept[d].len = given.len + Len(Mark(d))
        BY <1>0, <1>15, <2>5, <3>2, <3>5 DEF KeptApart, Derivation
      <4>2. kind # "recovery"
        <5>1. ASSUME kind = "recovery" PROVE FALSE
          <6>1. d = 2 /\ c = 1
            BY <1>0, <1>3, <2>5, <5>1, ChildrenAre
          <6> QED
            BY <1>0, <1>15, <2>5, <5>1, <6>1 DEF OneDerivation, Derivation
        <5> QED
          BY <5>1
      <4>3. kind \in {"failover", "pool"}
        BY <1>0, <4>1, <4>2, SharingAssumption DEF Fixed, CopiesAttrs
      <4>4. does[c] # "gdpr" /\ (does[c] = "appender" => does[d] # "appender")
        BY <1>2, <2>5, <4>3 DEF AttrsApply, Doing
      <4>5. CASE does[c] # "appender"
        BY <1>6, <3>1, <3>2, <3>3, <4>4, <4>5 DEF Has
      <4>6. CASE does[c] = "appender"
        <5>1. Len(Mark(d)) = 0
          BY <1>0, <4>4, <4>6, ChildrenAre, MarkTyped
        <5>2. kept[d].len = given.len
          BY <1>11, <4>1, <5>1
        <5> QED
          BY <1>7, <3>1, <3>2, <3>5, <4>4, <5>2 DEF Has
      <4> QED
        BY <4>5, <4>6
    <3> QED
      BY <1>0, <1>15, <2>5, <3>4, <3>5 DEF KeptApart, Derivation
  <2> QED
    BY <2>3, <2>4, <2>5
<1>22. OneDerivation'
  <2>1. c # 0 /\ c + 1 # 1
    BY <1>0, <1>2, ChildrenAre
  <2>2. ASSUME kind = "recovery" PROVE kept'[2] = kept[2]
    BY <1>0, <1>3, <1>15, <2>2, ChildrenAre
  <2> QED
    BY <1>0, <1>3, <2>1, <2>2 DEF OneDerivation, Derivation
<1>23. HeldKept'
  <2>1. \A d \in Children' : held'[d] = <<>>
    BY <1>0, <1>3, <1>4 DEF Typed
  <2> QED
    BY <2>1 DEF HeldKept
<1>24. RoomKept'
  <2>1. \A d \in Children' : held'[d] = <<>>
    BY <1>0, <1>3, <1>4 DEF Typed
  <2>2. stamped' = {} /\ logged'.back.len < Len(heap'[4]) => heap'[4][logged'.back.len + 1] = Blank
    BY <1>0, <1>1, <1>3, <1>12 DEF RoomKept
  <2> QED
    BY <2>1, <2>2 DEF RoomKept
<1> QED
  BY <1>4, <1>10, <1>17, <1>18, <1>19, <1>20, <1>21, <1>22, <1>23, <1>24 DEF IInv

-----------------------------------------------------------------------------

(* At the start the four arrays hold what the user wrote, in the clear.    *)
LEMMA InitInv ==
  ASSUME Init
  PROVE  IInv
<1>1. PICK attrs, inFront, tail, room :
        /\ attrs = <<Clear>> \/ attrs = <<Clear, Group(1)>>
        /\ inFront \in {Front - 1, Front}
        /\ tail = <<>> \/ tail = <<Clear>> \/ tail = <<Group(3)>>
        /\ room = <<>> \/ room = <<Blank>>
        /\ inFront < Front => tail = <<>>
        /\ heap = << <<Clear>>, attrs \o room, <<Clear>>, tail \o room >>
        /\ given = Slice(2, Len(attrs))
        /\ logged = RecordOf([i \in 1 .. inFront |-> Clear], Slice(4, Len(tail)), FALSE)
  BY DEF Init, Clear
<1>2. /\ kind \in Kind /\ phase = "derive" /\ turn = 1 /\ stamped = {}
      /\ does \in UNION {[1 .. n -> Behaviour] :
                            n \in IF kind = "recovery" THEN {2} ELSE 2 .. MaxChildren}
      /\ kept = [c \in Children |-> NoSlice]
      /\ sees = [c \in Children |-> <<>>]
      /\ held = [c \in Children |-> <<>>]
  BY DEF Init
<1>3. /\ wrote.attrs = Shown(heap, Contents(heap, given))
      /\ wrote.record = Shown(heap, AttrsOf(heap, logged))
      /\ wrote.groups.attrs = GroupsOf(Contents(heap, given))
      /\ wrote.groups.record = GroupsOf(AttrsOf(heap, logged))
  BY DEF Init
<1>4. /\ \E n \in 2 .. MaxChildren : does \in [1 .. n -> Behaviour]
      /\ kind = "recovery" => DOMAIN does = 1 .. 2
  <2>1. 2 \in 2 .. MaxChildren
    BY SharingAssumption
  <2>2. PICK n \in IF kind = "recovery" THEN {2} ELSE 2 .. MaxChildren : does \in [1 .. n -> Behaviour]
    BY <1>2
  <2> QED
    BY <2>1, <2>2
<1>5. /\ Clear \in Cell(4) /\ Blank \in Cell(4) /\ Group(1) \in Cell(4) /\ Group(3) \in Cell(4)
      /\ Clear.group = 0 /\ Group(1).group = 1 /\ Group(3).group = 3
  <2>1. 4 \in Nat /\ 1 \in 1 .. 4 /\ 3 \in 1 .. 4
    OBVIOUS
  <2>2. Clear.group = 0 /\ Group(1).group = 1 /\ Group(3).group = 3
    BY DEF Clear, Plain, Group
  <2> QED
    BY <2>1, <2>2, TextsAreCells
<1>6. /\ attrs \in Seq(Cell(4)) /\ Len(attrs) \in {1, 2} /\ attrs[1] = Clear
      /\ Len(attrs) = 2 => attrs[2] = Group(1)
      /\ Len(attrs) = 1 => attrs = <<Clear>>
  <2>1. CASE attrs = <<Clear>>
    BY <1>5, <2>1
  <2>2. CASE attrs = <<Clear, Group(1)>>
    BY <1>5, <2>2
  <2> QED
    BY <1>1, <2>1, <2>2
<1>7. /\ tail \in Seq(Cell(4)) /\ Len(tail) \in {0, 1}
      /\ room \in Seq(Cell(4)) /\ Len(room) \in {0, 1} /\ (Len(room) = 1 => room[1] = Blank)
  <2>1. tail \in Seq(Cell(4)) /\ Len(tail) \in {0, 1}
    <3>1. CASE tail = <<>>
      BY <3>1
    <3>2. CASE tail = <<Clear>>
      BY <1>5, <3>2
    <3>3. CASE tail = <<Group(3)>>
      BY <1>5, <3>3
    <3> QED
      BY <1>1, <3>1, <3>2, <3>3
  <2>2. CASE room = <<>>
    BY <2>1, <2>2
  <2>3. CASE room = <<Blank>>
    BY <1>5, <2>1, <2>3
  <2> QED
    BY <1>1, <2>2, <2>3
<1>8. PICK row2, row4 : row2 = attrs \o room /\ row4 = tail \o room
  OBVIOUS
<1>9. /\ row2 \in Seq(Cell(4)) /\ Len(row2) = Len(attrs) + Len(room)
      /\ \A i \in 1 .. Len(attrs) : row2[i] = attrs[i]
  <2>1. /\ row2 \in Seq(Cell(4)) /\ Len(row2) = Len(attrs) + Len(room)
        /\ \A i \in 1 .. Len(attrs) + Len(room) :
              row2[i] = IF i <= Len(attrs) THEN attrs[i] ELSE room[i - Len(attrs)]
    BY <1>6, <1>7, <1>8, ConcatProperties
  <2> QED
    BY <1>6, <1>7, <2>1
<1>10. /\ row4 \in Seq(Cell(4)) /\ Len(row4) = Len(tail) + Len(room)
       /\ \A i \in 1 .. Len(tail) : row4[i] = tail[i]
       /\ Len(tail) < Len(row4) => row4[Len(tail) + 1] = Blank
  <2>1. /\ row4 \in Seq(Cell(4)) /\ Len(row4) = Len(tail) + Len(room)
        /\ \A i \in 1 .. Len(tail) + Len(room) :
              row4[i] = IF i <= Len(tail) THEN tail[i] ELSE room[i - Len(tail)]
    BY <1>7, <1>8, ConcatProperties
  <2>2. ASSUME Len(tail) < Len(row4) PROVE row4[Len(tail) + 1] = Blank
    <3>1. /\ Len(room) = 1 /\ Len(tail) + 1 \in 1 .. Len(tail) + Len(room)
          /\ ~ (Len(tail) + 1 <= Len(tail)) /\ Len(tail) + 1 - Len(tail) = 1
      BY <1>7, <2>1, <2>2
    <3> QED
      BY <1>7, <2>1, <3>1
  <2> QED
    BY <1>7, <2>1, <2>2
<1>11. /\ heap \in Seq(Seq(Cell(4))) /\ Len(heap) = 4 /\ DOMAIN heap = 1 .. 4
       /\ heap[1] = <<Clear>> /\ heap[2] = row2 /\ heap[3] = <<Clear>> /\ heap[4] = row4
  <2>1. heap = << <<Clear>>, row2, <<Clear>>, row4 >>
    BY <1>1, <1>8
  <2>2. <<Clear>> \in Seq(Cell(4))
    BY <1>5
  <2> QED
    BY <1>9, <1>10, <2>1, <2>2
<1>12. /\ given = [array |-> 2, len |-> Len(attrs)] /\ given \in SliceType
       /\ given.array = 2 /\ given.len = Len(attrs) /\ given.len \in 0 .. Len(heap[2])
  BY <1>1, <1>6, <1>7, <1>9, <1>11 DEF Slice, SliceType
<1>13. PICK first : first = [i \in 1 .. inFront |-> Clear]
  OBVIOUS
<1>14. /\ inFront \in Nat /\ first \in Seq({Clear}) /\ Len(first) = inFront
       /\ first \in Seq(Cell(4))
  <2>1. inFront \in Nat
    BY <1>1, SharingAssumption
  <2>2. first \in [1 .. inFront -> {Clear}] /\ first \in [1 .. inFront -> Cell(4)]
    BY <1>5, <1>13
  <2>3. \A S : \A k \in Nat : \A f \in [1 .. k -> S] : f \in Seq(S) /\ Len(f) = k
    OBVIOUS
  <2> QED
    BY <2>1, <2>2, <2>3
<1>15. /\ logged.front = first
       /\ logged.back \in SliceType
       /\ logged.back.array = 4
       /\ logged.back.len = Len(tail)
       /\ logged.back.len \in 0 .. Len(heap[4])
  <2>1. logged = RecordOf(first, Slice(4, Len(tail)), FALSE)
    BY <1>1, <1>13
  <2>2. logged.front = first /\ logged.back = [array |-> 4, len |-> Len(tail)]
    BY <2>1 DEF RecordOf, Slice
  <2> QED
    <3>1. Len(tail) \in Nat /\ Len(tail) \in 0 .. Len(row4)
      BY <1>7, <1>10
    <3>2. logged.back.array = 4 /\ logged.back.len = Len(tail)
      BY <2>2
    <3>3. logged.back \in SliceType
      BY <2>2, <3>1 DEF SliceType
    <3>4. Len(heap[4]) = Len(row4)
      BY <1>11
    <3> QED
      BY <2>2, <3>1, <3>2, <3>3, <3>4
<1>16. Contents(heap, given) = attrs
  <2>1. /\ Contents(heap, given) \in Seq(Cell(4)) /\ Len(Contents(heap, given)) = given.len
        /\ \A i \in 1 .. given.len : Contents(heap, given)[i] = heap[given.array][i]
    <3>1. given.array \in DOMAIN heap /\ given.len \in 0 .. Len(heap[given.array])
      BY <1>11, <1>12
    <3>2. heap \in Seq(Seq(Cell(4))) /\ given \in SliceType
      BY <1>11, <1>12
    <3> QED
      BY <3>1, <3>2, ContentsAreCells, Zenon
  <2> QED
    <3>1. heap[given.array] = row2 /\ given.len = Len(attrs)
      BY <1>11, <1>12
    <3>2. /\ Len(Contents(heap, given)) = Len(attrs)
          /\ \A i \in 1 .. Len(attrs) : Contents(heap, given)[i] = attrs[i]
      BY <1>9, <2>1, <3>1
    <3> QED
      BY <1>6, <2>1, <3>2, SeqEqual
<1>17. Contents(heap, logged.back) = tail
  <2>1. /\ Contents(heap, logged.back) \in Seq(Cell(4)) /\ Len(Contents(heap, logged.back)) = logged.back.len
        /\ \A i \in 1 .. logged.back.len : Contents(heap, logged.back)[i] = heap[logged.back.array][i]
    <3>1. logged.back.array \in DOMAIN heap /\ logged.back.len \in 0 .. Len(heap[logged.back.array])
      <4>1. logged.back.array = 4
        BY <1>15, Zenon
      <4>2. logged.back.len \in 0 .. Len(heap[4])
        BY <1>15, Zenon
      <4> QED
        BY <1>11, <4>1, <4>2
    <3>2. heap \in Seq(Seq(Cell(4))) /\ logged.back \in SliceType
      BY <1>11, <1>15
    <3> QED
      BY <3>1, <3>2, ContentsAreCells, Zenon
  <2> QED
    <3>1. heap[logged.back.array] = row4
      BY <1>11, <1>15
    <3>2. logged.back.len = Len(tail)
      BY <1>15
    <3>3. /\ Len(Contents(heap, logged.back)) = Len(tail)
          /\ \A i \in 1 .. Len(tail) : Contents(heap, logged.back)[i] = tail[i]
      BY <1>10, <2>1, <3>1, <3>2
    <3> QED
      BY <1>7, <2>1, <3>3, SeqEqual
<1>18. PICK cells : cells = AttrsOf(heap, logged)
  OBVIOUS
<1>19. /\ cells \in Seq(Cell(4)) /\ Len(cells) = inFront + Len(tail) /\ DOMAIN cells = 1 .. Len(cells)
       /\ \A i \in 1 .. inFront : cells[i] = Clear
       /\ \A i \in 1 .. Len(cells) : i > inFront => Len(tail) = 1 /\ cells[i] = tail[1]
       /\ Len(tail) = 1 => cells[inFront + 1] = tail[1]
  <2>1. cells = first \o tail
    BY <1>15, <1>17, <1>18 DEF AttrsOf
  <2>2. /\ cells \in Seq(Cell(4)) /\ Len(cells) = inFront + Len(tail)
        /\ \A i \in 1 .. inFront + Len(tail) :
              cells[i] = IF i <= inFront THEN first[i] ELSE tail[i - inFront]
    BY <1>7, <1>14, <2>1, ConcatProperties
  <2>3. \A i \in 1 .. inFront : cells[i] = Clear
    BY <1>7, <1>13, <1>14, <2>2
  <2>4. ASSUME NEW i \in 1 .. Len(cells), i > inFront
        PROVE  Len(tail) = 1 /\ cells[i] = tail[1]
    <3>1. Len(tail) = 1 /\ i - inFront = 1 /\ ~ (i <= inFront) /\ i \in 1 .. inFront + Len(tail)
      <4>1. PICK k, n : k = inFront /\ n = Len(tail)
        OBVIOUS
      <4>2. k \in Nat /\ n \in {0, 1} /\ i \in 1 .. k + n /\ i > k
        BY <1>7, <1>14, <2>2, <2>4, <4>1
      <4>3. n = 1 /\ i - k = 1 /\ ~ (i <= k)
        BY ONLY <4>2
      <4> QED
        BY <4>1, <4>2, <4>3
    <3> QED
      BY <2>2, <3>1
  <2>5. ASSUME Len(tail) = 1 PROVE cells[inFront + 1] = tail[1]
    BY <1>14, <2>2, <2>4, <2>5
  <2> QED
    BY <2>2, <2>3, <2>4, <2>5, LenProperties
<1>20. /\ wrote.groups.attrs = (IF Len(attrs) = 2 THEN {1} ELSE {})
       /\ wrote.attrs = [i \in 1 .. given.len |-> <<Clear>>]
  <2>1. DOMAIN attrs = 1 .. Len(attrs)
    BY <1>6, LenProperties
  <2>2. GroupsOf(attrs) = (IF Len(attrs) = 2 THEN {1} ELSE {})
    <3>1. CASE Len(attrs) = 1
      BY <1>5, <1>6, <2>1, <3>1 DEF GroupsOf
    <3>2. CASE Len(attrs) = 2
      <4>1. /\ 1 \in DOMAIN attrs /\ 2 \in DOMAIN attrs /\ \A i \in DOMAIN attrs : i \in {1, 2}
            /\ attrs[1].group = 0 /\ attrs[2].group = 1
        BY <1>5, <1>6, <2>1, <3>2
      <4>2. {attrs[i].group : i \in DOMAIN attrs} = {0, 1}
        BY <4>1
      <4>3. {0, 1} \ {0} = {1}
        OBVIOUS
      <4> QED
        BY <3>2, <4>2, <4>3 DEF GroupsOf
    <3> QED
      BY <1>6, <3>1, <3>2
  <2>3. Shown(heap, attrs) = [i \in 1 .. Len(attrs) |-> <<Clear>>]
    <3>1. ASSUME NEW i \in 1 .. Len(attrs)
          PROVE  (IF attrs[i].group = 0 THEN <<attrs[i]>> ELSE heap[attrs[i].group]) = <<Clear>>
      <4>1. i = 1 \/ (i = 2 /\ Len(attrs) = 2)
        <5>1. PICK n : n = Len(attrs)
          OBVIOUS
        <5>2. n = 1 \/ n = 2
          BY <1>6, <5>1
        <5>3. n \in Nat /\ i \in 1 .. n
          BY <5>1, <5>2
        <5>4. i = 1 \/ (i = 2 /\ n = 2)
          BY ONLY <5>2, <5>3
        <5> QED
          BY <5>1, <5>4
      <4> QED
        BY <1>5, <1>6, <1>11, <4>1
    <3> QED
      BY <2>1, <3>1 DEF Shown
  <2> QED
    BY <1>3, <1>12, <1>16, <2>2, <2>3
<1>21. Attrs = attrs
  BY <1>6, <1>20, <1>1 DEF Attrs
<1>22. tail # <<Group(3)>> => \A i \in 1 .. Len(cells) : cells[i] = Clear
  BY <1>1, <1>7, <1>14, <1>19
<1>23. tail = <<Group(3)>> => wrote.groups.record = {3}
  <2> SUFFICES ASSUME tail = <<Group(3)>> PROVE wrote.groups.record = {3}
    OBVIOUS
  <2>1. Len(tail) = 1 /\ tail[1] = Group(3)
    OBVIOUS
  <2>2. inFront + 1 \in DOMAIN cells /\ cells[inFront + 1].group = 3
    BY <1>5, <1>14, <1>19, <2>1
  <2>3. \A i \in DOMAIN cells : cells[i].group \in {0, 3}
    BY <1>5, <1>14, <1>19, <2>1
  <2> QED
    BY <1>3, <1>18, <2>2, <2>3 DEF GroupsOf
<1>24. tail # <<Group(3)>> => wrote.groups.record = {}
  BY <1>3, <1>5, <1>18, <1>19, <1>22 DEF GroupsOf
<1>25. wrote.record = [i \in 1 .. Len(logged.front) + logged.back.len |-> <<Clear>>]
  <2>1. \A i \in 1 .. Len(cells) : cells[i] = Clear \/ cells[i] = Group(3)
    BY <1>1, <1>7, <1>14, <1>19
  <2>2. Shown(heap, cells) = [i \in 1 .. Len(cells) |-> <<Clear>>]
    BY <1>5, <1>11, <1>19, <2>1 DEF Shown
  <2> QED
    BY <1>3, <1>14, <1>15, <1>18, <1>19, <2>2
<1>26. Fixed
  <2>1. given = Slice(2, Len(Attrs))
    BY <1>1, <1>21
  <2>2. \E n \in {0, 1} : logged = RecordOf(logged.front, Slice(4, n), FALSE)
    <3>1. logged = RecordOf(first, Slice(4, Len(tail)), FALSE)
      BY <1>1, <1>13
    <3>2. logged.front = first
      BY <1>15
    <3>3. logged = RecordOf(logged.front, Slice(4, Len(tail)), FALSE)
      BY <3>1, <3>2, Zenon
    <3> QED
      BY <1>7, <3>3, Zenon
  <2>3. Len(logged.front) < Front => logged.back.len = 0
    BY <1>1, <1>14, <1>15
  <2>4. wrote.groups.record # {} => logged.back.len = 1
    BY <1>15, <1>24
  <2> QED
    <3>1. logged.front \in Seq({Clear}) /\ Len(logged.front) \in {Front - 1, Front}
      BY <1>1, <1>14, <1>15
    <3>2. wrote.groups.attrs \in {{}, {1}} /\ wrote.groups.record \in {{}, {3}}
      BY <1>20, <1>23, <1>24
    <3>3. kind \in Kind /\ wrote.attrs = [i \in 1 .. given.len |-> <<Clear>>]
      BY <1>2, <1>20
    <3> QED
      BY <1>4, <1>25, <2>1, <2>2, <2>3, <2>4, <3>1, <3>2, <3>3, Zenon DEF Fixed
<1>27. HeapTyped
  BY <1>11, <1>12, <1>15 DEF HeapTyped, Within
<1>28. Children = 1 .. Len(does) /\ Len(does) \in Nat /\ Len(does) >= 2
  BY <1>26, ChildrenAre
<1>29. NoSlice = [array |-> 1, len |-> 0] /\ NoSlice \in SliceType /\ Within(heap, NoSlice)
  BY <1>11 DEF NoSlice, Slice, SliceType, Within
<1>30. Typed
  BY <1>2, <1>28, <1>29 DEF Typed
<1>31. OriginalsKept
  <2>1. logged.back.len = 1 => heap[4][1] = Behind
    <3>1. CASE tail = <<Group(3)>>
      <4>1. Behind = Group(3) /\ tail[1] = Group(3) /\ Len(tail) = 1
        BY <1>23, <3>1 DEF Behind
      <4> QED
        BY <1>10, <1>11, <1>15, <4>1
    <3>2. CASE tail = <<Clear>>
      <4>1. tail[1] = Clear /\ Len(tail) = 1
        BY <3>2
      <4>2. tail # <<Group(3)>>
        <5>1. Clear # Group(3)
          BY <1>5
        <5> QED
          BY <3>2, <5>1
      <4>3. Behind = Clear
        BY <1>24, <4>2 DEF Behind
      <4> QED
        BY <1>10, <1>11, <1>15, <4>1, <4>3
    <3>3. CASE tail = <<>>
      <4>1. Len(tail) = 0
        BY <3>3
      <4>2. logged.back.len = Len(tail)
        BY <1>15, Zenon
      <4>3. logged.back.len # 1
        BY <4>1, <4>2
      <4> QED
        BY <4>3
    <3> QED
      BY <1>1, <3>1, <3>2, <3>3
  <2>2. \A i \in 1 .. given.len : heap[2][i] = Attrs[i]
    BY <1>9, <1>11, <1>12, <1>21
  <2>3. \A i \in 1 .. given.len : heap[2][i].group \notin {2, 3, 4}
    BY <1>5, <1>6, <1>9, <1>11, <1>12
  <2> QED
    BY <1>11, <2>1, <2>2, <2>3 DEF OriginalsKept
<1>32. KeptApart /\ RouteKept /\ AttrsKept /\ OneDerivation
  <2>1. \A c \in Children : ~ Derivation(c)
    BY <1>2 DEF Derivation
  <2>2. 1 \in Children /\ 2 \in Children
    BY <1>28
  <2> QED
    BY <2>1, <2>2 DEF KeptApart, RouteKept, AttrsKept, OneDerivation
<1>33. HeldKept
  BY <1>2 DEF HeldKept
<1>34. RoomKept
  BY <1>2, <1>10, <1>11, <1>15 DEF RoomKept
<1> QED
  BY <1>26, <1>27, <1>30, <1>31, <1>32, <1>33, <1>34 DEF IInv

(* The loop of WithAttrs ends, and no child has a record yet.              *)
LEMMA DerivedKeepsInv ==
  ASSUME IInv, Derived
  PROVE  IInv'
<1>0. /\ Fixed /\ HeapTyped /\ Typed /\ OriginalsKept /\ KeptApart /\ RouteKept
      /\ AttrsKept /\ OneDerivation /\ HeldKept /\ RoomKept
  BY DEF IInv
<1>1. /\ phase = "derive" /\ phase' = "log" /\ turn' = 1
      /\ UNCHANGED <<kind, does, heap, given, logged, kept, sees, held, stamped, wrote>>
  BY DEF Derived
<1>2. /\ Fixed' /\ Children' = Children /\ Attrs' = Attrs /\ Behind' = Behind
      /\ \A d : Mark(d)' = Mark(d)
      /\ \A what : Doing(what)' = Doing(what)
      /\ AttrsApply' <=> AttrsApply
      /\ RecordsApply' <=> RecordsApply
  BY <1>0, <1>1, FixedStays
<1>3. \A c \in Children : held[c] = <<>>
  BY <1>0, <1>1 DEF Typed
<1>4. HeapTyped'
  BY <1>0, <1>1 DEF HeapTyped, Within
<1>5. Typed'
  <2>1. turn' \in 1 .. Len(does') + 1
    BY <1>0, <1>1, ChildrenAre
  <2> QED
    BY <1>0, <1>1, <1>2, <1>3, <2>1 DEF Typed, Within
<1>6. OriginalsKept'
  BY <1>0, <1>1, <1>2 DEF OriginalsKept
<1>7. KeptApart' /\ RouteKept' /\ AttrsKept' /\ OneDerivation'
  BY <1>0, <1>1, <1>2 DEF KeptApart, RouteKept, AttrsKept, OneDerivation, Derivation, Has
<1>8. HeldKept' /\ RoomKept'
  BY <1>0, <1>1, <1>2, <1>3 DEF HeldKept, RoomKept
<1> QED
  BY <1>2, <1>4, <1>5, <1>6, <1>7, <1>8 DEF IInv

-----------------------------------------------------------------------------

(* The record that a composite passes on is the user's, but for the room   *)
(* that it may have behind it.                                             *)
LEMMA PassedRecord ==
  ASSUME Fixed, HeapTyped, OriginalsKept,
         NEW r, r = Passed(kind, logged), NEW cells, cells = AttrsOf(heap, r)
  PROVE  /\ r \in Records(Len(heap)) /\ r # <<>>
         /\ r.front = logged.front /\ r.back = logged.back
         /\ r.clipped <=> kind \in {"fanout", "failover", "pool"}
         /\ cells \in Seq(Cell(Len(heap)))
         /\ Len(cells) = Len(logged.front) + logged.back.len
         /\ \A i \in 1 .. Len(logged.front) : cells[i] = Clear
         /\ logged.back.len = 1 => cells[Len(logged.front) + 1] = Behind
<1>1. /\ heap \in Seq(Seq(Cell(Len(heap)))) /\ 4 \in DOMAIN heap
      /\ logged.back \in SliceType /\ logged.back.array = 4
      /\ logged.back.len \in {0, 1} /\ logged.back.len \in 0 .. Len(heap[4])
      /\ logged.front \in Seq(Cell(Len(heap))) /\ Len(logged.front) \in Nat
  BY OriginalsTyped DEF HeapTyped
<1>2. logged = RecordOf(logged.front, logged.back, FALSE)
  BY OriginalsTyped
<1>3. PICK f, b : f = logged.front /\ b = logged.back
  OBVIOUS
<1>4. logged = [front |-> f, back |-> b, clipped |-> FALSE]
  BY <1>2, <1>3 DEF RecordOf
<1>5. IF kind \in {"fanout", "failover", "pool"}
      THEN r = [front |-> f, back |-> b, clipped |-> TRUE]
      ELSE r = [front |-> f, back |-> b, clipped |-> FALSE]
  <2>1. CASE kind \in {"fanout", "failover", "pool"}
    <3>1. r = [logged EXCEPT !.clipped = TRUE]
      BY <2>1 DEF Passed, Clone
    <3>2. r = [front |-> f, back |-> b, clipped |-> TRUE]
      BY <1>4, <3>1
    <3> QED
      BY <2>1, <3>2
  <2>2. CASE kind \notin {"fanout", "failover", "pool"}
    BY <1>4, <2>2 DEF Passed
  <2> QED
    BY <2>1, <2>2
<1>6. /\ r.front = f /\ r.back = b
      /\ r.clipped <=> kind \in {"fanout", "failover", "pool"}
      /\ r \in Records(Len(heap))
  <2>1. /\ r.front = f /\ r.back = b
        /\ r.clipped <=> kind \in {"fanout", "failover", "pool"}
    BY <1>5
  <2>2. f \in Seq(Cell(Len(heap))) /\ b \in SliceType
    BY <1>1, <1>3
  <2>3. r \in Records(Len(heap))
    <3>1. CASE r = [front |-> f, back |-> b, clipped |-> TRUE]
      BY <2>2, <3>1 DEF Records
    <3>2. CASE r = [front |-> f, back |-> b, clipped |-> FALSE]
      BY <2>2, <3>2 DEF Records
    <3> QED
      BY <1>5, <3>1, <3>2
  <2> QED
    BY <2>1, <2>3
<1>7. r # <<>>
  <2>1. DOMAIN r = {"front", "back", "clipped"}
    BY <1>5
  <2>2. DOMAIN <<>> = {}
    OBVIOUS
  <2> QED
    BY <2>1, <2>2
<1>8. \A i \in 1 .. Len(f) : f[i] = Clear
  <2>1. f \in Seq({Clear})
    BY <1>3 DEF Fixed
  <2>2. \A i \in 1 .. Len(f) : f[i] \in {Clear}
    BY <2>1, ElementOfSeq
  <2> QED
    BY <2>2
<1>9. PICK behind : behind = Contents(heap, b)
  OBVIOUS
<1>10. /\ behind \in Seq(Cell(Len(heap))) /\ Len(behind) = b.len
       /\ \A i \in 1 .. b.len : behind[i] = heap[4][i]
  <2>1. b \in SliceType /\ b.array = 4 /\ b.array \in DOMAIN heap /\ b.len \in 0 .. Len(heap[b.array])
    BY <1>1, <1>3
  <2>2. /\ Contents(heap, b) \in Seq(Cell(Len(heap)))
        /\ Len(Contents(heap, b)) = b.len
        /\ \A i \in 1 .. b.len : Contents(heap, b)[i] = heap[b.array][i]
    BY <1>1, <2>1, ContentsAreCells
  <2> QED
    BY <1>9, <2>1, <2>2
<1>11. cells = f \o behind
  BY <1>6, <1>9 DEF AttrsOf
<1>12. /\ cells \in Seq(Cell(Len(heap))) /\ Len(cells) = Len(f) + Len(behind)
       /\ \A i \in 1 .. Len(f) + Len(behind) :
             cells[i] = IF i <= Len(f) THEN f[i] ELSE behind[i - Len(f)]
  <2>1. f \in Seq(Cell(Len(heap))) /\ behind \in Seq(Cell(Len(heap)))
    BY <1>1, <1>3, <1>10
  <2> QED
    BY <1>11, <2>1, ConcatProperties
<1>13. PICK n, m : n = Len(f) /\ m = b.len
  OBVIOUS
<1>14. n \in Nat /\ m \in {0, 1}
  BY <1>1, <1>3, <1>13
<1>15. \A i \in 1 .. n : cells[i] = Clear
  <2>1. \A i \in 1 .. n : i \in 1 .. n + m /\ i <= n
    BY <1>14
  <2> QED
    BY <1>8, <1>10, <1>12, <1>13, <2>1
<1>16. ASSUME m = 1 PROVE cells[n + 1] = Behind
  <2>1. n + 1 \in 1 .. n + m /\ ~ (n + 1 <= n) /\ n + 1 - n = 1
    BY <1>14, <1>16
  <2>2. cells[n + 1] = behind[1] /\ behind[1] = heap[4][1]
    BY <1>10, <1>12, <1>13, <1>16, <2>1
  <2>3. heap[4][1] = Behind
    BY <1>3, <1>13, <1>16 DEF OriginalsKept
  <2> QED
    BY <2>2, <2>3
<1> QED
  BY <1>3, <1>6, <1>7, <1>10, <1>12, <1>13, <1>15, <1>16

(* What it does to the memory that child c takes the record, r in its      *)
(* hands: only the group behind the user's record is written into.         *)
TakenBy(c, g, r) ==
  /\ Grown(heap, g) /\ r \in Records(Len(g)) /\ r # <<>>
  /\ \A a \in DOMAIN heap : a # 3 => g[a] = heap[a]
  /\ does[c] # "gdpr" => g = heap /\ r = Passed(kind, logged)
  /\ does[c] = "gdpr" =>
        /\ r.back = NoSlice
        /\ wrote.groups.record = {} =>
              r.front = [i \in 1 .. Len(logged.front) + logged.back.len |-> Plain("masked")]

LEMMA Taking ==
  ASSUME Fixed, HeapTyped, OriginalsKept, Typed, NEW c \in Children, Take(c)
  PROVE  held' = [held EXCEPT ![c] = held'[c]] /\ TakenBy(c, heap', held'[c])
<1>1. PICK r, cells : r = Passed(kind, logged) /\ cells = AttrsOf(heap, r)
  OBVIOUS
<1>2. /\ r \in Records(Len(heap)) /\ r # <<>>
      /\ cells \in Seq(Cell(Len(heap)))
      /\ Len(cells) = Len(logged.front) + logged.back.len
      /\ \A i \in 1 .. Len(logged.front) : cells[i] = Clear
      /\ logged.back.len = 1 => cells[Len(logged.front) + 1] = Behind
  BY <1>1, PassedRecord
<1>3. /\ heap \in Seq(Seq(Cell(Len(heap)))) /\ Len(heap) \in Nat
      /\ Len(logged.front) \in Nat /\ logged.back.len \in {0, 1}
  BY OriginalsTyped DEF HeapTyped
<1>4. CASE does[c] # "gdpr"
  <2>1. held' = [held EXCEPT ![c] = r] /\ heap' = heap
    BY <1>1, <1>4 DEF Take
  <2>2. held'[c] = r
    BY <2>1 DEF Typed
  <2>3. Grown(heap, heap)
    BY <1>3 DEF Grown
  <2> QED
    BY <1>1, <1>2, <1>4, <2>1, <2>2, <2>3 DEF TakenBy
<1>5. CASE does[c] = "gdpr"
  <2>1. PICK new, g : new = Anonymized(heap, cells) /\ g = HeapAfterAnonymize(heap, cells)
    OBVIOUS
  <2>2. heap' = g /\ held' = [held EXCEPT ![c] = RecordOf(new, NoSlice, TRUE)]
    BY <1>1, <1>5, <2>1 DEF Take
  <2>3. PICK q : q = RecordOf(new, NoSlice, TRUE)
    OBVIOUS
  <2>4. held' = [held EXCEPT ![c] = q] /\ held'[c] = q
    BY <2>2, <2>3 DEF Typed
  <2>5. Masking(heap, cells, g, new)
    BY <1>2, <1>3, <2>1, AnonymizeMasks
  <2>6. /\ Grown(heap, g) /\ new \in Seq(Cell(Len(g))) /\ Len(new) = Len(cells)
        /\ \A a \in DOMAIN heap : a \notin GroupsOf(cells) => g[a] = heap[a]
        /\ \A i \in 1 .. Len(cells) : cells[i].group = 0 => new[i] = MaskedText(cells[i])
    BY <2>5 DEF Masking
  <2>7. q = [front |-> new, back |-> NoSlice, clipped |-> TRUE]
    BY <2>3 DEF RecordOf
  <2>8. NoSlice \in SliceType
    BY DEF NoSlice, Slice, SliceType
  <2>9. q \in Records(Len(g)) /\ q.front = new /\ q.back = NoSlice
    BY <2>6, <2>7, <2>8 DEF Records
  <2>10. q # <<>>
    <3>1. DOMAIN q = {"front", "back", "clipped"}
      BY <2>7
    <3>2. DOMAIN <<>> = {}
      OBVIOUS
    <3> QED
      BY <3>1, <3>2
  <2>11. \A i \in 1 .. Len(cells) : cells[i] = Clear \/ cells[i] = Behind
    <3>1. PICK n, m : n = Len(logged.front) /\ m = logged.back.len
      OBVIOUS
    <3>2. n \in Nat /\ m \in {0, 1} /\ Len(cells) = n + m
      BY <1>2, <1>3, <3>1
    <3>3. \A i \in 1 .. n + m : i \in 1 .. n \/ (m = 1 /\ i = n + 1)
      BY <3>2
    <3> QED
      BY <1>2, <3>1, <3>2, <3>3
  <2>12. /\ Clear.group = 0 /\ Behind.group \in {0, 3} /\ MaskedText(Clear) = Plain("masked")
         /\ wrote.groups.record = {} => Behind = Clear
    BY DEF Behind, Clear, Plain, Group, MaskedText
  <2>13. \A a \in DOMAIN heap : a # 3 => g[a] = heap[a]
    <3>1. DOMAIN cells = 1 .. Len(cells)
      BY <1>2, LenProperties
    <3>2. GroupsOf(cells) \subseteq {3}
      BY <2>11, <2>12, <3>1 DEF GroupsOf
    <3> QED
      BY <2>6, <3>2
  <2>14. ASSUME wrote.groups.record = {}
         PROVE  q.front = [i \in 1 .. Len(logged.front) + logged.back.len |-> Plain("masked")]
    <3>1. \A i \in 1 .. Len(cells) : new[i] = Plain("masked")
      BY <2>6, <2>11, <2>12, <2>14
    <3>2. DOMAIN new = 1 .. Len(cells) /\ new = [i \in 1 .. Len(cells) |-> new[i]]
      <4>1. DOMAIN cells = 1 .. Len(cells)
        BY <1>2, LenProperties
      <4> QED
        BY <2>1, <4>1 DEF Anonymized
    <3> QED
      BY <1>2, <2>9, <3>1, <3>2
  <2> QED
    BY <1>5, <2>2, <2>4, <2>6, <2>9, <2>10, <2>13, <2>14 DEF TakenBy
<1> QED
  BY <1>4, <1>5

(* A child that takes a record for the first time leaves all else in order.*)
LEMMA TakeKeepsInv ==
  ASSUME IInv, NEW c \in Children, Take(c), Keep, phase = "log", held[c] = <<>>,
         phase' \in {"log", "done"}, turn' \in 1 .. Len(does) + 1,
         phase' = "log" => kind # "firstmatch" /\ turn' = c + 1 /\ turn = c
  PROVE  IInv'
<1>0. /\ Fixed /\ HeapTyped /\ Typed /\ OriginalsKept /\ KeptApart /\ RouteKept
      /\ AttrsKept /\ OneDerivation /\ HeldKept /\ RoomKept
  BY DEF IInv
<1>1. UNCHANGED <<kind, does, given, logged, kept, sees, stamped, wrote>>
  BY DEF Keep
<1>2. /\ Fixed' /\ Children' = Children /\ Attrs' = Attrs /\ Behind' = Behind
      /\ \A d : Mark(d)' = Mark(d)
      /\ \A what : Doing(what)' = Doing(what)
      /\ AttrsApply' <=> AttrsApply
      /\ RecordsApply' <=> RecordsApply
  BY <1>0, <1>1, FixedStays
<1>3. PICK g, r : g = heap' /\ r = held'[c]
  OBVIOUS
<1>4. held' = [held EXCEPT ![c] = r] /\ TakenBy(c, g, r)
  BY <1>0, <1>3, Taking
<1>5. /\ Grown(heap, g) /\ r \in Records(Len(g)) /\ r # <<>>
      /\ \A a \in DOMAIN heap : a # 3 => g[a] = heap[a]
      /\ does[c] # "gdpr" => g = heap /\ r = Passed(kind, logged)
      /\ does[c] = "gdpr" =>
            /\ r.back = NoSlice
            /\ wrote.groups.record = {} =>
                  r.front = [i \in 1 .. Len(logged.front) + logged.back.len |-> Plain("masked")]
  BY <1>4 DEF TakenBy
<1>6. /\ HeapTyped' /\ Len(heap) \in Nat /\ Len(g) \in Nat
      /\ \A a \in DOMAIN heap : a \in DOMAIN g /\ Len(g[a]) = Len(heap[a])
      /\ \A s : Within(heap, s) => Within(g, s)
      /\ Seq(Cell(Len(heap))) \subseteq Seq(Cell(Len(g)))
      /\ Records(Len(heap)) \subseteq Records(Len(g))
  BY <1>0, <1>1, <1>3, <1>5, HeapGrows
<1>7. /\ held'[c] = r
      /\ \A d \in Children : d # c => held'[d] = held[d]
      /\ c \notin stamped
  BY <1>0, <1>3, <1>4 DEF Typed
<1>8. /\ 1 \in DOMAIN heap /\ 2 \in DOMAIN heap /\ 4 \in DOMAIN heap
      /\ g[1] = heap[1] /\ g[2] = heap[2] /\ g[4] = heap[4]
  <2>1. 1 \in DOMAIN heap /\ 2 \in DOMAIN heap /\ 4 \in DOMAIN heap
    BY <1>0, OriginalsTyped
  <2> QED
    BY <1>5, <2>1
<1>9. /\ Children = 1 .. Len(does) /\ Len(does) \in Nat /\ \A d \in Children : d \in Nat
  BY <1>0, ChildrenAre
<1>10. Typed'
  <2>1. kept' \in [Children' -> SliceType] /\ sees' \in [Children' -> Seq(Cell(Len(g)))]
    BY <1>0, <1>1, <1>2, <1>6 DEF Typed
  <2>2. held' \in [Children' -> Records(Len(g)) \cup {<<>>}]
    BY <1>0, <1>2, <1>4, <1>5, <1>6 DEF Typed
  <2>3. \A d \in Children' : Within(g, kept'[d])
    BY <1>0, <1>1, <1>2, <1>6 DEF Typed
  <2>4. stamped' \subseteq {d \in Doing("stamper")' : held'[d] # <<>>}
    BY <1>0, <1>1, <1>2, <1>5, <1>7 DEF Typed, Doing
  <2>5. ASSUME phase' = "log", NEW d \in Children, d >= turn' PROVE held'[d] = <<>>
    <3>1. d # c /\ d >= turn
      BY <1>9, <2>5
    <3> QED
      BY <1>0, <1>7, <3>1 DEF Typed
  <2>6. phase' # "derive" /\ phase' \in {"derive", "log", "done"} /\ turn' \in 1 .. Len(does') + 1
    BY <1>1
  <2> QED
    BY <1>2, <1>3, <2>1, <2>2, <2>3, <2>4, <2>5, <2>6 DEF Typed
<1>11. OriginalsKept'
  <2>1. Doing("gdpr") = {} => g[1] = <<Clear>> /\ g[3] = <<Clear>>
    <3>1. ASSUME Doing("gdpr") = {} PROVE does[c] # "gdpr"
      BY <3>1 DEF Doing
    <3> QED
      BY <1>0, <1>5, <3>1 DEF OriginalsKept
  <2>2. phase' # "derive"
    OBVIOUS
  <2> QED
    BY <1>0, <1>1, <1>2, <1>3, <1>8, <2>1, <2>2 DEF OriginalsKept
<1>12. \A d \in Children : Derivation(d) =>
          /\ kept[d].array = 2 \/ kept[d].array > 4
          /\ g[kept[d].array] = heap[kept[d].array]
  <2> SUFFICES ASSUME NEW d \in Children, Derivation(d)
               PROVE  /\ kept[d].array = 2 \/ kept[d].array > 4
                      /\ g[kept[d].array] = heap[kept[d].array]
    OBVIOUS
  <2>1. (kept[d].array = 2 \/ kept[d].array > 4) /\ kept[d].array \in DOMAIN heap
    BY <1>0 DEF KeptApart, Typed, Within
  <2>2. kept[d].array # 3
    BY <2>1
  <2> QED
    BY <1>5, <2>1, <2>2
<1>13. KeptApart'
  BY <1>0, <1>1, <1>2 DEF KeptApart, Derivation
<1>14. RouteKept'
  <2> SUFFICES ASSUME kind = "firstmatch", NEW d \in Children, Derivation(d)
               PROVE  Has(g, kept[d], sees[d] \o Mark(d))
    BY <1>1, <1>2, <1>3 DEF RouteKept, Derivation
  <2>1. Has(heap, kept[d], sees[d] \o Mark(d))
    BY <1>0 DEF RouteKept
  <2> QED
    BY <1>12, <2>1 DEF Has
<1>15. AttrsKept'
  <2> SUFFICES ASSUME AttrsApply, NEW d \in Children, Derivation(d)
               PROVE  Has(g, kept[d], IF does[d] = "gdpr" THEN <<Plain("masked")>>
                                      ELSE Attrs \o Mark(d))
    BY <1>1, <1>2, <1>3 DEF AttrsKept, Derivation
  <2>1. PICK xs : xs = IF does[d] = "gdpr" THEN <<Plain("masked")>> ELSE Attrs \o Mark(d)
    OBVIOUS
  <2>2. Has(heap, kept[d], xs)
    BY <1>0, <2>1 DEF AttrsKept
  <2>3. Has(g, kept[d], xs)
    BY <1>12, <2>2 DEF Has
  <2> QED
    BY <2>1, <2>3
<1>16. OneDerivation'
  BY <1>0, <1>1 DEF OneDerivation, Derivation
<1>17. HeldKept'
  <2>1. Passed(kind', logged') = Passed(kind, logged)
    BY <1>1
  <2>2. ASSUME NEW d \in Children, d # c, d \in stamped
        PROVE  \/ /\ Len(logged.front) < Front
                  /\ held'[d].front = Append(logged.front, Stamp(d))
                  /\ held'[d].back = logged.back
               \/ /\ Len(logged.front) = Front
                  /\ held'[d].front = logged.front
                  /\ held'[d].back.array = 4 \/ held'[d].back.array > 4
                  /\ Within(g, held'[d].back)
                  /\ RecordsApply =>
                        /\ held'[d].back.len = logged.back.len + 1
                        /\ \A i \in 1 .. logged.back.len : g[held'[d].back.array][i] = g[4][i]
                        /\ g[held'[d].back.array][logged.back.len + 1] = Stamp(d)
    <3>1. held'[d] = held[d] /\ held[d] # <<>>
      BY <1>0, <1>7, <2>2 DEF Typed
    <3>2. CASE Len(logged.front) < Front /\ held[d].front = Append(logged.front, Stamp(d))
                 /\ held[d].back = logged.back
      BY <3>1, <3>2
    <3>3. CASE /\ Len(logged.front) = Front /\ held[d].front = logged.front
               /\ held[d].back.array = 4 \/ held[d].back.array > 4
               /\ Within(heap, held[d].back)
               /\ RecordsApply => StampedBehind(d)
      <4>1. held[d].back.array # 3 /\ held[d].back.array \in DOMAIN heap
        BY <3>3 DEF Within
      <4>2. g[held[d].back.array] = heap[held[d].back.array] /\ Within(g, held[d].back)
        BY <1>5, <1>6, <3>3, <4>1
      <4> QED
        BY <1>8, <3>1, <3>3, <4>2 DEF StampedBehind
    <3> QED
      BY <1>0, <2>2, <3>1, <3>2, <3>3 DEF HeldKept
  <2>3. ASSUME NEW d \in Children, held'[d] # <<>>, does[d] = "gdpr"
        PROVE  /\ held'[d].back = NoSlice
               /\ wrote.groups.record = {} =>
                     held'[d].front = [i \in 1 .. Len(logged.front) + logged.back.len |-> Plain("masked")]
    <3>1. CASE d = c
      BY <1>5, <1>7, <2>3, <3>1
    <3>2. CASE d # c
      BY <1>0, <1>7, <2>3, <3>2 DEF HeldKept
    <3> QED
      BY <3>1, <3>2
  <2>4. ASSUME NEW d \in Children, held'[d] # <<>>, does[d] # "gdpr", d \notin stamped
        PROVE  held'[d] = Passed(kind, logged)
    <3>1. CASE d = c
      BY <1>5, <1>7, <2>4, <3>1
    <3>2. CASE d # c
      BY <1>0, <1>7, <2>4, <3>2 DEF HeldKept
    <3> QED
      BY <3>1, <3>2
  <2> QED
    <3>1. /\ Children' = Children /\ does' = does /\ logged' = logged /\ wrote' = wrote
          /\ stamped' = stamped /\ heap' = g /\ (RecordsApply' <=> RecordsApply)
      BY <1>1, <1>2, <1>3
    <3>2. \A d \in Children : d \in stamped => d # c
      BY <1>7
    <3> QED
      BY <2>1, <2>2, <2>3, <2>4, <3>1, <3>2 DEF HeldKept, StampedBehind
<1>18. RoomKept'
  <2>1. kind = "firstmatch" => \A d \in Children : d # c => held'[d] = <<>>
    BY <1>0, <1>7 DEF RoomKept
  <2>2. kind = "firstmatch" => phase' # "log"
    OBVIOUS
  <2> QED
    BY <1>0, <1>1, <1>2, <1>3, <1>8, <2>1, <2>2 DEF RoomKept
<1> QED
  BY <1>2, <1>6, <1>10, <1>11, <1>13, <1>14, <1>15, <1>16, <1>17, <1>18 DEF IInv

(* The loops reach a child that has no record yet.                         *)
LEMMA HandleKeepsInv ==
  ASSUME IInv, Handle
  PROVE  IInv'
<1>1. Fixed /\ Typed
  BY DEF IInv
<1>2. /\ phase = "log" /\ kind # "firstmatch" /\ turn \in Children /\ Take(turn) /\ Keep
      /\ turn' = turn + 1 /\ phase' \in {"log", "done"}
  BY DEF Handle
<1>3. turn \in Nat /\ turn' \in 1 .. Len(does) + 1
  BY <1>1, <1>2, ChildrenAre
<1>4. held[turn] = <<>>
  BY <1>1, <1>2, <1>3 DEF Typed
<1> QED
  BY <1>2, <1>3, <1>4, TakeKeepsInv

(* One route takes the record, and no other has one.                       *)
LEMMA HandleFirstMatchKeepsInv ==
  ASSUME IInv, HandleFirstMatch
  PROVE  IInv'
<1>1. Typed /\ RoomKept
  BY DEF IInv
<1>2. PICK c \in Children : Take(c)
  BY DEF HandleFirstMatch
<1>3. /\ phase = "log" /\ kind = "firstmatch" /\ Keep
      /\ turn' = turn /\ phase' = "done"
  BY DEF HandleFirstMatch
<1>4. held[c] = <<>> /\ turn' \in 1 .. Len(does) + 1
  BY <1>1, <1>3 DEF RoomKept, Typed
<1> QED
  BY <1>2, <1>3, <1>4, TakeKeepsInv

-----------------------------------------------------------------------------

(* What it does to the memory that a holder c adds an attribute, r the     *)
(* record it then has: at most the room behind the user's record is taken. *)
AddedBy(c, g, r) ==
  /\ Grown(heap, g) /\ r \in Records(Len(g)) /\ r # <<>>
  /\ \A a \in DOMAIN heap : a # 4 => g[a] = heap[a]
  /\ \A i \in 1 .. logged.back.len : g[4][i] = heap[4][i]
  /\ g[4] # heap[4] => kind \in {"firstmatch", "recovery"}
  /\ \/ /\ Len(logged.front) < Front
        /\ r.front = Append(logged.front, Stamp(c))
        /\ r.back = logged.back
     \/ /\ Len(logged.front) = Front
        /\ r.front = logged.front
        /\ r.back.array = 4 \/ r.back.array > 4
        /\ Within(g, r.back)
        /\ RecordsApply =>
              /\ r.back.len = logged.back.len + 1
              /\ \A i \in 1 .. logged.back.len : g[r.back.array][i] = g[4][i]
              /\ g[r.back.array][logged.back.len + 1] = Stamp(c)

(* When the claim about records applies, a holder with room behind its     *)
(* record is the first to add to it.                                       *)
LEMMA FirstToAdd ==
  ASSUME IInv, NEW c \in Children, does[c] = "stamper", held[c] # <<>>, c \notin stamped,
         RecordsApply, kind \in {"firstmatch", "recovery"}
  PROVE  stamped = {}
<1>0. Fixed /\ Typed /\ RoomKept
  BY DEF IInv
<1>1. SUFFICES ASSUME NEW d \in stamped
               PROVE  FALSE
  OBVIOUS
<1>2. d \in Children /\ d # c /\ does[d] = "stamper" /\ held[d] # <<>>
  BY <1>0 DEF Typed, Doing
<1>3. CASE kind = "firstmatch"
  BY <1>0, <1>2, <1>3 DEF RoomKept
<1>4. CASE kind = "recovery"
  <2>1. Children = 1 .. 2
    BY <1>0, <1>4, ChildrenAre
  <2>2. Doing("stamper") = {1, 2}
    BY <1>2, <2>1 DEF Doing
  <2> QED
    BY <1>4, <2>2 DEF RecordsApply
<1> QED
  BY <1>3, <1>4

LEMMA Adding ==
  ASSUME IInv, NEW c \in Children, AddAttrs(c)
  PROVE  held' = [held EXCEPT ![c] = held'[c]] /\ AddedBy(c, heap', held'[c])
<1>0. Fixed /\ HeapTyped /\ Typed /\ OriginalsKept /\ HeldKept /\ RoomKept
  BY DEF IInv
<1>1. PICK r : r = held[c]
  OBVIOUS
<1>2. PICK taken, moved :
        /\ taken <=> /\ ~ r.clipped /\ HasRoom(heap, r.back)
                     /\ heap[r.back.array][r.back.len + 1] # Blank
        /\ moved = Contents(heap, r.back) \o
                   (IF taken THEN <<Plain("!BUG")>> ELSE <<>>) \o <<Stamp(c)>>
  OBVIOUS
<1>3. /\ does[c] = "stamper" /\ r # <<>> /\ c \notin stamped
      /\ \/ /\ Len(r.front) < Front
            /\ held' = [held EXCEPT ![c].front = Append(@, Stamp(c))]
            /\ UNCHANGED heap
         \/ /\ ~ (Len(r.front) < Front) /\ (taken \/ r.clipped)
            /\ heap' = Allocate(heap, moved)
            /\ held' = [held EXCEPT ![c] = RecordOf(r.front, Allocated(heap, moved), FALSE)]
         \/ /\ ~ (Len(r.front) < Front) /\ ~ taken /\ ~ r.clipped
            /\ heap' = HeapAfterAppend(heap, r.back, Stamp(c))
            /\ held' = [held EXCEPT ![c].back = SliceAfterAppend(heap, r.back)]
  BY <1>1, <1>2 DEF AddAttrs
<1>4. r = Passed(kind, logged)
  BY <1>0, <1>1, <1>3 DEF HeldKept
<1>5. /\ r \in Records(Len(heap)) /\ r.front = logged.front /\ r.back = logged.back
      /\ r.clipped <=> kind \in {"fanout", "failover", "pool"}
  BY <1>0, <1>4, PassedRecord
<1>6. PICK f, b : f = logged.front /\ b = logged.back
  OBVIOUS
<1>7. /\ heap \in Seq(Seq(Cell(Len(heap)))) /\ Len(heap) \in Nat /\ Len(heap) >= 4
      /\ DOMAIN heap = 1 .. Len(heap) /\ 4 \in DOMAIN heap
      /\ b \in SliceType /\ b.array = 4 /\ b.len \in {0, 1} /\ b.len \in 0 .. Len(heap[4])
      /\ f \in Seq(Cell(Len(heap))) /\ Len(f) \in Nat /\ Len(heap[4]) \in Nat
  BY <1>0, <1>6, OriginalsTyped DEF HeapTyped
<1>8. Within(heap, b)
  BY <1>7 DEF Within
<1>9. Len(f) < Front \/ Len(f) = Front
  <2>1. Front \in Nat /\ Len(f) \in {Front - 1, Front}
    BY <1>0, <1>6, SharingAssumption DEF Fixed
  <2> QED
    BY <2>1
<1>10. Stamp(c) \in Cell(Len(heap)) /\ Plain("!BUG") \in Cell(Len(heap)) /\ c \in Nat
  BY <1>0, <1>7, ChildrenAre, TextsAreCells
<1>11. CASE Len(f) < Front
  <2>1. held' = [held EXCEPT ![c].front = Append(@, Stamp(c))] /\ heap' = heap
    BY <1>3, <1>5, <1>6, <1>11
  <2>2. PICK q : q = [r EXCEPT !.front = Append(f, Stamp(c))]
    OBVIOUS
  <2>3. held' = [held EXCEPT ![c] = q] /\ held'[c] = q
    BY <1>0, <1>1, <1>5, <1>6, <2>1, <2>2 DEF Typed
  <2>4. Append(f, Stamp(c)) \in Seq(Cell(Len(heap)))
    BY <1>7, <1>10, AppendProperties
  <2>5. q \in Records(Len(heap)) /\ q.front = Append(f, Stamp(c)) /\ q.back = b
    BY <1>5, <1>6, <2>2, <2>4 DEF Records
  <2>6. q # <<>>
    <3>1. DOMAIN q = {"front", "back", "clipped"}
      BY <2>5 DEF Records
    <3>2. DOMAIN <<>> = {}
      OBVIOUS
    <3> QED
      BY <3>1, <3>2
  <2>7. Grown(heap, heap)
    BY <1>7 DEF Grown
  <2> QED
    BY <1>6, <1>11, <2>1, <2>3, <2>5, <2>6, <2>7 DEF AddedBy
<1>12. CASE Len(f) = Front /\ (taken \/ r.clipped)
  <2>1. /\ heap' = Allocate(heap, moved)
        /\ held' = [held EXCEPT ![c] = RecordOf(f, Allocated(heap, moved), FALSE)]
    <3>1. ~ (Len(r.front) < Front)
      <4>1. Len(r.front) = Front /\ ~ (Front < Front)
        BY <1>5, <1>6, <1>12, SharingAssumption
      <4> QED
        BY <4>1
    <3>2. /\ heap' = Allocate(heap, moved)
          /\ held' = [held EXCEPT ![c] = RecordOf(r.front, Allocated(heap, moved), FALSE)]
      BY <1>3, <1>12, <3>1, Zenon
    <3> QED
      BY <1>5, <1>6, <3>2, Zenon
  <2>2. PICK first, warn : first = Contents(heap, b) /\ warn = IF taken THEN <<Plain("!BUG")>> ELSE <<>>
    OBVIOUS
  <2>3. /\ first \in Seq(Cell(Len(heap))) /\ Len(first) = b.len
        /\ \A i \in 1 .. b.len : first[i] = heap[4][i]
    <3>1. b.array \in DOMAIN heap /\ b.len \in 0 .. Len(heap[b.array])
      BY <1>7
    <3>2. /\ Contents(heap, b) \in Seq(Cell(Len(heap)))
          /\ Len(Contents(heap, b)) = b.len
          /\ \A i \in 1 .. b.len : Contents(heap, b)[i] = heap[b.array][i]
      BY <1>7, <3>1, ContentsAreCells
    <3> QED
      BY <1>7, <2>2, <3>2
  <2>4. moved = first \o warn \o <<Stamp(c)>>
    BY <1>2, <1>5, <1>6, <2>2
  <2>5. warn \in Seq(Cell(Len(heap)))
    <3>1. CASE taken
      BY <1>10, <2>2, <3>1
    <3>2. CASE ~ taken
      BY <2>2, <3>2
    <3> QED
      BY <3>1, <3>2
  <2>6. <<Stamp(c)>> \in Seq(Cell(Len(heap))) /\ Len(<<Stamp(c)>>) = 1 /\ <<Stamp(c)>>[1] = Stamp(c)
    BY <1>10
  <2>7. moved \in Seq(Cell(Len(heap)))
    BY <2>3, <2>4, <2>5, <2>6, ConcatProperties
  <2>8. ASSUME ~ taken
        PROVE  /\ Len(moved) = b.len + 1
               /\ \A i \in 1 .. b.len : moved[i] = heap[4][i]
               /\ moved[b.len + 1] = Stamp(c)
    <3>1. moved = first \o <<Stamp(c)>>
      <4>1. first \o <<>> = first
        BY <2>3, ConcatProperties
      <4> QED
        BY <2>2, <2>4, <2>8, <4>1
    <3>2. /\ Len(moved) = Len(first) + 1
          /\ \A i \in 1 .. Len(first) + 1 :
                moved[i] = IF i <= Len(first) THEN first[i] ELSE <<Stamp(c)>>[i - Len(first)]
      BY <2>3, <2>6, <3>1, ConcatProperties
    <3>3. /\ \A i \in 1 .. b.len : i \in 1 .. b.len + 1 /\ i <= b.len
          /\ b.len + 1 \in 1 .. b.len + 1 /\ ~ (b.len + 1 <= b.len) /\ b.len + 1 - b.len = 1
      BY <1>7
    <3>4. \A i \in 1 .. b.len : moved[i] = heap[4][i]
      BY <2>3, <3>2, <3>3
    <3>5. moved[b.len + 1] = <<Stamp(c)>>[1]
      BY <2>3, <3>2, <3>3
    <3> QED
      BY <2>3, <2>6, <3>2, <3>4, <3>5
  <2>9. PICK t, g, q : t = Allocated(heap, moved) /\ g = heap' /\ q = RecordOf(f, t, FALSE)
    OBVIOUS
  <2>10. held' = [held EXCEPT ![c] = q] /\ held'[c] = q
    BY <1>0, <2>1, <2>9 DEF Typed
  <2>11. Grown(heap, g) /\ OwnArray(heap, moved, g, t)
    BY <1>7, <2>1, <2>7, <2>9, AllocateGrows
  <2>12. /\ t \in SliceType /\ t.array = Len(heap) + 1 /\ t.len = Len(moved) /\ Within(g, t)
         /\ g[t.array] = moved /\ \A a \in DOMAIN heap : g[a] = heap[a]
         /\ t.array > 4
    BY <1>7, <2>11 DEF OwnArray
  <2>13. q = [front |-> f, back |-> t, clipped |-> FALSE]
    BY <2>9 DEF RecordOf
  <2>14. f \in Seq(Cell(Len(g)))
    BY <1>7, <2>11, CellsGrow DEF Grown
  <2>15. q \in Records(Len(g)) /\ q.front = f /\ q.back = t
    BY <2>12, <2>13, <2>14 DEF Records
  <2>16. q # <<>>
    <3>1. DOMAIN q = {"front", "back", "clipped"}
      BY <2>13
    <3>2. DOMAIN <<>> = {}
      OBVIOUS
    <3> QED
      BY <3>1, <3>2
  <2>17. RecordsApply => ~ taken
    <3>1. ASSUME RecordsApply, taken PROVE FALSE
      <4>1. /\ ~ r.clipped /\ HasRoom(heap, b) /\ heap[4][b.len + 1] # Blank
        BY <1>2, <1>5, <1>6, <1>7, <3>1
      <4>2. kind \in {"firstmatch", "recovery"}
        BY <1>0, <1>5, <4>1, SharingAssumption DEF Fixed
      <4>3. stamped = {}
        BY <1>1, <1>3, <3>1, <4>2, FirstToAdd
      <4>4. b.len < Len(heap[4])
        BY <1>7, <4>1 DEF HasRoom
      <4> QED
        BY <1>0, <1>6, <4>1, <4>3, <4>4 DEF RoomKept
    <3> QED
      BY <3>1
  <2>18. g[4] = heap[4] /\ \A a \in DOMAIN heap : a # 4 => g[a] = heap[a]
    BY <1>7, <2>12
  <2> QED
    <3>1. RecordsApply =>
            /\ t.len = logged.back.len + 1
            /\ \A i \in 1 .. logged.back.len : g[t.array][i] = g[4][i]
            /\ g[t.array][logged.back.len + 1] = Stamp(c)
      BY <1>6, <2>8, <2>12, <2>17, <2>18
    <3>2. AddedBy(c, g, q)
      BY <1>6, <1>12, <2>11, <2>12, <2>15, <2>16, <2>18, <3>1 DEF AddedBy
    <3> QED
      BY <2>9, <2>10, <3>2
<1>13. CASE Len(f) = Front /\ ~ taken /\ ~ r.clipped
  <2>1. /\ heap' = HeapAfterAppend(heap, b, Stamp(c))
        /\ held' = [held EXCEPT ![c].back = SliceAfterAppend(heap, b)]
    <3>1. ~ (Len(r.front) < Front)
      <4>1. Len(r.front) = Front /\ ~ (Front < Front)
        BY <1>5, <1>6, <1>13, SharingAssumption
      <4> QED
        BY <4>1
    <3>2. /\ heap' = HeapAfterAppend(heap, r.back, Stamp(c))
          /\ held' = [held EXCEPT ![c].back = SliceAfterAppend(heap, r.back)]
      BY <1>3, <1>13, <3>1, Zenon
    <3> QED
      BY <1>5, <1>6, <3>2, Zenon
  <2>2. PICK t, g, q : t = SliceAfterAppend(heap, b) /\ g = heap' /\ q = [r EXCEPT !.back = t]
    OBVIOUS
  <2>3. held' = [held EXCEPT ![c] = q] /\ held'[c] = q
    BY <1>0, <1>1, <2>1, <2>2 DEF Typed
  <2>4. Grown(heap, g) /\ OneCellWritten(heap, b, Stamp(c), g, t)
    BY <1>7, <1>8, <1>10, <2>1, <2>2, AppendGrows
  <2>5. /\ t \in SliceType /\ t.len = b.len + 1
        /\ t.array \in DOMAIN g /\ t.len \in 0 .. Len(g[t.array])
        /\ t.array = 4 \/ t.array \notin DOMAIN heap
        /\ \A i \in 1 .. b.len : g[t.array][i] = heap[4][i]
        /\ g[t.array][t.len] = Stamp(c)
        /\ \A a \in DOMAIN heap : a # 4 => g[a] = heap[a]
        /\ \A i \in 1 .. Len(heap[4]) : g[4][i] # heap[4][i] => i = b.len + 1
    BY <1>7, <2>4 DEF OneCellWritten
  <2>6. t.array = 4 \/ t.array > 4
    <3>1. DOMAIN g = 1 .. Len(g) /\ Len(g) \in Nat
      BY <2>4, LenProperties DEF Grown
    <3>2. t.array \in Nat /\ t.array \in 1 .. Len(g)
      BY <2>5, <3>1
    <3> QED
      BY <1>7, <2>5, <3>2
  <2>7. \A i \in 1 .. b.len : g[4][i] = heap[4][i]
    <3>1. \A i \in 1 .. b.len : i \in 1 .. Len(heap[4]) /\ i # b.len + 1
      BY <1>7
    <3> QED
      BY <2>5, <3>1
  <2>8. f \in Seq(Cell(Len(g))) /\ r \in Records(Len(g))
    BY <1>5, <1>7, <2>4, CellsGrow DEF Grown
  <2>9. q \in Records(Len(g)) /\ q.front = f /\ q.back = t
    BY <1>5, <1>6, <2>2, <2>5, <2>8 DEF Records
  <2>10. q # <<>>
    <3>1. DOMAIN q = {"front", "back", "clipped"}
      BY <2>9 DEF Records
    <3>2. DOMAIN <<>> = {}
      OBVIOUS
    <3> QED
      BY <3>1, <3>2
  <2>11. kind \in {"firstmatch", "recovery"}
    BY <1>0, <1>5, <1>13, SharingAssumption DEF Fixed
  <2>12. Within(g, t)
    BY <2>5 DEF Within
  <2> QED
    <3>1. /\ t.len = logged.back.len + 1
          /\ \A i \in 1 .. logged.back.len : g[t.array][i] = g[4][i]
          /\ g[t.array][logged.back.len + 1] = Stamp(c)
      BY <1>6, <2>5, <2>7
    <3>2. \A i \in 1 .. logged.back.len : g[4][i] = heap[4][i]
      BY <1>6, <2>7
    <3>3. AddedBy(c, g, q)
      BY <1>6, <1>13, <2>4, <2>5, <2>6, <2>9, <2>10, <2>11, <2>12, <3>1, <3>2 DEF AddedBy
    <3> QED
      BY <2>2, <2>3, <3>3
<1> QED
  BY <1>9, <1>11, <1>12, <1>13

(* A holder that adds an attribute takes the room behind the user's        *)
(* record only when no one else has a claim to it.                         *)
LEMMA AddAttrsKeepsInv ==
  ASSUME IInv, NEW c \in Children, AddAttrs(c)
  PROVE  IInv'
<1>0. /\ Fixed /\ HeapTyped /\ Typed /\ OriginalsKept /\ KeptApart /\ RouteKept
      /\ AttrsKept /\ OneDerivation /\ HeldKept /\ RoomKept
  BY DEF IInv
<1>1. /\ does[c] = "stamper" /\ held[c] # <<>> /\ c \notin stamped
      /\ stamped' = stamped \cup {c}
      /\ UNCHANGED <<kind, does, given, logged, phase, turn, kept, sees, wrote>>
  BY DEF AddAttrs
<1>2. /\ Fixed' /\ Children' = Children /\ Attrs' = Attrs /\ Behind' = Behind
      /\ \A d : Mark(d)' = Mark(d)
      /\ \A what : Doing(what)' = Doing(what)
      /\ AttrsApply' <=> AttrsApply
      /\ RecordsApply' <=> RecordsApply
  BY <1>0, <1>1, FixedStays
<1>3. PICK g, r : g = heap' /\ r = held'[c]
  OBVIOUS
<1>4. held' = [held EXCEPT ![c] = r] /\ AddedBy(c, g, r)
  BY <1>3, Adding
<1>5. /\ Grown(heap, g) /\ r \in Records(Len(g)) /\ r # <<>>
      /\ \A a \in DOMAIN heap : a # 4 => g[a] = heap[a]
      /\ \A i \in 1 .. logged.back.len : g[4][i] = heap[4][i]
      /\ g[4] # heap[4] => kind \in {"firstmatch", "recovery"}
  BY <1>4 DEF AddedBy
<1>6. \/ /\ Len(logged.front) < Front
         /\ r.front = Append(logged.front, Stamp(c))
         /\ r.back = logged.back
      \/ /\ Len(logged.front) = Front
         /\ r.front = logged.front
         /\ r.back.array = 4 \/ r.back.array > 4
         /\ Within(g, r.back)
         /\ RecordsApply =>
               /\ r.back.len = logged.back.len + 1
               /\ \A i \in 1 .. logged.back.len : g[r.back.array][i] = g[4][i]
               /\ g[r.back.array][logged.back.len + 1] = Stamp(c)
  BY <1>4 DEF AddedBy
<1>7. /\ HeapTyped' /\ Len(heap) \in Nat /\ Len(g) \in Nat
      /\ \A a \in DOMAIN heap : a \in DOMAIN g /\ Len(g[a]) = Len(heap[a])
      /\ \A s : Within(heap, s) => Within(g, s)
      /\ Seq(Cell(Len(heap))) \subseteq Seq(Cell(Len(g)))
      /\ Records(Len(heap)) \subseteq Records(Len(g))
  BY <1>0, <1>1, <1>3, <1>5, HeapGrows
<1>8. /\ held'[c] = r
      /\ \A d \in Children : d # c => held'[d] = held[d]
  BY <1>0, <1>3, <1>4 DEF Typed
<1>9. phase # "derive"
  BY <1>0, <1>1 DEF Typed
<1>10. Typed'
  <2>1. kept' \in [Children' -> SliceType] /\ sees' \in [Children' -> Seq(Cell(Len(g)))]
    BY <1>0, <1>1, <1>2, <1>7 DEF Typed
  <2>2. held' \in [Children' -> Records(Len(g)) \cup {<<>>}]
    BY <1>0, <1>2, <1>4, <1>5, <1>7 DEF Typed
  <2>3. \A d \in Children' : Within(g, kept'[d])
    BY <1>0, <1>1, <1>2, <1>7 DEF Typed
  <2>4. stamped' \subseteq {d \in Doing("stamper")' : held'[d] # <<>>}
    BY <1>0, <1>1, <1>2, <1>5, <1>8 DEF Typed, Doing
  <2>5. ASSUME phase = "log", NEW d \in Children, d >= turn PROVE held'[d] = <<>>
    <3>1. held[d] = <<>>
      BY <1>0, <2>5 DEF Typed
    <3>2. d # c
      BY <1>1, <3>1
    <3> QED
      BY <1>8, <3>1, <3>2
  <2>6. phase \in {"derive", "log", "done"} /\ turn \in 1 .. Len(does) + 1
    BY <1>0 DEF Typed
  <2> QED
    BY <1>1, <1>2, <1>3, <1>9, <2>1, <2>2, <2>3, <2>4, <2>5, <2>6 DEF Typed
<1>11. /\ 1 \in DOMAIN heap /\ 2 \in DOMAIN heap /\ 3 \in DOMAIN heap
       /\ g[1] = heap[1] /\ g[2] = heap[2] /\ g[3] = heap[3]
  <2>1. 1 \in DOMAIN heap /\ 2 \in DOMAIN heap /\ 3 \in DOMAIN heap
    BY <1>0, OriginalsTyped
  <2> QED
    BY <1>5, <2>1
<1>12. OriginalsKept'
  <2>1. logged.back.len = 1 => g[4][1] = Behind
    BY <1>0, <1>5 DEF OriginalsKept
  <2> QED
    BY <1>0, <1>1, <1>2, <1>3, <1>11, <2>1 DEF OriginalsKept
<1>13. \A d \in Children : Derivation(d) => g[kept[d].array] = heap[kept[d].array]
  <2> SUFFICES ASSUME NEW d \in Children, Derivation(d)
               PROVE  g[kept[d].array] = heap[kept[d].array]
    OBVIOUS
  <2>1. (kept[d].array = 2 \/ kept[d].array > 4) /\ kept[d].array \in DOMAIN heap
    BY <1>0 DEF KeptApart, Typed, Within
  <2>2. kept[d].array # 4
    BY <2>1
  <2> QED
    BY <1>5, <2>1, <2>2
<1>14. KeptApart'
  BY <1>0, <1>1, <1>2 DEF KeptApart, Derivation
<1>15. RouteKept'
  <2> SUFFICES ASSUME kind = "firstmatch", NEW d \in Children, Derivation(d)
               PROVE  Has(g, kept[d], sees[d] \o Mark(d))
    BY <1>1, <1>2, <1>3 DEF RouteKept, Derivation
  <2>1. Has(heap, kept[d], sees[d] \o Mark(d))
    BY <1>0 DEF RouteKept
  <2> QED
    BY <1>13, <2>1 DEF Has
<1>16. AttrsKept'
  <2> SUFFICES ASSUME AttrsApply, NEW d \in Children, Derivation(d)
               PROVE  Has(g, kept[d], IF does[d] = "gdpr" THEN <<Plain("masked")>>
                                      ELSE Attrs \o Mark(d))
    BY <1>1, <1>2, <1>3 DEF AttrsKept, Derivation
  <2>1. PICK xs : xs = IF does[d] = "gdpr" THEN <<Plain("masked")>> ELSE Attrs \o Mark(d)
    OBVIOUS
  <2>2. Has(heap, kept[d], xs)
    BY <1>0, <2>1 DEF AttrsKept
  <2>3. Has(g, kept[d], xs)
    BY <1>13, <2>2 DEF Has
  <2> QED
    BY <2>1, <2>3
<1>17. OneDerivation'
  BY <1>0, <1>1 DEF OneDerivation, Derivation
<1>18. HeldKept'
  <2>1. Passed(kind', logged') = Passed(kind, logged)
    BY <1>1
  <2>2. ASSUME NEW d \in Children, d \in stamped'
        PROVE  \/ /\ Len(logged.front) < Front
                  /\ held'[d].front = Append(logged.front, Stamp(d))
                  /\ held'[d].back = logged.back
               \/ /\ Len(logged.front) = Front
                  /\ held'[d].front = logged.front
                  /\ held'[d].back.array = 4 \/ held'[d].back.array > 4
                  /\ Within(g, held'[d].back)
                  /\ RecordsApply =>
                        /\ held'[d].back.len = logged.back.len + 1
                        /\ \A i \in 1 .. logged.back.len : g[held'[d].back.array][i] = g[4][i]
                        /\ g[held'[d].back.array][logged.back.len + 1] = Stamp(d)
    <3>1. CASE d = c
      BY <1>6, <1>8, <3>1
    <3>2. CASE d # c
      <4>1. d \in stamped /\ held'[d] = held[d] /\ held[d] # <<>>
        BY <1>0, <1>1, <1>8, <2>2, <3>2 DEF Typed
      <4>2. CASE Len(logged.front) < Front /\ held[d].front = Append(logged.front, Stamp(d))
                 /\ held[d].back = logged.back
        BY <4>1, <4>2
      <4>3. CASE /\ Len(logged.front) = Front /\ held[d].front = logged.front
                 /\ held[d].back.array = 4 \/ held[d].back.array > 4
                 /\ Within(heap, held[d].back)
                 /\ RecordsApply => StampedBehind(d)
        <5>1. held[d].back.array \in DOMAIN heap /\ Within(g, held[d].back)
          BY <1>7, <4>3 DEF Within
        <5>2. RecordsApply => g[4] = heap[4]
          BY <1>1, <1>5, <4>1, FirstToAdd
        <5>3. RecordsApply => g[held[d].back.array] = heap[held[d].back.array]
          BY <1>5, <5>1, <5>2
        <5> QED
          BY <4>1, <4>3, <5>1, <5>2, <5>3 DEF StampedBehind
      <4> QED
        BY <1>0, <4>1, <4>2, <4>3 DEF HeldKept
    <3> QED
      BY <3>1, <3>2
  <2>3. ASSUME NEW d \in Children, held'[d] # <<>>, does[d] = "gdpr"
        PROVE  /\ held'[d].back = NoSlice
               /\ wrote.groups.record = {} =>
                     held'[d].front = [i \in 1 .. Len(logged.front) + logged.back.len |-> Plain("masked")]
    <3>1. d # c
      BY <1>1, <2>3
    <3> QED
      BY <1>0, <1>8, <2>3, <3>1 DEF HeldKept
  <2>4. ASSUME NEW d \in Children, held'[d] # <<>>, does[d] # "gdpr", d \notin stamped'
        PROVE  held'[d] = Passed(kind, logged)
    <3>1. d # c /\ d \notin stamped
      BY <1>1, <2>4
    <3> QED
      BY <1>0, <1>8, <2>4, <3>1 DEF HeldKept
  <2> QED
    <3>1. /\ Children' = Children /\ does' = does /\ logged' = logged /\ wrote' = wrote
          /\ heap' = g /\ (RecordsApply' <=> RecordsApply)
      BY <1>1, <1>2, <1>3
    <3> QED
      BY <2>1, <2>2, <2>3, <2>4, <3>1 DEF HeldKept, StampedBehind
<1>19. RoomKept'
  <2>1. \A d \in Children : held'[d] # <<>> => held[d] # <<>>
    BY <1>1, <1>8
  <2>2. stamped' # {}
    BY <1>1
  <2> QED
    BY <1>0, <1>1, <1>2, <2>1, <2>2 DEF RoomKept
<1> QED
  BY <1>2, <1>7, <1>10, <1>12, <1>14, <1>15, <1>16, <1>17, <1>18, <1>19 DEF IInv

(* No step of any child breaks the invariant.                              *)
LEMMA NextInv ==
  ASSUME IInv, [Next]_vars
  PROVE  IInv'
<1>1. CASE WithAttrs
  BY <1>1, WithAttrsKeepsInv
<1>2. CASE Derived
  BY <1>2, DerivedKeepsInv
<1>3. CASE Handle
  BY <1>3, HandleKeepsInv
<1>4. CASE HandleFirstMatch
  BY <1>4, HandleFirstMatchKeepsInv
<1>5. CASE \E c \in Children : AddAttrs(c)
  BY <1>5, AddAttrsKeepsInv
<1>6. CASE UNCHANGED vars
  <2>0. /\ Fixed /\ HeapTyped /\ Typed /\ OriginalsKept /\ KeptApart /\ RouteKept
        /\ AttrsKept /\ OneDerivation /\ HeldKept /\ RoomKept
    BY DEF IInv
  <2>1. UNCHANGED <<kind, does, heap, given, logged, phase, turn, kept, sees, held, stamped, wrote>>
    BY <1>6 DEF vars
  <2>2. /\ Fixed' /\ Children' = Children /\ Attrs' = Attrs /\ Behind' = Behind
        /\ \A d : Mark(d)' = Mark(d)
        /\ \A what : Doing(what)' = Doing(what)
        /\ AttrsApply' <=> AttrsApply
        /\ RecordsApply' <=> RecordsApply
    BY <2>0, <2>1, FixedStays
  <2>3. HeapTyped' /\ Typed' /\ OriginalsKept'
    BY <2>0, <2>1, <2>2 DEF HeapTyped, Typed, OriginalsKept, Within
  <2>4. KeptApart' /\ RouteKept' /\ AttrsKept' /\ OneDerivation'
    BY <2>0, <2>1, <2>2 DEF KeptApart, RouteKept, AttrsKept, OneDerivation, Derivation, Has
  <2>5. HeldKept'
    <3>1. Passed(kind', logged') = Passed(kind, logged)
      BY <2>1
    <3>2. \A c : StampedBehind(c)' <=> StampedBehind(c)
      BY <2>1 DEF StampedBehind
    <3> QED
      BY <2>0, <2>1, <2>2, <3>1, <3>2 DEF HeldKept, Within
  <2>6. RoomKept'
    BY <2>0, <2>1, <2>2 DEF RoomKept
  <2> QED
    BY <2>2, <2>3, <2>4, <2>5, <2>6 DEF IInv
<1> QED
  BY <1>1, <1>2, <1>3, <1>4, <1>5, <1>6 DEF Next

(* Who can write where: the memory of every composite is always as the     *)
(* invariant above has it.                                                 *)
THEOREM Invariance == Spec => []IInv
<1>1. Init => IInv
  BY InitInv
<1>2. IInv /\ [Next]_vars => IInv'
  BY NextInv
<1> QED
  BY <1>1, <1>2, PTL DEF Spec

-----------------------------------------------------------------------------

(* Attributes with their groups opened.                                    *)
LEMMA ShownTyped ==
  ASSUME NEW h, h \in Seq(Seq(Cell(Len(h)))), NEW cells \in Seq(Cell(Len(h)))
  PROVE  /\ Shown(h, cells) \in Seq(Seq(Cell(Len(h)))) /\ Len(Shown(h, cells)) = Len(cells)
         /\ \A i \in 1 .. Len(cells) :
               Shown(h, cells)[i] = IF cells[i].group = 0 THEN <<cells[i]>> ELSE h[cells[i].group]
<1>1. /\ Len(h) \in Nat /\ Len(cells) \in Nat
      /\ DOMAIN cells = 1 .. Len(cells) /\ DOMAIN h = 1 .. Len(h)
  BY LenProperties
<1>2. PICK shown : shown = Shown(h, cells)
  OBVIOUS
<1>3. shown = [i \in 1 .. Len(cells) |->
                  IF cells[i].group = 0 THEN <<cells[i]>> ELSE h[cells[i].group]]
  BY <1>1, <1>2 DEF Shown
<1>4. ASSUME NEW i \in 1 .. Len(cells) PROVE shown[i] \in Seq(Cell(Len(h)))
  <2>1. cells[i] \in Cell(Len(h))
    BY ElementOfSeq
  <2>2. CASE cells[i].group = 0
    <3>1. <<cells[i]>> \in Seq(Cell(Len(h)))
      BY <2>1
    <3> QED
      BY <1>3, <2>2, <3>1
  <2>3. CASE cells[i].group # 0
    <3>1. cells[i].group \in 0 .. Len(h)
      BY <2>1 DEF Cell
    <3>2. cells[i].group \in 1 .. Len(h)
      BY <1>1, <2>3, <3>1
    <3>3. h[cells[i].group] \in Seq(Cell(Len(h)))
      BY <3>2, ElementOfSeq
    <3> QED
      BY <1>3, <2>3, <3>3
  <2> QED
    BY <2>2, <2>3
<1>5. shown \in [1 .. Len(cells) -> Seq(Cell(Len(h)))]
  BY <1>3, <1>4
<1>6. \A S : \A k \in Nat : \A f \in [1 .. k -> S] : f \in Seq(S) /\ Len(f) = k
  OBVIOUS
<1>7. shown \in Seq(Seq(Cell(Len(h)))) /\ Len(shown) = Len(cells)
  BY <1>1, <1>5, <1>6
<1> QED
  BY <1>2, <1>3, <1>7

(* Attributes side by side are shown side by side.                         *)
LEMMA ShownTogether ==
  ASSUME NEW h, h \in Seq(Seq(Cell(Len(h)))),
         NEW x \in Seq(Cell(Len(h))), NEW y \in Seq(Cell(Len(h)))
  PROVE  Shown(h, x \o y) = Shown(h, x) \o Shown(h, y)
<1>1. PICK S, z : S = Cell(Len(h)) /\ z = x \o y
  OBVIOUS
<1>2. /\ x \in Seq(S) /\ y \in Seq(S) /\ Len(x) \in Nat /\ Len(y) \in Nat
  BY <1>1, LenProperties
<1>3. /\ z \in Seq(S) /\ Len(z) = Len(x) + Len(y)
      /\ \A i \in 1 .. Len(x) + Len(y) : z[i] = IF i <= Len(x) THEN x[i] ELSE y[i - Len(x)]
  BY <1>1, <1>2, ConcatProperties
<1>4. PICK a, b, c : a = Shown(h, x) /\ b = Shown(h, y) /\ c = Shown(h, z)
  OBVIOUS
<1>5. /\ a \in Seq(Seq(S)) /\ Len(a) = Len(x)
      /\ \A i \in 1 .. Len(x) : a[i] = IF x[i].group = 0 THEN <<x[i]>> ELSE h[x[i].group]
  BY <1>1, <1>4, ShownTyped
<1>6. /\ b \in Seq(Seq(S)) /\ Len(b) = Len(y)
      /\ \A i \in 1 .. Len(y) : b[i] = IF y[i].group = 0 THEN <<y[i]>> ELSE h[y[i].group]
  BY <1>1, <1>4, ShownTyped
<1>7. /\ c \in Seq(Seq(S)) /\ Len(c) = Len(z)
      /\ \A i \in 1 .. Len(z) : c[i] = IF z[i].group = 0 THEN <<z[i]>> ELSE h[z[i].group]
  <2>1. z \in Seq(Cell(Len(h)))
    BY <1>1, <1>3
  <2> QED
    BY <1>1, <1>4, <2>1, ShownTyped
<1>8. /\ a \o b \in Seq(Seq(S)) /\ Len(a \o b) = Len(x) + Len(y)
      /\ \A i \in 1 .. Len(x) + Len(y) : (a \o b)[i] = IF i <= Len(x) THEN a[i] ELSE b[i - Len(x)]
  <2>1. a \in Seq(Seq(S)) /\ b \in Seq(Seq(S))
    BY <1>5, <1>6, Zenon
  <2>2. /\ a \o b \in Seq(Seq(S)) /\ Len(a \o b) = Len(a) + Len(b)
        /\ \A i \in 1 .. Len(a) + Len(b) : (a \o b)[i] = IF i <= Len(a) THEN a[i] ELSE b[i - Len(a)]
    BY <2>1, ConcatProperties, Zenon
  <2>3. Len(a) = Len(x) /\ Len(b) = Len(y)
    BY <1>5, <1>6, Zenon
  <2> QED
    BY <2>2, <2>3, Zenon
<1>9. ASSUME NEW i \in 1 .. Len(z) PROVE c[i] = (a \o b)[i]
  <2>1. i \in 1 .. Len(x) + Len(y)
    BY <1>3
  <2>2. CASE i <= Len(x)
    <3>1. i \in 1 .. Len(x)
      BY <1>2, <2>1, <2>2
    <3>2. z[i] = x[i] /\ (a \o b)[i] = a[i]
      BY <1>3, <1>8, <2>1, <2>2
    <3> QED
      BY <1>5, <1>7, <3>1, <3>2
  <2>3. CASE ~ (i <= Len(x))
    <3>1. i - Len(x) \in 1 .. Len(y)
      BY <1>2, <2>1, <2>3
    <3>2. z[i] = y[i - Len(x)] /\ (a \o b)[i] = b[i - Len(x)]
      BY <1>3, <1>8, <2>1, <2>3
    <3> QED
      BY <1>6, <1>7, <3>1, <3>2
  <2> QED
    BY <2>2, <2>3
<1>10. c = a \o b
  <2>1. c \in Seq(Seq(S)) /\ a \o b \in Seq(Seq(S))
    BY <1>7, <1>8, Zenon
  <2>2. Len(c) = Len(a \o b) /\ Len(c) = Len(z)
    BY <1>3, <1>7, <1>8, Zenon
  <2>3. \A i \in 1 .. Len(c) : c[i] = (a \o b)[i]
    BY <1>9, <2>2, Zenon
  <2> QED
    BY <2>1, <2>2, <2>3, SeqEqual, Zenon
<1> QED
  BY <1>1, <1>4, <1>10

LEMMA ShownOfNothing ==
  ASSUME NEW h, h \in Seq(Seq(Cell(Len(h))))
  PROVE  Shown(h, <<>>) = <<>>
<1>1. <<>> \in Seq(Cell(Len(h)))
  OBVIOUS
<1>2. Shown(h, <<>>) \in Seq(Seq(Cell(Len(h)))) /\ Len(Shown(h, <<>>)) = Len(<<>>)
  BY <1>1, ShownTyped
<1> QED
  BY <1>2, EmptySeq

(* An attribute that is no group, by itself.                               *)
LEMMA ShownOfOne ==
  ASSUME NEW h, h \in Seq(Seq(Cell(Len(h)))), NEW x \in Cell(Len(h)), x.group = 0
  PROVE  Shown(h, <<x>>) = << <<x>> >>
<1>1. <<x>> \in Seq(Cell(Len(h))) /\ Len(<<x>>) = 1 /\ <<x>>[1] = x /\ 1 \in 1 .. 1
  OBVIOUS
<1>2. PICK a, b : a = Shown(h, <<x>>) /\ b = << <<x>> >>
  OBVIOUS
<1>3. a \in Seq(Seq(Cell(Len(h)))) /\ Len(a) = 1 /\ a[1] = <<x>>
  <2>1. PICK xs : xs = <<x>>
    OBVIOUS
  <2>2. xs \in Seq(Cell(Len(h))) /\ Len(xs) = 1 /\ xs[1] = x
    BY <1>1, <2>1
  <2>3. /\ Shown(h, xs) \in Seq(Seq(Cell(Len(h)))) /\ Len(Shown(h, xs)) = Len(xs)
        /\ \A i \in 1 .. Len(xs) :
              Shown(h, xs)[i] = IF xs[i].group = 0 THEN <<xs[i]>> ELSE h[xs[i].group]
    BY <2>2, ShownTyped
  <2>4. Shown(h, xs)[1] = <<x>>
    BY <2>2, <2>3
  <2> QED
    BY <1>2, <2>1, <2>2, <2>3, <2>4
<1>4. b \in Seq(Seq(Cell(Len(h)))) /\ Len(b) = 1 /\ b[1] = <<x>>
  BY <1>1, <1>2
<1>5. \A i \in 1 .. 1 : i = 1
  OBVIOUS
<1>6. a = b
  BY <1>3, <1>4, <1>5, SeqEqual
<1> QED
  BY <1>2, <1>6

(* Clear attributes and groups of one, opened.                             *)
LEMMA ShownClear ==
  ASSUME NEW h, h \in Seq(Seq(Cell(Len(h)))), NEW cells \in Seq(Cell(Len(h))),
         \A i \in 1 .. Len(cells) :
            \/ cells[i] = Clear
            \/ cells[i].group \in 1 .. Len(h) /\ h[cells[i].group] = <<Clear>>
  PROVE  Shown(h, cells) = [i \in 1 .. Len(cells) |-> <<Clear>>]
<1>1. DOMAIN cells = 1 .. Len(cells)
  BY LenProperties
<1>2. Clear.group = 0 /\ \A k \in 1 .. Len(h) : k # 0
  <2>1. Clear.group = 0
    BY DEF Clear, Plain
  <2>2. Len(h) \in Nat
    BY LenProperties
  <2> QED
    BY <2>1, <2>2
<1>3. \A i \in 1 .. Len(cells) :
         (IF cells[i].group = 0 THEN <<cells[i]>> ELSE h[cells[i].group]) = <<Clear>>
  BY <1>2
<1> QED
  BY <1>1, <1>3 DEF Shown

(* What a child makes of attributes in the clear when it is alone.         *)
LEMMA AloneWithClear ==
  ASSUME NEW c, NEW n \in Nat, NEW shown, shown = [i \in 1 .. n |-> <<Clear>>]
  PROVE  Alone(c, shown) = IF does[c] = "gdpr" THEN [i \in 1 .. n |-> <<Plain("masked")>>]
                                               ELSE shown
<1>1. MaskedText(Clear) = Plain("masked")
  BY DEF MaskedText, Clear, Plain
<1>2. DOMAIN shown = 1 .. n /\ \A i \in 1 .. n : shown[i] = <<Clear>>
  OBVIOUS
<1>3. DOMAIN <<Clear>> = 1 .. 1 /\ \A k \in 1 .. 1 : <<Clear>>[k] = Clear
  OBVIOUS
<1>4. [k \in 1 .. 1 |-> Plain("masked")] = <<Plain("masked")>>
  OBVIOUS
<1>5. \A i \in 1 .. n : [k \in DOMAIN shown[i] |-> MaskedText(shown[i][k])] = <<Plain("masked")>>
  BY <1>1, <1>2, <1>3, <1>4
<1> QED
  BY <1>2, <1>5 DEF Alone

(* A slice that has the cells of a sequence shows that sequence.           *)
LEMMA SliceHas ==
  ASSUME NEW h, h \in Seq(Seq(Cell(Len(h)))), NEW s \in SliceType, Within(h, s),
         NEW xs \in Seq(Cell(Len(h))), Has(h, s, xs)
  PROVE  Contents(h, s) = xs
<1>1. s.array \in DOMAIN h /\ s.len \in 0 .. Len(h[s.array])
  BY DEF Within
<1>2. /\ Contents(h, s) \in Seq(Cell(Len(h))) /\ Len(Contents(h, s)) = s.len
      /\ \A i \in 1 .. s.len : Contents(h, s)[i] = h[s.array][i]
  BY <1>1, ContentsAreCells
<1>3. s.len = Len(xs) /\ \A i \in 1 .. s.len : h[s.array][i] = xs[i]
  BY DEF Has
<1> QED
  BY <1>2, <1>3, SeqEqual

(* The mark of an appender is shown as its stamp.                          *)
LEMMA ShownMark ==
  ASSUME Fixed, NEW c \in Children, NEW h, h \in Seq(Seq(Cell(Len(h))))
  PROVE  Mark(c) \in Seq(Cell(Len(h))) /\ Shown(h, Mark(c)) = Stamped(c, Doing("appender"))
<1>1. c \in Nat /\ Len(h) \in Nat
  BY ChildrenAre, LenProperties
<1>2. Mark(c) \in Seq(Cell(Len(h))) /\ Stamp(c) \in Cell(Len(h)) /\ Stamp(c).group = 0
  <2>1. Stamp(c).group = 0
    BY DEF Stamp
  <2> QED
    BY <1>1, <2>1, MarkTyped, TextsAreCells
<1>3. CASE does[c] = "appender"
  <2>1. Mark(c) = <<Stamp(c)>> /\ Stamped(c, Doing("appender")) = << <<Stamp(c)>> >>
    BY <1>3 DEF Mark, Stamped, Doing
  <2> QED
    BY <1>2, <2>1, ShownOfOne
<1>4. CASE does[c] # "appender"
  <2>1. Mark(c) = <<>> /\ Stamped(c, Doing("appender")) = <<>>
    BY <1>4 DEF Mark, Stamped, Doing
  <2> QED
    BY <1>2, <2>1, ShownOfNothing
<1> QED
  BY <1>3, <1>4

-----------------------------------------------------------------------------

(* The arrays of the groups are there, the slices are inside their arrays, *)
(* and who has added an attribute has a record.                            *)
THEOREM TypeCorrect == Spec => []TypeOK
<1>1. ASSUME IInv PROVE TypeOK
  <2>0. HeapTyped /\ Typed
    BY <1>1 DEF IInv
  <2>1. ASSUME NEW a \in DOMAIN heap PROVE GroupsOf(heap[a]) \subseteq DOMAIN heap
    <3>1. heap[a] \in Seq(Cell(Len(heap))) /\ DOMAIN heap = 1 .. Len(heap) /\ Len(heap) \in Nat
      BY <2>0, ElementOfSeq, LenProperties DEF HeapTyped
    <3>2. ASSUME NEW i \in DOMAIN heap[a], heap[a][i].group # 0
          PROVE  heap[a][i].group \in DOMAIN heap
      <4>1. heap[a][i] \in Cell(Len(heap))
        BY <3>1, ElementOfSeq, LenProperties
      <4>2. heap[a][i].group \in 0 .. Len(heap)
        BY <4>1 DEF Cell
      <4> QED
        BY <3>1, <3>2, <4>2
    <3> QED
      BY <3>2 DEF GroupsOf
  <2>2. \A c \in Children : kept[c].len \in 0 .. Len(heap[kept[c].array])
    BY <2>0 DEF Typed, Within
  <2>3. stamped \subseteq {c \in Children : held[c] # <<>>}
    BY <2>0 DEF Typed, Doing
  <2> QED
    BY <2>0, <2>1, <2>2, <2>3 DEF Typed, TypeOK
<1> QED
  BY <1>1, Invariance, PTL

(* Behind a first-match handler a route's predicates see what its handler  *)
(* keeps, and the handler's own mark is all they miss: the array that both *)
(* look at is the route's alone.                                           *)
THEOREM RoutesSee == Spec => []RoutesSeeWhatTheirHandlerKeeps
<1>1. ASSUME IInv PROVE RoutesSeeWhatTheirHandlerKeeps
  <2>0. Fixed /\ HeapTyped /\ Typed /\ RouteKept
    BY <1>1 DEF IInv
  <2> SUFFICES ASSUME kind = "firstmatch", NEW c \in Children, kept[c] # NoSlice
               PROVE  Shown(heap, Contents(heap, kept[c])) =
                        Shown(heap, sees[c]) \o Stamped(c, Doing("appender"))
    BY DEF RoutesSeeWhatTheirHandlerKeeps
  <2>1. /\ heap \in Seq(Seq(Cell(Len(heap)))) /\ kept[c] \in SliceType /\ Within(heap, kept[c])
        /\ sees[c] \in Seq(Cell(Len(heap)))
    BY <2>0 DEF HeapTyped, Typed
  <2>2. Has(heap, kept[c], sees[c] \o Mark(c))
    BY <2>0 DEF RouteKept, Derivation
  <2>3. Mark(c) \in Seq(Cell(Len(heap))) /\ Shown(heap, Mark(c)) = Stamped(c, Doing("appender"))
    BY <2>0, <2>1, ShownMark
  <2>4. sees[c] \o Mark(c) \in Seq(Cell(Len(heap)))
    BY <2>1, <2>3, ConcatProperties
  <2>5. Contents(heap, kept[c]) = sees[c] \o Mark(c)
    BY <2>1, <2>2, <2>4, SliceHas
  <2> QED
    BY <2>1, <2>3, <2>5, ShownTogether
<1> QED
  BY <1>1, Invariance, PTL

(* At most one child appends where at most one may.                        *)
LEMMA OneAppender ==
  ASSUME Fixed, ~ (Cardinality(Doing("appender")) > 1)
  PROVE  \A c, d \in Doing("appender") : c = d
<1>1. SUFFICES ASSUME NEW c \in Doing("appender"), NEW d \in Doing("appender"), c # d
               PROVE  FALSE
  OBVIOUS
<1>2. IsFiniteSet(Doing("appender"))
  <2>1. Children = 1 .. Len(does) /\ Len(does) \in Nat
    BY ChildrenAre
  <2>2. IsFiniteSet(1 .. Len(does))
    BY <2>1, FS_Interval
  <2>3. Doing("appender") \in SUBSET (1 .. Len(does))
    BY <2>1 DEF Doing
  <2> QED
    BY <2>2, <2>3, FS_Subset
<1>3. Cardinality({c}) = 1 /\ IsFiniteSet({c})
  BY FS_Singleton
<1>4. Cardinality({c} \cup {d}) = 2 /\ IsFiniteSet({c} \cup {d})
  BY <1>1, <1>3, FS_AddElement
<1>5. Cardinality({c} \cup {d}) <= Cardinality(Doing("appender"))
  <2>1. {c} \cup {d} \in SUBSET Doing("appender")
    OBVIOUS
  <2> QED
    BY <1>2, <2>1, FS_Subset
<1>6. Cardinality(Doing("appender")) \in Nat
  BY <1>2, FS_CardinalityType
<1> QED
  BY <1>4, <1>5, <1>6

(* Each child's attributes stay what it made of them, unless a child       *)
(* writes into a group of theirs (EditsGroups): a composite that copies    *)
(* gives each child an array of its own, and behind a failover or a pool   *)
(* the property asks that none writes into the attributes and at most one  *)
(* child behind them.                                                      *)
THEOREM DerivedAttrs == Spec => []DerivedAttrsAreOwn
<1>1. ASSUME IInv PROVE DerivedAttrsAreOwn
  <2>0. Fixed /\ HeapTyped /\ Typed /\ OriginalsKept /\ AttrsKept
    BY <1>1 DEF IInv
  <2> SUFFICES ASSUME ~ EditsGroups(wrote.groups.attrs),
                      ~ (Doing("gdpr") # {} /\ kind \in {"failover", "pool"}),
                      ~ (Cardinality(Doing("appender")) > 1 /\ kind \in {"failover", "pool"}),
                      NEW c \in Children, kept[c] # NoSlice
               PROVE  KeepsItsAttrs(c)
    BY DEF DerivedAttrsAreOwn
  <2>1. AttrsApply
    BY <2>0, OneAppender DEF AttrsApply
  <2>2. /\ heap \in Seq(Seq(Cell(Len(heap)))) /\ kept[c] \in SliceType /\ Within(heap, kept[c])
        /\ Attrs \in Seq(Cell(Len(heap))) /\ given.len = Len(Attrs) /\ given.len \in Nat
        /\ 1 \in DOMAIN heap /\ Len(heap) \in Nat /\ Len(heap) >= 4
    BY <2>0, OriginalsTyped DEF HeapTyped, Typed
  <2>3. Mark(c) \in Seq(Cell(Len(heap))) /\ Shown(heap, Mark(c)) = Stamped(c, Doing("appender"))
    BY <2>0, <2>2, ShownMark
  <2>4. wrote.attrs = [i \in 1 .. given.len |-> <<Clear>>]
    BY <2>0 DEF Fixed
  <2>5. Alone(c, wrote.attrs) = IF does[c] = "gdpr" THEN [i \in 1 .. given.len |-> <<Plain("masked")>>]
                                                    ELSE wrote.attrs
    BY <2>2, <2>4, AloneWithClear
  <2>6. CASE does[c] = "gdpr"
    <3>1. wrote.groups.attrs = {}
      BY <2>6 DEF EditsGroups, Doing
    <3>2. Attrs = <<Clear>> /\ given.len = 1
      <4>1. Attrs = <<Clear>>
        BY <3>1 DEF Attrs
      <4> QED
        BY <2>2, <4>1
    <3>3. PICK x : x = Plain("masked")
      OBVIOUS
    <3>4. x \in Cell(Len(heap)) /\ x.group = 0
      <4>1. x.group = 0
        BY <3>3 DEF Plain
      <4> QED
        BY <2>2, <3>3, <4>1, TextsAreCells
    <3>5. <<x>> \in Seq(Cell(Len(heap))) /\ Has(heap, kept[c], <<x>>)
      BY <2>0, <2>1, <2>6, <3>3, <3>4 DEF AttrsKept, Derivation
    <3>6. Contents(heap, kept[c]) = <<x>>
      BY <2>2, <3>5, SliceHas
    <3>7. Shown(heap, <<x>>) = << <<x>> >>
      BY <2>2, <3>4, ShownOfOne
    <3>8. Alone(c, wrote.attrs) = << <<x>> >>
      <4>1. [i \in 1 .. 1 |-> <<x>>] = << <<x>> >>
        OBVIOUS
      <4> QED
        BY <2>5, <2>6, <3>2, <3>3, <4>1
    <3>9. Stamped(c, Doing("appender")) = <<>>
      BY <2>6 DEF Stamped, Doing
    <3>10. << <<x>> >> \o <<>> = << <<x>> >>
      OBVIOUS
    <3> QED
      BY <3>6, <3>7, <3>8, <3>9, <3>10 DEF KeepsItsAttrs
  <2>7. CASE does[c] # "gdpr"
    <3>1. Has(heap, kept[c], Attrs \o Mark(c))
      BY <2>0, <2>1, <2>7 DEF AttrsKept, Derivation
    <3>2. Attrs \o Mark(c) \in Seq(Cell(Len(heap)))
      BY <2>2, <2>3, ConcatProperties
    <3>3. Contents(heap, kept[c]) = Attrs \o Mark(c)
      BY <2>2, <3>1, <3>2, SliceHas
    <3>4. Shown(heap, Attrs) = wrote.attrs
      <4>1. wrote.groups.attrs # {} => heap[1] = <<Clear>>
        BY <2>0 DEF EditsGroups, OriginalsKept
      <4>2. ASSUME NEW i \in 1 .. Len(Attrs)
            PROVE  \/ Attrs[i] = Clear
                   \/ Attrs[i].group \in 1 .. Len(heap) /\ heap[Attrs[i].group] = <<Clear>>
        <5>1. CASE wrote.groups.attrs = {}
          <6>1. Attrs = <<Clear>>
            BY <5>1 DEF Attrs
          <6> QED
            BY <6>1
        <5>2. CASE wrote.groups.attrs # {}
          <6>1. Attrs = <<Clear, Group(1)>> /\ Group(1).group = 1
            BY <5>2 DEF Attrs, Group
          <6>2. i = 1 \/ i = 2
            BY <6>1
          <6>3. 1 \in 1 .. Len(heap)
            BY <2>2
          <6> QED
            BY <4>1, <5>2, <6>1, <6>2, <6>3
        <5> QED
          BY <5>1, <5>2
      <4>3. Shown(heap, Attrs) = [i \in 1 .. Len(Attrs) |-> <<Clear>>]
        BY <2>2, <4>2, ShownClear
      <4> QED
        BY <2>2, <2>4, <4>3
    <3>5. Shown(heap, Attrs \o Mark(c)) = Shown(heap, Attrs) \o Shown(heap, Mark(c))
      BY <2>2, <2>3, ShownTogether
    <3> QED
      BY <2>3, <2>5, <2>7, <3>3, <3>4, <3>5 DEF KeepsItsAttrs
  <2> QED
    BY <2>6, <2>7
<1> QED
  BY <1>1, Invariance, PTL

(* The attributes of the record that child c has, when the claim applies:  *)
(* those of the user's record, and its own attribute when it has added it. *)
LEMMA HoldersCells ==
  ASSUME IInv, RecordsApply, NEW c \in Children, held[c] # <<>>, does[c] # "gdpr",
         NEW cells, cells = AttrsOf(heap, Passed(kind, logged))
  PROVE  AttrsOf(heap, held[c]) = cells \o (IF c \in stamped THEN <<Stamp(c)>> ELSE <<>>)
<1>0. Fixed /\ HeapTyped /\ Typed /\ OriginalsKept /\ HeldKept
  BY DEF IInv
<1>1. PICK S, f, b, x : S = Cell(Len(heap)) /\ f = logged.front /\ b = logged.back /\ x = Stamp(c)
  OBVIOUS
<1>2. /\ cells \in Seq(S)
      /\ Passed(kind, logged).front = f /\ Passed(kind, logged).back = b
  BY <1>0, <1>1, PassedRecord
<1>3. PICK first : first = Contents(heap, b)
  OBVIOUS
<1>4. /\ heap \in Seq(Seq(S)) /\ 4 \in DOMAIN heap
      /\ b \in SliceType /\ b.array = 4 /\ b.len \in {0, 1} /\ b.len \in 0 .. Len(heap[4])
      /\ f \in Seq(S) /\ Len(f) \in Nat /\ Len(heap) \in Nat
  BY <1>0, <1>1, OriginalsTyped DEF HeapTyped
<1>5. /\ first \in Seq(S) /\ Len(first) = b.len
      /\ \A i \in 1 .. b.len : first[i] = heap[4][i]
  <2>1. b.array \in DOMAIN heap /\ b.len \in 0 .. Len(heap[b.array])
    BY <1>4
  <2>2. /\ Contents(heap, b) \in Seq(S) /\ Len(Contents(heap, b)) = b.len
        /\ \A i \in 1 .. b.len : Contents(heap, b)[i] = heap[b.array][i]
    BY <1>4, <2>1, ContentsAreCells
  <2> QED
    BY <1>3, <1>4, <2>2
<1>6. cells = f \o first
  BY <1>2, <1>3 DEF AttrsOf
<1>7. x \in S /\ <<x>> \in Seq(S) /\ Len(<<x>>) = 1 /\ <<x>>[1] = x
  <2>1. x \in S
    BY <1>0, <1>1, <1>4, ChildrenAre, TextsAreCells
  <2> QED
    BY <2>1
<1>8. CASE c \notin stamped
  <2>1. held[c] = Passed(kind, logged)
    BY <1>0, <1>8 DEF HeldKept
  <2>2. cells \o <<>> = cells
    BY <1>2, ConcatEmptySeq
  <2> QED
    BY <1>8, <2>1, <2>2
<1>9. CASE c \in stamped
  <2>1. AttrsOf(heap, held[c]) = cells \o <<x>>
    <3>1. CASE Len(f) < Front /\ held[c].front = Append(f, x) /\ held[c].back = b
      <4>1. b.len = 0
        BY <1>0, <1>1, <3>1 DEF Fixed
      <4>2. first = <<>>
        BY <1>5, <4>1, EmptySeq
      <4>3. cells = f
        BY <1>4, <1>6, <4>2, ConcatEmptySeq
      <4>4. AttrsOf(heap, held[c]) = Append(f, x) \o <<>>
        BY <1>3, <3>1, <4>2 DEF AttrsOf
      <4>5. Append(f, x) = f \o <<x>> /\ Append(f, x) \in Seq(S)
        BY <1>4, <1>7, AppendIsConcat, AppendProperties
      <4>6. Append(f, x) \o <<>> = Append(f, x)
        BY <4>5, ConcatEmptySeq
      <4> QED
        BY <4>3, <4>4, <4>5, <4>6
    <3>2. CASE /\ held[c].front = f
               /\ Within(heap, held[c].back)
               /\ StampedBehind(c)
      <4>1. PICK t, rest : t = held[c].back /\ rest = Contents(heap, t)
        OBVIOUS
      <4>2. /\ t.len = b.len + 1
            /\ \A i \in 1 .. b.len : heap[t.array][i] = heap[4][i]
            /\ heap[t.array][b.len + 1] = x
        BY <1>1, <3>2, <4>1 DEF StampedBehind
      <4>3. t \in SliceType /\ t.array \in DOMAIN heap /\ t.len \in 0 .. Len(heap[t.array])
        BY <1>0, <3>2, <4>1 DEF Typed, Records, Within
      <4>4. /\ rest \in Seq(S) /\ Len(rest) = t.len
            /\ \A i \in 1 .. t.len : rest[i] = heap[t.array][i]
        BY <1>4, <4>1, <4>3, ContentsAreCells
      <4>5. /\ first \o <<x>> \in Seq(S) /\ Len(first \o <<x>>) = Len(first) + 1
            /\ \A i \in 1 .. Len(first) + 1 :
                  (first \o <<x>>)[i] = IF i <= Len(first) THEN first[i] ELSE <<x>>[i - Len(first)]
        BY <1>5, <1>7, ConcatProperties
      <4>6. PICK n : n = b.len
        OBVIOUS
      <4>7. n \in Nat /\ Len(first) = n /\ t.len = n + 1
        BY <1>4, <1>5, <4>2, <4>6
      <4>8. ASSUME NEW i \in 1 .. n + 1 PROVE rest[i] = (first \o <<x>>)[i]
        <5>1. CASE i \in 1 .. n
          <6>1. i <= n /\ i \in 1 .. n + 1
            BY <4>7, <5>1
          <6>2. (first \o <<x>>)[i] = first[i]
            BY <4>5, <4>7, <6>1
          <6> QED
            BY <1>5, <4>2, <4>4, <4>6, <4>7, <5>1, <6>1, <6>2
        <5>2. CASE i = n + 1
          <6>1. ~ (n + 1 <= n) /\ n + 1 - n = 1
            BY <4>7
          <6>2. (first \o <<x>>)[n + 1] = <<x>>[1]
            BY <4>5, <4>7, <5>2, <6>1
          <6> QED
            BY <1>7, <4>2, <4>4, <4>6, <4>7, <5>2, <6>2
        <5> QED
          BY <4>7, <5>1, <5>2
      <4>9. rest = first \o <<x>>
        <5>1. Len(rest) = n + 1 /\ Len(first \o <<x>>) = n + 1
          BY <4>4, <4>5, <4>7
        <5> QED
          BY <4>4, <4>5, <4>8, <5>1, SeqEqual
      <4>10. AttrsOf(heap, held[c]) = f \o (first \o <<x>>)
        BY <3>2, <4>1, <4>9 DEF AttrsOf
      <4>11. (f \o first) \o <<x>> = f \o (first \o <<x>>)
        <5>1. PICK u, v, w : u = f /\ v = first /\ w = <<x>>
          OBVIOUS
        <5>2. u \in Seq(S) /\ v \in Seq(S) /\ w \in Seq(S)
          BY <1>4, <1>5, <1>7, <5>1
        <5>3. (u \o v) \o w = u \o (v \o w)
          BY <5>2, ConcatAssociative
        <5> QED
          BY <5>1, <5>3
      <4> QED
        BY <1>6, <4>10, <4>11
    <3> QED
      BY <1>0, <1>1, <1>9, <3>1, <3>2 DEF HeldKept
  <2> QED
    BY <1>1, <1>9, <2>1
<1> QED
  BY <1>8, <1>9

(* A record stays what it was but for what its holder adds, unless a child *)
(* writes into a group of it (EditsGroups) or a recovery handler and its   *)
(* callback both add: otherwise the room behind it has one holder, the     *)
(* others have a record that is clipped or none, and the cells in front of *)
(* the room are never written.                                             *)
THEOREM HeldRecords == Spec => []RecordsAreOwn
<1>1. ASSUME IInv PROVE RecordsAreOwn
  <2>0. Fixed /\ HeapTyped /\ Typed /\ OriginalsKept /\ HeldKept
    BY <1>1 DEF IInv
  <2> SUFFICES ASSUME RecordsApply, NEW c \in Children, held[c] # <<>>
               PROVE  KeepsItsRecord(c)
    BY DEF RecordsAreOwn, RecordsApply
  <2>1. PICK n : n = Len(logged.front) + logged.back.len
    OBVIOUS
  <2>2. /\ heap \in Seq(Seq(Cell(Len(heap)))) /\ Len(heap) \in Nat /\ Len(heap) >= 4
        /\ 3 \in 1 .. Len(heap) /\ n \in Nat /\ 1 \in DOMAIN heap
        /\ Len(logged.front) \in Nat /\ logged.back.len \in {0, 1}
    <3>1. /\ heap \in Seq(Seq(Cell(Len(heap)))) /\ Len(heap) \in Nat /\ Len(heap) >= 4
          /\ 1 \in DOMAIN heap /\ Len(logged.front) \in Nat /\ logged.back.len \in {0, 1}
      BY <2>0, OriginalsTyped DEF HeapTyped
    <3>2. 3 \in 1 .. Len(heap)
      BY <3>1
    <3>3. \A k \in Nat : \A m \in {0, 1} : k + m \in Nat
      OBVIOUS
    <3> QED
      BY <2>1, <3>1, <3>2, <3>3
  <2>3. wrote.record = [i \in 1 .. n |-> <<Clear>>]
    BY <2>0, <2>1 DEF Fixed
  <2>4. Alone(c, wrote.record) = IF does[c] = "gdpr" THEN [i \in 1 .. n |-> <<Plain("masked")>>]
                                                     ELSE wrote.record
    <3>1. n \in Nat
      BY <2>2
    <3> QED
      BY <2>3, <3>1, AloneWithClear, Zenon
  <2>5. CASE does[c] = "gdpr"
    <3>1. wrote.groups.record = {}
      BY <2>5 DEF RecordsApply, EditsGroups, Doing
    <3>2. PICK x, cells : x = Plain("masked") /\ cells = [i \in 1 .. n |-> x]
      OBVIOUS
    <3>3. held[c].back = NoSlice /\ held[c].front = cells
      BY <2>0, <2>1, <2>5, <3>1, <3>2 DEF HeldKept
    <3>4. Contents(heap, NoSlice) = <<>>
      <4>1. NoSlice = [array |-> 1, len |-> 0]
        BY DEF NoSlice, Slice
      <4>2. NoSlice \in SliceType /\ NoSlice.array = 1 /\ NoSlice.len = 0
        BY <4>1 DEF SliceType
      <4>3. heap[1] \in Seq(Cell(Len(heap))) /\ Len(heap[1]) \in Nat
        BY <2>2, ElementOfSeq, LenProperties
      <4>4. NoSlice.array \in DOMAIN heap /\ NoSlice.len \in 0 .. Len(heap[NoSlice.array])
        BY <2>2, <4>2, <4>3
      <4>5. Contents(heap, NoSlice) \in Seq(Cell(Len(heap))) /\ Len(Contents(heap, NoSlice)) = NoSlice.len
        BY <2>2, <4>2, <4>4, ContentsAreCells
      <4> QED
        BY <4>2, <4>5, EmptySeq
    <3>5. x \in Cell(Len(heap)) /\ x.group = 0
      <4>1. x.group = 0
        BY <3>2 DEF Plain
      <4> QED
        BY <2>2, <3>2, <4>1, TextsAreCells
    <3>6. cells \in Seq(Cell(Len(heap))) /\ Len(cells) = n /\ DOMAIN cells = 1 .. n
      <4>1. cells \in [1 .. n -> Cell(Len(heap))]
        BY <3>2, <3>5
      <4>2. \A S : \A k \in Nat : \A f \in [1 .. k -> S] : f \in Seq(S) /\ Len(f) = k
        OBVIOUS
      <4> QED
        BY <2>2, <4>1, <4>2
    <3>7. AttrsOf(heap, held[c]) = cells
      <4>1. cells \o <<>> = cells
        BY <3>6, ConcatEmptySeq
      <4> QED
        BY <3>3, <3>4, <4>1 DEF AttrsOf
    <3>8. Shown(heap, cells) = [i \in 1 .. n |-> <<x>>]
      <4>1. \A i \in 1 .. n : cells[i] = x
        BY <3>2
      <4> QED
        BY <3>5, <3>6, <4>1 DEF Shown
    <3>9. Stamped(c, stamped) = <<>>
      BY <2>0, <2>5 DEF Typed, Stamped, Doing
    <3>10. [i \in 1 .. n |-> <<x>>] \o <<>> = [i \in 1 .. n |-> <<x>>]
      <4>1. Shown(heap, cells) \in Seq(Seq(Cell(Len(heap))))
        BY <2>2, <3>6, ShownTyped
      <4> QED
        BY <3>8, <4>1, ConcatEmptySeq
    <3>11. Alone(c, wrote.record) = [i \in 1 .. n |-> <<x>>]
      BY <2>4, <2>5, <3>2
    <3> QED
      BY <3>7, <3>8, <3>9, <3>10, <3>11 DEF KeepsItsRecord
  <2>6. CASE does[c] # "gdpr"
    <3>1. PICK cells, mark : /\ cells = AttrsOf(heap, Passed(kind, logged))
                             /\ mark = IF c \in stamped THEN <<Stamp(c)>> ELSE <<>>
      OBVIOUS
    <3>2. AttrsOf(heap, held[c]) = cells \o mark
      BY <1>1, <2>6, <3>1, HoldersCells
    <3>3. /\ cells \in Seq(Cell(Len(heap))) /\ Len(cells) = n
          /\ \A i \in 1 .. Len(logged.front) : cells[i] = Clear
          /\ logged.back.len = 1 => cells[Len(logged.front) + 1] = Behind
      BY <2>0, <2>1, <3>1, PassedRecord
    <3>4. Shown(heap, cells) = wrote.record
      <4>1. Behind = Clear \/ (Behind.group = 3 /\ heap[3] = <<Clear>>)
        <5>1. CASE wrote.groups.record = {}
          BY <5>1 DEF Behind
        <5>2. CASE wrote.groups.record # {}
          <6>1. Behind.group = 3
            BY <5>2 DEF Behind, Group
          <6>2. heap[3] = <<Clear>>
            BY <2>0, <5>2 DEF RecordsApply, EditsGroups, OriginalsKept
          <6> QED
            BY <6>1, <6>2
        <5> QED
          BY <5>1, <5>2
      <4>2. ASSUME NEW i \in 1 .. Len(cells)
            PROVE  \/ cells[i] = Clear
                   \/ cells[i].group \in 1 .. Len(heap) /\ heap[cells[i].group] = <<Clear>>
        <5>1. PICK k, m : k = Len(logged.front) /\ m = logged.back.len
          OBVIOUS
        <5>2. k \in Nat /\ m \in {0, 1} /\ i \in 1 .. k + m
          BY <2>1, <2>2, <3>3, <5>1
        <5>3. i \in 1 .. k \/ (m = 1 /\ i = k + 1)
          BY ONLY <5>2
        <5> QED
          BY <2>2, <3>3, <4>1, <5>1, <5>3
      <4> QED
        BY <2>2, <2>3, <3>3, <4>2, ShownClear
    <3>5. mark \in Seq(Cell(Len(heap))) /\ Shown(heap, mark) = Stamped(c, stamped)
      <4>1. Stamp(c) \in Cell(Len(heap)) /\ Stamp(c).group = 0
        <5>1. Stamp(c).group = 0
          BY DEF Stamp
        <5> QED
          BY <2>0, <2>2, <5>1, ChildrenAre, TextsAreCells
      <4>2. CASE c \in stamped
        <5>1. mark = <<Stamp(c)>> /\ Stamped(c, stamped) = << <<Stamp(c)>> >>
          BY <3>1, <4>2 DEF Stamped
        <5> QED
          BY <2>2, <4>1, <5>1, ShownOfOne
      <4>3. CASE c \notin stamped
        <5>1. mark = <<>> /\ Stamped(c, stamped) = <<>>
          BY <3>1, <4>3 DEF Stamped
        <5> QED
          BY <2>2, <5>1, ShownOfNothing
      <4> QED
        BY <4>2, <4>3
    <3>6. Shown(heap, cells \o mark) = Shown(heap, cells) \o Shown(heap, mark)
      BY <2>2, <3>3, <3>5, ShownTogether
    <3> QED
      BY <2>4, <2>6, <3>2, <3>4, <3>5, <3>6 DEF KeepsItsRecord
  <2> QED
    BY <2>5, <2>6
<1> QED
  BY <1>1, Invariance, PTL
=============================================================================
