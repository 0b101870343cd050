------------------------ MODULE RouterBuilderProofs -------------------------
(***************************************************************************)
(* Routers share backing arrays, and still the fluent style is safe and    *)
(* handlers are frozen, for any number of routes, routers and handlers.    *)
(*                                                                         *)
(* A handler's array is its own.  For routers the argument is about the    *)
(* family tree: whoever overwrites a cell of router r's slice is derived   *)
(* from a shorter router with the same array; that one is an ancestor of   *)
(* r, or they have a common ancestor.  Either way an ancestor of r has two *)
(* children, and r is not derived along a line.                            *)
(***************************************************************************)
EXTENDS RouterBuilder, SequenceTheorems, FiniteSetTheorems, TLAPS

SliceType == [array : Nat, len : Nat]

Routers(n) ==
  [slice : SliceType, firstMatch : BOOLEAN, added : Seq(1 .. n),
   ancestors : SUBSET Nat, parent : Nat]

Typed ==
  /\ routes \in 0 .. MaxRoutes
  /\ heap \in Seq(Seq(0 .. routes))
  /\ routers \in Seq(Routers(routes))
  /\ Len(routers) \in 1 .. MaxRouters
  /\ handlers \in Seq([slice : SliceType, router : Nat])
  /\ Len(handlers) \in 0 .. MaxHandlers
  /\ \A r \in DOMAIN routers :
        IsSlice(routers[r].slice) /\ routers[r].ancestors \subseteq 1 .. r - 1
  /\ \A h \in DOMAIN handlers :
        IsSlice(handlers[h].slice) /\ handlers[h].router \in DOMAIN routers

(* An ancestor of router r has two children.                               *)
Forked(r) ==
  \E a \in routers[r].ancestors : \E c, d \in DOMAIN routers :
     c # d /\ routers[c].parent = a /\ routers[d].parent = a

(* The family tree: slices grow along a line, and two routers are on one   *)
(* line or not derived along a line.                                       *)
Family ==
  /\ \A r \in DOMAIN routers : \A a \in routers[r].ancestors :
        /\ routers[a].slice.len <= routers[r].slice.len
        /\ \E d \in DOMAIN routers : routers[d].parent = a
  /\ \A q, r \in DOMAIN routers :
        \/ q = r \/ q \in routers[r].ancestors \/ r \in routers[q].ancestors
        \/ Forked(q) /\ Forked(r)

(* Slice s of heap h has the elements of xs, cell by cell.                 *)
Has(h, s, xs) ==
  /\ s.len = Len(xs)
  /\ \A i \in 1 .. s.len : h[s.array][i] = xs[i]

RoutesKept ==
  \A r \in DOMAIN routers : ~ Forked(r) => Has(heap, routers[r].slice, routers[r].added)

HandlersApart ==
  \A h \in DOMAIN handlers, r \in DOMAIN routers :
     handlers[h].slice.array # routers[r].slice.array

HandlersKept ==
  \A h \in DOMAIN handlers :
     ~ Forked(handlers[h].router) =>
        Has(heap, handlers[h].slice, routers[handlers[h].router].added)

IInv == Typed /\ Family /\ RoutesKept /\ HandlersApart /\ HandlersKept

-----------------------------------------------------------------------------

(* The elements of a slice are its cells.                                  *)
LEMMA ContentsAreCells ==
  ASSUME NEW S, NEW h \in Seq(Seq(S)), NEW s \in SliceType,
         s.array \in DOMAIN h, s.len \in 0 .. Len(h[s.array])
  PROVE  /\ Contents(h, s) \in Seq(S)
         /\ Len(Contents(h, s)) = s.len
         /\ \A i \in 1 .. s.len : Contents(h, s)[i] = h[s.array][i]
<1>1. h[s.array] \in Seq(S)
  BY ElementOfSeq
<1>2. \A i \in 1 .. s.len : h[s.array][i] \in S
  BY <1>1, ElementOfSeq
<1>3. 1 \in Int /\ s.len \in Int
  BY DEF SliceType
<1>4. /\ SubSeq(h[s.array], 1, s.len) \in Seq(S)
      /\ Len(SubSeq(h[s.array], 1, s.len)) = IF 1 <= s.len THEN s.len - 1 + 1 ELSE 0
      /\ \A i \in 1 .. s.len - 1 + 1 : SubSeq(h[s.array], 1, s.len)[i] = h[s.array][1 + i - 1]
  BY <1>2, <1>3, SubSeqProperties
<1>5. \A i \in 1 .. s.len : 1 + i - 1 = i /\ i \in 1 .. s.len - 1 + 1
  BY <1>3
<1> QED
  BY <1>3, <1>4, <1>5 DEF Contents, SliceType

LEMMA HasContents ==
  ASSUME NEW S, NEW h \in Seq(Seq(S)), NEW s \in SliceType,
         s.array \in DOMAIN h, s.len \in 0 .. Len(h[s.array]),
         NEW xs \in Seq(S), Has(h, s, xs)
  PROVE  Contents(h, s) = xs
<1>1. /\ Contents(h, s) \in Seq(S)
      /\ Len(Contents(h, s)) = Len(xs)
      /\ \A i \in 1 .. Len(xs) : Contents(h, s)[i] = xs[i]
  BY ContentsAreCells DEF Has
<1> QED
  BY <1>1, SeqEqual

(* append puts one element behind the slice, keeps the elements before it, *)
(* and writes no other cell of an array that was there.                    *)
OneCellWritten(h, s, x, g, t) ==
  /\ Len(g) >= Len(h)
  /\ t \in SliceType /\ t.len = s.len + 1
  /\ t.array \in DOMAIN g /\ t.len \in 0 .. Len(g[t.array])
  /\ t.array = s.array \/ t.array \notin DOMAIN h
  /\ \A i \in 1 .. s.len : g[t.array][i] = h[s.array][i]
  /\ g[t.array][t.len] = x
  /\ \A a \in DOMAIN h :
        /\ Len(g[a]) = Len(h[a])
        /\ a # s.array => g[a] = h[a]
        /\ \A i \in 1 .. Len(h[a]) :
              g[a][i] # h[a][i] => a = s.array /\ i = s.len + 1

LEMMA AppendWritesOneCell ==
  ASSUME NEW S, 0 \in S, NEW h \in Seq(Seq(S)), NEW x \in S, NEW s \in SliceType,
         s.array \in DOMAIN h, s.len \in 0 .. Len(h[s.array]),
         NEW g, g = HeapAfterAppend(h, s, x),
         NEW t, t = SliceAfterAppend(h, s)
  PROVE  g \in Seq(Seq(S)) /\ OneCellWritten(h, s, x, g, t)
<1> USE DEF OneCellWritten
<1>1. h[s.array] \in Seq(S) /\ Len(h[s.array]) \in Nat /\ Len(h) \in Nat /\ s.len \in Nat
  BY ElementOfSeq, LenProperties DEF SliceType
<1>2. CASE HasRoom(h, s)
  <2> DEFINE row == [h[s.array] EXCEPT ![s.len + 1] = x]
  <2>1. s.len + 1 \in 1 .. Len(h[s.array])
    BY <1>1, <1>2 DEF HasRoom
  <2>2. /\ row \in Seq(S) /\ Len(row) = Len(h[s.array])
        /\ \A j \in 1 .. Len(h[s.array]) : row[j] = IF j = s.len + 1 THEN x ELSE h[s.array][j]
    BY <1>1, <2>1, ExceptSeq
  <2>3. g = [h EXCEPT ![s.array] = row]
    BY <1>2 DEF HeapAfterAppend
  <2> HIDE DEF row
  <2>4. /\ g \in Seq(Seq(S)) /\ Len(g) = Len(h)
        /\ \A a \in 1 .. Len(h) : g[a] = IF a = s.array THEN row ELSE h[a]
    BY <2>2, <2>3, ExceptSeq
  <2>5. t = [array |-> s.array, len |-> s.len + 1]
    BY <1>2 DEF SliceAfterAppend, Slice
  <2>6. t \in SliceType /\ t.array = s.array /\ t.len = s.len + 1
    BY <1>1, <2>5 DEF SliceType
  <2>7. g[s.array] = row /\ DOMAIN h = 1 .. Len(h) /\ DOMAIN g = 1 .. Len(h)
    BY <2>4, LenProperties
  <2>8. \A i \in 1 .. s.len : row[i] = h[s.array][i]
    BY <1>1, <2>1, <2>2
  <2>9. row[s.len + 1] = x
    BY <2>1, <2>2
  <2>10. ASSUME NEW a \in DOMAIN h
         PROVE  /\ Len(g[a]) = Len(h[a])
                /\ a # s.array => g[a] = h[a]
                /\ \A i \in 1 .. Len(h[a]) : g[a][i] # h[a][i] => a = s.array /\ i = s.len + 1
    BY <2>2, <2>4, <2>7
  <2> QED
    BY <1>1, <2>1, <2>2, <2>4, <2>6, <2>7, <2>8, <2>9, <2>10
<1>3. CASE ~ HasRoom(h, s)
  <2> DEFINE size == IF s.len = 0 THEN 1 ELSE 2 * s.len
             row  == [i \in 1 .. size |-> IF i <= s.len THEN h[s.array][i]
                                          ELSE IF i = s.len + 1 THEN x ELSE 0]
  <2>1. size \in Nat /\ s.len + 1 \in 1 .. size
    BY <1>1
  <2>2. g = Append(h, row)
    BY <1>3 DEF HeapAfterAppend
  <2>3. \A i \in 1 .. s.len : h[s.array][i] \in S
    BY <1>1, ElementOfSeq
  <2>4. \A i \in 1 .. size : row[i] \in S
    BY <1>1, <2>1, <2>3
  <2>5. row \in [1 .. size -> S]
    BY <2>4
  <2>7. \A i \in 1 .. s.len : row[i] = h[s.array][i]
    BY <1>1, <2>1
  <2>8. row[s.len + 1] = x
    BY <1>1, <2>1
  <2> HIDE DEF row, size
  <2>6. row \in Seq(S) /\ Len(row) = size
    BY <2>1, <2>5
  <2>9. /\ g \in Seq(Seq(S)) /\ Len(g) = Len(h) + 1 /\ g[Len(h) + 1] = row
        /\ \A a \in 1 .. Len(h) : g[a] = h[a]
    BY <2>2, <2>6, AppendProperties
  <2>10. t = [array |-> Len(h) + 1, len |-> s.len + 1]
    BY <1>3 DEF SliceAfterAppend, Slice
  <2>11. t \in SliceType /\ t.array = Len(h) + 1 /\ t.len = s.len + 1
    BY <1>1, <2>10 DEF SliceType
  <2>12. DOMAIN h = 1 .. Len(h) /\ DOMAIN g = 1 .. Len(h) + 1
    BY <2>9, LenProperties
  <2>13. /\ g[t.array] = row /\ t.array \in DOMAIN g /\ t.array \notin DOMAIN h
         /\ t.len \in 0 .. Len(g[t.array])
    BY <1>1, <2>1, <2>6, <2>9, <2>11, <2>12
  <2>14. \A a \in DOMAIN h : g[a] = h[a]
    BY <2>9, <2>12
  <2>15. Len(g) >= Len(h)
    BY <1>1, <2>9
  <2> QED
    BY <2>7, <2>8, <2>9, <2>11, <2>13, <2>14, <2>15
<1> QED
  BY <1>2, <1>3
-----------------------------------------------------------------------------

(* What every router and every handler is made of.                         *)
LEMMA RouterTyped ==
  ASSUME Typed, NEW r \in DOMAIN routers
  PROVE  /\ routers[r] \in Routers(routes)
         /\ routers[r].slice \in SliceType
         /\ routers[r].slice.array \in DOMAIN heap
         /\ routers[r].slice.len \in 0 .. Len(heap[routers[r].slice.array])
         /\ routers[r].added \in Seq(1 .. routes)
         /\ routers[r].firstMatch \in BOOLEAN
<1>1. routers[r] \in Routers(routes)
  <2>1. r \in 1 .. Len(routers)
    BY LenProperties DEF Typed
  <2> QED
    BY <2>1, ElementOfSeq DEF Typed
<1> QED
  BY <1>1 DEF Typed, IsSlice, Routers

LEMMA HandlerTyped ==
  ASSUME Typed, NEW h \in DOMAIN handlers
  PROVE  /\ handlers[h].slice \in SliceType
         /\ handlers[h].slice.array \in DOMAIN heap
         /\ handlers[h].slice.len \in 0 .. Len(heap[handlers[h].slice.array])
         /\ handlers[h].router \in DOMAIN routers
<1>1. handlers[h] \in [slice : SliceType, router : Nat]
  <2>1. h \in 1 .. Len(handlers)
    BY LenProperties DEF Typed
  <2> QED
    BY <2>1, ElementOfSeq DEF Typed
<1> QED
  BY <1>1 DEF Typed, IsSlice

(* A derived router comes behind the others, which stay what they are.     *)
LEMMA DerivedIsLast ==
  ASSUME NEW m \in Nat, routers \in Seq(Routers(m)), Typed,
         NEW p \in DOMAIN routers, NEW s \in SliceType, NEW mode \in BOOLEAN,
         NEW added \in Seq(1 .. m), routers' = Derive(p, s, mode, added)
  PROVE  /\ routers' \in Seq(Routers(m))
         /\ Len(routers') = Len(routers) + 1 /\ Len(routers) \in Nat
         /\ DOMAIN routers = 1 .. Len(routers) /\ DOMAIN routers' = 1 .. Len(routers) + 1
         /\ \A r \in DOMAIN routers : routers'[r] = routers[r]
         /\ routers'[Len(routers) + 1] =
               [slice |-> s, firstMatch |-> mode, added |-> added,
                ancestors |-> routers[p].ancestors \cup {p}, parent |-> p]
<1> DEFINE new == [slice |-> s, firstMatch |-> mode, added |-> added,
                   ancestors |-> routers[p].ancestors \cup {p}, parent |-> p]
<1>1. Len(routers) \in Nat /\ DOMAIN routers = 1 .. Len(routers)
  BY LenProperties
<1>2. p \in Nat /\ routers[p].ancestors \subseteq 1 .. p - 1
  BY <1>1 DEF Typed
<1>3. routers[p].ancestors \cup {p} \in SUBSET Nat
  BY <1>2
<1>4. new \in Routers(m)
  BY <1>2, <1>3 DEF Routers
<1>5. routers' = Append(routers, new)
  BY DEF Derive
<1> HIDE DEF new
<1>6. /\ Append(routers, new) \in Seq(Routers(m))
      /\ Len(Append(routers, new)) = Len(routers) + 1
      /\ \A r \in 1 .. Len(routers) : Append(routers, new)[r] = routers[r]
      /\ Append(routers, new)[Len(routers) + 1] = new
  BY <1>4, AppendProperties
<1>7. DOMAIN routers' = 1 .. Len(routers) + 1
  BY <1>5, <1>6, LenProperties
<1> QED
  BY <1>1, <1>5, <1>6, <1>7 DEF new

(* The tree grows by one leaf.  Who was forked stays forked, and so does   *)
(* who is derived from a forked router; and everybody below p is forked    *)
(* now, for p has a second child.                                          *)
LEMMA TreeGrows ==
  ASSUME Typed, Family, NEW p \in DOMAIN routers, NEW n, n = Len(routers) + 1,
         Len(routers) \in Nat, DOMAIN routers = 1 .. Len(routers),
         DOMAIN routers' = 1 .. Len(routers) + 1,
         \A r \in DOMAIN routers : routers'[r] = routers[r],
         routers'[n].ancestors = routers[p].ancestors \cup {p},
         routers'[n].parent = p,
         routers'[n].slice.len >= routers[p].slice.len,
         routers'[n].slice.len \in Nat
  PROVE  /\ Family'
         /\ \A r \in DOMAIN routers : Forked(r) => Forked(r)'
         /\ Forked(p) => Forked(n)'
         /\ \A r \in DOMAIN routers : p \in routers[r].ancestors => Forked(r)'
<1>1. /\ n \in DOMAIN routers' /\ n \notin DOMAIN routers
      /\ \A r \in DOMAIN routers' : r \in DOMAIN routers \/ r = n
      /\ DOMAIN routers \subseteq DOMAIN routers'
  OBVIOUS
<1>2. ASSUME NEW r \in DOMAIN routers, NEW a \in routers[r].ancestors
      PROVE  /\ a \in DOMAIN routers
             /\ routers[a].slice.len <= routers[r].slice.len
             /\ \E d \in DOMAIN routers : routers[d].parent = a
  <2>1. a \in 1 .. r - 1
    BY <1>2 DEF Typed
  <2> QED
    BY <1>2, <2>1 DEF Family
<1>3. ASSUME NEW r \in DOMAIN routers, Forked(r) PROVE Forked(r)'
  <2>1. PICK a \in routers[r].ancestors, c \in DOMAIN routers, d \in DOMAIN routers :
           c # d /\ routers[c].parent = a /\ routers[d].parent = a
    BY <1>3 DEF Forked
  <2> QED
    BY <1>1, <2>1 DEF Forked
<1>4. ASSUME Forked(p) PROVE Forked(n)'
  <2>1. PICK a \in routers[p].ancestors, c \in DOMAIN routers, d \in DOMAIN routers :
           c # d /\ routers[c].parent = a /\ routers[d].parent = a
    BY <1>4 DEF Forked
  <2> QED
    BY <1>1, <2>1 DEF Forked
<1>5. ASSUME NEW r \in DOMAIN routers, p \in routers[r].ancestors
      PROVE  Forked(r)' /\ Forked(n)'
  <2>1. PICK d \in DOMAIN routers : routers[d].parent = p
    BY <1>2, <1>5
  <2>2. d # n /\ d \in DOMAIN routers' /\ routers'[d].parent = p
    BY <1>1, <2>1
  <2> QED
    BY <1>1, <1>5, <2>2 DEF Forked
<1>6. ASSUME NEW r \in DOMAIN routers', NEW a \in routers'[r].ancestors
      PROVE  /\ routers'[a].slice.len <= routers'[r].slice.len
             /\ \E d \in DOMAIN routers' : routers'[d].parent = a
  <2>1. CASE r \in DOMAIN routers
    <3>1. a \in routers[r].ancestors
      BY <1>6, <2>1
    <3> QED
      BY <1>1, <1>2, <2>1, <3>1
  <2>2. CASE r = n /\ a = p
    BY <1>1, <2>2
  <2>3. CASE r = n /\ a \in routers[p].ancestors
    <3>1. /\ a \in DOMAIN routers
          /\ routers[a].slice.len <= routers[p].slice.len
          /\ \E d \in DOMAIN routers : routers[d].parent = a
      BY <1>2, <2>3
    <3>2. /\ routers[a].slice.len \in Nat /\ routers[p].slice.len \in Nat
      BY <3>1, RouterTyped DEF SliceType
    <3> QED
      BY <1>1, <2>3, <3>1, <3>2
  <2> QED
    BY <1>1, <1>6, <2>1, <2>2, <2>3
<1>7. ASSUME NEW q \in DOMAIN routers
      PROVE  q \in routers'[n].ancestors \/ (Forked(q)' /\ Forked(n)')
  <2>1. CASE q = p \/ q \in routers[p].ancestors
    BY <2>1
  <2>2. CASE p \in routers[q].ancestors
    BY <1>5, <2>2
  <2>3. CASE Forked(q) /\ Forked(p)
    BY <1>3, <1>4, <2>3
  <2> QED
    BY <2>1, <2>2, <2>3 DEF Family
<1>8. ASSUME NEW q \in DOMAIN routers', NEW r \in DOMAIN routers'
      PROVE  \/ q = r \/ q \in routers'[r].ancestors \/ r \in routers'[q].ancestors
             \/ (Forked(q)' /\ Forked(r)')
  <2>1. CASE q \in DOMAIN routers /\ r \in DOMAIN routers
    <3>1. \/ q = r \/ q \in routers[r].ancestors \/ r \in routers[q].ancestors
          \/ Forked(q) /\ Forked(r)
      BY <2>1 DEF Family
    <3> QED
      BY <1>3, <2>1, <3>1
  <2>2. CASE q = n \/ r = n
    BY <1>1, <1>7, <2>2
  <2> QED
    BY <1>1, <2>1, <2>2
<1>9. Family'
  BY <1>6, <1>8 DEF Family
<1> QED
  BY <1>3, <1>4, <1>5, <1>9

(* A router that was derived along a line is not forked.                   *)
LEMMA LinearIsNotForked ==
  ASSUME Typed, Family, NEW r \in DOMAIN routers
  PROVE  Linear(r) => ~ Forked(r)
<1> SUFFICES ASSUME Linear(r), Forked(r) PROVE FALSE
  OBVIOUS
<1>1. PICK a \in routers[r].ancestors, c \in DOMAIN routers, d \in DOMAIN routers :
         c # d /\ routers[c].parent = a /\ routers[d].parent = a
  BY DEF Forked
<1> DEFINE children == {x \in DOMAIN routers : routers[x].parent = a}
<1>2. Cardinality(children) = 1
  BY DEF Linear
<1>3. IsFiniteSet(DOMAIN routers)
  <2>1. Len(routers) \in Nat /\ DOMAIN routers = 1 .. Len(routers)
    BY LenProperties DEF Typed
  <2> QED
    BY <2>1, FS_Interval
<1>4. IsFiniteSet(children)
  BY <1>3, FS_Subset
<1>5. \E x : children = {x}
  <2> HIDE DEF children
  <2> QED
    BY <1>2, <1>4, FS_Singleton
<1> QED
  BY <1>1, <1>5

(* An unwritten slice keeps its elements, whichever array was written.     *)
LEMMA HasIsKept ==
  ASSUME NEW h, NEW g, NEW s, NEW xs, Has(h, s, xs),
         \A i \in 1 .. s.len : g[s.array][i] = h[s.array][i]
  PROVE  Has(g, s, xs)
BY DEF Has

(* The first router has no routes and no room for any.                     *)
LEMMA InitInv == Init => IInv
<1> SUFFICES ASSUME Init PROVE IInv
  OBVIOUS
<1> DEFINE first == [slice |-> [array |-> 1, len |-> 0], firstMatch |-> FALSE,
                     added |-> <<>>, ancestors |-> {}, parent |-> 0]
<1>1. routers = <<first>> /\ handlers = <<>> /\ heap = <<<<>>>> /\ routes = 0
  BY DEF Init, NewRouter, Slice
<1>2. /\ DOMAIN routers = {1} /\ routers[1] = first /\ Len(routers) = 1
      /\ DOMAIN handlers = {} /\ Len(handlers) = 0
      /\ DOMAIN heap = {1} /\ heap[1] = <<>> /\ Len(<<>>) = 0
  BY <1>1
<1>3. Typed
  <2>1. heap \in Seq(Seq(0 .. routes)) /\ handlers \in Seq([slice : SliceType, router : Nat])
    BY <1>1
  <2>2. first \in Routers(routes)
    BY DEF Routers, SliceType
  <2>3. routers \in Seq(Routers(routes))
    BY <1>1, <2>2
  <2>4. routes \in 0 .. MaxRoutes /\ Len(routers) \in 1 .. MaxRouters /\ Len(handlers) \in 0 .. MaxHandlers
    BY <1>1, <1>2, RouterAssumption
  <2>5. IsSlice(routers[1].slice) /\ routers[1].ancestors \subseteq 1 .. 1 - 1
    BY <1>2 DEF IsSlice
  <2> QED
    BY <1>2, <2>1, <2>3, <2>4, <2>5 DEF Typed
<1>4. Family /\ RoutesKept /\ HandlersApart /\ HandlersKept
  BY <1>2 DEF Family, RoutesKept, HandlersApart, HandlersKept, Has
<1> QED
  BY <1>3, <1>4 DEF IInv

(* A router derived from p keeps the invariant when its slice extends p's: *)
(* neither the cells of p's slice nor any other array are written, and the *)
(* new slice is over the same array or a fresh one.  Whoever had the cell  *)
(* behind the slice is forked now.                                         *)
Extends(h, s, g, t) ==
  /\ DOMAIN h \subseteq DOMAIN g
  /\ t.array \in DOMAIN g /\ t.len \in 0 .. Len(g[t.array]) /\ t.len >= s.len
  /\ t.array = s.array \/ t.array \notin DOMAIN h
  /\ \A a \in DOMAIN h : Len(g[a]) = Len(h[a]) /\ (a # s.array => g[a] = h[a])
  /\ \A i \in 1 .. s.len : g[s.array][i] = h[s.array][i]

LEMMA DerivedKeepsInv ==
  ASSUME IInv, NEW p \in DOMAIN routers, NEW n, n = Len(routers) + 1,
         NEW m \in 0 .. MaxRoutes, NEW s, s = routers[p].slice,
         NEW t \in SliceType, NEW mode \in BOOLEAN, NEW xs \in Seq(1 .. m),
         routers \in Seq(Routers(m)), Len(routers) < MaxRouters,
         routes' = m, handlers' = handlers, routers' = Derive(p, t, mode, xs),
         heap' \in Seq(Seq(0 .. m)), Extends(heap, s, heap', t),
         Has(heap, s, routers[p].added) => Has(heap', t, xs)
  PROVE  /\ IInv'
         /\ \A h \in DOMAIN handlers :
               /\ handlers'[h] = handlers[h]
               /\ heap'[handlers[h].slice.array] = heap[handlers[h].slice.array]
<1> USE DEF IInv, Extends
<1>1. m \in Nat
  BY RouterAssumption
<1>2. /\ s \in SliceType /\ s.array \in DOMAIN heap /\ s.len \in 0 .. Len(heap[s.array])
      /\ s.len \in Nat
  BY RouterTyped DEF SliceType
<1>3. /\ routers' \in Seq(Routers(m))
      /\ Len(routers') = n /\ Len(routers) \in Nat
      /\ DOMAIN routers = 1 .. Len(routers) /\ DOMAIN routers' = 1 .. n
      /\ \A r \in DOMAIN routers : routers'[r] = routers[r]
      /\ routers'[n] = [slice |-> t, firstMatch |-> mode, added |-> xs,
                        ancestors |-> routers[p].ancestors \cup {p}, parent |-> p]
  <2>1. /\ routers' \in Seq(Routers(m))
        /\ Len(routers') = Len(routers) + 1 /\ Len(routers) \in Nat
        /\ DOMAIN routers = 1 .. Len(routers) /\ DOMAIN routers' = 1 .. Len(routers) + 1
        /\ \A r \in DOMAIN routers : routers'[r] = routers[r]
        /\ routers'[Len(routers) + 1] =
              [slice |-> t, firstMatch |-> mode, added |-> xs,
               ancestors |-> routers[p].ancestors \cup {p}, parent |-> p]
    BY ONLY <1>1, Typed, t \in SliceType, mode \in BOOLEAN, xs \in Seq(1 .. m),
       p \in DOMAIN routers, routers \in Seq(Routers(m)),
       routers' = Derive(p, t, mode, xs), DerivedIsLast
  <2> QED
    BY <2>1
<1>4. t.len \in Nat /\ t.len >= routers[p].slice.len
  BY DEF SliceType
<1>5. /\ Family'
      /\ \A r \in DOMAIN routers : Forked(r) => Forked(r)'
      /\ Forked(p) => Forked(n)'
      /\ \A r \in DOMAIN routers : p \in routers[r].ancestors => Forked(r)'
  <2>1. /\ routers'[n].ancestors = routers[p].ancestors \cup {p}
        /\ routers'[n].parent = p /\ routers'[n].slice = t
    BY <1>3
  <2> QED
    BY <1>3, <1>4, <2>1, TreeGrows
<1>6. /\ \A r \in DOMAIN routers' : r \in DOMAIN routers \/ r = n
      /\ n \in DOMAIN routers' /\ n \in Nat /\ DOMAIN routers \subseteq DOMAIN routers'
  BY <1>3
<1>7. Typed'
  <2>1. ASSUME NEW r \in DOMAIN routers'
        PROVE  /\ routers'[r].slice.array \in DOMAIN heap'
               /\ routers'[r].slice.len \in 0 .. Len(heap'[routers'[r].slice.array])
               /\ routers'[r].ancestors \subseteq 1 .. r - 1
    <3>1. CASE r \in DOMAIN routers
      <4>1. routers[r].ancestors \subseteq 1 .. r - 1
        BY <3>1 DEF Typed
      <4>2. /\ routers[r].slice.array \in DOMAIN heap
            /\ routers[r].slice.len \in 0 .. Len(heap[routers[r].slice.array])
        BY <3>1, RouterTyped
      <4>3. routers'[r] = routers[r]
        BY <1>3, <3>1
      <4> QED
        BY <4>1, <4>2, <4>3
    <3>2. CASE r = n
      <4>1. routers[p].ancestors \subseteq 1 .. p - 1 /\ p \in 1 .. Len(routers)
        BY <1>3 DEF Typed
      <4>2. routers[p].ancestors \cup {p} \subseteq 1 .. n - 1
        BY <1>3, <4>1
      <4> QED
        BY <1>3, <3>2, <4>2
    <3> QED
      BY <1>6, <3>1, <3>2
  <2>2. ASSUME NEW h \in DOMAIN handlers
        PROVE  /\ handlers[h].slice.array \in DOMAIN heap'
               /\ handlers[h].slice.len \in 0 .. Len(heap'[handlers[h].slice.array])
               /\ handlers[h].router \in DOMAIN routers'
    <3>1. /\ handlers[h].slice.array \in DOMAIN heap
          /\ handlers[h].slice.len \in 0 .. Len(heap[handlers[h].slice.array])
          /\ handlers[h].router \in DOMAIN routers
      BY HandlerTyped
    <3> QED
      BY <1>6, <3>1
  <2>3. /\ Len(routers') \in 1 .. MaxRouters
        /\ handlers' \in Seq([slice : SliceType, router : Nat])
        /\ Len(handlers') \in 0 .. MaxHandlers
    BY <1>3, RouterAssumption DEF Typed
  <2> QED
    BY <1>3, <2>1, <2>2, <2>3 DEF Typed, IsSlice
<1>8. RoutesKept'
  <2>1. ASSUME NEW r \in DOMAIN routers, ~ Forked(r)'
        PROVE  Has(heap', routers[r].slice, routers[r].added)
    <3>1. PICK u : u = routers[r].slice
      OBVIOUS
    <3>2. /\ ~ Forked(r) /\ Has(heap, u, routers[r].added)
      BY <1>5, <2>1, <3>1 DEF RoutesKept
    <3>3. /\ u \in SliceType /\ u.array \in DOMAIN heap /\ u.len \in 0 .. Len(heap[u.array])
          /\ u.len \in Nat
      BY <3>1, RouterTyped DEF SliceType
    <3>4. p \notin routers[r].ancestors
      BY <1>5, <2>1
    <3>5. p = r \/ r \in routers[p].ancestors
      BY <3>2, <3>4 DEF Family
    <3>6. u.len <= s.len
      BY <1>2, <3>1, <3>5 DEF Family
    <3>7. \A i \in 1 .. u.len : heap'[u.array][i] = heap[u.array][i]
      <4>0. s.len \in Nat /\ u.len \in Nat /\ u.len <= s.len
        BY <1>2, <3>3, <3>6
      <4>1. \A i \in 1 .. u.len : i \in 1 .. s.len
        BY ONLY <4>0
      <4> QED
        BY <3>3, <4>1
    <3> QED
      BY <3>1, <3>2, <3>7, HasIsKept
  <2>2. ~ Forked(n)' => Has(heap', t, xs)
    BY <1>5 DEF RoutesKept
  <2>3. ASSUME NEW r \in DOMAIN routers', ~ Forked(r)'
        PROVE  Has(heap', routers'[r].slice, routers'[r].added)
    <3>1. CASE r \in DOMAIN routers
      BY <1>3, <2>1, <2>3, <3>1
    <3>2. CASE r = n
      <4>1. routers'[n].slice = t /\ routers'[n].added = xs
        BY <1>3
      <4> QED
        BY <2>2, <2>3, <3>2, <4>1
    <3> QED
      BY <1>6, <3>1, <3>2
  <2> QED
    BY <2>3 DEF RoutesKept
<1>9. HandlersApart'
  <2>1. ASSUME NEW h \in DOMAIN handlers, NEW r \in DOMAIN routers'
        PROVE  handlers[h].slice.array # routers'[r].slice.array
    <3>1. CASE r \in DOMAIN routers
      BY <1>3, <3>1 DEF HandlersApart
    <3>2. CASE r = n
      <4>1. routers'[n].slice = t
        BY <1>3
      <4>2. handlers[h].slice.array \in DOMAIN heap /\ handlers[h].slice.array # s.array
        BY HandlerTyped DEF HandlersApart
      <4> QED
        BY <3>2, <4>1, <4>2
    <3> QED
      BY <1>6, <3>1, <3>2
  <2> QED
    BY <2>1 DEF HandlersApart
<1>10. ASSUME NEW h \in DOMAIN handlers
       PROVE  /\ handlers'[h] = handlers[h]
              /\ heap'[handlers[h].slice.array] = heap[handlers[h].slice.array]
  <2>1. handlers[h].slice.array \in DOMAIN heap /\ handlers[h].slice.array # s.array
    BY HandlerTyped DEF HandlersApart
  <2> QED
    BY <2>1
<1>11. HandlersKept'
  <2>1. ASSUME NEW h \in DOMAIN handlers, ~ Forked(handlers[h].router)'
        PROVE  Has(heap', handlers[h].slice, routers'[handlers[h].router].added)
    <3>1. PICK r \in DOMAIN routers : r = handlers[h].router
      BY HandlerTyped
    <3>2. ~ Forked(r)'
      BY <2>1, <3>1
    <3>3. Has(heap, handlers[h].slice, routers[r].added)
      BY <1>5, <3>1, <3>2 DEF HandlersKept
    <3>4. routers'[r] = routers[r]
      BY <1>3
    <3> QED
      BY <1>10, <3>1, <3>3, <3>4 DEF Has
  <2> QED
    BY <2>1 DEF HandlersKept
<1> QED
  BY <1>5, <1>7, <1>8, <1>9, <1>10, <1>11

(* Add appends one route to the slice.                                     *)
LEMMA AddKeepsInv ==
  ASSUME IInv, NEW p \in DOMAIN routers, Add(p)
  PROVE  /\ IInv'
         /\ \A h \in DOMAIN handlers :
               /\ handlers'[h] = handlers[h]
               /\ heap'[handlers[h].slice.array] = heap[handlers[h].slice.array]
<1>1. PICK m, n, s, t, xs, mode :
         /\ m = routes + 1 /\ n = Len(routers) + 1 /\ s = routers[p].slice
         /\ t = SliceAfterAppend(heap, s) /\ xs = Append(routers[p].added, m)
         /\ mode = routers[p].firstMatch
  OBVIOUS
<1>2. /\ routes' = m /\ heap' = HeapAfterAppend(heap, s, m) /\ handlers' = handlers
      /\ routers' = Derive(p, t, mode, xs)
      /\ Len(routers) < MaxRouters /\ routes < MaxRoutes
  BY <1>1 DEF Add
<1>3. Typed
  BY DEF IInv
<1>4. m \in 0 .. MaxRoutes /\ m \in Nat /\ m \in 1 .. m /\ m \in 0 .. m /\ 0 \in 0 .. m
  BY <1>1, <1>2, <1>3, RouterAssumption DEF Typed
<1>5. Seq(0 .. routes) \subseteq Seq(0 .. m) /\ Seq(1 .. routes) \subseteq Seq(1 .. m)
  <2>1. 0 .. routes \subseteq 0 .. m /\ 1 .. routes \subseteq 1 .. m
    BY <1>1, <1>3, RouterAssumption DEF Typed
  <2> QED
    BY <2>1, SeqMonotonic
<1>6. heap \in Seq(Seq(0 .. m)) /\ routers \in Seq(Routers(m))
  <2>1. Routers(routes) \subseteq Routers(m)
    BY <1>5 DEF Routers
  <2>2. Seq(Seq(0 .. routes)) \subseteq Seq(Seq(0 .. m)) /\ Seq(Routers(routes)) \subseteq Seq(Routers(m))
    BY <1>5, <2>1, SeqMonotonic
  <2> QED
    BY <1>3, <2>2 DEF Typed
<1>7. /\ s \in SliceType /\ s.array \in DOMAIN heap /\ s.len \in 0 .. Len(heap[s.array])
      /\ s.len \in Nat /\ mode \in BOOLEAN /\ routers[p].added \in Seq(1 .. m)
  BY <1>1, <1>3, <1>5, RouterTyped DEF SliceType
<1>8. /\ xs \in Seq(1 .. m) /\ Len(xs) = Len(routers[p].added) + 1
      /\ \A i \in 1 .. Len(routers[p].added) : xs[i] = routers[p].added[i]
      /\ xs[Len(routers[p].added) + 1] = m
  BY <1>1, <1>4, <1>7, AppendProperties
<1>9. /\ heap' \in Seq(Seq(0 .. m)) /\ Len(heap') >= Len(heap)
      /\ t \in SliceType /\ t.len = s.len + 1
      /\ t.array \in DOMAIN heap' /\ t.len \in 0 .. Len(heap'[t.array])
      /\ t.array = s.array \/ t.array \notin DOMAIN heap
      /\ \A i \in 1 .. s.len : heap'[t.array][i] = heap[s.array][i]
      /\ heap'[t.array][t.len] = m
      /\ \A a \in DOMAIN heap :
            /\ Len(heap'[a]) = Len(heap[a])
            /\ a # s.array => heap'[a] = heap[a]
            /\ \A i \in 1 .. Len(heap[a]) :
                  heap'[a][i] # heap[a][i] => a = s.array /\ i = s.len + 1
  <2>1. heap' \in Seq(Seq(0 .. m)) /\ OneCellWritten(heap, s, m, heap', t)
    BY <1>1, <1>2, <1>4, <1>6, <1>7, AppendWritesOneCell, Zenon
  <2> QED
    BY <2>1 DEF OneCellWritten
<1>10. DOMAIN heap \subseteq DOMAIN heap'
  <2>1. /\ DOMAIN heap = 1 .. Len(heap) /\ DOMAIN heap' = 1 .. Len(heap')
        /\ Len(heap) \in Nat /\ Len(heap') \in Nat
    BY <1>6, <1>9, LenProperties
  <2> QED
    BY <1>9, <2>1
<1>11. \A i \in 1 .. s.len : heap'[s.array][i] = heap[s.array][i]
  <2>1. Len(heap[s.array]) \in Nat
    BY <1>6, <1>7, ElementOfSeq, LenProperties
  <2>2. \A i \in 1 .. s.len : i \in 1 .. Len(heap[s.array]) /\ i # s.len + 1
    BY <1>7, <2>1
  <2> QED
    BY <1>7, <1>9, <2>2
<1>12. Has(heap, s, routers[p].added) => Has(heap', t, xs)
  <2> SUFFICES ASSUME Has(heap, s, routers[p].added) PROVE Has(heap', t, xs)
    OBVIOUS
  <2>1. \A i \in 1 .. t.len : i \in 1 .. s.len \/ i = t.len
    BY <1>7, <1>9
  <2> QED
    BY <1>7, <1>8, <1>9, <2>1 DEF Has
<1>13. t.len >= s.len
  BY <1>7, <1>9
<1>14. Extends(heap, s, heap', t)
  BY <1>9, <1>10, <1>11, <1>13 DEF Extends
<1> QED
  <2>1. t \in SliceType /\ heap' \in Seq(Seq(0 .. m))
    BY <1>9
  <2> QED
    BY <1>1, <1>2, <1>4, <1>6, <1>7, <1>8, <1>12, <1>14, <2>1, DerivedKeepsInv, Zenon

(* FirstMatch keeps the slice.                                             *)
LEMMA FirstMatchKeepsInv ==
  ASSUME IInv, NEW p \in DOMAIN routers, FirstMatch(p)
  PROVE  /\ IInv'
         /\ \A h \in DOMAIN handlers :
               /\ handlers'[h] = handlers[h]
               /\ heap'[handlers[h].slice.array] = heap[handlers[h].slice.array]
<1>1. PICK m, n, s, xs :
         /\ m = routes /\ n = Len(routers) + 1 /\ s = routers[p].slice
         /\ xs = routers[p].added
  OBVIOUS
<1>2. /\ routes' = m /\ heap' = heap /\ handlers' = handlers
      /\ routers' = Derive(p, s, TRUE, xs) /\ Len(routers) < MaxRouters
  BY <1>1 DEF FirstMatch
<1>3. Typed
  BY DEF IInv
<1>4. m \in 0 .. MaxRoutes /\ heap' \in Seq(Seq(0 .. m)) /\ routers \in Seq(Routers(m))
  BY <1>1, <1>2, <1>3 DEF Typed
<1>5. /\ s \in SliceType /\ s.array \in DOMAIN heap /\ s.len \in 0 .. Len(heap[s.array])
      /\ s.len >= s.len /\ xs \in Seq(1 .. m)
  BY <1>1, <1>3, RouterTyped DEF SliceType
<1>6. Extends(heap, s, heap', s) /\ (Has(heap, s, routers[p].added) => Has(heap', s, xs))
  BY <1>1, <1>2, <1>5 DEF Extends
<1> QED
  BY <1>1, <1>2, <1>4, <1>5, <1>6, DerivedKeepsInv, Zenon

(* Handler copies the slice into an array of its own.                      *)
LEMMA HandlerKeepsInv ==
  ASSUME IInv, NEW p \in DOMAIN routers, Handler(p)
  PROVE  /\ IInv'
         /\ \A h \in DOMAIN handlers :
               /\ handlers'[h] = handlers[h]
               /\ heap'[handlers[h].slice.array] = heap[handlers[h].slice.array]
<1> USE DEF IInv
<1>1. PICK k, s, t, copied, new :
         /\ k = Len(handlers) + 1 /\ s = routers[p].slice
         /\ copied = Contents(heap, s) /\ t = Allocated(heap, copied)
         /\ new = [slice |-> t, router |-> p]
  OBVIOUS
<1>2. /\ heap' = Append(heap, copied) /\ handlers' = Append(handlers, new)
      /\ UNCHANGED <<routers, routes>> /\ Len(handlers) < MaxHandlers
  BY <1>1 DEF Handler, Allocate
<1>3. /\ s \in SliceType /\ s.array \in DOMAIN heap /\ s.len \in 0 .. Len(heap[s.array])
      /\ s.len \in Nat
  BY <1>1, RouterTyped DEF SliceType
<1>4. /\ heap \in Seq(Seq(0 .. routes)) /\ Len(heap) \in Nat /\ DOMAIN heap = 1 .. Len(heap)
      /\ Len(handlers) \in Nat /\ DOMAIN handlers = 1 .. Len(handlers)
      /\ DOMAIN routers = 1 .. Len(routers) /\ p \in Nat
  BY LenProperties DEF Typed
<1>5. /\ copied \in Seq(0 .. routes) /\ Len(copied) = s.len
      /\ \A i \in 1 .. s.len : copied[i] = heap[s.array][i]
  BY <1>1, <1>3, <1>4, ContentsAreCells
<1>6. /\ heap' \in Seq(Seq(0 .. routes)) /\ DOMAIN heap' = 1 .. Len(heap) + 1
      /\ \A a \in DOMAIN heap : heap'[a] = heap[a]
      /\ heap'[Len(heap) + 1] = copied
  <2>1. /\ Append(heap, copied) \in Seq(Seq(0 .. routes))
        /\ Len(Append(heap, copied)) = Len(heap) + 1
        /\ \A a \in 1 .. Len(heap) : Append(heap, copied)[a] = heap[a]
        /\ Append(heap, copied)[Len(heap) + 1] = copied
    BY <1>4, <1>5, AppendProperties
  <2> QED
    BY <1>2, <1>4, <2>1, LenProperties
<1>7. t = [array |-> Len(heap) + 1, len |-> s.len] /\ t \in SliceType
      /\ t.array = Len(heap) + 1 /\ t.len = s.len
  BY <1>1, <1>3, <1>4, <1>5 DEF Allocated, Slice, SliceType
<1>8. /\ handlers' \in Seq([slice : SliceType, router : Nat])
      /\ Len(handlers') = k /\ DOMAIN handlers' = 1 .. k
      /\ \A h \in DOMAIN handlers : handlers'[h] = handlers[h]
      /\ handlers'[k].slice = t /\ handlers'[k].router = p
      /\ \A h \in DOMAIN handlers' : h \in DOMAIN handlers \/ h = k
  <2>1. new \in [slice : SliceType, router : Nat] /\ new.slice = t /\ new.router = p
    BY <1>1, <1>4, <1>7
  <2>2. /\ Append(handlers, new) \in Seq([slice : SliceType, router : Nat])
        /\ Len(Append(handlers, new)) = Len(handlers) + 1
        /\ \A h \in 1 .. Len(handlers) : Append(handlers, new)[h] = handlers[h]
        /\ Append(handlers, new)[Len(handlers) + 1] = new
    BY <2>1, AppendProperties DEF Typed
  <2>3. DOMAIN handlers' = 1 .. k
    BY <1>1, <1>2, <2>2, LenProperties
  <2> QED
    BY <1>1, <1>2, <1>4, <2>1, <2>2, <2>3
<1>9. Len(heap) + 1 \notin DOMAIN heap /\ DOMAIN heap \subseteq DOMAIN heap'
  BY <1>4, <1>6
<1>10. ASSUME NEW r \in DOMAIN routers
       PROVE  /\ routers[r].slice \in SliceType /\ routers[r].slice.array \in DOMAIN heap
              /\ routers[r].slice.len \in 0 .. Len(heap[routers[r].slice.array])
              /\ heap'[routers[r].slice.array] = heap[routers[r].slice.array]
  BY <1>6, RouterTyped
<1>11. ASSUME NEW h \in DOMAIN handlers
       PROVE  /\ handlers'[h] = handlers[h]
              /\ heap'[handlers[h].slice.array] = heap[handlers[h].slice.array]
              /\ handlers[h].slice.array \in DOMAIN heap
              /\ handlers[h].slice.len \in 0 .. Len(heap[handlers[h].slice.array])
              /\ handlers[h].router \in DOMAIN routers
  BY <1>6, <1>8, HandlerTyped
<1>12. /\ routers' = routers /\ routes' = routes
       /\ \A r \in DOMAIN routers : Forked(r)' <=> Forked(r)
  BY <1>2 DEF Forked
<1>13. Typed'
  <2>1. ASSUME NEW r \in DOMAIN routers
        PROVE  /\ routers[r].slice.array \in DOMAIN heap'
               /\ routers[r].slice.len \in 0 .. Len(heap'[routers[r].slice.array])
               /\ routers[r].ancestors \subseteq 1 .. r - 1
    BY <1>9, <1>10 DEF Typed
  <2>2. ASSUME NEW h \in DOMAIN handlers'
        PROVE  /\ handlers'[h].slice.array \in DOMAIN heap'
               /\ handlers'[h].slice.len \in 0 .. Len(heap'[handlers'[h].slice.array])
               /\ handlers'[h].router \in DOMAIN routers
    <3>1. CASE h \in DOMAIN handlers
      BY <1>9, <1>11, <3>1
    <3>2. CASE h = k
      <4>1. Len(heap) + 1 \in 1 .. Len(heap) + 1
        BY <1>4
      <4>2. handlers'[h].slice = t /\ heap'[t.array] = copied
        BY <1>6, <1>7, <1>8, <3>2
      <4>3. t.array \in DOMAIN heap' /\ t.len \in 0 .. Len(copied)
        BY <1>3, <1>5, <1>6, <1>7, <4>1
      <4> QED
        BY <1>8, <3>2, <4>2, <4>3
    <3> QED
      BY <1>8, <3>1, <3>2
  <2>3. Len(handlers') \in 0 .. MaxHandlers
    BY <1>1, <1>2, <1>4, <1>8, RouterAssumption
  <2> QED
    BY <1>6, <1>8, <1>12, <2>1, <2>2, <2>3 DEF Typed, IsSlice
<1>14. Family'
  BY <1>12 DEF Family, Forked
<1>15. RoutesKept'
  <2>1. ASSUME NEW r \in DOMAIN routers, ~ Forked(r)
        PROVE  Has(heap', routers[r].slice, routers[r].added)
    BY <1>10, <2>1 DEF RoutesKept, Has
  <2> QED
    BY <1>12, <2>1 DEF RoutesKept
<1>16. HandlersApart'
  <2>1. ASSUME NEW h \in DOMAIN handlers', NEW r \in DOMAIN routers
        PROVE  handlers'[h].slice.array # routers[r].slice.array
    <3>1. CASE h \in DOMAIN handlers
      BY <1>11, <3>1 DEF HandlersApart
    <3>2. CASE h = k
      BY <1>7, <1>8, <1>9, <1>10, <3>2
    <3> QED
      BY <1>8, <3>1, <3>2
  <2> QED
    BY <1>12, <2>1 DEF HandlersApart
<1>17. HandlersKept'
  <2>1. ASSUME NEW h \in DOMAIN handlers', ~ Forked(handlers'[h].router)
        PROVE  Has(heap', handlers'[h].slice, routers[handlers'[h].router].added)
    <3>1. CASE h \in DOMAIN handlers
      BY <1>11, <2>1, <3>1 DEF HandlersKept, Has
    <3>2. CASE h = k
      <4>1. Has(heap, s, routers[p].added)
        BY <1>1, <1>8, <2>1, <3>2 DEF RoutesKept
      <4>2. Has(heap', t, routers[p].added)
        BY <1>5, <1>6, <1>7, <4>1 DEF Has
      <4> QED
        BY <1>8, <3>2, <4>2
    <3> QED
      BY <1>8, <3>1, <3>2
  <2>2. \A h \in DOMAIN handlers' : handlers'[h].router \in DOMAIN routers
    BY <1>8, <1>11
  <2> QED
    BY <1>12, <2>1, <2>2 DEF HandlersKept
<1> QED
  BY <1>11, <1>13, <1>14, <1>15, <1>16, <1>17

-----------------------------------------------------------------------------

(* A step keeps the invariant and writes in no handler's array.            *)
LEMMA NextKeepsInv ==
  ASSUME IInv, [Next]_vars
  PROVE  /\ IInv'
         /\ \A h \in DOMAIN handlers :
               /\ handlers'[h] = handlers[h]
               /\ heap'[handlers[h].slice.array] = heap[handlers[h].slice.array]
<1>1. CASE UNCHANGED vars
  <2>1. heap' = heap /\ routers' = routers /\ handlers' = handlers /\ routes' = routes
    BY <1>1 DEF vars
  <2> QED
    BY <2>1 DEF IInv, Typed, IsSlice, Family, Forked, RoutesKept, HandlersApart, HandlersKept
<1>2. ASSUME NEW p \in DOMAIN routers, Add(p) \/ FirstMatch(p) \/ Handler(p)
      PROVE  /\ IInv'
             /\ \A h \in DOMAIN handlers :
                   /\ handlers'[h] = handlers[h]
                   /\ heap'[handlers[h].slice.array] = heap[handlers[h].slice.array]
  BY <1>2, AddKeepsInv, FirstMatchKeepsInv, HandlerKeepsInv
<1> QED
  BY <1>1, <1>2 DEF Next

THEOREM Invariance == Spec => []IInv
<1>1. IInv /\ [Next]_vars => IInv'
  BY NextKeepsInv
<1> QED
  BY InitInv, <1>1, PTL DEF Spec

(* The slices of routers and handlers are slices of arrays there are.      *)
THEOREM TypeCorrect == Spec => []TypeOK
<1>1. IInv => TypeOK
  <2> SUFFICES ASSUME IInv PROVE TypeOK
    OBVIOUS
  <2>1. Typed
    BY DEF IInv
  <2>2. \A a \in DOMAIN heap : heap[a] \in Seq(0 .. routes)
    <3>1. heap \in Seq(Seq(0 .. routes)) /\ DOMAIN heap = 1 .. Len(heap)
      BY <2>1, LenProperties DEF Typed
    <3> QED
      BY <3>1, ElementOfSeq
  <2>3. \A r \in DOMAIN routers :
           /\ routers[r].firstMatch \in BOOLEAN
           /\ routers[r].added \in Seq(1 .. routes)
    BY <2>1, RouterTyped
  <2> QED
    BY <2>1, <2>2, <2>3 DEF Typed, TypeOK
<1> QED
  BY <1>1, Invariance, PTL

(* Along a chain of Add and FirstMatch no router and no handler built from *)
(* it loses or swaps a route, however long the chain and whatever is       *)
(* derived elsewhere.                                                      *)
THEOREM ChainsSafe == Spec => []ChainsKeepTheirRoutes
<1>1. IInv => ChainsKeepTheirRoutes
  <2> SUFFICES ASSUME IInv PROVE ChainsKeepTheirRoutes
    OBVIOUS
  <2> USE DEF IInv
  <2>1. /\ heap \in Seq(Seq(0 .. routes))
        /\ Seq(1 .. routes) \subseteq Seq(0 .. routes)
    <3>1. 1 .. routes \subseteq 0 .. routes
      BY RouterAssumption DEF Typed
    <3> QED
      BY <3>1, SeqMonotonic DEF Typed
  <2>2. ASSUME NEW r \in DOMAIN routers, Linear(r)
        PROVE  Contents(heap, routers[r].slice) = routers[r].added
    <3>1. Has(heap, routers[r].slice, routers[r].added)
      BY <2>2, LinearIsNotForked DEF RoutesKept
    <3>2. routers[r].added \in Seq(0 .. routes)
      BY <2>1, RouterTyped
    <3>3. /\ routers[r].slice \in SliceType /\ routers[r].slice.array \in DOMAIN heap
          /\ routers[r].slice.len \in 0 .. Len(heap[routers[r].slice.array])
      BY RouterTyped
    <3> QED
      BY <2>1, <3>1, <3>2, <3>3, HasContents, Zenon
  <2>3. ASSUME NEW h \in DOMAIN handlers, NEW r, r = handlers[h].router, Linear(r)
        PROVE  Contents(heap, handlers[h].slice) = routers[r].added
    <3>1. r \in DOMAIN routers
      BY <2>3, HandlerTyped
    <3>2. Has(heap, handlers[h].slice, routers[r].added)
      BY <2>3, <3>1, LinearIsNotForked DEF HandlersKept
    <3>3. routers[r].added \in Seq(0 .. routes)
      BY <2>1, <3>1, RouterTyped
    <3>4. /\ handlers[h].slice \in SliceType /\ handlers[h].slice.array \in DOMAIN heap
          /\ handlers[h].slice.len \in 0 .. Len(heap[handlers[h].slice.array])
      BY HandlerTyped
    <3> QED
      BY <2>1, <3>2, <3>3, <3>4, HasContents, Zenon
  <2> QED
    BY <2>2, <2>3 DEF ChainsKeepTheirRoutes
<1> QED
  BY <1>1, Invariance, PTL

(* No derivation ever changes where a handler in use sends records.        *)
THEOREM HandlersFrozen == Spec => BuiltHandlersAreFrozen
<1>1. IInv /\ [Next]_vars =>
        [\A h \in DOMAIN handlers :
           /\ handlers'[h] = handlers[h]
           /\ Contents(heap', handlers[h].slice) = Contents(heap, handlers[h].slice)]_vars
  BY NextKeepsInv DEF Contents
<1> QED
  BY <1>1, Invariance, PTL DEF Spec, BuiltHandlersAreFrozen
=============================================================================
