-------------------------- MODULE MiddlewareProofs --------------------------
(***************************************************************************)
(* The two things this package does for middlewares: it builds chains of   *)
(* them, and it has one of its own.                                        *)
(*                                                                         *)
(* A builder with a list of its own builds what it was given, and the      *)
(* caller's list survives, for any number of middlewares, builders, builds *)
(* and panics.  Two builders share an array only if both got the caller's. *)
(* So an append disturbs nobody who is not spread; and it spares the       *)
(* caller's elements as long as every spread builder is at least as long   *)
(* as the caller's slice, which it is until Handler has emptied it.  A     *)
(* build in progress has moved the end of the list, in order, to the       *)
(* chain.                                                                  *)
(*                                                                         *)
(* HandlerErrorRecovery keeps its promises for any number of goroutines.   *)
(* The invariant writes down, for each place a goroutine may be at, what   *)
(* has happened in its call so far: a call has few stories, and told,      *)
(* inner, broke and result tell the same one.                              *)
(***************************************************************************)
EXTENDS PipeBuilder, Recovery, SequenceTheorems, TLAPS

SliceType == [array : Nat, len : Nat]

Builders(n) ==
  [slice : SliceType, given : Seq(1 .. n), spread : BOOLEAN, drained : BOOLEAN,
   broken : BOOLEAN]

Built(n) ==
  [chain : Seq(1 .. n), given : Seq(1 .. n), spread : BOOLEAN, broken : BOOLEAN]

Typed ==
  /\ made \in 2 .. MaxMiddlewares
  /\ heap \in Seq(Seq(0 .. made))
  /\ owned = Slice(1, 2)
  /\ 1 \in DOMAIN heap /\ Len(heap[1]) >= 2
  /\ builders \in Seq(Builders(made))
  /\ Len(builders) <= MaxBuilders
  /\ \A b \in DOMAIN builders : IsSlice(builders[b].slice)
  /\ handlers \in Seq(Built(made))
  /\ Len(handlers) <= MaxHandlers
  /\ build \in [builder : Nat, chain : Seq(1 .. made)]
  /\ build # NoBuild => build.builder \in DOMAIN builders /\ Len(handlers) < MaxHandlers

(* The cells of the caller's slice and of every builder's hold middlewares. *)
Written ==
  /\ heap[1][1] >= 1 /\ heap[1][2] >= 1
  /\ \A b \in DOMAIN builders : \A i \in 1 .. builders[b].slice.len :
        heap[builders[b].slice.array][i] >= 1

(* Only the caller's array is shared, and only by those who were given it. *)
Apart ==
  /\ \A b, c \in DOMAIN builders :
        b # c /\ builders[b].slice.array = builders[c].slice.array =>
           builders[b].slice.array = 1
  /\ \A b \in DOMAIN builders : builders[b].slice.array = 1 => builders[b].spread

(* What a build in progress has taken off builder b.                       *)
Taken(b) == IF build.builder = b THEN build.chain ELSE <<>>

(* Slice s of heap h and the chain behind it are xs, element by element.   *)
Parts(h, s, chain, xs) ==
  /\ s.len + Len(chain) = Len(xs)
  /\ \A i \in 1 .. s.len : h[s.array][i] = xs[i]
  /\ \A i \in 1 .. Len(chain) : chain[i] = xs[s.len + i]

GivenKept ==
  \A b \in DOMAIN builders : ~ builders[b].spread /\ ~ builders[b].broken =>
     Parts(heap, builders[b].slice, Taken(b), builders[b].given)

(* A spread builder neither emptied nor cut short is not shorter than the  *)
(* caller's slice.                                                         *)
Sound(b) == builders[b].spread => ~ builders[b].drained /\ ~ builders[b].broken

LongEnough ==
  \A b \in DOMAIN builders :
     builders[b].slice.array = 1 /\ Sound(b) /\ build.builder # b =>
        builders[b].slice.len >= 2

CallersCells ==
  (\A b \in DOMAIN builders : Sound(b)) => heap[1][1] = 1 /\ heap[1][2] = 2

IInv ==
  /\ Typed /\ Written /\ Apart /\ GivenKept /\ PrivateBuildsAreExact
  /\ LongEnough /\ CallersCells

-----------------------------------------------------------------------------

(* The elements of a slice are its cells.                                  *)
LEMMA ContentsAreCells ==
  ASSUME NEW S, NEW h \in Seq(Seq(S)), NEW s \in SliceType,
         s.array \in DOMAIN h, s.len \in 0 .. Len(h[s.array])
  PROVE  /\ Contents(h, s) \in Seq(S)
         /\ Len(Contents(h, s)) = s.len
         /\ \A i \in 1 .. s.len : Contents(h, s)[i] = h[s.array][i]
<1>1. h[s.array] \in Seq(S)
  BY ElementOfSeq
<1>2. \A i \in 1 .. s.len : h[s.array][i] \in S
  BY <1>1, ElementOfSeq
<1>3. 1 \in Int /\ s.len \in Int
  BY DEF SliceType
<1>4. /\ SubSeq(h[s.array], 1, s.len) \in Seq(S)
      /\ Len(SubSeq(h[s.array], 1, s.len)) = IF 1 <= s.len THEN s.len - 1 + 1 ELSE 0
      /\ \A i \in 1 .. s.len - 1 + 1 : SubSeq(h[s.array], 1, s.len)[i] = h[s.array][1 + i - 1]
  BY <1>2, <1>3, SubSeqProperties
<1>5. \A i \in 1 .. s.len : 1 + i - 1 = i /\ i \in 1 .. s.len - 1 + 1
  BY <1>3
<1> QED
  BY <1>3, <1>4, <1>5 DEF Contents, SliceType

(* append puts one element behind the slice, keeps the elements before it, *)
(* and writes no other cell of an array that was there.                    *)
OneCellWritten(h, s, x, g, t) ==
  /\ Len(g) >= Len(h)
  /\ t \in SliceType /\ t.len = s.len + 1
  /\ t.array \in DOMAIN g /\ t.len \in 0 .. Len(g[t.array])
  /\ t.array = s.array \/ t.array \notin DOMAIN h
  /\ \A i \in 1 .. s.len : g[t.array][i] = h[s.array][i]
  /\ g[t.array][t.len] = x
  /\ \A a \in DOMAIN h :
        /\ Len(g[a]) = Len(h[a])
        /\ a # s.array => g[a] = h[a]
        /\ \A i \in 1 .. Len(h[a]) :
              g[a][i] # h[a][i] => a = s.array /\ a = t.array /\ i = s.len + 1

LEMMA AppendWritesOneCell ==
  ASSUME NEW S, 0 \in S, NEW h \in Seq(Seq(S)), NEW x \in S, NEW s \in SliceType,
         s.array \in DOMAIN h, s.len \in 0 .. Len(h[s.array]),
         NEW g, g = HeapAfterAppend(h, s, x),
         NEW t, t = SliceAfterAppend(h, s)
  PROVE  g \in Seq(Seq(S)) /\ OneCellWritten(h, s, x, g, t)
<1> USE DEF OneCellWritten
<1>1. h[s.array] \in Seq(S) /\ Len(h[s.array]) \in Nat /\ Len(h) \in Nat /\ s.len \in Nat
  BY ElementOfSeq, LenProperties DEF SliceType
<1>2. CASE HasRoom(h, s)
  <2> DEFINE row == [h[s.array] EXCEPT ![s.len + 1] = x]
  <2>1. s.len + 1 \in 1 .. Len(h[s.array])
    BY <1>1, <1>2 DEF HasRoom
  <2>2. /\ row \in Seq(S) /\ Len(row) = Len(h[s.array])
        /\ \A j \in 1 .. Len(h[s.array]) : row[j] = IF j = s.len + 1 THEN x ELSE h[s.array][j]
    BY <1>1, <2>1, ExceptSeq
  <2>3. g = [h EXCEPT ![s.array] = row]
    BY <1>2 DEF HeapAfterAppend
  <2> HIDE DEF row
  <2>4. /\ g \in Seq(Seq(S)) /\ Len(g) = Len(h)
        /\ \A a \in 1 .. Len(h) : g[a] = IF a = s.array THEN row ELSE h[a]
    BY <2>2, <2>3, ExceptSeq
  <2>5. t = [array |-> s.array, len |-> s.len + 1]
    BY <1>2 DEF SliceAfterAppend, Slice
  <2>6. t \in SliceType /\ t.array = s.array /\ t.len = s.len + 1
    BY <1>1, <2>5 DEF SliceType
  <2>7. g[s.array] = row /\ DOMAIN h = 1 .. Len(h) /\ DOMAIN g = 1 .. Len(h)
    BY <2>4, LenProperties
  <2>8. \A i \in 1 .. s.len : row[i] = h[s.array][i]
    BY <1>1, <2>1, <2>2
  <2>9. row[s.len + 1] = x
    BY <2>1, <2>2
  <2>10. ASSUME NEW a \in DOMAIN h
         PROVE  /\ Len(g[a]) = Len(h[a])
                /\ a # s.array => g[a] = h[a]
                /\ \A i \in 1 .. Len(h[a]) : g[a][i] # h[a][i] => a = s.array /\ a = t.array /\ i = s.len + 1
    BY <2>2, <2>4, <2>6, <2>7
  <2> QED
    BY <1>1, <2>1, <2>2, <2>4, <2>6, <2>7, <2>8, <2>9, <2>10
<1>3. CASE ~ HasRoom(h, s)
  <2> DEFINE size == IF s.len = 0 THEN 1 ELSE 2 * s.len
             row  == [i \in 1 .. size |-> IF i <= s.len THEN h[s.array][i]
                                          ELSE IF i = s.len + 1 THEN x ELSE 0]
  <2>1. size \in Nat /\ s.len + 1 \in 1 .. size
    BY <1>1
  <2>2. g = Append(h, row)
    BY <1>3 DEF HeapAfterAppend, Unwritten
  <2>3. \A i \in 1 .. s.len : h[s.array][i] \in S
    BY <1>1, ElementOfSeq
  <2>4. \A i \in 1 .. size : row[i] \in S
    BY <1>1, <2>1, <2>3
  <2>5. row \in [1 .. size -> S]
    BY <2>4
  <2>7. \A i \in 1 .. s.len : row[i] = h[s.array][i]
    BY <1>1, <2>1
  <2>8. row[s.len + 1] = x
    BY <1>1, <2>1
  <2> HIDE DEF row, size
  <2>6. row \in Seq(S) /\ Len(row) = size
    BY <2>1, <2>5
  <2>9. /\ g \in Seq(Seq(S)) /\ Len(g) = Len(h) + 1 /\ g[Len(h) + 1] = row
        /\ \A a \in 1 .. Len(h) : g[a] = h[a]
    BY <2>2, <2>6, AppendProperties
  <2>10. t = [array |-> Len(h) + 1, len |-> s.len + 1]
    BY <1>3 DEF SliceAfterAppend, Slice
  <2>11. t \in SliceType /\ t.array = Len(h) + 1 /\ t.len = s.len + 1
    BY <1>1, <2>10 DEF SliceType
  <2>12. DOMAIN h = 1 .. Len(h) /\ DOMAIN g = 1 .. Len(h) + 1
    BY <2>9, LenProperties
  <2>13. /\ g[t.array] = row /\ t.array \in DOMAIN g /\ t.array \notin DOMAIN h
         /\ t.len \in 0 .. Len(g[t.array])
    BY <1>1, <2>1, <2>6, <2>9, <2>11, <2>12
  <2>14. \A a \in DOMAIN h : g[a] = h[a]
    BY <2>9, <2>12
  <2>15. Len(g) >= Len(h)
    BY <1>1, <2>9
  <2> QED
    BY <2>7, <2>8, <2>9, <2>11, <2>13, <2>14, <2>15
<1> QED
  BY <1>2, <1>3
-----------------------------------------------------------------------------


(* What every builder and every handler is made of.                        *)
LEMMA BuilderTyped ==
  ASSUME Typed, NEW b \in DOMAIN builders
  PROVE  /\ builders[b] \in Builders(made)
         /\ b \in 1 .. Len(builders) /\ Len(builders) \in Nat
         /\ builders[b].slice \in SliceType
         /\ builders[b].slice.array \in DOMAIN heap
         /\ builders[b].slice.len \in 0 .. Len(heap[builders[b].slice.array])
         /\ builders[b].given \in Seq(1 .. made)
<1>1. b \in 1 .. Len(builders) /\ Len(builders) \in Nat
  BY LenProperties DEF Typed
<1>2. builders[b] \in Builders(made)
  BY <1>1, ElementOfSeq DEF Typed
<1> QED
  BY <1>1, <1>2 DEF Typed, IsSlice, Builders

(* The caller's slice is one of the heap.                                  *)
LEMMA OwnedTyped ==
  ASSUME Typed
  PROVE  /\ owned = [array |-> 1, len |-> 2] /\ owned \in SliceType
         /\ owned.array = 1 /\ owned.len = 2
         /\ IsSlice(owned)
         /\ Len(heap[1]) \in Nat
<1>1. heap[1] \in Seq(0 .. made)
  BY ElementOfSeq, LenProperties DEF Typed
<1>2. Len(heap[1]) \in Nat
  BY <1>1, LenProperties
<1>3. owned = [array |-> 1, len |-> 2]
  BY DEF Typed, Slice
<1> QED
  BY <1>2, <1>3 DEF Typed, SliceType, IsSlice

(* Middlewares stay what they are when more are made.                      *)
LEMMA MoreMade ==
  ASSUME Typed, NEW m \in Nat, made <= m
  PROVE  /\ builders \in Seq(Builders(m))
         /\ handlers \in Seq(Built(m))
         /\ build \in [builder : Nat, chain : Seq(1 .. m)]
         /\ heap \in Seq(Seq(0 .. m))
<1>1. made \in Nat /\ 1 .. made \subseteq 1 .. m /\ 0 .. made \subseteq 0 .. m
  BY DEF Typed
<1>2. Seq(1 .. made) \subseteq Seq(1 .. m) /\ Seq(0 .. made) \subseteq Seq(0 .. m)
  BY <1>1, SeqMonotonic
<1>3. Builders(made) \subseteq Builders(m) /\ Built(made) \subseteq Built(m)
  BY <1>2 DEF Builders, Built
<1>4. /\ Seq(Builders(made)) \subseteq Seq(Builders(m))
      /\ Seq(Built(made)) \subseteq Seq(Built(m))
      /\ Seq(Seq(0 .. made)) \subseteq Seq(Seq(0 .. m))
  BY <1>2, <1>3, SeqMonotonic
<1> QED
  BY <1>2, <1>4 DEF Typed

LEMMA InitInv == Init => IInv
<1> SUFFICES ASSUME Init PROVE IInv
  OBVIOUS
<1>1. PICK spare \in {<<>>, <<Unwritten>>} : heap = <<OwnedMiddlewares \o spare>>
  BY DEF Init
<1>2. made = 2 /\ made \in 2 .. MaxMiddlewares
  BY PipeAssumption DEF Init
<1>3. /\ <<1, 2>> \o spare \in Seq(0 .. 2)
      /\ Len(<<1, 2>> \o spare) >= 2
      /\ (<<1, 2>> \o spare)[1] = 1 /\ (<<1, 2>> \o spare)[2] = 2
  <2>1. CASE spare = <<>>
    BY <2>1
  <2>2. CASE spare = <<0>>
    BY <2>2
  <2> QED
    BY <1>1, <2>1, <2>2 DEF Unwritten
<1>4. /\ heap \in Seq(Seq(0 .. made)) /\ 1 \in DOMAIN heap
      /\ Len(heap[1]) >= 2 /\ heap[1][1] = 1 /\ heap[1][2] = 2
  BY <1>1, <1>2, <1>3 DEF OwnedMiddlewares
<1>5. builders = <<>> /\ handlers = <<>> /\ build = NoBuild
  BY DEF Init
<1>6. /\ builders \in Seq(Builders(made)) /\ handlers \in Seq(Built(made))
      /\ Len(builders) = 0 /\ Len(handlers) = 0
      /\ DOMAIN builders = {} /\ DOMAIN handlers = {}
  BY <1>5
<1>7. build \in [builder : Nat, chain : Seq(1 .. made)]
  BY <1>5 DEF NoBuild
<1>8. Typed
  BY <1>2, <1>4, <1>5, <1>6, <1>7, PipeAssumption DEF Typed, Init
<1>9. Written /\ Apart /\ GivenKept /\ PrivateBuildsAreExact /\ LongEnough /\ CallersCells
  BY <1>4, <1>6 DEF Written, Apart, GivenKept, PrivateBuildsAreExact, LongEnough, CallersCells
<1> QED
  BY <1>8, <1>9 DEF IInv

(* A builder more.  Its slice is the caller's or over an array of its own, *)
(* and holds what it was given; no array that was there is written.        *)
LEMMA NewBuilderKeepsInv ==
  ASSUME IInv, NEW m \in made .. MaxMiddlewares, made' = m,
         heap' \in Seq(Seq(0 .. m)), Len(heap') >= Len(heap),
         \A a \in DOMAIN heap : heap'[a] = heap[a],
         NEW s \in SliceType, NEW xs \in Seq(1 .. m), NEW spread \in BOOLEAN,
         s.array \in DOMAIN heap', s.len \in 0 .. Len(heap'[s.array]),
         s.len = Len(xs), \A i \in 1 .. s.len : heap'[s.array][i] = xs[i],
         (spread /\ s = owned) \/ (~ spread /\ s.array \notin DOMAIN heap),
         builders' = Append(builders, NewBuilder(s, xs, spread)),
         Len(builders) < MaxBuilders,
         build = NoBuild, UNCHANGED <<owned, handlers, build>>
  PROVE  IInv'
<1>0. Typed /\ Written /\ Apart /\ GivenKept /\ PrivateBuildsAreExact /\ LongEnough /\ CallersCells
  BY DEF IInv
<1>1. made \in Nat /\ m \in Nat /\ m \in 2 .. MaxMiddlewares /\ made <= m
  BY <1>0, PipeAssumption DEF Typed
<1>2. PICK n : n = Len(builders) + 1
  OBVIOUS
<1>3. PICK new : new = NewBuilder(s, xs, spread)
  OBVIOUS
<1>4. /\ new.slice = s /\ new.given = xs /\ new.spread = spread
      /\ new.drained = FALSE /\ new.broken = FALSE /\ new \in Builders(m)
  BY <1>3 DEF NewBuilder, Builders
<1>5. builders \in Seq(Builders(m))
  BY <1>0, <1>1, MoreMade
<1>6. Len(builders) \in Nat /\ DOMAIN builders = 1 .. Len(builders)
  BY <1>5, LenProperties
<1>7. /\ builders' \in Seq(Builders(m)) /\ Len(builders') = n
      /\ \A b \in 1 .. Len(builders) : builders'[b] = builders[b]
      /\ builders'[n] = new
  BY <1>2, <1>3, <1>4, <1>5, AppendProperties
<1>8. /\ DOMAIN builders' = DOMAIN builders \cup {n} /\ n \notin DOMAIN builders
      /\ \A b \in DOMAIN builders : builders'[b] = builders[b]
  <2>1. DOMAIN builders' = 1 .. n
    BY <1>7, LenProperties
  <2> QED
    BY <1>2, <1>6, <1>7, <2>1
<1>9. /\ DOMAIN heap = 1 .. Len(heap) /\ DOMAIN heap' = 1 .. Len(heap')
      /\ Len(heap) \in Nat /\ Len(heap') \in Nat /\ DOMAIN heap \subseteq DOMAIN heap'
      /\ 1 \in DOMAIN heap
  BY <1>0, LenProperties DEF Typed
<1>10. heap'[1] = heap[1] /\ owned' = owned /\ owned.array = 1
  BY <1>0, <1>9, OwnedTyped
<1>11. ASSUME NEW b \in DOMAIN builders
       PROVE  /\ builders[b].slice.array \in DOMAIN heap
              /\ heap'[builders[b].slice.array] = heap[builders[b].slice.array]
              /\ builders'[b] = builders[b]
              /\ builders'[b].slice.array # s.array \/ s.array = 1
  <2>1. builders[b].slice.array \in DOMAIN heap
    BY <1>0, BuilderTyped
  <2>2. s.array = 1 \/ s.array \notin DOMAIN heap
    BY <1>10
  <2>3. builders'[b] = builders[b]
    BY <1>8
  <2> QED
    BY <2>1, <2>2, <2>3
<1>12. build' = build /\ build.builder = 0 /\ build' = NoBuild
  BY DEF NoBuild
<1>13. Typed'
  <2>1. \A b \in DOMAIN builders' : IsSlice(builders[b].slice)'
    <3>1. IsSlice(builders[n].slice)'
      BY <1>4, <1>7 DEF IsSlice
    <3>2. ASSUME NEW b \in DOMAIN builders PROVE IsSlice(builders[b].slice)'
      <4>1. builders[b].slice.len \in 0 .. Len(heap[builders[b].slice.array])
        BY <1>0, BuilderTyped
      <4> QED
        BY <1>9, <1>11, <4>1 DEF IsSlice
    <3> QED
      BY <1>8, <3>1, <3>2
  <2>2. handlers' \in Seq(Built(m)) /\ build' \in [builder : Nat, chain : Seq(1 .. m)]
    BY <1>0, <1>1, MoreMade
  <2>3. Len(builders') <= MaxBuilders
    BY <1>2, <1>6, <1>7, PipeAssumption
  <2>4. owned' = Slice(1, 2) /\ 1 \in DOMAIN heap' /\ Len(heap'[1]) >= 2
    BY <1>0, <1>9, <1>10 DEF Typed
  <2>5. Len(handlers') <= MaxHandlers /\ build' = NoBuild
    BY <1>0, <1>12 DEF Typed
  <2> QED
    BY <1>1, <1>7, <2>1, <2>2, <2>3, <2>4, <2>5 DEF Typed
<1>14. Written'
  <2>1. \A i \in 1 .. s.len : heap'[s.array][i] >= 1
    <3>1. \A i \in 1 .. s.len : xs[i] \in 1 .. m
      BY ElementOfSeq
    <3>2. ASSUME NEW i \in 1 .. s.len
          PROVE  xs[i] >= 1
      <4>1. PICK x : x = xs[i]
        OBVIOUS
      <4>2. x \in 1 .. m /\ m \in Nat
        BY <1>1, <3>1, <4>1
      <4>3. x >= 1
        BY ONLY <4>2
      <4> QED
        BY <4>1, <4>3
    <3> QED
      BY <3>2
  <2>2. ASSUME NEW b \in DOMAIN builders
        PROVE  \A i \in 1 .. builders'[b].slice.len : heap'[builders'[b].slice.array][i] >= 1
    <3>1. /\ heap'[builders[b].slice.array] = heap[builders[b].slice.array]
          /\ builders'[b] = builders[b]
      BY <1>11
    <3>2. \A i \in 1 .. builders[b].slice.len : heap[builders[b].slice.array][i] >= 1
      BY <1>0 DEF Written
    <3> QED
      BY <3>1, <3>2
  <2>3. heap'[1][1] >= 1 /\ heap'[1][2] >= 1
    BY <1>0, <1>10 DEF Written
  <2>4. \A i \in 1 .. builders'[n].slice.len : heap'[builders'[n].slice.array][i] >= 1
    BY <1>4, <1>7, <2>1
  <2> QED
    BY <1>8, <2>2, <2>3, <2>4 DEF Written
<1>15. Apart'
  <2>1. ASSUME NEW b \in DOMAIN builders', NEW c \in DOMAIN builders', b # c,
               builders'[b].slice.array = builders'[c].slice.array
        PROVE  builders'[b].slice.array = 1
    <3>1. CASE b \in DOMAIN builders /\ c \in DOMAIN builders
      <4>1. builders'[b] = builders[b] /\ builders'[c] = builders[c]
        BY <1>11, <3>1
      <4> QED
        BY <1>0, <2>1, <3>1, <4>1, Zenon DEF Apart
    <3>2. CASE ~ (b \in DOMAIN builders /\ c \in DOMAIN builders)
      BY <1>4, <1>7, <1>8, <1>11, <2>1, <3>2
    <3> QED
      BY <3>1, <3>2
  <2>2. ASSUME NEW b \in DOMAIN builders', builders'[b].slice.array = 1
        PROVE  builders'[b].spread
    BY <1>0, <1>4, <1>7, <1>8, <1>9, <1>11, <2>2 DEF Apart
  <2> QED
    BY <2>1, <2>2 DEF Apart
<1>16. GivenKept'
  <2>1. Taken(n)' = <<>> /\ Len(<<>>) = 0 /\ Len(xs) \in Nat
    BY <1>2, <1>6, <1>12 DEF Taken
  <2>2. Parts(heap', s, Taken(n)', xs)
    BY <2>1 DEF Parts
  <2>3. ASSUME NEW b \in DOMAIN builders, ~ builders[b].spread, ~ builders[b].broken
        PROVE  Parts(heap', builders'[b].slice, Taken(b)', builders'[b].given)
    <3>1. Parts(heap, builders[b].slice, Taken(b), builders[b].given)
      BY <1>0, <2>3 DEF GivenKept
    <3>2. Taken(b)' = Taken(b)
      BY <1>12 DEF Taken
    <3>3. /\ heap'[builders[b].slice.array] = heap[builders[b].slice.array]
          /\ builders'[b] = builders[b]
      BY <1>11
    <3> QED
      BY ONLY <3>1, <3>2, <3>3 DEF Parts
  <2> QED
    BY <1>4, <1>7, <1>8, <2>2, <2>3 DEF GivenKept
<1>17. PrivateBuildsAreExact'
  BY <1>0 DEF PrivateBuildsAreExact
<1>18. LongEnough'
  <2>1. s.array = 1 => s.len = 2
    BY <1>0, <1>9, OwnedTyped
  <2>2. ASSUME NEW b \in DOMAIN builders, builders'[b].slice.array = 1, Sound(b)', build'.builder # b
        PROVE  builders'[b].slice.len >= 2
    BY <1>0, <1>11, <1>12, <2>2 DEF LongEnough, Sound
  <2>3. builders'[n].slice.array = 1 => builders'[n].slice.len >= 2
    BY <1>4, <1>7, <2>1
  <2> QED
    BY <1>8, <2>2, <2>3 DEF LongEnough
<1>19. CallersCells'
  BY <1>0, <1>8, <1>10, <1>11 DEF CallersCells, Sound
<1> QED
  BY <1>13, <1>14, <1>15, <1>16, <1>17, <1>18, <1>19 DEF IInv

LEMMA PipeKeepsInv ==
  ASSUME IInv, NEW n \in 0 .. MaxMiddlewares, Pipe(n)
  PROVE  IInv'
<1>1. made \in Nat /\ n \in Nat /\ MaxMiddlewares \in Nat /\ made + n \in made .. MaxMiddlewares
  BY PipeAssumption DEF IInv, Typed, Pipe
<1>2. PICK xs : xs = [i \in 1 .. n |-> made + i]
  OBVIOUS
<1>3. xs \in Seq(1 .. made + n) /\ Len(xs) = n /\ xs \in Seq(0 .. made + n)
  <2>1. \A i \in 1 .. n : made + i \in 1 .. made + n /\ made + i \in 0 .. made + n
    BY <1>1
  <2>2. xs \in [1 .. n -> 1 .. made + n] /\ xs \in [1 .. n -> 0 .. made + n]
    BY <1>2, <2>1
  <2> QED
    BY <1>1, <2>2
<1>4. heap \in Seq(Seq(0 .. made + n))
  BY <1>1, MoreMade DEF IInv
<1>5. heap' = Append(heap, xs)
  BY <1>2 DEF Pipe, Allocate
<1>6. PICK s : s = [array |-> Len(heap) + 1, len |-> n]
  OBVIOUS
<1>7. builders' = Append(builders, NewBuilder(s, xs, FALSE))
  BY <1>2, <1>3, <1>6 DEF Pipe, Allocated, Slice
<1>8. /\ heap' \in Seq(Seq(0 .. made + n)) /\ Len(heap') = Len(heap) + 1
      /\ \A a \in 1 .. Len(heap) : heap'[a] = heap[a]
      /\ heap'[Len(heap) + 1] = xs
  BY <1>3, <1>4, <1>5, AppendProperties
<1>9. /\ Len(heap) \in Nat /\ DOMAIN heap = 1 .. Len(heap)
      /\ DOMAIN heap' = 1 .. Len(heap) + 1
  BY <1>4, <1>8, LenProperties
<1>10. /\ s \in SliceType /\ s.array = Len(heap) + 1 /\ s.len = n
       /\ s.array \in DOMAIN heap' /\ s.array \notin DOMAIN heap
       /\ heap'[s.array] = xs
  BY <1>1, <1>6, <1>8, <1>9 DEF SliceType
<1>11. s.len \in 0 .. Len(heap'[s.array]) /\ \A i \in 1 .. s.len : heap'[s.array][i] = xs[i]
  BY <1>1, <1>3, <1>10
<1>12. /\ Len(heap') >= Len(heap) /\ \A a \in DOMAIN heap : heap'[a] = heap[a]
       /\ s.len = Len(xs) /\ FALSE \in BOOLEAN
  BY <1>3, <1>8, <1>9, <1>10
<1>13. /\ made' = made + n /\ Len(builders) < MaxBuilders
       /\ build = NoBuild /\ UNCHANGED <<owned, handlers, build>>
  BY DEF Pipe
<1> QED
  BY <1>1, <1>3, <1>7, <1>8, <1>10, <1>11, <1>12, <1>13, NewBuilderKeepsInv

LEMMA PipeSpreadKeepsInv == IInv /\ PipeSpread => IInv'
<1> SUFFICES ASSUME IInv, PipeSpread PROVE IInv'
  OBVIOUS
<1>1. /\ owned \in SliceType /\ owned.array = 1 /\ owned.len = 2 /\ IsSlice(owned)
  BY OwnedTyped DEF IInv
<1>2. PICK xs : xs = Contents(heap, owned)
  OBVIOUS
<1>3. xs \in Seq(0 .. made) /\ Len(xs) = 2 /\ \A i \in 1 .. 2 : xs[i] = heap[1][i]
  <2>1. heap \in Seq(Seq(0 .. made))
    BY DEF IInv, Typed
  <2>2. /\ Contents(heap, owned) \in Seq(0 .. made)
        /\ Len(Contents(heap, owned)) = owned.len
        /\ \A i \in 1 .. owned.len : Contents(heap, owned)[i] = heap[owned.array][i]
    BY <1>1, <2>1, ContentsAreCells DEF IsSlice
  <2> QED
    BY <1>1, <1>2, <2>2
<1>4. made \in Nat /\ made \in made .. MaxMiddlewares /\ made' = made
  BY PipeAssumption DEF IInv, Typed, PipeSpread
<1>5. xs \in Seq(1 .. made)
  <2>1. \A i \in 1 .. 2 : xs[i] \in 0 .. made /\ xs[i] >= 1
    <3>1. heap[1][1] >= 1 /\ heap[1][2] >= 1
      BY DEF IInv, Written
    <3>2. \A i \in 1 .. 2 : xs[i] \in 0 .. made
      BY <1>3, ElementOfSeq
    <3>3. \A i \in 1 .. 2 : i = 1 \/ i = 2
      OBVIOUS
    <3>4. \A i \in 1 .. 2 : xs[i] >= 1
      BY <1>3, <3>1, <3>3
    <3> QED
      BY <3>2, <3>4
  <2>2. \A i \in 1 .. 2 : xs[i] \in 1 .. made
    BY <1>4, <2>1
  <2>3. xs = [i \in 1 .. 2 |-> xs[i]]
    BY <1>3
  <2>4. xs \in [1 .. 2 -> 1 .. made]
    BY <2>2, <2>3
  <2>5. \A S : \A n \in Nat : \A f \in [1 .. n -> S] : f \in Seq(S)
    OBVIOUS
  <2>6. 2 \in Nat
    OBVIOUS
  <2> QED
    BY <2>4, <2>5, <2>6, Zenon
<1>6. /\ heap' = heap /\ heap' \in Seq(Seq(0 .. made)) /\ Len(heap') >= Len(heap)
      /\ \A a \in DOMAIN heap : heap'[a] = heap[a]
  BY LenProperties DEF PipeSpread, IInv, Typed
<1>7. /\ owned.array \in DOMAIN heap' /\ owned.len \in 0 .. Len(heap'[owned.array])
      /\ owned.len = Len(xs) /\ TRUE \in BOOLEAN
      /\ \A i \in 1 .. owned.len : heap'[owned.array][i] = xs[i]
  BY <1>1, <1>3, <1>6 DEF IsSlice
<1>8. /\ builders' = Append(builders, NewBuilder(owned, xs, TRUE))
      /\ Len(builders) < MaxBuilders
      /\ build = NoBuild /\ UNCHANGED <<owned, handlers, build>>
  BY <1>2 DEF PipeSpread
<1> QED
  <2>1. owned \in SliceType /\ ((TRUE /\ owned = owned) \/ (~ TRUE /\ owned.array \notin DOMAIN heap))
    BY <1>1
  <2> QED
    BY ONLY IInv, <1>4, <1>5, <1>6, <1>7, <1>8, <2>1, NewBuilderKeepsInv, Zenon

(* One builder changes, the others stay what they are.                     *)
LEMMA OneBuilderChanges ==
  ASSUME NEW m \in Nat, builders \in Seq(Builders(m)), NEW b \in DOMAIN builders,
         NEW new \in Builders(m), builders' = [builders EXCEPT ![b] = new]
  PROVE  /\ builders' \in Seq(Builders(m))
         /\ Len(builders') = Len(builders)
         /\ DOMAIN builders' = DOMAIN builders
         /\ builders'[b] = new
         /\ \A c \in DOMAIN builders : c # b => builders'[c] = builders[c]
<1>1. DOMAIN builders = 1 .. Len(builders)
  BY LenProperties
<1> QED
  BY <1>1, ExceptSeq, LenProperties

LEMMA PipeAddKeepsInv ==
  ASSUME IInv, NEW b \in DOMAIN builders, PipeAdd(b)
  PROVE  IInv'
<1>0. Typed /\ Written /\ Apart /\ GivenKept /\ PrivateBuildsAreExact /\ LongEnough /\ CallersCells
  BY DEF IInv
<1>1. PICK m, s, t : m = made + 1 /\ s = builders[b].slice /\ t = SliceAfterAppend(heap, s)
  OBVIOUS
<1>2. made \in Nat /\ m \in 2 .. MaxMiddlewares /\ m \in Nat /\ made <= m /\ m >= 1 /\ made' = m
  <2>1. made \in 2 .. MaxMiddlewares /\ MaxMiddlewares \in Nat
    BY <1>0, PipeAssumption DEF Typed
  <2>2. m <= MaxMiddlewares /\ made' = m
    BY <1>1 DEF PipeAdd
  <2>3. PICK k : k = made
    OBVIOUS
  <2>4. k \in 2 .. MaxMiddlewares /\ m = k + 1
    BY <1>1, <2>1, <2>3
  <2>5. k \in Nat /\ m \in 2 .. MaxMiddlewares /\ m \in Nat /\ k <= m /\ m >= 1
    BY ONLY <2>1, <2>2, <2>4
  <2> QED
    BY <2>2, <2>3, <2>5
<1>3. /\ heap \in Seq(Seq(0 .. m)) /\ builders \in Seq(Builders(m))
      /\ handlers \in Seq(Built(m)) /\ build \in [builder : Nat, chain : Seq(1 .. m)]
  BY <1>0, <1>2, MoreMade
<1>4. /\ s \in SliceType /\ s.array \in DOMAIN heap /\ s.len \in 0 .. Len(heap[s.array])
      /\ builders[b] \in Builders(m) /\ builders[b].given \in Seq(1 .. m)
      /\ b \in 1 .. Len(builders)
  <2>1. builders[b] \in Builders(m)
    BY <1>3, BuilderTyped, ElementOfSeq, <1>0
  <2> QED
    BY <1>0, <1>1, <2>1, BuilderTyped DEF Builders
<1>5. /\ heap' = HeapAfterAppend(heap, s, m) /\ build = NoBuild
      /\ owned' = owned /\ handlers' = handlers /\ build' = build
  BY <1>1 DEF PipeAdd
<1>6. heap' \in Seq(Seq(0 .. m)) /\ OneCellWritten(heap, s, m, heap', t)
  <2>1. 0 \in 0 .. m /\ m \in 0 .. m
    BY <1>2
  <2> QED
    <3>1. heap' = HeapAfterAppend(heap, s, m) /\ t = SliceAfterAppend(heap, s)
      BY <1>1, <1>5
    <3>2. heap \in Seq(Seq(0 .. m))
      BY <1>3
    <3>3. s \in SliceType /\ s.array \in DOMAIN heap /\ s.len \in 0 .. Len(heap[s.array])
      BY <1>4
    <3> QED
      BY <2>1, <3>1, <3>2, <3>3, AppendWritesOneCell, Zenon
<1>7. /\ t \in SliceType /\ t.len = s.len + 1 /\ s.len \in Nat
      /\ t.array \in DOMAIN heap' /\ t.len \in 0 .. Len(heap'[t.array])
      /\ t.array = s.array \/ t.array \notin DOMAIN heap
      /\ \A i \in 1 .. s.len : heap'[t.array][i] = heap[s.array][i]
      /\ heap'[t.array][t.len] = m
  BY <1>4, <1>6 DEF OneCellWritten, SliceType
<1>8. /\ \A a \in DOMAIN heap : Len(heap'[a]) = Len(heap[a])
      /\ \A a \in DOMAIN heap : a # s.array => heap'[a] = heap[a]
      /\ \A a \in DOMAIN heap : \A i \in 1 .. Len(heap[a]) :
            heap'[a][i] # heap[a][i] =>
               a = s.array /\ a = t.array /\ i = s.len + 1 /\ heap'[a][i] = m
  <2>1. \A a \in DOMAIN heap : \A i \in 1 .. Len(heap[a]) :
            heap'[a][i] # heap[a][i] => a = s.array /\ a = t.array /\ i = s.len + 1
    BY <1>6 DEF OneCellWritten
  <2>2. \A a \in DOMAIN heap : Len(heap'[a]) = Len(heap[a]) /\ (a # s.array => heap'[a] = heap[a])
    BY <1>6 DEF OneCellWritten
  <2> QED
    BY <1>7, <2>1, <2>2
<1>9. PICK xs : xs = Append(builders[b].given, m)
  OBVIOUS
<1>10. /\ xs \in Seq(1 .. m) /\ Len(xs) = Len(builders[b].given) + 1
       /\ \A i \in 1 .. Len(builders[b].given) : xs[i] = builders[b].given[i]
       /\ xs[Len(builders[b].given) + 1] = m /\ Len(builders[b].given) \in Nat
  <2>1. m \in 1 .. m
    BY <1>2
  <2> QED
    BY <1>4, <1>9, <2>1, AppendProperties, LenProperties
<1>11. PICK new : new = [slice |-> t, given |-> xs, spread |-> builders[b].spread,
                         drained |-> builders[b].drained, broken |-> builders[b].broken]
  OBVIOUS
<1>12. /\ new \in Builders(m) /\ new.slice = t /\ new.given = xs
       /\ new.spread = builders[b].spread /\ new.drained = builders[b].drained
       /\ new.broken = builders[b].broken
  BY <1>4, <1>7, <1>10, <1>11 DEF Builders
<1>13. builders' = [builders EXCEPT ![b] = new]
  <2>1. builders' = [builders EXCEPT ![b].slice = t, ![b].given = Append(@, m)]
    BY <1>1 DEF PipeAdd
  <2>2. builders \in Seq(Builders(m)) /\ DOMAIN builders = 1 .. Len(builders)
    BY <1>3, LenProperties
  <2>3. [[builders[b] EXCEPT !.slice = t] EXCEPT !.given = xs] = new
    <3>1. PICK old : old = [[builders[b] EXCEPT !.slice = t] EXCEPT !.given = xs]
      OBVIOUS
    <3>2. old \in Builders(m) /\ old.slice = t /\ old.given = xs /\ old.spread = builders[b].spread
          /\ old.drained = builders[b].drained /\ old.broken = builders[b].broken
      BY <1>4, <1>7, <1>10, <3>1 DEF Builders
    <3>3. old = new
      BY <1>12, <3>2 DEF Builders
    <3> QED
      BY <3>1, <3>3
  <2>4. [[builders[b] EXCEPT !.slice = t] EXCEPT !.given = Append([builders[b] EXCEPT !.slice = t].given, m)] = new
    <3>1. [builders[b] EXCEPT !.slice = t].given = builders[b].given
      BY <1>4 DEF Builders
    <3> QED
      BY <1>9, <2>3, <3>1
  <2> QED
    BY <2>1, <2>2, <2>4
<1>14. /\ builders' \in Seq(Builders(m)) /\ Len(builders') = Len(builders)
       /\ DOMAIN builders' = DOMAIN builders /\ builders'[b] = new
       /\ \A c \in DOMAIN builders : c # b => builders'[c] = builders[c]
  BY <1>2, <1>3, <1>12, <1>13, OneBuilderChanges
<1>15. /\ Len(heap) \in Nat /\ DOMAIN heap = 1 .. Len(heap) /\ DOMAIN heap' = 1 .. Len(heap')
       /\ DOMAIN heap \subseteq DOMAIN heap' /\ 1 \in DOMAIN heap
       /\ Len(heap[1]) >= 2 /\ Len(heap[1]) \in Nat
  <2>1. Len(heap') >= Len(heap)
    BY <1>6 DEF OneCellWritten
  <2>2. Len(heap) \in Nat /\ DOMAIN heap = 1 .. Len(heap) /\ DOMAIN heap' = 1 .. Len(heap') /\ Len(heap') \in Nat
    BY <1>3, <1>6, LenProperties
  <2> QED
    BY <1>0, <2>1, <2>2, OwnedTyped DEF Typed
<1>16. ASSUME NEW c \in DOMAIN builders, c # b
       PROVE  /\ builders'[c] = builders[c]
              /\ builders[c].slice.array \in DOMAIN heap
              /\ builders[c].slice.len \in 0 .. Len(heap[builders[c].slice.array])
              /\ builders[c].slice.array # t.array \/ builders[c].slice.array = s.array
  BY <1>0, <1>7, <1>14, <1>16, BuilderTyped
<1>17. build.builder = 0 /\ \A c : c \in DOMAIN builders => c # 0
  <2>1. \A c : c \in DOMAIN builders => c \in 1 .. Len(builders) /\ Len(builders) \in Nat
    BY <1>3, LenProperties
  <2> QED
    BY <1>5, <2>1 DEF NoBuild
<1>18. Typed'
  <2>1. IsSlice(builders[b].slice)'
    BY <1>7, <1>12, <1>14 DEF IsSlice
  <2>2. ASSUME NEW c \in DOMAIN builders, c # b PROVE IsSlice(builders[c].slice)'
    BY <1>8, <1>15, <1>16, <2>2 DEF IsSlice
  <2>3. owned' = Slice(1, 2) /\ 1 \in DOMAIN heap' /\ Len(heap'[1]) >= 2
    BY <1>0, <1>5, <1>8, <1>15 DEF Typed
  <2>4. Len(builders') <= MaxBuilders /\ Len(handlers') <= MaxHandlers /\ build' = NoBuild
    BY <1>0, <1>5, <1>14 DEF Typed
  <2>5. \A c \in DOMAIN builders' : IsSlice(builders[c].slice)'
    BY <1>14, <2>1, <2>2
  <2>6. handlers' \in Seq(Built(m)) /\ build' \in [builder : Nat, chain : Seq(1 .. m)]
    BY <1>3, <1>5
  <2> QED
    BY <1>2, <1>6, <1>14, <2>3, <2>4, <2>5, <2>6 DEF Typed
<1>19. Written'
  <2>1. \A a \in DOMAIN heap : \A i \in 1 .. Len(heap[a]) : heap[a][i] >= 1 => heap'[a][i] >= 1
    BY <1>2, <1>8
  <2>2. heap'[1][1] >= 1 /\ heap'[1][2] >= 1
    <3>1. 1 \in 1 .. Len(heap[1]) /\ 2 \in 1 .. Len(heap[1])
      BY <1>15
    <3> QED
      BY <1>0, <1>15, <2>1, <3>1 DEF Written
  <2>3. ASSUME NEW c \in DOMAIN builders, c # b, NEW i \in 1 .. builders'[c].slice.len
        PROVE  heap'[builders'[c].slice.array][i] >= 1
    <3>1. /\ builders'[c] = builders[c] /\ builders[c].slice.array \in DOMAIN heap
          /\ i \in 1 .. Len(heap[builders[c].slice.array])
      <4>1. builders[c].slice.len \in 0 .. Len(heap[builders[c].slice.array])
        BY <1>16, <2>3
      <4> QED
        BY <1>16, <2>3, <4>1
    <3>2. heap[builders[c].slice.array][i] >= 1
      BY <1>0, <2>3, <3>1 DEF Written
    <3> QED
      BY <2>1, <3>1, <3>2
  <2>4. ASSUME NEW i \in 1 .. t.len PROVE heap'[t.array][i] >= 1
    <3>1. CASE i = t.len
      BY <1>2, <1>7, <3>1
    <3>2. CASE i \in 1 .. s.len
      BY <1>0, <1>1, <1>7, <3>2 DEF Written
    <3> QED
      BY <1>7, <3>1, <3>2
  <2>5. \A i \in 1 .. builders'[b].slice.len : heap'[builders'[b].slice.array][i] >= 1
    BY <1>12, <1>14, <2>4
  <2> QED
    BY <1>14, <2>2, <2>3, <2>5 DEF Written
<1>20. Apart'
  <2>1. t.array = 1 => s.array = 1
    BY <1>7, <1>15
  <2>2. ASSUME NEW c \in DOMAIN builders, c # b, builders[c].slice.array = t.array
        PROVE  t.array = 1
    <3>1. t.array = s.array /\ builders[c].slice.array = builders[b].slice.array
      BY <1>1, <1>16, <2>2
    <3> QED
      BY <1>0, <2>2, <3>1 DEF Apart
  <2>3. ASSUME NEW c \in DOMAIN builders, NEW d \in DOMAIN builders, c # d, c # b, d # b,
               builders'[c].slice.array = builders'[d].slice.array
        PROVE  builders'[c].slice.array = 1
    BY <1>0, <1>14, <2>3 DEF Apart
  <2>4. ASSUME NEW c \in DOMAIN builders, NEW d \in DOMAIN builders, c # d,
               builders'[c].slice.array = builders'[d].slice.array
        PROVE  builders'[c].slice.array = 1
    BY <1>12, <1>14, <2>2, <2>3, <2>4
  <2>5. ASSUME NEW c \in DOMAIN builders, builders'[c].slice.array = 1
        PROVE  builders'[c].spread
    BY <1>0, <1>1, <1>12, <1>14, <2>1, <2>5 DEF Apart
  <2> QED
    BY <1>14, <2>4, <2>5 DEF Apart
<1>21. GivenKept'
  <2>1. ASSUME NEW c \in DOMAIN builders
        PROVE  Taken(c) = <<>> /\ Taken(c)' = <<>>
    BY <1>5, <1>17 DEF Taken
  <2>2. ASSUME ~ builders[b].spread, ~ builders[b].broken
        PROVE  Parts(heap', t, <<>>, xs)
    <3>1. Parts(heap, s, <<>>, builders[b].given)
      BY <1>0, <1>1, <2>1, <2>2 DEF GivenKept
    <3>2. s.len = Len(builders[b].given)
      BY <1>7, <1>10, <3>1 DEF Parts
    <3>3. ASSUME NEW i \in 1 .. t.len PROVE heap'[t.array][i] = xs[i]
      <4>1. CASE i = t.len
        BY <1>7, <1>10, <3>2, <4>1
      <4>2. CASE i \in 1 .. s.len
        BY <1>7, <1>10, <3>1, <3>2, <4>2 DEF Parts
      <4> QED
        BY <1>7, <4>1, <4>2
    <3>4. t.len + Len(<<>>) = Len(xs)
      BY <1>7, <1>10, <3>2
    <3> QED
      BY <3>3, <3>4 DEF Parts
  <2>3. ASSUME NEW c \in DOMAIN builders, c # b, ~ builders[c].spread, ~ builders[c].broken
        PROVE  Parts(heap', builders[c].slice, <<>>, builders[c].given)
    <3>1. Parts(heap, builders[c].slice, <<>>, builders[c].given)
      BY <1>0, <2>1, <2>3 DEF GivenKept
    <3>2. builders[c].slice.array # s.array
      BY <1>0, <1>1, <2>3 DEF Apart
    <3>3. heap'[builders[c].slice.array] = heap[builders[c].slice.array]
      BY <1>8, <1>16, <2>3, <3>2
    <3> QED
      BY ONLY <3>1, <3>3 DEF Parts
  <2>4. ASSUME NEW c \in DOMAIN builders, ~ builders'[c].spread, ~ builders'[c].broken
        PROVE  Parts(heap', builders'[c].slice, Taken(c)', builders'[c].given)
    BY <1>12, <1>14, <2>1, <2>2, <2>3, <2>4
  <2> QED
    BY <1>14, <2>4 DEF GivenKept
<1>22. PrivateBuildsAreExact'
  BY <1>0, <1>5 DEF PrivateBuildsAreExact
<1>23. \A c \in DOMAIN builders : Sound(c)' <=> Sound(c)
  BY <1>12, <1>14 DEF Sound
<1>24. LongEnough'
  <2>1. ASSUME t.array = 1, Sound(b) PROVE t.len >= 2
    <3>1. s.array = 1
      BY <1>7, <1>15, <2>1
    <3>2. s.len >= 2
      BY <1>0, <1>1, <1>17, <2>1, <3>1 DEF LongEnough
    <3> QED
      BY <1>7, <3>2
  <2>2. ASSUME NEW c \in DOMAIN builders, c # b, builders[c].slice.array = 1, Sound(c)
        PROVE  builders[c].slice.len >= 2
    BY <1>0, <1>17, <2>2 DEF LongEnough
  <2>3. ASSUME NEW c \in DOMAIN builders, builders'[c].slice.array = 1, Sound(c)'
        PROVE  builders'[c].slice.len >= 2
    BY <1>12, <1>14, <1>23, <2>1, <2>2, <2>3
  <2> QED
    BY <1>14, <2>3 DEF LongEnough
<1>25. CallersCells'
  <2> SUFFICES ASSUME \A c \in DOMAIN builders' : Sound(c)'
               PROVE  heap'[1][1] = 1 /\ heap'[1][2] = 2
    BY DEF CallersCells
  <2>1. \A c \in DOMAIN builders : Sound(c)
    BY <1>14, <1>23
  <2>2. s.array = 1 => s.len >= 2
    BY <1>0, <1>1, <1>17, <2>1 DEF LongEnough
  <2>3. heap[1][1] = 1 /\ heap[1][2] = 2
    BY <1>0, <2>1 DEF CallersCells
  <2>4. 1 \in 1 .. Len(heap[1]) /\ 2 \in 1 .. Len(heap[1])
    BY <1>15
  <2>5. s.array = 1 => s.len + 1 # 1 /\ s.len + 1 # 2
    BY <1>7, <2>2
  <2>6. heap'[1][1] = heap[1][1] /\ heap'[1][2] = heap[1][2]
    BY <1>8, <1>15, <2>4, <2>5
  <2> QED
    BY <2>3, <2>6
<1> QED
  BY <1>18, <1>19, <1>20, <1>21, <1>22, <1>24, <1>25 DEF IInv

LEMMA HandlerKeepsInv ==
  ASSUME IInv, NEW b \in DOMAIN builders, Handler(b)
  PROVE  IInv'
<1>0. Typed /\ Written /\ Apart /\ GivenKept /\ PrivateBuildsAreExact /\ LongEnough /\ CallersCells
  BY DEF IInv
<1>1. /\ build = NoBuild /\ build' = [builder |-> b, chain |-> <<>>]
      /\ heap' = heap /\ owned' = owned /\ builders' = builders /\ handlers' = handlers
      /\ made' = made
  BY DEF Handler
<1>2. build.builder = 0 /\ \A c : c \in DOMAIN builders => c # 0 /\ c \in Nat
  <2>1. \A c : c \in DOMAIN builders => c \in 1 .. Len(builders) /\ Len(builders) \in Nat
    BY <1>0, LenProperties DEF Typed
  <2> QED
    BY <1>1, <2>1 DEF NoBuild
<1>3. build' \in [builder : Nat, chain : Seq(1 .. made)] /\ build'.builder = b
  BY <1>1, <1>2
<1>4. Typed'
  <2>1. Len(handlers') < MaxHandlers
    BY <1>1 DEF Handler
  <2>2. \A c \in DOMAIN builders' : IsSlice(builders[c].slice)'
    BY <1>0, <1>1 DEF Typed, IsSlice
  <2> QED
    BY <1>0, <1>1, <1>3, <2>1, <2>2 DEF Typed
<1>5. Written' /\ Apart' /\ PrivateBuildsAreExact' /\ CallersCells'
  BY <1>0, <1>1 DEF Written, Apart, PrivateBuildsAreExact, CallersCells, Sound
<1>6. \A c \in DOMAIN builders : Taken(c)' = Taken(c)
  BY <1>1, <1>2 DEF Taken
<1>7. GivenKept'
  BY <1>0, <1>1, <1>6 DEF GivenKept
<1>8. LongEnough'
  BY <1>0, <1>1, <1>2 DEF LongEnough, Sound
<1> QED
  BY <1>4, <1>5, <1>7, <1>8 DEF IInv

(* While builder b is being emptied nobody else changes: what a turn of    *)
(* the loop needs to know, whether it wraps the handler or panics.         *)
LEMMA TurnTyped ==
  ASSUME IInv, build # NoBuild, NEW b, b = build.builder
  PROVE  /\ b \in DOMAIN builders /\ b # 0
         /\ builders[b] \in Builders(made) /\ builders[b].slice \in SliceType
         /\ builders[b].slice.array \in DOMAIN heap
         /\ builders[b].slice.len \in 0 .. Len(heap[builders[b].slice.array])
         /\ Len(heap[builders[b].slice.array]) \in Nat
         /\ builders[b].slice.len \in Nat
         /\ heap[builders[b].slice.array] \in Seq(0 .. made)
         /\ builders[b].given \in Seq(1 .. made) /\ Len(builders[b].given) \in Nat
         /\ build.chain \in Seq(1 .. made) /\ Len(build.chain) \in Nat
         /\ made \in Nat
         /\ Taken(b) = build.chain
         /\ \A c \in DOMAIN builders : c # b => Taken(c) = <<>>
<1>0. Typed
  BY DEF IInv
<1>1. b \in DOMAIN builders /\ build.chain \in Seq(1 .. made) /\ made \in Nat
  BY <1>0, PipeAssumption DEF Typed
<1>2. b # 0
  <2>1. b \in 1 .. Len(builders) /\ Len(builders) \in Nat
    BY <1>0, <1>1, BuilderTyped
  <2> QED
    BY <2>1
<1>3. heap[builders[b].slice.array] \in Seq(0 .. made)
  <2>1. builders[b].slice.array \in 1 .. Len(heap)
    BY <1>0, <1>1, BuilderTyped, LenProperties DEF Typed
  <2> QED
    BY <1>0, <2>1, ElementOfSeq DEF Typed
<1>4. Taken(b) = build.chain /\ \A c \in DOMAIN builders : c # b => Taken(c) = <<>>
  BY DEF Taken
<1>5. /\ Len(heap[builders[b].slice.array]) \in Nat /\ Len(build.chain) \in Nat
      /\ Len(builders[b].given) \in Nat
  BY <1>0, <1>1, <1>3, BuilderTyped, LenProperties
<1>6. builders[b].slice.len \in Nat
  BY <1>0, <1>1, BuilderTyped DEF SliceType
<1> QED
  BY <1>0, <1>1, <1>2, <1>3, <1>4, <1>5, <1>6, BuilderTyped

(* The last middleware comes off builder b.  Nothing is written, and the   *)
(* others are as sound, as long and as exact as before.                    *)
LEMMA TurnKeepsInv ==
  ASSUME IInv, build # NoBuild, NEW b, b = build.builder,
         NEW new \in Builders(made), builders' = [builders EXCEPT ![b] = new],
         new.slice.array = builders[b].slice.array,
         new.slice.len <= builders[b].slice.len,
         new.spread = builders[b].spread,
         new.drained \/ ~ builders[b].drained, new.broken \/ ~ builders[b].broken,
         ~ new.spread /\ ~ new.broken => Parts(heap, new.slice, Taken(b)', new.given),
         build'.builder = b \/ new.broken \/ new.drained,
         build' = NoBuild \/ build'.builder = b,
         build' \in [builder : Nat, chain : Seq(1 .. made)],
         handlers' \in Seq(Built(made)), Len(handlers') <= MaxHandlers,
         build' # NoBuild => Len(handlers') < MaxHandlers,
         PrivateBuildsAreExact',
         UNCHANGED <<heap, owned, made>>
  PROVE  IInv'
<1>0. Typed /\ Written /\ Apart /\ GivenKept /\ PrivateBuildsAreExact /\ LongEnough /\ CallersCells
  BY DEF IInv
<1>1. /\ b \in DOMAIN builders /\ b # 0 /\ builders[b].slice.len \in Nat
      /\ builders[b].slice.len \in 0 .. Len(heap[builders[b].slice.array])
      /\ builders[b].slice.array \in DOMAIN heap
      /\ Len(heap[builders[b].slice.array]) \in Nat /\ made \in Nat
      /\ \A c \in DOMAIN builders : c # b => Taken(c) = <<>>
  BY TurnTyped
<1>2. builders \in Seq(Builders(made))
  BY <1>0 DEF Typed
<1>3. /\ builders' \in Seq(Builders(made)) /\ Len(builders') = Len(builders)
      /\ DOMAIN builders' = DOMAIN builders /\ builders'[b] = new
      /\ \A c \in DOMAIN builders : c # b => builders'[c] = builders[c]
  BY <1>1, <1>2, OneBuilderChanges
<1>4. new.slice.len \in Nat /\ new.slice.len \in 0 .. Len(heap[builders[b].slice.array])
  <2>1. new.slice.len \in Nat
    BY DEF Builders, SliceType
  <2> QED
    BY <1>1, <2>1
<1>5. heap' = heap /\ owned' = owned /\ made' = made
  OBVIOUS
<1>6. Typed'
  <2>1. IsSlice(builders[b].slice)'
    BY <1>1, <1>3, <1>4 DEF IsSlice
  <2>2. ASSUME NEW c \in DOMAIN builders, c # b PROVE IsSlice(builders[c].slice)'
    BY <1>0, <1>3, <2>2 DEF IsSlice, Typed
  <2>3. \A c \in DOMAIN builders' : IsSlice(builders[c].slice)'
    BY <1>3, <2>1, <2>2
  <2>4. build' # NoBuild => build'.builder \in DOMAIN builders' /\ Len(handlers') < MaxHandlers
    BY <1>1, <1>3
  <2> QED
    BY <1>0, <1>3, <1>5, <2>3, <2>4 DEF Typed
<1>7. Written'
  <2>1. ASSUME NEW i \in 1 .. new.slice.len PROVE heap[new.slice.array][i] >= 1
    <3>1. i \in 1 .. builders[b].slice.len
      BY <1>1, <1>4
    <3> QED
      BY <1>0, <1>1, <3>1 DEF Written
  <2> QED
    BY <1>0, <1>3, <1>5, <2>1 DEF Written
<1>8. Apart'
  <2>1. \A c \in DOMAIN builders : /\ builders'[c].slice.array = builders[c].slice.array
                                   /\ builders'[c].spread = builders[c].spread
    BY <1>3
  <2> QED
    BY <1>0, <1>3, <2>1 DEF Apart
<1>9. GivenKept'
  <2>1. ASSUME NEW c \in DOMAIN builders, c # b, ~ builders[c].spread, ~ builders[c].broken
        PROVE  Parts(heap, builders[c].slice, Taken(c)', builders[c].given)
    <3>1. Parts(heap, builders[c].slice, Taken(c), builders[c].given)
      BY <1>0, <2>1 DEF GivenKept
    <3>2. c # 0
      <4>1. c \in 1 .. Len(builders) /\ Len(builders) \in Nat
        BY <1>0, BuilderTyped
      <4> QED
        BY <4>1
    <3>3. Taken(c) = <<>> /\ Taken(c)' = <<>>
      BY <1>1, <2>1, <3>2 DEF Taken, NoBuild
    <3> QED
      BY <3>1, <3>3
  <2> QED
    BY <1>3, <1>5, <2>1 DEF GivenKept
<1>10. \A c \in DOMAIN builders : Sound(c)' => Sound(c)
  BY <1>3 DEF Sound
<1>11. LongEnough'
  <2>1. ASSUME NEW c \in DOMAIN builders, c # b, builders[c].slice.array = 1, Sound(c)'
        PROVE  builders[c].slice.len >= 2
    BY <1>0, <1>10, <2>1 DEF LongEnough
  <2>2. ASSUME new.slice.array = 1, Sound(b)' PROVE build'.builder = b
    <3>1. builders[b].spread
      BY <1>0, <1>1, <2>2 DEF Apart
    <3>2. ~ new.drained /\ ~ new.broken
      BY <1>3, <2>2, <3>1 DEF Sound
    <3> QED
      BY <3>2
  <2> QED
    BY <1>3, <2>1, <2>2 DEF LongEnough
<1>12. CallersCells'
  BY <1>0, <1>3, <1>5, <1>10 DEF CallersCells
<1> QED
  BY <1>6, <1>7, <1>8, <1>9, <1>11, <1>12 DEF IInv

LEMMA HandlerWrapKeepsInv == IInv /\ HandlerWrap => IInv'
<1> SUFFICES ASSUME IInv, HandlerWrap PROVE IInv'
  OBVIOUS
<1>0. Typed /\ Written /\ GivenKept /\ PrivateBuildsAreExact
  BY DEF IInv
<1>1. PICK b, s, middleware, t :
        /\ b = build.builder /\ s = builders[b].slice
        /\ middleware = heap[s.array][s.len]
        /\ t = [array |-> s.array, len |-> s.len - 1]
  OBVIOUS
<1>2. /\ build # NoBuild /\ s.len > 0
      /\ UNCHANGED <<heap, owned, handlers, made>>
  BY <1>1 DEF HandlerWrap
<1>3. /\ b \in DOMAIN builders /\ b # 0
      /\ builders[b] \in Builders(made) /\ s \in SliceType
      /\ s.array \in DOMAIN heap
      /\ s.len \in 0 .. Len(heap[s.array]) /\ Len(heap[s.array]) \in Nat
      /\ s.len \in Nat /\ heap[s.array] \in Seq(0 .. made)
      /\ builders[b].given \in Seq(1 .. made) /\ Len(builders[b].given) \in Nat
      /\ build.chain \in Seq(1 .. made) /\ Len(build.chain) \in Nat
      /\ made \in Nat /\ Taken(b) = build.chain
  BY <1>1, <1>2, TurnTyped
<1>4. middleware \in 1 .. made
  <2>1. s.len \in 1 .. Len(heap[s.array]) /\ s.len \in 1 .. s.len
    BY <1>2, <1>3
  <2>2. middleware \in 0 .. made
    BY <1>1, <1>3, <2>1, ElementOfSeq
  <2>3. middleware >= 1
    BY <1>0, <1>1, <1>3, <2>1 DEF Written
  <2> QED
    BY <1>3, <2>2, <2>3
<1>5. t \in SliceType /\ t.array = s.array /\ t.len = s.len - 1 /\ t.len \in Nat
  <2>1. s.array \in Nat /\ s.len \in Nat /\ s.len > 0
    BY <1>2, <1>3 DEF SliceType
  <2>2. s.len - 1 \in Nat
    BY ONLY <2>1
  <2>3. t = [array |-> s.array, len |-> s.len - 1]
    BY <1>1
  <2> QED
    BY ONLY <2>1, <2>2, <2>3 DEF SliceType
<1>6. /\ handlers' \in Seq(Built(made)) /\ Len(handlers') <= MaxHandlers
      /\ PrivateBuildsAreExact' /\ Len(handlers') < MaxHandlers
  BY <1>0, <1>2 DEF Typed, PrivateBuildsAreExact
<1>7. PICK cut : cut = [[builders[b] EXCEPT !.slice.len = @ - 1] EXCEPT !.broken = TRUE]
  OBVIOUS
<1>8. PICK went : went = [builders[b] EXCEPT !.slice.len = @ - 1]
  OBVIOUS
<1>9. /\ went \in Builders(made) /\ went.slice = t /\ went.given = builders[b].given
      /\ went.spread = builders[b].spread /\ went.drained = builders[b].drained
      /\ went.broken = builders[b].broken
  <2>1. [s EXCEPT !.len = @ - 1] = t
    <3>1. PICK u : u = [s EXCEPT !.len = @ - 1]
      OBVIOUS
    <3>2. /\ u \in [array : Nat, len : Int] /\ u.array = s.array /\ u.len = s.len - 1
          /\ t \in [array : Nat, len : Int]
      <4>1. s \in [array : Nat, len : Nat] /\ s.len - 1 \in Int /\ s.array \in Nat
        BY ONLY <1>3 DEF SliceType
      <4>2. u = [array |-> s.array, len |-> s.len - 1]
        BY ONLY <3>1, <4>1
      <4>3. t \in [array : Nat, len : Int]
        BY ONLY <1>5 DEF SliceType
      <4> QED
        BY ONLY <4>1, <4>2, <4>3
    <3>3. u = t
      BY ONLY <1>5, <3>2
    <3> QED
      BY <3>1, <3>3
  <2>2. went = [builders[b] EXCEPT !.slice = t]
    BY <1>1, <1>8, <2>1
  <2> QED
    BY <1>3, <1>5, <2>2 DEF Builders
<1>10. /\ cut \in Builders(made) /\ cut.slice = t /\ cut.given = builders[b].given
       /\ cut.spread = builders[b].spread /\ cut.drained = builders[b].drained
       /\ cut.broken = TRUE
  <2>1. cut = [went EXCEPT !.broken = TRUE]
    BY <1>7, <1>8
  <2> QED
    BY <1>9, <2>1 DEF Builders
<1>11. \/ /\ build' = [build EXCEPT !.chain = <<middleware>> \o @]
          /\ builders' = [builders EXCEPT ![b].slice.len = @ - 1]
       \/ /\ build' = NoBuild
          /\ builders' = [builders EXCEPT ![b].slice.len = @ - 1, ![b].broken = TRUE]
  BY <1>1 DEF HandlerWrap
<1>12. /\ went.slice.array = builders[b].slice.array /\ went.slice.len <= builders[b].slice.len
       /\ cut.slice.array = builders[b].slice.array /\ cut.slice.len <= builders[b].slice.len
  BY <1>1, <1>3, <1>5, <1>9, <1>10
<1>13. DOMAIN builders = 1 .. Len(builders)
  BY <1>0, LenProperties DEF Typed
<1>14. CASE /\ build' = [build EXCEPT !.chain = <<middleware>> \o @]
            /\ builders' = [builders EXCEPT ![b].slice.len = @ - 1]
  <2>1. builders' = [builders EXCEPT ![b] = went]
    BY <1>8, <1>14
  <2>2. PICK chain : chain = <<middleware>> \o build.chain
    OBVIOUS
  <2>3. /\ chain \in Seq(1 .. made) /\ Len(chain) = Len(build.chain) + 1
        /\ chain[1] = middleware
        /\ \A i \in 1 .. Len(build.chain) : chain[i + 1] = build.chain[i]
    <3>1. PICK one : one = <<middleware>>
      OBVIOUS
    <3>2. one \in Seq(1 .. made) /\ Len(one) = 1 /\ one[1] = middleware
      BY <1>4, <3>1
    <3>3. /\ one \o build.chain \in Seq(1 .. made)
          /\ Len(one \o build.chain) = Len(one) + Len(build.chain)
          /\ \A i \in 1 .. Len(one) + Len(build.chain) :
                (one \o build.chain)[i] = IF i <= Len(one) THEN one[i] ELSE build.chain[i - Len(one)]
      BY <1>3, <3>2, ConcatProperties
    <3>4. chain = one \o build.chain
      BY <2>2, <3>1
    <3>5. \A i \in 1 .. 1 + Len(build.chain) :
             chain[i] = IF i <= 1 THEN one[i] ELSE build.chain[i - 1]
      BY <3>2, <3>3, <3>4
    <3>6. 1 \in 1 .. 1 + Len(build.chain)
      BY <1>3
    <3>7. \A i \in 1 .. Len(build.chain) :
             i + 1 \in 1 .. 1 + Len(build.chain) /\ ~ (i + 1 <= 1) /\ (i + 1) - 1 = i
      BY <1>3
    <3>8. chain[1] = middleware
      BY <3>2, <3>5, <3>6
    <3>9. \A i \in 1 .. Len(build.chain) : chain[i + 1] = build.chain[i]
      BY <3>5, <3>7
    <3>10. Len(chain) = Len(build.chain) + 1
      <4>1. Len(chain) = 1 + Len(build.chain)
        BY <3>2, <3>3, <3>4
      <4> QED
        BY ONLY <1>3, <4>1
    <3>11. chain \in Seq(1 .. made)
      BY <3>3, <3>4
    <3> QED
      BY <3>8, <3>9, <3>10, <3>11
  <2>4. build' = [builder |-> b, chain |-> chain]
    <3>1. build \in [builder : Nat, chain : Seq(1 .. made)]
      BY <1>0 DEF Typed
    <3> QED
      BY <1>1, <1>14, <2>2, <3>1
  <2>5. /\ build' \in [builder : Nat, chain : Seq(1 .. made)] /\ build'.builder = b
        /\ Taken(b)' = chain
    <3>1. b \in Nat
      BY <1>3, <1>13
    <3> QED
      BY <2>3, <2>4, <3>1 DEF Taken
  <2>6. ASSUME ~ went.spread, ~ went.broken
        PROVE  Parts(heap, went.slice, Taken(b)', went.given)
    <3>1. Parts(heap, s, build.chain, builders[b].given)
      BY <1>0, <1>1, <1>3, <1>9, <2>6 DEF GivenKept
    <3>2. /\ s.len + Len(build.chain) = Len(builders[b].given)
          /\ \A i \in 1 .. s.len : heap[s.array][i] = builders[b].given[i]
          /\ \A i \in 1 .. Len(build.chain) : build.chain[i] = builders[b].given[s.len + i]
      BY <3>1 DEF Parts
    <3>3. t.len + Len(chain) = Len(builders[b].given)
      <4>1. /\ s.len \in Nat /\ Len(build.chain) \in Nat /\ t.len = s.len - 1
            /\ Len(chain) = Len(build.chain) + 1
        BY <1>3, <1>5, <2>3
      <4>2. t.len + Len(chain) = s.len + Len(build.chain)
        BY ONLY <4>1
      <4> QED
        BY <3>2, <4>2
    <3>4. \A i \in 1 .. t.len : heap[t.array][i] = builders[b].given[i]
      <4>1. \A i \in 1 .. t.len : i \in 1 .. s.len
        BY <1>3, <1>5
      <4> QED
        BY <1>5, <3>2, <4>1
    <3>5. ASSUME NEW i \in 1 .. Len(chain) PROVE chain[i] = builders[b].given[t.len + i]
      <4>1. CASE i = 1
        <5>1. s.len \in Nat /\ s.len > 0 /\ t.len = s.len - 1
          BY <1>2, <1>3, <1>5
        <5>2. t.len + i = s.len /\ s.len \in 1 .. s.len
          BY ONLY <4>1, <5>1
        <5>3. chain[i] = heap[s.array][s.len]
          BY <1>1, <2>3, <4>1
        <5> QED
          BY <3>2, <5>2, <5>3
      <4>2. CASE i # 1
        <5>1. PICK j \in 1 .. Len(build.chain) : i = j + 1
          <6>1. i - 1 \in 1 .. Len(build.chain) /\ i = (i - 1) + 1
            BY <1>3, <2>3, <4>2
          <6> QED
            BY <6>1
        <5>2. t.len + i = s.len + j
          <6>1. s.len \in Nat /\ t.len = s.len - 1 /\ j \in Int
            BY <1>3, <1>5
          <6> QED
            BY ONLY <5>1, <6>1
        <5> QED
          BY <2>3, <3>2, <5>1, <5>2
      <4> QED
        BY <4>1, <4>2
    <3> QED
      BY <1>9, <2>5, <3>3, <3>4, <3>5 DEF Parts
  <2>7. went.drained \/ ~ builders[b].drained
    BY <1>9
  <2>8. went.broken \/ ~ builders[b].broken
    BY <1>9
  <2> QED
    BY <1>1, <1>2, <1>6, <1>9, <1>12, <2>1, <2>5, <2>6, <2>7, <2>8, TurnKeepsInv
<1>15. CASE /\ build' = NoBuild
            /\ builders' = [builders EXCEPT ![b].slice.len = @ - 1, ![b].broken = TRUE]
  <2>1. builders' = [builders EXCEPT ![b] = cut]
    BY <1>3, <1>7, <1>15
  <2>2. build' \in [builder : Nat, chain : Seq(1 .. made)]
    BY <1>15 DEF NoBuild
  <2>3. cut.drained \/ ~ builders[b].drained
    BY <1>10
  <2> QED
    BY <1>1, <1>2, <1>6, <1>10, <1>12, <1>15, <2>1, <2>2, <2>3, TurnKeepsInv
<1> QED
  BY <1>11, <1>14, <1>15

LEMMA HandlerReturnKeepsInv == IInv /\ HandlerReturn => IInv'
<1> SUFFICES ASSUME IInv, HandlerReturn PROVE IInv'
  OBVIOUS
<1>0. Typed /\ GivenKept /\ PrivateBuildsAreExact
  BY DEF IInv
<1>1. PICK b, s : b = build.builder /\ s = builders[b].slice
  OBVIOUS
<1>2. /\ build # NoBuild /\ s.len = 0 /\ build' = NoBuild
      /\ UNCHANGED <<heap, owned, made>>
  BY <1>1 DEF HandlerReturn
<1>3. /\ b \in DOMAIN builders /\ b # 0
      /\ builders[b] \in Builders(made) /\ s \in SliceType
      /\ builders[b].given \in Seq(1 .. made) /\ Len(builders[b].given) \in Nat
      /\ build.chain \in Seq(1 .. made) /\ Len(build.chain) \in Nat
      /\ made \in Nat /\ Taken(b) = build.chain
  BY <1>1, <1>2, TurnTyped
<1>4. PICK built : built = [chain |-> build.chain, given |-> builders[b].given,
                            spread |-> builders[b].spread, broken |-> builders[b].broken]
  OBVIOUS
<1>5. /\ built \in Built(made) /\ built.chain = build.chain /\ built.given = builders[b].given
      /\ built.spread = builders[b].spread /\ built.broken = builders[b].broken
  BY <1>3, <1>4 DEF Built, Builders
<1>6. ASSUME ~ built.spread, ~ built.broken PROVE built.chain = built.given
  <2>1. Parts(heap, s, build.chain, builders[b].given)
    BY <1>0, <1>1, <1>3, <1>5, <1>6 DEF GivenKept
  <2>2. /\ 0 + Len(build.chain) = Len(builders[b].given)
        /\ \A i \in 1 .. Len(build.chain) : build.chain[i] = builders[b].given[0 + i]
    BY <1>2, <2>1 DEF Parts
  <2>3. /\ Len(build.chain) = Len(builders[b].given)
        /\ \A i \in 1 .. Len(build.chain) : build.chain[i] = builders[b].given[i]
    BY <1>3, <2>2
  <2>4. build.chain = builders[b].given
    BY <1>3, <2>3, SeqEqual
  <2> QED
    BY <1>5, <2>4
<1>7. handlers \in Seq(Built(made)) /\ handlers' = Append(handlers, built)
  BY <1>0, <1>1, <1>4 DEF Typed, HandlerReturn
<1>8. /\ handlers' \in Seq(Built(made)) /\ Len(handlers') = Len(handlers) + 1
      /\ \A h \in 1 .. Len(handlers) : handlers'[h] = handlers[h]
      /\ handlers'[Len(handlers) + 1] = built
  BY <1>5, <1>7, AppendProperties
<1>9. /\ DOMAIN handlers = 1 .. Len(handlers) /\ Len(handlers) \in Nat
      /\ DOMAIN handlers' = 1 .. Len(handlers) + 1
  BY <1>7, <1>8, LenProperties
<1>10. PrivateBuildsAreExact'
  <2>1. \A h \in DOMAIN handlers' : h \in DOMAIN handlers \/ h = Len(handlers) + 1
    BY <1>9
  <2> QED
    BY <1>0, <1>6, <1>8, <1>9, <2>1 DEF PrivateBuildsAreExact
<1>11. PICK new : new = [[builders[b] EXCEPT !.given = <<>>] EXCEPT !.drained = TRUE]
  OBVIOUS
<1>12. /\ new \in Builders(made) /\ new.slice = s /\ new.given = <<>>
       /\ new.spread = builders[b].spread /\ new.drained = TRUE
       /\ new.broken = builders[b].broken
  <2>1. <<>> \in Seq(1 .. made)
    OBVIOUS
  <2> QED
    BY <1>1, <1>3, <1>11, <2>1 DEF Builders
<1>13. builders' = [builders EXCEPT ![b] = new]
  BY <1>1, <1>3, <1>11 DEF HandlerReturn
<1>14. Parts(heap, new.slice, Taken(b)', new.given)
  <2>1. Taken(b)' = <<>> /\ Len(<<>>) = 0
    BY <1>2, <1>3 DEF Taken, NoBuild
  <2> QED
    BY <1>2, <1>12, <2>1 DEF Parts
<1>15. build' \in [builder : Nat, chain : Seq(1 .. made)]
  BY <1>2 DEF NoBuild
<1>16. /\ new.slice.array = builders[b].slice.array
       /\ new.slice.len <= builders[b].slice.len
       /\ new.broken \/ ~ builders[b].broken
  BY <1>1, <1>2, <1>12
<1>17. /\ Len(handlers') <= MaxHandlers
  BY <1>0, <1>2, <1>8, <1>9, PipeAssumption DEF Typed
<1> QED
  BY <1>1, <1>2, <1>8, <1>10, <1>12, <1>13, <1>14, <1>15, <1>16, <1>17, TurnKeepsInv

-----------------------------------------------------------------------------

LEMMA StutterKeepsInv == IInv /\ UNCHANGED vars => IInv'
<1> SUFFICES ASSUME IInv, UNCHANGED vars PROVE IInv'
  OBVIOUS
<1>1. /\ heap' = heap /\ owned' = owned /\ builders' = builders /\ handlers' = handlers
      /\ build' = build /\ made' = made
  BY DEF vars
<1>2. Typed'
  BY <1>1 DEF IInv, Typed, IsSlice
<1>3. Written' /\ Apart' /\ GivenKept'
  BY <1>1 DEF IInv, Written, Apart, GivenKept, Taken
<1>4. PrivateBuildsAreExact' /\ LongEnough' /\ CallersCells'
  BY <1>1 DEF IInv, PrivateBuildsAreExact, LongEnough, CallersCells, Sound
<1> QED
  BY <1>2, <1>3, <1>4 DEF IInv

LEMMA NextInv == IInv /\ [Next]_vars => IInv'
<1> SUFFICES ASSUME IInv, [Next]_vars PROVE IInv'
  OBVIOUS
<1>1. ASSUME NEW n \in 0 .. MaxMiddlewares, Pipe(n) PROVE IInv'
  BY <1>1, PipeKeepsInv
<1>2. CASE PipeSpread
  BY <1>2, PipeSpreadKeepsInv
<1>3. ASSUME NEW b \in DOMAIN builders, PipeAdd(b) PROVE IInv'
  BY <1>3, PipeAddKeepsInv
<1>4. ASSUME NEW b \in DOMAIN builders, Handler(b) PROVE IInv'
  BY <1>4, HandlerKeepsInv
<1>5. CASE HandlerWrap
  BY <1>5, HandlerWrapKeepsInv
<1>6. CASE HandlerReturn
  BY <1>6, HandlerReturnKeepsInv
<1>7. CASE UNCHANGED vars
  BY <1>7, StutterKeepsInv
<1> QED
  BY <1>1, <1>2, <1>3, <1>4, <1>5, <1>6, <1>7 DEF Next

(* The inductive invariant holds throughout.                               *)
THEOREM Invariance == Spec => []IInv
<1> QED
  BY InitInv, NextInv, PTL DEF Spec

(* The state of the builders is well formed: every slice, the caller's and *)
(* a builder's, lies within its array, also while Handler empties it.      *)
THEOREM TypeCorrect == Spec => []TypeOK
<1>1. ASSUME IInv PROVE TypeOK
  <2>1. Typed
    BY <1>1 DEF IInv
  <2>2. made \in 0 .. MaxMiddlewares /\ IsSlice(owned)
    BY <2>1, OwnedTyped, PipeAssumption DEF Typed
  <2>3. \A a \in DOMAIN heap : heap[a] \in Seq(0 .. made)
    BY <2>1, ElementOfSeq, LenProperties DEF Typed
  <2>4. /\ Len(builders) \in Nat /\ Len(handlers) \in Nat
        /\ DOMAIN builders = 1 .. Len(builders) /\ DOMAIN handlers = 1 .. Len(handlers)
    BY <2>1, LenProperties DEF Typed
  <2>5. Len(builders) \in 0 .. MaxBuilders /\ Len(handlers) \in 0 .. MaxHandlers
    BY <2>1, <2>4, PipeAssumption DEF Typed
  <2>6. ASSUME NEW b \in DOMAIN builders
        PROVE  /\ IsSlice(builders[b].slice)
               /\ builders[b].given \in Seq(1 .. made)
               /\ {builders[b].spread, builders[b].drained, builders[b].broken} \subseteq BOOLEAN
    <3>1. builders[b] \in Builders(made)
      BY <2>1, BuilderTyped
    <3>2. IsSlice(builders[b].slice)
      BY <2>1 DEF Typed
    <3> QED
      BY <3>1, <3>2 DEF Builders
  <2>7. ASSUME NEW h \in DOMAIN handlers PROVE handlers[h].chain \in Seq(1 .. made)
    <3>1. handlers[h] \in Built(made)
      BY <2>1, <2>4, ElementOfSeq DEF Typed
    <3> QED
      BY <3>1 DEF Built
  <2>8. build.builder \in 0 .. Len(builders) /\ build.chain \in Seq(1 .. made)
    <3>1. CASE build = NoBuild
      BY <2>4, <3>1 DEF NoBuild
    <3>2. CASE build # NoBuild
      BY <2>1, <2>4, <3>2 DEF Typed
    <3> QED
      BY <3>1, <3>2
  <2> QED
    BY <2>2, <2>3, <2>5, <2>6, <2>7, <2>8 DEF TypeOK
<1> QED
  BY <1>1, Invariance, PTL

(* A builder with a list of its own whose middlewares do not panic builds, *)
(* each time, exactly what was added since it was last emptied, the first  *)
(* added outermost; no other builder and not the caller can disturb it.    *)
THEOREM PrivateBuilds == Spec => []PrivateBuildsAreExact
<1>1. IInv => PrivateBuildsAreExact
  BY DEF IInv
<1> QED
  BY <1>1, Invariance, PTL

(* Nobody writes into the list the caller spread into Pipe, unless a       *)
(* builder over it is added to after Handler emptied it or a panic cut it. *)
THEOREM CallersSlice == Spec => []CallersSliceIsKept
<1>1. ASSUME IInv, \A b \in DOMAIN builders : Sound(b)
      PROVE  Contents(heap, owned) = OwnedMiddlewares
  <2>1. Typed /\ heap[1][1] = 1 /\ heap[1][2] = 2
    BY <1>1 DEF IInv, CallersCells
  <2>2. owned \in SliceType /\ owned.array = 1 /\ owned.len = 2 /\ IsSlice(owned)
    BY <2>1, OwnedTyped
  <2>3. heap \in Seq(Seq(0 .. made))
    BY <2>1 DEF Typed
  <2>4. /\ Contents(heap, owned) \in Seq(0 .. made)
        /\ Len(Contents(heap, owned)) = owned.len
        /\ \A i \in 1 .. owned.len : Contents(heap, owned)[i] = heap[owned.array][i]
    BY <2>2, <2>3, ContentsAreCells DEF IsSlice
  <2>5. 1 \in 1 .. 2 /\ 2 \in 1 .. 2 /\ \A i \in 1 .. 2 : i = 1 \/ i = 2
    OBVIOUS
  <2>6. PICK c : c = Contents(heap, owned)
    OBVIOUS
  <2>7. Len(c) = 2 /\ c[1] = 1 /\ c[2] = 2 /\ c \in Seq(0 .. made)
    BY <2>1, <2>2, <2>4, <2>5, <2>6
  <2>8. /\ <<1, 2>> \in Seq(Nat) /\ Len(<<1, 2>>) = 2
        /\ <<1, 2>>[1] = 1 /\ <<1, 2>>[2] = 2
    OBVIOUS
  <2>9. c \in Seq(Int) /\ <<1, 2>> \in Seq(Int)
    <3>1. 0 .. made \subseteq Int /\ Nat \subseteq Int
      OBVIOUS
    <3> QED
      BY <2>7, <2>8, <3>1, SeqMonotonic
  <2>10. \A i \in 1 .. Len(c) : c[i] = <<1, 2>>[i]
    BY <2>5, <2>7, <2>8
  <2>11. c = <<1, 2>>
    BY <2>7, <2>8, <2>9, <2>10, SeqEqual
  <2> QED
    BY <2>6, <2>11 DEF OwnedMiddlewares
<1>2. IInv => CallersSliceIsKept
  BY <1>1 DEF CallersSliceIsKept, Sound
<1> QED
  BY <1>2, Invariance, PTL

-----------------------------------------------------------------------------

(* HandlerErrorRecovery.                                                   *)

(* The call in which the wrapped Handle came back as i, the callback was   *)
(* told t and panicked in the places b.                                    *)
Story(g, i, t, b) == inner[g] = i /\ told[g] = t /\ broke[g] = b

Untold(g) == Story(g, "none", <<>>, {})

(* What the deferred function may find: a panic of the wrapped handler, or *)
(* of the callback that was told of an error.  b are its own panics.       *)
Recovering(g, b) ==
  \/ Story(g, "panic", <<"panic">>, b)
  \/ Story(g, "error", <<"error", "callback">>, {"body"} \cup b)

CallInv(g) ==
  /\ pc[g] \in {"idle", "dropped", "Enabled", "Handle"} => Untold(g) /\ result[g] = "nil"
  /\ pc[g] = "body" => Story(g, "error", <<"error">>, {}) /\ result[g] = "nil"
  /\ pc[g] = "deferred" => Recovering(g, {}) /\ result[g] = "nil"
  /\ pc[g] = "panicked" => Untold(g) \/ Recovering(g, {"deferred"})
  /\ pc[g] = "returned" =>
        \/ Story(g, "ok", <<>>, {}) /\ result[g] = "nil"
        \/ Story(g, "error", <<"error">>, {}) /\ result[g] = "error"
        \/ Recovering(g, {}) /\ result[g] = "nil"

RecoveryInv ==
  /\ pc \in [Goroutine -> Rest \cup Place \cup {"Enabled", "Handle"}]
  /\ result \in [Goroutine -> {"nil", "error"}]
  /\ told \in [Goroutine -> Seq(Failure \cup {"callback"})]
  /\ inner \in [Goroutine -> Failure \cup {"none", "ok"}]
  /\ broke \in [Goroutine -> SUBSET Place]
  /\ \A g \in Goroutine : CallInv(g)

-----------------------------------------------------------------------------

(* The steps of the others do not touch the call of goroutine h.           *)
Untouched(h) ==
  /\ pc'[h] = pc[h] /\ result'[h] = result[h] /\ told'[h] = told[h]
  /\ inner'[h] = inner[h] /\ broke'[h] = broke[h]

LEMMA UntouchedKeepsInv ==
  ASSUME NEW h \in Goroutine, CallInv(h), Untouched(h)
  PROVE  CallInv(h)'
BY DEF CallInv, Untold, Recovering, Story, Untouched

(* Sequences of at most two elements, which is all that told ever is.      *)
LEMMA ShortSequences ==
  ASSUME NEW a, NEW b
  PROVE  /\ Append(<<a>>, b) = <<a, b>>
         /\ <<a>> \o <<b>> = <<a, b>>
         /\ <<a>> \o <<>> = <<a>>
         /\ <<>> \o <<>> = <<>>
         /\ Len(<<>>) = 0 /\ Len(<<a>>) = 1 /\ Len(<<a, b>>) = 2
<1> DEFINE S == {a, b}
<1>1. <<>> \in Seq(S) /\ <<a>> \in Seq(S) /\ <<b>> \in Seq(S) /\ <<a, b>> \in Seq(S)
  OBVIOUS
<1>2. Len(<<>>) = 0 /\ Len(<<a>>) = 1 /\ Len(<<b>>) = 1 /\ Len(<<a, b>>) = 2
  OBVIOUS
<1>3. <<a>> \o <<>> = <<a>> /\ <<>> \o <<>> = <<>>
  BY <1>1, ConcatEmptySeq
<1>4. Append(<<a>>, b) = <<a, b>>
  <2>1. /\ Append(<<a>>, b) \in Seq(S) /\ Len(Append(<<a>>, b)) = 2
        /\ Append(<<a>>, b)[1] = a /\ Append(<<a>>, b)[2] = b
    BY <1>1, <1>2, AppendProperties
  <2>2. \A i \in 1 .. 2 : Append(<<a>>, b)[i] = <<a, b>>[i]
    BY <2>1
  <2> QED
    BY <1>1, <1>2, <2>1, <2>2, SeqEqual
<1>5. <<a>> \o <<b>> = <<a, b>>
  <2>1. /\ <<a>> \o <<b>> \in Seq(S) /\ Len(<<a>> \o <<b>>) = 2
        /\ (<<a>> \o <<b>>)[1] = a /\ (<<a>> \o <<b>>)[2] = b
    BY <1>1, <1>2, ConcatProperties
  <2>2. \A i \in 1 .. 2 : (<<a>> \o <<b>>)[i] = <<a, b>>[i]
    BY <2>1
  <2> QED
    BY <1>1, <1>2, <2>1, <2>2, SeqEqual
<1> QED
  BY <1>2, <1>3, <1>4, <1>5

(* Nothing has happened before the first call.                             *)
LEMMA RecoveryInitInv == RecoveryInit => RecoveryInv
BY DEF RecoveryInit, RecoveryInv, CallInv, Untold, Recovering, Story, Rest, Place, Failure

(* A new call begins without a story.                                      *)
LEMMA CallKeepsInv ==
  ASSUME RecoveryInv, NEW g \in Goroutine, NEW method \in {"Enabled", "Handle"}, Call(g, method)
  PROVE  RecoveryInv'
<1>1. CallInv(g)'
  BY DEF Call, RecoveryInv, CallInv, Untold, Recovering, Story
<1>2. ASSUME NEW h \in Goroutine, h # g PROVE CallInv(h)'
  BY <1>2, UntouchedKeepsInv DEF Call, RecoveryInv, Untouched
<1> QED
  BY <1>1, <1>2 DEF Call, RecoveryInv, Rest, Place, Failure

(* Enabled adds nothing to it.                                             *)
LEMMA EnabledKeepsInv ==
  ASSUME RecoveryInv, NEW g \in Goroutine, Enabled(g)
  PROVE  RecoveryInv'
<1>1. PICK answer \in {"Handle", "dropped", "panicked"} : pc' = [pc EXCEPT ![g] = answer]
  BY DEF Enabled
<1>2. CallInv(g)'
  BY <1>1 DEF Enabled, RecoveryInv, CallInv, Untold, Recovering, Story
<1>3. ASSUME NEW h \in Goroutine, h # g PROVE CallInv(h)'
  BY <1>1, <1>3, UntouchedKeepsInv DEF Enabled, RecoveryInv, Untouched
<1> QED
  BY <1>1, <1>2, <1>3 DEF Enabled, RecoveryInv, Rest, Place, Failure

(* The wrapped handler comes back: its failure is the first thing told.    *)
LEMMA HandleKeepsInv ==
  ASSUME RecoveryInv, NEW g \in Goroutine, NEW outcome \in Failure \cup {"ok"}, Handle(g, outcome)
  PROVE  RecoveryInv'
<1>1. pc[g] = "Handle" /\ Untold(g) /\ result[g] = "nil" /\ UNCHANGED <<result, broke>>
  BY DEF Handle, RecoveryInv, CallInv
<1>2. Append(told[g], outcome) = <<outcome>>
  BY <1>1 DEF Untold, Story
<1>3. CASE outcome = "ok"
  <2>1. /\ pc' = [pc EXCEPT ![g] = "returned"] /\ UNCHANGED told
        /\ inner' = [inner EXCEPT ![g] = "ok"]
    BY <1>3 DEF Handle
  <2>2. CallInv(g)'
    BY <1>1, <2>1 DEF RecoveryInv, CallInv, Untold, Story
  <2>3. ASSUME NEW h \in Goroutine, h # g PROVE CallInv(h)'
    BY <1>1, <2>1, <2>3, UntouchedKeepsInv DEF RecoveryInv, Untouched
  <2> QED
    BY <1>1, <2>1, <2>2, <2>3 DEF RecoveryInv, Rest, Failure
<1>4. ASSUME NEW place \in Place, outcome \in Failure,
             place = IF outcome = "error" THEN "body" ELSE "deferred",
             pc' = [pc EXCEPT ![g] = place]
      PROVE  RecoveryInv'
  <2>1. told' = [told EXCEPT ![g] = <<outcome>>] /\ inner' = [inner EXCEPT ![g] = outcome]
    BY <1>2, <1>4 DEF Handle, Failure
  <2>2. CallInv(g)'
    BY <1>1, <1>4, <2>1 DEF RecoveryInv, CallInv, Untold, Recovering, Story, Place, Failure
  <2>3. ASSUME NEW h \in Goroutine, h # g PROVE CallInv(h)'
    BY <1>1, <1>4, <2>1, <2>3, UntouchedKeepsInv DEF RecoveryInv, Untouched
  <2>4. <<outcome>> \in Seq(Failure \cup {"callback"})
    BY <1>4
  <2> QED
    BY <1>1, <1>4, <2>1, <2>2, <2>3, <2>4 DEF RecoveryInv, Rest, Place, Failure
<1> QED
  BY <1>3, <1>4 DEF Handle, Failure, Place

(* The callback comes back to the body, and the error is returned.         *)
LEMMA PropagateKeepsInv ==
  ASSUME RecoveryInv, NEW g \in Goroutine, Propagate(g)
  PROVE  RecoveryInv'
<1>1. CallInv(g)'
  BY DEF Propagate, RecoveryInv, CallInv, Untold, Recovering, Story
<1>2. ASSUME NEW h \in Goroutine, h # g PROVE CallInv(h)'
  BY <1>2, UntouchedKeepsInv DEF Propagate, RecoveryInv, Untouched
<1> QED
  BY <1>1, <1>2 DEF Propagate, RecoveryInv, Rest, Place, Failure

(* The callback panics in the body, and is told of its own panic.          *)
LEMMA RecoveryPanicsKeepsInv ==
  ASSUME RecoveryInv, NEW g \in Goroutine, RecoveryPanics(g)
  PROVE  RecoveryInv'
<1>1. Story(g, "error", <<"error">>, {}) /\ result[g] = "nil"
  BY DEF RecoveryPanics, RecoveryInv, CallInv
<1>2. Append(told[g], "callback") = <<"error", "callback">>
  BY <1>1, ShortSequences DEF Story
<1>3. told' = [told EXCEPT ![g] = <<"error", "callback">>]
  BY <1>2 DEF RecoveryPanics
<1>4. <<"error", "callback">> \in Seq(Failure \cup {"callback"})
  BY DEF Failure
<1>5. CallInv(g)'
  BY <1>1, <1>3 DEF RecoveryPanics, RecoveryInv, CallInv, Recovering, Story
<1>6. ASSUME NEW h \in Goroutine, h # g PROVE CallInv(h)'
  BY <1>3, <1>6, UntouchedKeepsInv DEF RecoveryPanics, RecoveryInv, Untouched
<1> QED
  BY <1>3, <1>4, <1>5, <1>6 DEF RecoveryPanics, RecoveryInv, Rest, Place, Failure

(* The deferred function ends, by return or by the callback's panic.       *)
LEMMA RecoveredKeepsInv ==
  ASSUME RecoveryInv, NEW g \in Goroutine, Recovered(g)
  PROVE  RecoveryInv'
<1>1. Recovering(g, {}) /\ result[g] = "nil" /\ UNCHANGED <<result, told, inner>>
  BY DEF Recovered, RecoveryInv, CallInv
<1>2. CASE pc' = [pc EXCEPT ![g] = "returned"] /\ UNCHANGED broke
  <2>1. CallInv(g)'
    BY <1>1, <1>2 DEF RecoveryInv, CallInv, Recovering, Story
  <2>2. ASSUME NEW h \in Goroutine, h # g PROVE CallInv(h)'
    BY <1>1, <1>2, <2>2, UntouchedKeepsInv DEF RecoveryInv, Untouched
  <2> QED
    BY <1>1, <1>2, <2>1, <2>2 DEF RecoveryInv, Rest
<1>3. CASE /\ pc' = [pc EXCEPT ![g] = "panicked"]
           /\ broke' = [broke EXCEPT ![g] = @ \cup {"deferred"}]
  <2>1. CallInv(g)'
    BY <1>1, <1>3 DEF RecoveryInv, CallInv, Recovering, Story
  <2>2. ASSUME NEW h \in Goroutine, h # g PROVE CallInv(h)'
    BY <1>1, <1>3, <2>2, UntouchedKeepsInv DEF RecoveryInv, Untouched
  <2> QED
    BY <1>1, <1>3, <2>1, <2>2 DEF RecoveryInv, Rest, Place
<1> QED
  BY <1>2, <1>3 DEF Recovered

(* Every step preserves the invariant.                                     *)
LEMMA RecoveryNextInv == RecoveryInv /\ [RecoveryNext]_recoveryVars => RecoveryInv'
<1> SUFFICES ASSUME RecoveryInv, [RecoveryNext]_recoveryVars PROVE RecoveryInv'
  OBVIOUS
<1>1. CASE RecoveryNext
  BY <1>1, CallKeepsInv, EnabledKeepsInv, HandleKeepsInv, PropagateKeepsInv,
     RecoveryPanicsKeepsInv, RecoveredKeepsInv DEF RecoveryNext
<1>2. CASE UNCHANGED recoveryVars
  BY <1>2 DEF recoveryVars, RecoveryInv, CallInv, Untold, Recovering, Story
<1> QED
  BY <1>1, <1>2

(* The invariant holds in every reachable state.                           *)
THEOREM RecoveryInvariance == RecoverySpec => []RecoveryInv
BY RecoveryInitInv, RecoveryNextInv, PTL DEF RecoverySpec

-----------------------------------------------------------------------------

(* The variables of HandlerErrorRecovery stay in their types, and the      *)
(* callback is called at most twice in a call.                             *)
THEOREM RecoveryTypeCorrect == RecoverySpec => []RecoveryTypeOK
<1>1. RecoveryInv => RecoveryTypeOK
  <2> SUFFICES ASSUME RecoveryInv, NEW g \in Goroutine PROVE Len(told[g]) <= 2
    BY DEF RecoveryInv, RecoveryTypeOK
  <2>1. told[g] \in {<<>>, <<"error">>, <<"panic">>, <<"error", "callback">>}
    BY DEF RecoveryInv, CallInv, Untold, Recovering, Story, Rest, Place
  <2>2. /\ Len(<<>>) = 0 /\ Len(<<"error">>) = 1 /\ Len(<<"panic">>) = 1
        /\ Len(<<"error", "callback">>) = 2
    BY ShortSequences
  <2>3. Len(told[g]) \in {0, 1, 2}
    BY <2>1, <2>2, Zenon
  <2>4. \A n \in {0, 1, 2} : n <= 2
    OBVIOUS
  <2> QED
    BY <2>3, <2>4, Zenon
<1> QED
  BY <1>1, RecoveryInvariance, PTL

(* For any number of goroutines: the callback hears the handler's failure, *)
(* and again only about its own panic.                                     *)
THEOREM EveryFailureIsHeard == RecoverySpec => []CallbackHearsEveryFailure
<1>1. RecoveryInv => CallbackHearsEveryFailure
  <2> SUFFICES ASSUME RecoveryInv, NEW g \in Goroutine, pc[g] \in {"returned", "panicked"}
               PROVE  told[g] = (IF inner[g] \in Failure THEN <<inner[g]>> ELSE <<>>)
                                \o (IF "body" \in broke[g] THEN <<"callback">> ELSE <<>>)
    BY DEF CallbackHearsEveryFailure
  <2>1. \/ Untold(g) \/ Story(g, "ok", <<>>, {}) \/ Story(g, "error", <<"error">>, {})
        \/ Recovering(g, {}) \/ Recovering(g, {"deferred"})
    BY DEF RecoveryInv, CallInv
  <2>2. /\ <<>> \o <<>> = <<>>
        /\ <<"error">> \o <<>> = <<"error">>
        /\ <<"panic">> \o <<>> = <<"panic">>
        /\ <<"error">> \o <<"callback">> = <<"error", "callback">>
    BY ShortSequences
  <2> QED
    BY <2>1, <2>2 DEF Untold, Recovering, Story, Failure
<1> QED
  BY <1>1, RecoveryInvariance, PTL

(* For any number of goroutines: once Handle has begun, only a callback    *)
(* that panics in the deferred function lets a panic out of it.            *)
THEOREM NoPanicEscapes == RecoverySpec => []PanicsAreContained
<1>1. RecoveryInv => PanicsAreContained
  BY DEF RecoveryInv, CallInv, PanicsAreContained, Untold, Recovering, Story
<1> QED
  BY <1>1, RecoveryInvariance, PTL

(* "Propagating the original error": an error that the callback came back  *)
(* from is returned.                                                       *)
THEOREM ErrorsReachTheCaller == RecoverySpec => []ErrorsPropagate
<1>1. RecoveryInv => ErrorsPropagate
  BY DEF RecoveryInv, CallInv, ErrorsPropagate, Untold, Recovering, Story
<1> QED
  BY <1>1, RecoveryInvariance, PTL
=============================================================================
