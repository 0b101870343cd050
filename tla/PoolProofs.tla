----------------------------- MODULE PoolProofs -----------------------------
(***************************************************************************)
(* PoolHandler keeps its promises for any number of goroutines, children   *)
(* and levels.  The walk around the slice is undone by Turn, which says at *)
(* which turn a child is visited; seen through it the loop is the one of   *)
(* the failover, and what is left to show is that Turn and Slot are each   *)
(* other's inverse.                                                        *)
(***************************************************************************)
EXTENDS Pool, TLAPS

(* The turn at which a walk that begins at s visits child c.               *)
Turn(s, c) == ((c - 1 - s) % size) + 1

TurnOf(g, c) == Turn(start[g], c)

(* Nobody was tried before the call has entered the loop, and in the loop  *)
(* the children visited so far were disabled or failed.  While err is nil, *)
(* all of those were disabled.                                             *)
LoopInv(g) ==
  pc[g] \in {"loop", "child"} =>
     /\ size # 0
     /\ \A c \in Children :
           /\ TurnOf(g, c) < pos[g] => /\ fate[g][c] \in {"disabled", "error", "panic"}
                                       /\ err[g] = Nil => fate[g][c] = "disabled"
                                       /\ fate[g][c] = "disabled" /\ fresh[g] => ~ Admits(g, c)
           /\ TurnOf(g, c) = pos[g] =>
                 fate[g][c] = IF pc[g] = "child" THEN "running" ELSE "untried"
           /\ TurnOf(g, c) > pos[g] => fate[g][c] = "untried"
     /\ pc[g] = "child" => pos[g] <= size

(* The children settled in a call are those the walk has visited.          *)
WalkInv(g) ==
  pc[g] \in {"loop", "child", "returned"} /\ size # 0 =>
     /\ start[g] \in Starts
     /\ \A c \in Children :
           fate[g][c] \notin {"untried", "running"} <=> TurnOf(g, c) < pos[g]

(* A nil error stands for one child that accepted the record, or for none  *)
(* that wanted it.                                                         *)
ReturnedInv(g) ==
  pc[g] = "returned" /\ err[g] = Nil =>
     \/ \E c \in Children : /\ fate[g][c] = "ok"
                            /\ \A d \in Children \ {c} : fate[g][d] # "ok"
     \/ fresh[g] => \A c \in Children : ~ Admits(g, c)

(* A child was attempted because it is enabled, and passed over because it *)
(* is not, unless a level moved since.                                     *)
AskedInv(g) ==
  pc[g] \in {"loop", "child", "returned"} /\ fresh[g] =>
     \A c \in Children : /\ fate[g][c] = "disabled" => ~ Admits(g, c)
                         /\ fate[g][c] \in Outcome \cup {"running"} => Admits(g, c)

(* The walk ended at the child that accepted the record, or at the end.    *)
EndInv(g) ==
  pc[g] = "returned" =>
     \/ \E c \in Children :
           /\ fate[g][c] = "ok"
           /\ \A d \in Children \ {c} :
                 \/ TurnOf(g, d) < TurnOf(g, c) /\ fate[g][d] \in {"disabled", "error", "panic"}
                 \/ TurnOf(g, d) > TurnOf(g, c) /\ fate[g][d] = "untried"
     \/ \A c \in Children : fate[g][c] \in {"disabled", "error", "panic"}

CallInv(g) ==
  EnabledInv(g) /\ LoopInv(g) /\ WalkInv(g) /\ ReturnedInv(g) /\ AskedInv(g) /\ EndInv(g)

IInv ==
  /\ TypeOK
  /\ \A g \in Goroutine : CallInv(g)

-----------------------------------------------------------------------------

(* A turn of the Enabled loop keeps the types.                             *)
LEMMA EnabledTyped ==
  ASSUME DispatchTypeOK, NEW g \in Goroutine, Enabled(g)
  PROVE  DispatchTypeOK'
<1>1. UNCHANGED <<size, threshold, level, fate, fresh>>
  BY DEF Enabled
<1>2. pos' \in [Goroutine -> 1 .. size + 1]
  BY DEF Enabled, DispatchTypeOK
<1>3. pc' \in [Goroutine -> Control]
  BY DEF Enabled, DispatchTypeOK, Control, Rest
<1> QED
  BY <1>1, <1>2, <1>3 DEF DispatchTypeOK, Children

(* A turn of a Handle loop keeps the types.                                *)
LEMMA VisitTyped ==
  ASSUME DispatchTypeOK, NEW g \in Goroutine, NEW c \in Children, Visit(g, c)
  PROVE  DispatchTypeOK'
<1>1. UNCHANGED <<size, threshold, level, fresh>>
  BY DEF Visit
<1>2. CASE fate' = [fate EXCEPT ![g][c] = "running"] /\ pc' = [pc EXCEPT ![g] = "child"] /\ UNCHANGED pos
  BY <1>1, <1>2 DEF DispatchTypeOK, Children, Control, Fate
<1>3. CASE fate' = [fate EXCEPT ![g][c] = "disabled"] /\ pos' = [pos EXCEPT ![g] = @ + 1] /\ UNCHANGED pc
  <2>1. pos[g] + 1 \in 1 .. size + 1
    BY DEF Visit, DispatchTypeOK
  <2> QED
    BY <1>1, <1>3, <2>1 DEF DispatchTypeOK, Children, Fate
<1>4. CASE pc' = [pc EXCEPT ![g] = "panicked"] /\ UNCHANGED <<pos, fate>>
  BY <1>1, <1>4 DEF DispatchTypeOK, Children, Control, Rest
<1> QED
  BY <1>2, <1>3, <1>4 DEF Visit

(* Remainders, where they are taken: at most one length outside the range. *)
LEMMA RemainderInside ==
  ASSUME NEW n \in Nat \ {0}, NEW x \in 0 .. n - 1
  PROVE  x % n = x
OBVIOUS

LEMMA RemainderAbove ==
  ASSUME NEW n \in Nat \ {0}, NEW x \in n .. 2 * n - 1
  PROVE  x % n = x - n
OBVIOUS

LEMMA RemainderBelow ==
  ASSUME NEW n \in Nat \ {0}, NEW x \in -n .. -1
  PROVE  x % n = x + n
OBVIOUS

(* The walk reaches the end of the slice, or goes around it.               *)
LEMMA SlotValue ==
  ASSUME size \in Nat \ {0}, NEW s \in 0 .. size - 1, NEW p \in 1 .. size
  PROVE  Slot(s, p) = IF s + p <= size THEN s + p ELSE s + p - size
<1>1. CASE s + p <= size
  <2>1. s + p - 1 \in 0 .. size - 1
    BY <1>1
  <2>2. (s + p - 1) % size = s + p - 1
    BY <2>1, RemainderInside, Zenon
  <2> QED
    BY <1>1, <2>2 DEF Slot
<1>2. CASE s + p > size
  <2>1. s + p - 1 \in size .. 2 * size - 1
    BY <1>2
  <2>2. (s + p - 1) % size = (s + p - 1) - size
    BY <2>1, RemainderAbove, Zenon
  <2> QED
    BY <1>2, <2>2 DEF Slot
<1> QED
  BY <1>1, <1>2

LEMMA TurnValue ==
  ASSUME size \in Nat \ {0}, NEW s \in 0 .. size - 1, NEW c \in 1 .. size
  PROVE  Turn(s, c) = IF c > s THEN c - s ELSE c - s + size
<1>1. CASE c > s
  <2>1. c - 1 - s \in 0 .. size - 1
    BY <1>1
  <2>2. (c - 1 - s) % size = c - 1 - s
    BY <2>1, RemainderInside, Zenon
  <2> QED
    BY <1>1, <2>2 DEF Turn
<1>2. CASE c <= s
  <2>1. c - 1 - s \in -size .. -1
    BY <1>2
  <2>2. (c - 1 - s) % size = (c - 1 - s) + size
    BY <2>1, RemainderBelow, Zenon
  <2> QED
    BY <1>2, <2>2 DEF Turn
<1> QED
  BY <1>1, <1>2

(* Slot leads to a child, and Turn leads back.                             *)
LEMMA TurnOfSlot ==
  ASSUME size \in Nat \ {0}, NEW s \in Starts, NEW p \in 1 .. size
  PROVE  Slot(s, p) \in Children /\ Turn(s, Slot(s, p)) = p
<1>1. s \in 0 .. size - 1
  BY DEF Starts
<1>2. Slot(s, p) = IF s + p <= size THEN s + p ELSE s + p - size
  BY <1>1, SlotValue
<1>3. Slot(s, p) \in 1 .. size
  BY <1>1, <1>2
<1>4. Turn(s, Slot(s, p)) = IF Slot(s, p) > s THEN Slot(s, p) - s ELSE Slot(s, p) - s + size
  BY <1>1, <1>3, TurnValue
<1>5. Turn(s, Slot(s, p)) = p
  BY <1>1, <1>2, <1>4
<1> QED
  BY <1>3, <1>5 DEF Children

(* Every child has its turn, and Slot leads back to it.                    *)
LEMMA SlotOfTurn ==
  ASSUME size \in Nat \ {0}, NEW s \in Starts, NEW c \in Children
  PROVE  Turn(s, c) \in 1 .. size /\ Slot(s, Turn(s, c)) = c
<1>1. s \in 0 .. size - 1 /\ c \in 1 .. size
  BY DEF Starts, Children
<1>2. Turn(s, c) = IF c > s THEN c - s ELSE c - s + size
  BY <1>1, TurnValue
<1>3. Turn(s, c) \in 1 .. size
  BY <1>1, <1>2
<1>4. Slot(s, Turn(s, c)) = IF s + Turn(s, c) <= size THEN s + Turn(s, c)
                                                     ELSE s + Turn(s, c) - size
  BY <1>1, <1>3, SlotValue
<1>5. Slot(s, Turn(s, c)) = c
  BY <1>1, <1>2, <1>4
<1> QED
  BY <1>3, <1>5

(* At a turn of the loop one child is visited, and the turns of the others *)
(* are over or to come.                                                    *)
LEMMA OneChildPerTurn ==
  ASSUME IInv, NEW g \in Goroutine, pc[g] \in {"loop", "child"}, pos[g] <= size
  PROVE  \E c \in Children :
            /\ c = Slot(start[g], pos[g])
            /\ TurnOf(g, c) = pos[g]
            /\ \A d \in Children : /\ TurnOf(g, d) \in Int
                                   /\ d # c => TurnOf(g, d) < pos[g] \/ TurnOf(g, d) > pos[g]
<1>1. size \in Nat \ {0} /\ start[g] \in Starts /\ pos[g] \in 1 .. size
  BY DispatchAssumption DEF IInv, TypeOK, DispatchTypeOK, CallInv, LoopInv, WalkInv
<1>2. PICK c \in Children : c = Slot(start[g], pos[g]) /\ TurnOf(g, c) = pos[g]
  BY <1>1, TurnOfSlot DEF TurnOf
<1>3. ASSUME NEW d \in Children
      PROVE  TurnOf(g, d) \in 1 .. size /\ (d # c => TurnOf(g, d) # pos[g])
  BY <1>1, <1>2, <1>3, SlotOfTurn DEF TurnOf
<1>4. ASSUME NEW d \in Children
      PROVE  /\ TurnOf(g, d) \in Int
             /\ d # c => TurnOf(g, d) < pos[g] \/ TurnOf(g, d) > pos[g]
  BY <1>1, <1>3
<1> QED
  BY <1>2, <1>4

-----------------------------------------------------------------------------

(* The steps of the others do not touch what goroutine h knows.            *)
Untouched(h) ==
  /\ UNCHANGED <<size, threshold>>
  /\ pc'[h] = pc[h] /\ level'[h] = level[h] /\ pos'[h] = pos[h]
  /\ fate'[h] = fate[h] /\ fresh'[h] = fresh[h]
  /\ start'[h] = start[h] /\ err'[h] = err[h]

LEMMA UntouchedKeepsInv ==
  ASSUME NEW h \in Goroutine, CallInv(h), Untouched(h)
  PROVE  CallInv(h)'
<1>1. \A c \in Children : /\ TurnOf(h, c)' = TurnOf(h, c)
                          /\ Admits(h, c)' = Admits(h, c)
  BY DEF Untouched, TurnOf, Turn, Admits, Children
<1>2. Children' = Children /\ Starts' = Starts
  BY DEF Untouched, Children, Starts
<1>3. EnabledInv(h)' /\ ReturnedInv(h)'
  BY <1>1, <1>2 DEF CallInv, EnabledInv, ReturnedInv, Untouched
<1>4. LoopInv(h)'
  BY <1>1, <1>2 DEF CallInv, LoopInv, Untouched
<1>5. WalkInv(h)'
  BY <1>1, <1>2 DEF CallInv, WalkInv, Untouched
<1>6. AskedInv(h)' /\ EndInv(h)'
  BY <1>1, <1>2 DEF CallInv, AskedInv, EndInv, Untouched
<1> QED
  BY <1>3, <1>4, <1>5, <1>6 DEF CallInv

(* The handler starts with every goroutine at rest and nothing tried.      *)
LEMMA InitInv == Init => IInv
<1> SUFFICES ASSUME Init PROVE IInv
  OBVIOUS
<1>1. DispatchTypeOK
  BY DispatchAssumption
     DEF Init, DispatchInit, DispatchTypeOK, Children, Level, Control, Rest, Fate, Outcome
<1>2. TypeOK
  BY <1>1, DispatchAssumption DEF TypeOK, Init
<1>3. ASSUME NEW g \in Goroutine PROVE CallInv(g)
  BY DEF Init, DispatchInit, CallInv, EnabledInv, LoopInv, WalkInv, ReturnedInv,
         AskedInv, EndInv
<1> QED
  BY <1>2, <1>3 DEF IInv

(* Calls and moving levels preserve the invariant: a moved level only      *)
(* takes away what was said of fresh calls.                                *)
LEMMA EnvironmentInv == IInv /\ Environment => IInv'
<1> SUFFICES ASSUME IInv, Environment PROVE IInv'
  OBVIOUS
<1> USE DEF IInv, TypeOK
<1>1. CASE \E c \in Children, l \in Level : SetLevel(c, l)
  <2>1. PICK c \in Children, l \in Level : SetLevel(c, l)
    BY <1>1
  <2>2. DispatchTypeOK'
    BY <2>1 DEF SetLevel, DispatchTypeOK, Children, Level, Control, Rest, Fate, Outcome
  <2>3. TypeOK'
    BY <2>1, <2>2 DEF Environment, SetLevel, Children
  <2>4. /\ UNCHANGED <<size, pc, level, pos, fate, start, err>>
        /\ \A g \in Goroutine : ~ fresh'[g]
    BY <2>1 DEF Environment, SetLevel
  <2>5. ASSUME NEW g \in Goroutine PROVE CallInv(g)'
    <3>1. \A d \in Children : TurnOf(g, d)' = TurnOf(g, d)
      BY <2>4 DEF TurnOf, Turn
    <3>2. Children' = Children /\ Starts' = Starts
      BY <2>4 DEF Children, Starts
    <3>3. EnabledInv(g)' /\ ReturnedInv(g)'
      BY <2>4, <3>2 DEF CallInv, EnabledInv, ReturnedInv
    <3>4. LoopInv(g)'
      BY <2>4, <3>1, <3>2 DEF CallInv, LoopInv
    <3>5. WalkInv(g)'
      BY <2>4, <3>1, <3>2 DEF CallInv, WalkInv
    <3>6. AskedInv(g)' /\ EndInv(g)'
      BY <2>4, <3>1, <3>2 DEF CallInv, AskedInv, EndInv
    <3> QED
      BY <3>3, <3>4, <3>5, <3>6 DEF CallInv
  <2> QED
    BY <2>3, <2>5
<1>2. CASE \E g \in Goroutine, l \in Level, method \in {"Enabled", "Handle"} : Call(g, l, method)
  <2>1. PICK g \in Goroutine, l \in Level, method \in {"Enabled", "Handle"} : Call(g, l, method)
    BY <1>2
  <2>2. DispatchTypeOK'
    BY <2>1 DEF Call, DispatchTypeOK, Children, Level, Control, Rest, Fate, Outcome
  <2>3. TypeOK'
    BY <2>1, <2>2 DEF Environment, Call, Children
  <2>4. CallInv(g)'
    BY <2>1 DEF Call, CallInv, EnabledInv, LoopInv, WalkInv, ReturnedInv, AskedInv, EndInv,
                DispatchTypeOK, Children
  <2>5. ASSUME NEW h \in Goroutine, h # g PROVE CallInv(h)'
    <3>1. Untouched(h)
      BY <2>1, <2>5 DEF Environment, Call, Untouched, DispatchTypeOK
    <3> QED
      BY <3>1, UntouchedKeepsInv
  <2> QED
    BY <2>3, <2>4, <2>5
<1> QED
  BY <1>1, <1>2 DEF Environment

(* A turn of the Enabled loop leaves a child behind only if it does not    *)
(* want the record.                                                        *)
LEMMA EnabledKeepsInv ==
  ASSUME IInv, NEW g \in Goroutine, PoolEnabled(g)
  PROVE  IInv'
<1> USE DEF IInv, TypeOK
<1>1. DispatchTypeOK'
  BY EnabledTyped DEF PoolEnabled
<1>2. TypeOK'
  BY <1>1 DEF PoolEnabled, Enabled, Children
<1>3. EnabledInv(g)'
  BY DEF PoolEnabled, Enabled, CallInv, EnabledInv, Admits, DispatchTypeOK, Children
<1>4. LoopInv(g)' /\ WalkInv(g)' /\ ReturnedInv(g)' /\ AskedInv(g)' /\ EndInv(g)'
  BY DEF PoolEnabled, Enabled, LoopInv, WalkInv, ReturnedInv, AskedInv, EndInv, DispatchTypeOK
<1>5. ASSUME NEW h \in Goroutine, h # g PROVE CallInv(h)'
  <2>1. Untouched(h)
    BY <1>5 DEF PoolEnabled, Enabled, Untouched, DispatchTypeOK
  <2> QED
    BY <2>1, UntouchedKeepsInv
<1> QED
  BY <1>2, <1>3, <1>4, <1>5 DEF CallInv

(* An empty pool has nobody to lose a record for.                          *)
LEMMA HandleEmptyKeepsInv ==
  ASSUME IInv, NEW g \in Goroutine, HandleEmpty(g)
  PROVE  IInv'
<1> USE DEF IInv, TypeOK
<1>1. TypeOK'
  BY DEF HandleEmpty, DispatchTypeOK, Children, Control, Rest
<1>2. CallInv(g)'
  BY DEF HandleEmpty, CallInv, EnabledInv, LoopInv, WalkInv, ReturnedInv, AskedInv, EndInv,
         DispatchTypeOK, Children
<1>3. ASSUME NEW h \in Goroutine, h # g PROVE CallInv(h)'
  <2>1. Untouched(h)
    BY <1>3 DEF HandleEmpty, Untouched, DispatchTypeOK
  <2> QED
    BY <2>1, UntouchedKeepsInv
<1> QED
  BY <1>1, <1>2, <1>3

(* Entering the loop: a start is drawn and nobody was tried.               *)
LEMMA HandleKeepsInv ==
  ASSUME IInv, NEW g \in Goroutine, Handle(g)
  PROVE  IInv'
<1> USE DEF IInv, TypeOK
<1>1. PICK s \in Starts : start' = [start EXCEPT ![g] = s]
  BY DEF Handle
<1>2. size \in Nat \ {0} /\ s \in 0 .. MaxHandlers /\ start'[g] = s /\ pos'[g] = 1
  BY <1>1, DispatchAssumption DEF Handle, DispatchTypeOK, Starts
<1>3. TypeOK'
  BY <1>1, <1>2 DEF Handle, DispatchTypeOK, Children, Control
<1>4. \A c \in Children : fate'[g][c] = "untried" /\ TurnOf(g, c)' >= pos'[g]
  <2>1. \A c \in Children : Turn(s, c) \in 1 .. size
    BY <1>2, SlotOfTurn
  <2>2. \A c \in Children : TurnOf(g, c)' = Turn(s, c)
    BY <1>2 DEF Handle, TurnOf, Turn
  <2> QED
    BY <1>2, <2>1, <2>2 DEF Handle, CallInv, EnabledInv
<1>5. CallInv(g)'
  <2>1. UNCHANGED <<size, threshold>> /\ pc'[g] = "loop" /\ s \in Starts'
    BY DEF Handle, DispatchTypeOK, Starts
  <2>2. Children' = Children
    BY <2>1 DEF Children
  <2>3. \A c \in Children : TurnOf(g, c)' \in Int
    <3>1. \A c \in Children : Turn(s, c) \in 1 .. size
      BY <1>2, SlotOfTurn
    <3> QED
      BY <1>2, <2>1, <3>1 DEF TurnOf, Turn
  <2>4. LoopInv(g)' /\ WalkInv(g)'
    BY <1>2, <1>4, <2>1, <2>2, <2>3 DEF LoopInv, WalkInv
  <2>5. AskedInv(g)'
    BY <1>4, <2>2 DEF AskedInv, Outcome
  <2> QED
    BY <2>1, <2>4, <2>5 DEF CallInv, EnabledInv, ReturnedInv, EndInv
<1>6. ASSUME NEW h \in Goroutine, h # g PROVE CallInv(h)'
  <2>1. Untouched(h)
    BY <1>1, <1>6 DEF Handle, Untouched, DispatchTypeOK
  <2> QED
    BY <2>1, UntouchedKeepsInv
<1> QED
  BY <1>3, <1>5, <1>6

(* A turn of the loop: the child visited begins to run if it is enabled,   *)
(* and is left behind as disabled if it is not.                            *)
LEMMA TryKeepsInv ==
  ASSUME IInv, NEW g \in Goroutine, HandleTry(g)
  PROVE  IInv'
<1> USE DEF IInv, TypeOK
<1>0. PICK c \in Children :
         /\ c = Slot(start[g], pos[g])
         /\ TurnOf(g, c) = pos[g]
         /\ \A d \in Children : /\ TurnOf(g, d) \in Int
                                /\ d # c => TurnOf(g, d) < pos[g] \/ TurnOf(g, d) > pos[g]
  BY OneChildPerTurn DEF HandleTry, Visit
<1>1. /\ pc[g] = "loop" /\ pos[g] <= size /\ size # 0
      /\ UNCHANGED <<size, threshold, level, fresh, start, err>>
  BY DEF HandleTry, Visit, CallInv, LoopInv
<1>2. DispatchTypeOK'
  BY <1>0, VisitTyped DEF HandleTry
<1>3. TypeOK'
  BY <1>1, <1>2 DEF Children
<1>4. /\ Children' = Children /\ Starts' = Starts
      /\ \A d \in Children : TurnOf(g, d)' = TurnOf(g, d) /\ Admits(g, d)' = Admits(g, d)
  BY <1>1 DEF Children, Starts, TurnOf, Turn, Admits
<1>5. CallInv(g)'
  <2>1. CASE /\ pc' = [pc EXCEPT ![g] = "child"]
             /\ fate' = [fate EXCEPT ![g][c] = "running"]
             /\ UNCHANGED pos
    <3>1. pc'[g] = "child" /\ fate'[g][c] = "running"
      BY <2>1 DEF DispatchTypeOK
    <3>2. \A d \in Children \ {c} : fate'[g][d] = fate[g][d]
      BY <2>1 DEF DispatchTypeOK
    <3>3. LoopInv(g)'
      BY <1>0, <1>1, <1>4, <2>1, <3>1, <3>2 DEF CallInv, LoopInv
    <3>4. WalkInv(g)'
      BY <1>0, <1>1, <1>4, <2>1, <3>1, <3>2 DEF CallInv, WalkInv, DispatchTypeOK
    <3>5. Admits(g, c)
      BY <1>0, <1>1, <3>1 DEF HandleTry, Visit, DispatchTypeOK
    <3>6. AskedInv(g)'
      BY <1>1, <1>4, <3>1, <3>2, <3>5 DEF CallInv, AskedInv
    <3> QED
      BY <3>1, <3>3, <3>4, <3>6 DEF CallInv, EnabledInv, ReturnedInv, EndInv
  <2>2. CASE /\ ~ Admits(g, c)
             /\ fate' = [fate EXCEPT ![g][c] = "disabled"]
             /\ pos' = [pos EXCEPT ![g] = @ + 1]
             /\ UNCHANGED pc
    <3>1. fate'[g][c] = "disabled" /\ \A d \in Children \ {c} : fate'[g][d] = fate[g][d]
      BY <2>2 DEF DispatchTypeOK
    <3>2. pos'[g] = pos[g] + 1 /\ pos[g] \in Int /\ pc'[g] = "loop"
      BY <1>1, <2>2 DEF DispatchTypeOK
    <3>3. \A d \in Children : TurnOf(g, d) < pos'[g] <=> TurnOf(g, d) < pos[g] \/ d = c
      BY <1>0, <3>2
    <3>4. \A d \in Children : TurnOf(g, d) >= pos'[g] => TurnOf(g, d) > pos[g] /\ d # c
      BY <1>0, <3>2
    <3>5. LoopInv(g)'
      BY <1>0, <1>1, <1>4, <2>2, <3>1, <3>2, <3>3, <3>4 DEF CallInv, LoopInv
    <3>6. WalkInv(g)'
      BY <1>0, <1>1, <1>4, <3>1, <3>2, <3>3 DEF CallInv, WalkInv
    <3>7. AskedInv(g)'
      BY <1>1, <1>4, <2>2, <3>1, <3>2 DEF CallInv, AskedInv, Outcome
    <3> QED
      BY <3>2, <3>5, <3>6, <3>7 DEF CallInv, EnabledInv, ReturnedInv, EndInv
  <2>3. CASE pc' = [pc EXCEPT ![g] = "panicked"] /\ UNCHANGED fate
    BY <2>3 DEF CallInv, EnabledInv, LoopInv, WalkInv, ReturnedInv, AskedInv, EndInv, DispatchTypeOK
  <2> QED
    BY <1>0, <2>1, <2>2, <2>3 DEF HandleTry, Visit
<1>6. ASSUME NEW h \in Goroutine, h # g PROVE CallInv(h)'
  <2>1. Untouched(h)
    BY <1>6 DEF HandleTry, Visit, Untouched, DispatchTypeOK
  <2> QED
    BY <2>1, UntouchedKeepsInv
<1> QED
  BY <1>3, <1>5, <1>6

(* A child that accepted the record is the only one that did; a child that *)
(* failed is left behind and makes err non-nil.                            *)
LEMMA AttemptedKeepsInv ==
  ASSUME IInv, NEW g \in Goroutine, NEW outcome \in Outcome, HandleAttempted(g, outcome)
  PROVE  IInv'
<1> USE DEF IInv, TypeOK
<1>0. pc[g] = "child" /\ pos[g] <= size
  BY DEF HandleAttempted, Settle, CallInv, LoopInv
<1>1. PICK c \in Children :
         /\ c = Slot(start[g], pos[g])
         /\ TurnOf(g, c) = pos[g]
         /\ \A d \in Children : /\ TurnOf(g, d) \in Int
                                /\ d # c => TurnOf(g, d) < pos[g] \/ TurnOf(g, d) > pos[g]
  BY <1>0, OneChildPerTurn
<1>2. /\ UNCHANGED <<size, threshold, level, fresh, start>>
      /\ pos' = [pos EXCEPT ![g] = @ + 1]
      /\ fate' = [fate EXCEPT ![g][c] = outcome]
  BY <1>1 DEF HandleAttempted, Settle
<1>3. \/ /\ outcome = "ok"
         /\ pc' = [pc EXCEPT ![g] = "returned"]
         /\ err' = [err EXCEPT ![g] = Nil]
      \/ /\ outcome \in {"error", "panic"}
         /\ pc' = [pc EXCEPT ![g] = "loop"]
         /\ err' = [err EXCEPT ![g] = c]
         /\ c # Nil
  <2>1. CASE outcome = "ok"
    <3>1. try(outcome, c) = Nil
      BY <2>1 DEF try
    <3> QED
      BY <1>1, <2>1, <3>1 DEF HandleAttempted, Settle
  <2>2. CASE outcome \in {"error", "panic"}
    <3>1. try(outcome, c) = c /\ c # Nil
      BY <2>2 DEF try, Nil, Children
    <3> QED
      BY <1>1, <2>2, <3>1 DEF HandleAttempted, Settle
  <2> QED
    BY <2>1, <2>2 DEF Outcome
<1>4. TypeOK'
  <2>1. DispatchTypeOK'
    <3>1. pos' \in [Goroutine -> 1 .. size + 1]
      BY <1>0, <1>2 DEF DispatchTypeOK
    <3>2. fate' \in [Goroutine -> [Children -> Fate]]
      BY <1>1, <1>2 DEF DispatchTypeOK, Fate
    <3>3. pc' \in [Goroutine -> Control]
      BY <1>3 DEF DispatchTypeOK, Control, Rest
    <3> QED
      BY <1>2, <3>1, <3>2, <3>3 DEF DispatchTypeOK, Children
  <2> QED
    BY <1>2, <1>3, <2>1 DEF Children
<1>5. fate'[g][c] = outcome /\ \A d \in Children \ {c} : fate'[g][d] = fate[g][d]
  BY <1>2 DEF DispatchTypeOK
<1>6. pos'[g] = pos[g] + 1 /\ pos[g] \in Int
  BY <1>2 DEF DispatchTypeOK
<1>7. /\ Children' = Children /\ Starts' = Starts
      /\ \A d \in Children : TurnOf(g, d)' = TurnOf(g, d) /\ Admits(g, d)' = Admits(g, d)
  BY <1>2 DEF Children, Starts, TurnOf, Turn, Admits
<1>8. /\ \A d \in Children : TurnOf(g, d) < pos'[g] <=> TurnOf(g, d) < pos[g] \/ d = c
      /\ \A d \in Children : TurnOf(g, d) >= pos'[g] => TurnOf(g, d) > pos[g] /\ d # c
  BY <1>1, <1>6
<1>9. WalkInv(g)'
  <2>1. outcome \notin {"untried", "running"}
    BY DEF Outcome
  <2> QED
    BY <1>0, <1>2, <1>5, <1>7, <1>8, <2>1 DEF CallInv, WalkInv
<1>12. AskedInv(g)'
  <2>1. fate[g][c] = "running"
    BY <1>0, <1>1 DEF CallInv, LoopInv
  <2> QED
    BY <1>0, <1>1, <1>2, <1>5, <1>7, <2>1 DEF CallInv, AskedInv, Outcome
<1>10. CallInv(g)'
  <2>1. CASE outcome = "ok"
    <3>1. pc'[g] = "returned"
      BY <1>3, <2>1 DEF DispatchTypeOK
    <3>2. \A d \in Children \ {c} : fate'[g][d] # "ok"
      BY <1>0, <1>1, <1>5 DEF CallInv, LoopInv
    <3>3. ReturnedInv(g)'
      BY <1>5, <1>7, <2>1, <3>2 DEF ReturnedInv
    <3>4. EndInv(g)'
      BY <1>0, <1>1, <1>5, <1>7, <2>1 DEF CallInv, LoopInv, EndInv
    <3> QED
      BY <1>9, <1>12, <3>1, <3>3, <3>4 DEF CallInv, EnabledInv, LoopInv
  <2>2. CASE outcome \in {"error", "panic"}
    <3>1. pc'[g] = "loop" /\ err'[g] # Nil
      BY <1>3, <2>2 DEF DispatchTypeOK
    <3>2. LoopInv(g)'
      BY <1>0, <1>1, <1>2, <1>5, <1>6, <1>7, <1>8, <2>2, <3>1 DEF CallInv, LoopInv
    <3> QED
      BY <1>9, <1>12, <3>1, <3>2 DEF CallInv, EnabledInv, ReturnedInv, EndInv
  <2> QED
    BY <2>1, <2>2 DEF Outcome
<1>11. ASSUME NEW h \in Goroutine, h # g PROVE CallInv(h)'
  <2>1. Untouched(h)
    BY <1>2, <1>3, <1>11 DEF Untouched, DispatchTypeOK
  <2> QED
    BY <2>1, UntouchedKeepsInv
<1> QED
  BY <1>4, <1>10, <1>11

(* The loop ends when every child had its turn.                            *)
LEMMA GiveUpKeepsInv ==
  ASSUME IInv, NEW g \in Goroutine, HandleGiveUp(g)
  PROVE  IInv'
<1> USE DEF IInv, TypeOK
<1>1. /\ pc[g] = "loop" /\ pos[g] > size
      /\ pc' = [pc EXCEPT ![g] = "returned"]
      /\ UNCHANGED <<size, threshold, level, pos, fate, fresh, start, err>>
  BY DEF HandleGiveUp, Exhaust
<1>2. DispatchTypeOK'
  BY
     DEF HandleGiveUp, Exhaust, DispatchTypeOK, Children, Level, Control, Rest, Fate, Outcome
<1>3. TypeOK'
  BY <1>1, <1>2 DEF Children
<1>4. size \in Nat \ {0} /\ start[g] \in Starts
  BY <1>1, DispatchAssumption DEF DispatchTypeOK, CallInv, LoopInv, WalkInv
<1>5. ASSUME NEW d \in Children PROVE TurnOf(g, d) < pos[g]
  <2>1. TurnOf(g, d) \in 1 .. size
    BY <1>4, SlotOfTurn DEF TurnOf
  <2> QED
    BY <1>1, <2>1 DEF DispatchTypeOK
<1>6. /\ Children' = Children /\ Starts' = Starts
      /\ \A d \in Children : TurnOf(g, d)' = TurnOf(g, d) /\ Admits(g, d)' = Admits(g, d)
  BY <1>1 DEF Children, Starts, TurnOf, Turn, Admits
<1>7. WalkInv(g)' /\ LoopInv(g)' /\ EnabledInv(g)'
  BY <1>1, <1>6 DEF CallInv, WalkInv, LoopInv, EnabledInv, DispatchTypeOK
<1>8. ReturnedInv(g)'
  BY <1>1, <1>5, <1>6 DEF CallInv, LoopInv, ReturnedInv
<1>9. ASSUME NEW h \in Goroutine, h # g PROVE CallInv(h)'
  <2>1. Untouched(h)
    BY <1>1, <1>9 DEF Untouched, DispatchTypeOK
  <2> QED
    BY <2>1, UntouchedKeepsInv
<1>10. AskedInv(g)' /\ EndInv(g)'
  BY <1>1, <1>5, <1>6 DEF CallInv, LoopInv, AskedInv, EndInv
<1> QED
  BY <1>3, <1>7, <1>8, <1>9, <1>10 DEF CallInv

(* Every step preserves the invariant.                                     *)
LEMMA NextInv == IInv /\ [Next]_vars => IInv'
<1> SUFFICES ASSUME IInv, [Next]_vars PROVE IInv'
  OBVIOUS
<1>1. CASE Environment
  BY <1>1, EnvironmentInv
<1>2. ASSUME NEW g \in Goroutine, Advance(g) PROVE IInv'
  BY <1>2, EnabledKeepsInv, HandleEmptyKeepsInv, HandleKeepsInv, TryKeepsInv,
     GiveUpKeepsInv DEF Advance
<1>3. ASSUME NEW g \in Goroutine, ChildComesBack(g) PROVE IInv'
  BY <1>3, AttemptedKeepsInv DEF ChildComesBack
<1>4. CASE UNCHANGED vars
  <2>1. TypeOK'
    BY <1>4 DEF vars, dispatchVars, IInv, TypeOK, DispatchTypeOK, Children
  <2>2. \A h \in Goroutine : Untouched(h)
    BY <1>4 DEF vars, dispatchVars, Untouched
  <2> QED
    BY <2>1, <2>2, UntouchedKeepsInv DEF IInv
<1> QED
  BY <1>1, <1>2, <1>3, <1>4 DEF Next

(* The invariant holds in every reachable state.                           *)
THEOREM Invariance == Spec => []IInv
BY InitInv, NextInv, PTL DEF Spec

-----------------------------------------------------------------------------

(* The variables of PoolHandler stay in their types.                       *)
THEOREM TypeCorrect == Spec => []TypeOK
<1>1. IInv => TypeOK
  BY DEF IInv
<1> QED
  BY <1>1, Invariance, PTL

(* Round robin, for any number of children and every start: the children   *)
(* settled after so many turns are an arc of that many children.           *)
THEOREM WalkGoesAround == Spec => []GoesAround
<1>1. IInv => GoesAround
  <2> SUFFICES ASSUME IInv, NEW g \in Goroutine,
                      pc[g] \in {"loop", "child", "returned"}, size # 0, NEW c \in Children
               PROVE  fate[g][c] \notin {"untried", "running"} <=> Distance(g, c) < pos[g] - 1
    BY DEF GoesAround
  <2>1. size \in Nat \ {0} /\ start[g] \in Starts /\ pos[g] \in Int
    BY DispatchAssumption DEF IInv, TypeOK, DispatchTypeOK, CallInv, WalkInv
  <2>2. c - 1 - start[g] \in Int
    BY <2>1 DEF Starts, Children
  <2>3. (c - 1 - start[g]) % size \in Int
    BY <2>1, <2>2
  <2>4. TurnOf(g, c) < pos[g] <=> (c - 1 - start[g]) % size < pos[g] - 1
    BY <2>1, <2>3 DEF TurnOf, Turn
  <2>5. Distance(g, c) = (c - 1 - start[g]) % size
    BY DEF Distance
  <2> QED
    BY <2>4, <2>5 DEF IInv, CallInv, WalkInv
<1> QED
  BY <1>1, Invariance, PTL

(* No silent loss, for any number of children, goroutines and levels: a    *)
(* nil error of a call during which no level moved means that exactly one  *)
(* child accepted the record, or that none wanted it.                      *)
THEOREM LossIsReported == Spec => []NoSilentLoss
<1>1. IInv => NoSilentLoss
  <2> SUFFICES ASSUME IInv, NEW g \in Goroutine, fresh[g]
               PROVE  /\ pc[g] = "returned" /\ err[g] = Nil =>
                            \/ \E c \in Children : Reached(g) \ Failed(g) = {c}
                            \/ \A c \in Children : ~ Admits(g, c)
                      /\ pc[g] = "dropped" => \A c \in Children : ~ Admits(g, c)
    BY DEF NoSilentLoss
  <2>1. ASSUME NEW c \in Children, fate[g][c] = "ok",
               \A d \in Children \ {c} : fate[g][d] # "ok"
        PROVE  Reached(g) \ Failed(g) = {c}
    BY <2>1 DEF Reached, Failed, Outcome
  <2>2. ASSUME pc[g] = "returned", err[g] = Nil
        PROVE  \/ \E c \in Children : Reached(g) \ Failed(g) = {c}
               \/ \A c \in Children : ~ Admits(g, c)
    BY <2>1, <2>2 DEF IInv, CallInv, ReturnedInv
  <2>3. ASSUME pc[g] = "dropped", NEW c \in Children PROVE ~ Admits(g, c)
    BY <2>3 DEF IInv, CallInv, TypeOK, DispatchTypeOK, EnabledInv, Children
  <2> QED
    BY <2>2, <2>3
<1> QED
  BY <1>1, Invariance, PTL

(* Who carries the load, for any number of children and every start: if no *)
(* level moves, the available child nearest behind the start accepts the   *)
(* record, and no other.                                                   *)
THEOREM LoadGoesToTheNearest == Spec => []NearestAvailableTakesIt
<1>1. IInv => NearestAvailableTakesIt
  <2> SUFFICES ASSUME IInv, NEW g \in Goroutine, fresh[g], pc[g] = "returned",
                      NEW c \in Children
               PROVE  fate[g][c] = "ok" <=>
                         /\ c \in Available(g)
                         /\ \A d \in Available(g) : Distance(g, c) <= Distance(g, d)
    BY DEF NearestAvailableTakesIt
  <2>1. size \in Nat \ {0}
    BY DEF IInv, TypeOK, DispatchTypeOK, Children
  <2>2. start[g] \in Starts
    BY <2>1 DEF IInv, CallInv, WalkInv
  <2>3. \A d \in Children : TurnOf(g, d) \in Int /\ Slot(start[g], TurnOf(g, d)) = d
    BY <2>1, <2>2, SlotOfTurn DEF TurnOf
  <2>4. ASSUME NEW d \in Children
        PROVE  Distance(g, d) \in Int /\ TurnOf(g, d) = Distance(g, d) + 1
    <3>1. start[g] \in Int /\ d - 1 - start[g] \in Int
      BY <2>1, <2>2 DEF Starts, Children
    <3>2. (d - 1 - start[g]) % size \in Int
      BY <2>1, <3>1
    <3> QED
      BY <3>2 DEF Distance, TurnOf, Turn
  <2>5. \A d \in Children : d \in Available(g) <=>
           Admits(g, d) /\ fate[g][d] \notin {"error", "panic"}
    BY DEF Available, Failed
  <2>6. \A d \in Children : fate[g][d] \in {"disabled", "error", "panic"} => d \notin Available(g)
    BY <2>5 DEF IInv, CallInv, AskedInv
  <2>7. \A d \in Children : fate[g][d] = "ok" => d \in Available(g)
    BY <2>5 DEF IInv, CallInv, AskedInv, Outcome
  <2>8. CASE \E k \in Children :
               /\ fate[g][k] = "ok"
               /\ \A d \in Children \ {k} :
                     \/ TurnOf(g, d) < TurnOf(g, k) /\ fate[g][d] \in {"disabled", "error", "panic"}
                     \/ TurnOf(g, d) > TurnOf(g, k) /\ fate[g][d] = "untried"
    <3>1. PICK k \in Children :
               /\ fate[g][k] = "ok"
               /\ \A d \in Children \ {k} :
                     \/ TurnOf(g, d) < TurnOf(g, k) /\ fate[g][d] \in {"disabled", "error", "panic"}
                     \/ TurnOf(g, d) > TurnOf(g, k) /\ fate[g][d] = "untried"
      BY <2>8
    <3>2. k \in Available(g)
      BY <2>7, <3>1
    <3>3. ASSUME NEW d \in Available(g), d # k PROVE Distance(g, k) < Distance(g, d)
      <4>1. d \in Children
        BY DEF Available
      <4>2. TurnOf(g, d) > TurnOf(g, k)
        BY <2>6, <3>1, <3>3, <4>1
      <4> QED
        BY <2>4, <4>1, <4>2
    <3>4. Distance(g, k) \in Int /\ Distance(g, c) \in Int
      BY <2>4
    <3>5. CASE c = k
      <4>1. \A d \in Available(g) : Distance(g, k) <= Distance(g, d)
        <5>1. \A d \in Available(g) : Distance(g, d) \in Int
          BY <2>4 DEF Available
        <5> QED
          BY <3>3, <3>4, <5>1
      <4> QED
        BY <3>1, <3>2, <3>5, <4>1
    <3>6. CASE c # k
      <4>1. fate[g][c] # "ok"
        BY <3>1, <3>6
      <4>2. c \in Available(g) => ~ (Distance(g, c) <= Distance(g, k))
        BY <3>3, <3>4, <3>6
      <4> QED
        BY <3>2, <4>1, <4>2
    <3> QED
      BY <3>5, <3>6
  <2>9. CASE \A d \in Children : fate[g][d] \in {"disabled", "error", "panic"}
    BY <2>6, <2>9
  <2> QED
    BY <2>8, <2>9 DEF IInv, CallInv, EndInv
<1> QED
  BY <1>1, Invariance, PTL

-----------------------------------------------------------------------------

(* The error the first-success dispatch sees, and what it does not see     *)
(* change of goroutine h.                                                  *)
Verdict(g) == IF pc[g] \in {"loop", "child", "returned"} THEN err[g] ELSE Nil

Unseen(h) ==
  /\ CallStatus(h)' = CallStatus(h)
  /\ \A c \in Children : Settlement(h, c)' = Settlement(h, c)
  /\ Verdict(h)' = Verdict(h)

(* A step that nothing of is seen is a stuttering step.                    *)
LEMMA UnseenStutters ==
  ASSUME UNCHANGED size, \A h \in Goroutine : Unseen(h)
  PROVE  UNCHANGED F!vars
BY DEF F!vars, Unseen, Verdict, Children

LEMMA InitRefines == Init => F!Init
BY DispatchAssumption
   DEF Init, DispatchInit, F!Init, F!Nil, Nil, CallStatus, Settlement, Children

LEMMA UntouchedUnseen ==
  ASSUME NEW h \in Goroutine, Untouched(h)
  PROVE  Unseen(h)
BY DEF Untouched, Unseen, CallStatus, Settlement, Verdict, Children

(* How the steps of the first-success dispatch look through the mapping:   *)
(* goroutine g does something that is seen and the others do not.          *)
LEMMA SeenBegin ==
  ASSUME UNCHANGED size, NEW g \in Goroutine,
         \A h \in Goroutine \ {g} : Unseen(h),
         CallStatus(g) # "open", CallStatus(g)' = "open",
         \A c \in Children : Settlement(g, c)' = "pending",
         Verdict(g)' = Nil
  PROVE  F!Begin(g)
BY DEF F!Begin, F!Nil, Nil, Unseen, Verdict, Children

LEMMA SeenAttempt ==
  ASSUME UNCHANGED size, NEW g \in Goroutine, NEW c \in Children, NEW result,
         \A h \in Goroutine \ {g} : Unseen(h),
         CallStatus(g) = "open",
         Settlement(g, c) = "pending", Settlement(g, c)' = result,
         \A d \in Children \ {c} : Settlement(g, d)' = Settlement(g, d)
  PROVE  F!Attempt(g, c, result)
BY DEF F!Attempt, Unseen, Children

LEMMA SeenStatus ==
  ASSUME NEW g \in Goroutine, NEW s,
         \A h \in Goroutine \ {g} : Unseen(h),
         CallStatus(g)' = s
  PROVE  [h \in Goroutine |-> CallStatus(h)]'
           = [[h \in Goroutine |-> CallStatus(h)] EXCEPT ![g] = s]
BY DEF Unseen

LEMMA SeenVerdict ==
  ASSUME NEW g \in Goroutine, NEW v,
         \A h \in Goroutine \ {g} : Unseen(h),
         Verdict(g)' = v
  PROVE  [h \in Goroutine |-> Verdict(h)]'
           = [[h \in Goroutine |-> Verdict(h)] EXCEPT ![g] = v]
BY DEF Unseen

(* A step that leaves a call abandoned, with no child settled by it.       *)
LEMMA SeenAbandon ==
  ASSUME UNCHANGED size, NEW g \in Goroutine,
         \A h \in Goroutine \ {g} : Unseen(h),
         CallStatus(g) = "open", CallStatus(g)' = "abandoned",
         \A c \in Children : Settlement(g, c)' = Settlement(g, c),
         Verdict(g)' = Nil
  PROVE  F!Abandon(g)
BY DEF F!Abandon, F!Nil, Nil, Unseen, Verdict, Children

(* Moving a level is not seen; a call begins a dispatch.                   *)
LEMMA EnvironmentRefines == IInv /\ Environment => [F!Next]_(F!vars)
<1> SUFFICES ASSUME IInv, Environment PROVE [F!Next]_(F!vars)
  OBVIOUS
<1> USE DEF IInv, TypeOK, DispatchTypeOK
<1>1. CASE \E c \in Children, l \in Level : SetLevel(c, l)
  <2>1. UNCHANGED <<size, pc, fate, err>>
    BY <1>1 DEF Environment, SetLevel
  <2>2. \A h \in Goroutine : Unseen(h)
    BY <2>1 DEF Unseen, CallStatus, Settlement, Verdict, Children
  <2> QED
    BY <2>1, <2>2, UnseenStutters
<1>2. ASSUME NEW g \in Goroutine, NEW l \in Level, NEW method \in {"Enabled", "Handle"},
             Call(g, l, method)
      PROVE  F!Begin(g)
  <2>1. UNCHANGED <<size, err>> /\ pc[g] \in Rest /\ pc'[g] = method
    BY <1>2 DEF Environment, Call
  <2>2. ASSUME NEW h \in Goroutine \ {g} PROVE Unseen(h)
    BY <1>2, <2>2, UntouchedUnseen DEF Environment, Call, Untouched
  <2>3. CallStatus(g) # "open" /\ CallStatus(g)' = "open" /\ Verdict(g)' = Nil
    BY <2>1 DEF CallStatus, Verdict, Rest
  <2>4. \A c \in Children : fate'[g][c] = "untried"
    BY <1>2 DEF Call
  <2>5. \A c \in Children : Settlement(g, c)' = "pending"
    BY <2>4 DEF Settlement
  <2> QED
    BY <2>1, <2>2, <2>3, <2>5, SeenBegin
<1> QED
  BY <1>1, <1>2 DEF Environment, F!Next

(* The Enabled loop is not seen, unless it ends the call.                  *)
LEMMA EnabledRefines ==
  ASSUME IInv, NEW g \in Goroutine, PoolEnabled(g)
  PROVE  [F!Next]_(F!vars)
<1> USE DEF IInv, TypeOK, DispatchTypeOK
<1>1. UNCHANGED <<size, fate, err>> /\ pc[g] = "Enabled"
  BY DEF PoolEnabled, Enabled
<1>2. ASSUME NEW h \in Goroutine \ {g} PROVE Unseen(h)
  BY <1>2, UntouchedUnseen DEF PoolEnabled, Enabled, Untouched
<1>3. \A c \in Children : Settlement(g, c)' = Settlement(g, c)
  BY <1>1 DEF Settlement, Children
<1>4. CASE pc'[g] \in {"Enabled", "Handle"}
  <2>1. Unseen(g)
    BY <1>1, <1>3, <1>4 DEF Unseen, CallStatus, Verdict
  <2> QED
    BY <1>1, <1>2, <2>1, UnseenStutters
<1>5. CASE pc'[g] \in {"dropped", "panicked"}
  <2>1. CallStatus(g) = "open" /\ CallStatus(g)' = "abandoned" /\ Verdict(g)' = Nil
    BY <1>1, <1>5 DEF CallStatus, Verdict
  <2> QED
    BY <1>1, <1>2, <1>3, <2>1, SeenAbandon DEF F!Next
<1>6. pc'[g] \in {"Enabled", "Handle", "dropped", "panicked"}
  BY DEF PoolEnabled, Enabled
<1> QED
  BY <1>4, <1>5, <1>6

(* An empty pool gives up at once.                                         *)
LEMMA HandleEmptyRefines ==
  ASSUME IInv, NEW g \in Goroutine, HandleEmpty(g)
  PROVE  [F!Next]_(F!vars)
<1> USE DEF IInv, TypeOK, DispatchTypeOK
<1>1. /\ UNCHANGED <<size, fate>> /\ pc[g] = "Handle" /\ pc'[g] = "returned"
      /\ size = 0 /\ err'[g] = Nil
  BY DEF HandleEmpty
<1>2. ASSUME NEW h \in Goroutine \ {g} PROVE Unseen(h)
  BY <1>2, UntouchedUnseen DEF HandleEmpty, Untouched
<1>3. CallStatus(g) = "open" /\ CallStatus(g)' = "complete" /\ Verdict(g)' = Verdict(g)
  BY <1>1 DEF CallStatus, Verdict
<1>4. Children = {}
  BY <1>1 DEF Children
<1>5. F!GiveUp(g)
  BY <1>1, <1>2, <1>3, <1>4 DEF F!GiveUp, Unseen, Verdict, Children
<1> QED
  BY <1>5 DEF F!Next

(* Entering the Handle loop is not seen.                                   *)
LEMMA HandleRefines ==
  ASSUME IInv, NEW g \in Goroutine, Handle(g)
  PROVE  UNCHANGED F!vars
<1> USE DEF IInv, TypeOK, DispatchTypeOK
<1>1. UNCHANGED size
  BY DEF Handle
<1>2. ASSUME NEW h \in Goroutine \ {g} PROVE Unseen(h)
  BY <1>2, UntouchedUnseen DEF Handle, Untouched
<1>3. Unseen(g)
  BY DEF Handle, Unseen, CallStatus, Settlement, Verdict, Children
<1> QED
  BY <1>1, <1>2, <1>3, UnseenStutters

(* A disabled child is passed over; a child that begins to run is still    *)
(* pending; a child whose Enabled panics ends the call.                    *)
LEMMA TryRefines ==
  ASSUME IInv, NEW g \in Goroutine, HandleTry(g)
  PROVE  [F!Next]_(F!vars)
<1> USE DEF IInv, TypeOK, DispatchTypeOK
<1>0. PICK c \in Children : c = Slot(start[g], pos[g]) /\ TurnOf(g, c) = pos[g]
  BY OneChildPerTurn DEF HandleTry, Visit
<1>1. UNCHANGED <<size, err>> /\ pc[g] = "loop" /\ fate[g][c] = "untried"
  BY <1>0 DEF HandleTry, Visit, CallInv, LoopInv
<1>2. ASSUME NEW h \in Goroutine \ {g} PROVE Unseen(h)
  BY <1>2, UntouchedUnseen DEF HandleTry, Visit, Untouched
<1>3. CASE pc'[g] = "child" /\ fate' = [fate EXCEPT ![g][c] = "running"]
  <2>1. \A d \in Children : Settlement(g, d)' = Settlement(g, d)
    BY <1>1, <1>3 DEF Settlement, Children
  <2>2. Unseen(g)
    BY <1>1, <1>3, <2>1 DEF Unseen, CallStatus, Verdict
  <2> QED
    BY <1>1, <1>2, <2>2, UnseenStutters
<1>4. CASE pc' = pc /\ fate' = [fate EXCEPT ![g][c] = "disabled"]
  <2>1. CallStatus(g) = "open" /\ CallStatus(g)' = "open" /\ Verdict(g)' = Verdict(g)
    BY <1>1, <1>4 DEF CallStatus, Verdict
  <2>2. /\ Settlement(g, c) = "pending" /\ Settlement(g, c)' = "passed"
        /\ \A d \in Children \ {c} : Settlement(g, d)' = Settlement(g, d)
    BY <1>1, <1>4 DEF Settlement, Children
  <2>3. F!Attempt(g, c, "passed")
    BY <1>1, <1>2, <2>1, <2>2, SeenAttempt
  <2>4. F!Pass(g, c)
    BY <1>2, <2>1, <2>3 DEF F!Pass, Unseen, Verdict
  <2> QED
    BY <1>1, <2>4 DEF F!Next, Children
<1>5. CASE pc'[g] = "panicked" /\ fate' = fate
  <2>1. CallStatus(g) = "open" /\ CallStatus(g)' = "abandoned" /\ Verdict(g)' = Nil
    BY <1>1, <1>5 DEF CallStatus, Verdict
  <2>2. \A d \in Children : Settlement(g, d)' = Settlement(g, d)
    BY <1>1, <1>5 DEF Settlement, Children
  <2> QED
    BY <1>1, <1>2, <2>1, <2>2, SeenAbandon DEF F!Next
<1> QED
  BY <1>0, <1>3, <1>4, <1>5 DEF HandleTry, Visit

(* A child that comes back has accepted the record, which ends the call    *)
(* with nil, or refused it, which is then the error to report.             *)
LEMMA AttemptedRefines ==
  ASSUME IInv, NEW g \in Goroutine, NEW outcome \in Outcome, HandleAttempted(g, outcome)
  PROVE  [F!Next]_(F!vars)
<1> DEFINE result == IF outcome = "ok" THEN "accepted" ELSE "refused"
<1> USE DEF IInv, TypeOK, DispatchTypeOK
<1>0. PICK c \in Children : c = Slot(start[g], pos[g]) /\ TurnOf(g, c) = pos[g]
  BY OneChildPerTurn DEF HandleAttempted, Settle, CallInv, LoopInv
<1>1. UNCHANGED size /\ pc[g] = "child" /\ fate[g][c] = "running"
  BY <1>0 DEF HandleAttempted, Settle, CallInv, LoopInv
<1>2. fate' = [fate EXCEPT ![g][c] = outcome]
  BY <1>0 DEF HandleAttempted, Settle
<1>3. ASSUME NEW h \in Goroutine \ {g} PROVE Unseen(h)
  BY <1>3, UntouchedUnseen DEF HandleAttempted, Settle, Untouched
<1>4. /\ Settlement(g, c) = "pending" /\ Settlement(g, c)' = result
      /\ \A d \in Children \ {c} : Settlement(g, d)' = Settlement(g, d)
  BY <1>1, <1>2 DEF Settlement, Children, Outcome
<1>5. F!Attempt(g, c, result)
  BY <1>1, <1>3, <1>4, SeenAttempt DEF CallStatus
<1>6. CASE outcome = "ok"
  <2>1. pc'[g] = "returned" /\ err'[g] = Nil
    BY <1>6 DEF HandleAttempted, Settle, try
  <2>2. CallStatus(g)' = "complete" /\ Verdict(g)' = Nil
    BY <2>1 DEF CallStatus, Verdict
  <2>3. F!Accept(g, c)
    BY <1>3, <1>5, <1>6, <2>2, SeenStatus, SeenVerdict
       DEF F!Accept, F!Nil, Nil, Verdict
  <2> QED
    BY <1>1, <2>3 DEF F!Next, Children
<1>7. CASE outcome \in {"error", "panic"}
  <2>1. try(outcome, c) = c /\ c # Nil
    BY <1>7 DEF try, Nil, Children
  <2>2. pc'[g] = "loop" /\ err'[g] = c
    BY <1>0, <2>1 DEF HandleAttempted, Settle
  <2>3. CallStatus(g)' = CallStatus(g) /\ Verdict(g)' = c
    BY <1>1, <2>2 DEF CallStatus, Verdict
  <2>4. F!Refuse(g, c)
    BY <1>3, <1>5, <1>7, <2>3, SeenVerdict DEF F!Refuse, Unseen, Verdict
  <2> QED
    BY <1>1, <2>4 DEF F!Next, Children
<1> QED
  BY <1>6, <1>7 DEF Outcome

(* The end of the loop gives up: every child was passed over or refused.   *)
LEMMA GiveUpRefines ==
  ASSUME IInv, NEW g \in Goroutine, HandleGiveUp(g)
  PROVE  [F!Next]_(F!vars)
<1> USE DEF IInv, TypeOK, DispatchTypeOK
<1>1. UNCHANGED <<size, fate, err>> /\ pc[g] = "loop" /\ pc'[g] = "returned" /\ pos[g] > size
  BY DEF HandleGiveUp, Exhaust
<1>2. ASSUME NEW h \in Goroutine \ {g} PROVE Unseen(h)
  BY <1>2, UntouchedUnseen DEF HandleGiveUp, Exhaust, Untouched
<1>3. CallStatus(g) = "open" /\ CallStatus(g)' = "complete" /\ Verdict(g)' = Verdict(g)
  BY <1>1 DEF CallStatus, Verdict
<1>4. \A c \in Children : Settlement(g, c)' = Settlement(g, c)
  BY <1>1 DEF Settlement, Children
<1>5. ASSUME NEW c \in Children PROVE fate[g][c] \in {"disabled", "error", "panic"}
  <2>1. size \in Nat \ {0} /\ start[g] \in Starts
    BY <1>1, DispatchAssumption DEF CallInv, LoopInv, WalkInv
  <2>2. TurnOf(g, c) \in 1 .. size
    BY <2>1, SlotOfTurn DEF TurnOf
  <2>3. TurnOf(g, c) < pos[g]
    BY <1>1, <2>2
  <2> QED
    BY <1>1, <2>3 DEF CallInv, LoopInv
<1>6. \A c \in Children : Settlement(g, c) \in {"passed", "refused"}
  BY <1>5 DEF Settlement
<1>7. F!GiveUp(g)
  BY <1>1, <1>2, <1>3, <1>4, <1>6 DEF F!GiveUp, Unseen, Verdict, Children
<1> QED
  BY <1>7 DEF F!Next

(* PoolHandler implements the first-success dispatch: nobody is        *)
(* attempted twice in a call, the first child that accepts ends it, and    *)
(* the error of a call without one is the last refusal.                    *)
THEOREM Refinement == Spec => ImplementsFirstSuccess
<1>1. ASSUME IInv, [Next]_vars PROVE [F!Next]_(F!vars)
  <2>1. CASE Environment
    BY <1>1, <2>1, EnvironmentRefines
  <2>2. ASSUME NEW g \in Goroutine, Advance(g) PROVE [F!Next]_(F!vars)
    BY <1>1, <2>2, EnabledRefines, HandleEmptyRefines, HandleRefines,
        TryRefines, GiveUpRefines DEF Advance
  <2>3. ASSUME NEW g \in Goroutine, ChildComesBack(g) PROVE [F!Next]_(F!vars)
    BY <1>1, <2>3, AttemptedRefines DEF ChildComesBack
  <2>4. CASE UNCHANGED vars
    <3>1. UNCHANGED size /\ \A h \in Goroutine : Unseen(h)
      BY <2>4 DEF vars, dispatchVars, Unseen, CallStatus, Settlement, Verdict, Children
    <3> QED
      BY <3>1, UnseenStutters
  <2> QED
    BY <1>1, <2>1, <2>2, <2>3, <2>4 DEF Next
<1> QED
  BY <1>1, InitRefines, Invariance, PTL DEF Spec, ImplementsFirstSuccess
=============================================================================
