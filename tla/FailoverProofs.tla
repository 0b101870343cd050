--------------------------- MODULE FailoverProofs ---------------------------
(***************************************************************************)
(* FailoverHandler keeps its promises for any number of goroutines,        *)
(* children and levels.  Its err keeps no more than the last failure, so   *)
(* the argument is about what a nil err says of the children behind the    *)
(* loop counter.                                                           *)
(***************************************************************************)
EXTENDS Failover, TLAPS

(* A child is attempted after each child before it was left behind.        *)
PriorityInv(g) ==
  \A c \in Children : fate[g][c] # "untried" =>
     \A b \in 1 .. c - 1 : fate[g][b] \in {"disabled", "error", "panic"}

(* In the loop every child behind the counter was disabled or failed, the  *)
(* one at the counter may be running, and the others are untried.  While   *)
(* err is nil, all those behind were disabled.                             *)
LoopInv(g) ==
  pc[g] \in {"loop", "child"} =>
     /\ \A c \in Children :
           /\ c < pos[g] => /\ fate[g][c] \in {"disabled", "error", "panic"}
                            /\ err[g] = Nil => fate[g][c] = "disabled"
                            /\ fate[g][c] = "disabled" /\ fresh[g] => ~ Admits(g, c)
           /\ c = pos[g] => fate[g][c] = IF pc[g] = "child" THEN "running" ELSE "untried"
           /\ c > pos[g] => fate[g][c] = "untried"
     /\ pc[g] = "child" => pos[g] <= size

(* A nil error stands for one child that accepted the record, or for none  *)
(* that wanted it.                                                         *)
ReturnedInv(g) ==
  pc[g] = "returned" /\ err[g] = Nil =>
     \/ \E c \in Children : /\ fate[g][c] = "ok"
                            /\ \A d \in Children \ {c} : fate[g][d] # "ok"
     \/ fresh[g] => \A c \in Children : ~ Admits(g, c)

CallInv(g) == EnabledInv(g) /\ PriorityInv(g) /\ LoopInv(g) /\ ReturnedInv(g)

IInv ==
  /\ TypeOK
  /\ \A g \in Goroutine : CallInv(g)

-----------------------------------------------------------------------------

(* A turn of the Enabled loop keeps the types.                             *)
LEMMA EnabledTyped ==
  ASSUME DispatchTypeOK, NEW g \in Goroutine, Enabled(g)
  PROVE  DispatchTypeOK'
<1>1. UNCHANGED <<size, threshold, level, fate, fresh>>
  BY DEF Enabled
<1>2. pos' \in [Goroutine -> 1 .. size + 1]
  BY DEF Enabled, DispatchTypeOK
<1>3. pc' \in [Goroutine -> Control]
  BY DEF Enabled, DispatchTypeOK, Control, Rest
<1> QED
  BY <1>1, <1>2, <1>3 DEF DispatchTypeOK, Children

(* A turn of a Handle loop keeps the types.                                *)
LEMMA VisitTyped ==
  ASSUME DispatchTypeOK, NEW g \in Goroutine, NEW c \in Children, Visit(g, c)
  PROVE  DispatchTypeOK'
<1>1. UNCHANGED <<size, threshold, level, fresh>>
  BY DEF Visit
<1>2. CASE fate' = [fate EXCEPT ![g][c] = "running"] /\ pc' = [pc EXCEPT ![g] = "child"] /\ UNCHANGED pos
  BY <1>1, <1>2 DEF DispatchTypeOK, Children, Control, Fate
<1>3. CASE fate' = [fate EXCEPT ![g][c] = "disabled"] /\ pos' = [pos EXCEPT ![g] = @ + 1] /\ UNCHANGED pc
  <2>1. pos[g] + 1 \in 1 .. size + 1
    BY DEF Visit, DispatchTypeOK
  <2> QED
    BY <1>1, <1>3, <2>1 DEF DispatchTypeOK, Children, Fate
<1>4. CASE pc' = [pc EXCEPT ![g] = "panicked"] /\ UNCHANGED <<pos, fate>>
  BY <1>1, <1>4 DEF DispatchTypeOK, Children, Control, Rest
<1> QED
  BY <1>2, <1>3, <1>4 DEF Visit

(* The steps of the others do not touch what goroutine h knows.            *)
Untouched(h) ==
  /\ UNCHANGED <<size, threshold>>
  /\ pc'[h] = pc[h] /\ level'[h] = level[h] /\ pos'[h] = pos[h]
  /\ fate'[h] = fate[h] /\ fresh'[h] = fresh[h] /\ err'[h] = err[h]

LEMMA UntouchedKeepsInv ==
  ASSUME NEW h \in Goroutine, CallInv(h), Untouched(h)
  PROVE  CallInv(h)'
BY DEF CallInv, EnabledInv, PriorityInv, LoopInv, ReturnedInv, Untouched, Admits, Children

(* The handler starts with every goroutine at rest and nothing tried.      *)
LEMMA InitInv == Init => IInv
<1> SUFFICES ASSUME Init PROVE IInv
  OBVIOUS
<1>1. DispatchTypeOK
  BY DispatchAssumption
     DEF Init, DispatchInit, DispatchTypeOK, Children, Level, Control, Rest, Fate, Outcome
<1>2. TypeOK
  BY <1>1 DEF TypeOK, Init
<1>3. ASSUME NEW g \in Goroutine PROVE CallInv(g)
  BY DEF Init, DispatchInit, CallInv, EnabledInv, PriorityInv, LoopInv, ReturnedInv
<1> QED
  BY <1>2, <1>3 DEF IInv

(* Calls and moving levels preserve the invariant: a moved level only      *)
(* takes away what was said of fresh calls.                                *)
LEMMA EnvironmentInv == IInv /\ Environment => IInv'
<1> SUFFICES ASSUME IInv, Environment PROVE IInv'
  OBVIOUS
<1> USE DEF IInv, TypeOK
<1>1. CASE \E c \in Children, l \in Level : SetLevel(c, l)
  <2>1. PICK c \in Children, l \in Level : SetLevel(c, l)
    BY <1>1
  <2>2. DispatchTypeOK'
    BY <2>1 DEF SetLevel, DispatchTypeOK, Children, Level, Control, Rest, Fate, Outcome
  <2>3. TypeOK'
    BY <2>1, <2>2 DEF Environment, SetLevel, Children
  <2>4. ASSUME NEW g \in Goroutine PROVE CallInv(g)'
    BY <2>1 DEF Environment, SetLevel, CallInv, EnabledInv, PriorityInv, LoopInv,
                ReturnedInv, Children
  <2> QED
    BY <2>3, <2>4
<1>2. CASE \E g \in Goroutine, l \in Level, method \in {"Enabled", "Handle"} : Call(g, l, method)
  <2>1. PICK g \in Goroutine, l \in Level, method \in {"Enabled", "Handle"} : Call(g, l, method)
    BY <1>2
  <2>2. DispatchTypeOK'
    BY <2>1 DEF Call, DispatchTypeOK, Children, Level, Control, Rest, Fate, Outcome
  <2>3. TypeOK'
    BY <2>1, <2>2 DEF Environment, Call, Children
  <2>4. CallInv(g)'
    BY <2>1 DEF Call, CallInv, EnabledInv, PriorityInv, LoopInv, ReturnedInv,
                DispatchTypeOK, Children
  <2>5. ASSUME NEW h \in Goroutine, h # g PROVE CallInv(h)'
    <3>1. Untouched(h)
      BY <2>1, <2>5 DEF Environment, Call, Untouched, DispatchTypeOK
    <3> QED
      BY <3>1, UntouchedKeepsInv
  <2> QED
    BY <2>3, <2>4, <2>5
<1> QED
  BY <1>1, <1>2 DEF Environment

(* A turn of the Enabled loop leaves a child behind only if it does not    *)
(* want the record.                                                        *)
LEMMA EnabledKeepsInv ==
  ASSUME IInv, NEW g \in Goroutine, FailoverEnabled(g)
  PROVE  IInv'
<1> USE DEF IInv, TypeOK
<1>1. DispatchTypeOK'
  BY EnabledTyped DEF FailoverEnabled
<1>2. TypeOK'
  BY <1>1 DEF FailoverEnabled, Enabled, Children
<1>3. EnabledInv(g)'
  BY DEF FailoverEnabled, Enabled, CallInv, EnabledInv, Admits, DispatchTypeOK, Children
<1>4. PriorityInv(g)' /\ LoopInv(g)' /\ ReturnedInv(g)'
  BY DEF FailoverEnabled, Enabled, CallInv, PriorityInv, LoopInv, ReturnedInv,
         DispatchTypeOK, Children
<1>5. ASSUME NEW h \in Goroutine, h # g PROVE CallInv(h)'
  <2>1. Untouched(h)
    BY <1>5 DEF FailoverEnabled, Enabled, Untouched, DispatchTypeOK
  <2> QED
    BY <2>1, UntouchedKeepsInv
<1> QED
  BY <1>2, <1>3, <1>4, <1>5 DEF CallInv

(* Entering the Handle loop: nobody was tried.                             *)
LEMMA HandleKeepsInv ==
  ASSUME IInv, NEW g \in Goroutine, Handle(g)
  PROVE  IInv'
<1> USE DEF IInv, TypeOK
<1>1. TypeOK'
  BY DEF Handle, DispatchTypeOK, Children, Control
<1>2. CallInv(g)'
  BY DEF Handle, CallInv, EnabledInv, PriorityInv, LoopInv, ReturnedInv,
         DispatchTypeOK, Children
<1>3. ASSUME NEW h \in Goroutine, h # g PROVE CallInv(h)'
  <2>1. Untouched(h)
    BY <1>3 DEF Handle, Untouched, DispatchTypeOK
  <2> QED
    BY <2>1, UntouchedKeepsInv
<1> QED
  BY <1>1, <1>2, <1>3

(* A turn of the loop: the child at the counter begins to run if it is     *)
(* enabled, and is left behind as disabled if it is not.                   *)
LEMMA TryKeepsInv ==
  ASSUME IInv, NEW g \in Goroutine, HandleTry(g)
  PROVE  IInv'
<1> USE DEF IInv, TypeOK
<1>0. PICK c \in Children : c = pos[g]
  BY DEF HandleTry, Visit, DispatchTypeOK, Children
<1>1. pc[g] = "loop" /\ UNCHANGED <<size, threshold, level, fresh, err>>
  BY DEF HandleTry, Visit
<1>2. DispatchTypeOK'
  BY <1>0, VisitTyped DEF HandleTry
<1>3. TypeOK'
  BY <1>1, <1>2 DEF Children
<1>4. CallInv(g)'
  <2> USE <1>0, <1>1
      DEF CallInv, EnabledInv, PriorityInv, LoopInv, ReturnedInv, DispatchTypeOK, Children
  <2>1. CASE /\ pc' = [pc EXCEPT ![g] = "child"]
             /\ fate' = [fate EXCEPT ![g][c] = "running"]
             /\ UNCHANGED pos
    BY <2>1 DEF Admits
  <2>2. CASE /\ ~ Admits(g, c)
             /\ fate' = [fate EXCEPT ![g][c] = "disabled"]
             /\ pos' = [pos EXCEPT ![g] = @ + 1]
             /\ UNCHANGED pc
    BY <2>2 DEF Admits
  <2>3. CASE pc' = [pc EXCEPT ![g] = "panicked"] /\ UNCHANGED fate
    BY <2>3
  <2> QED
    BY <2>1, <2>2, <2>3 DEF HandleTry, Visit
<1>5. ASSUME NEW h \in Goroutine, h # g PROVE CallInv(h)'
  <2>1. Untouched(h)
    BY <1>5 DEF HandleTry, Visit, Untouched, DispatchTypeOK
  <2> QED
    BY <2>1, UntouchedKeepsInv
<1> QED
  BY <1>3, <1>4, <1>5

(* A child that accepted the record is the only one that did; a child that *)
(* failed is left behind and makes err non-nil.                            *)
LEMMA AttemptedKeepsInv ==
  ASSUME IInv, NEW g \in Goroutine, NEW outcome \in Outcome, HandleAttempted(g, outcome)
  PROVE  IInv'
<1> USE DEF IInv, TypeOK
<1>0. PICK c \in Children : c = pos[g]
  BY DEF HandleAttempted, Settle, CallInv, LoopInv, DispatchTypeOK, Children
<1>1. /\ pc[g] = "child"
      /\ UNCHANGED <<size, threshold, level, fresh>>
      /\ pos' = [pos EXCEPT ![g] = @ + 1]
      /\ fate' = [fate EXCEPT ![g][c] = outcome]
  BY <1>0 DEF HandleAttempted, Settle
<1>2. \/ /\ outcome = "ok"
         /\ pc' = [pc EXCEPT ![g] = "returned"]
         /\ err' = [err EXCEPT ![g] = Nil]
      \/ /\ outcome \in {"error", "panic"}
         /\ pc' = [pc EXCEPT ![g] = "loop"]
         /\ err' = [err EXCEPT ![g] = c]
         /\ c # Nil
  <2>1. CASE outcome = "ok"
    <3>1. try(outcome, pos[g]) = Nil
      BY <2>1 DEF try
    <3> QED
      BY <2>1, <3>1 DEF HandleAttempted, Settle
  <2>2. CASE outcome \in {"error", "panic"}
    <3>1. try(outcome, pos[g]) = c /\ c # Nil
      BY <1>0, <2>2 DEF try, Nil, Children
    <3> QED
      BY <2>2, <3>1 DEF HandleAttempted, Settle
  <2> QED
    BY <2>1, <2>2 DEF Outcome
<1>3. TypeOK'
  <2>1. DispatchTypeOK'
    BY <1>0
       DEF HandleAttempted, Settle, DispatchTypeOK, Children, Level, Control, Rest, Fate, Outcome
  <2> QED
    BY <1>1, <1>2, <2>1 DEF Children
<1>4. \A d \in Children : /\ d \in Int
                          /\ d < c => fate[g][d] \in {"disabled", "error", "panic"}
                          /\ d < c /\ fate[g][d] = "disabled" /\ fresh[g] => ~ Admits(g, d)
                          /\ d > c => fate[g][d] = "untried"
  BY <1>0, <1>1 DEF CallInv, LoopInv, Children
<1>5. fate'[g][c] = outcome /\ \A d \in Children \ {c} : fate'[g][d] = fate[g][d]
  BY <1>0, <1>1 DEF DispatchTypeOK
<1>6. pos'[g] = c + 1 /\ c \in Int
  BY <1>0, <1>1 DEF DispatchTypeOK, Children
<1>7. PriorityInv(g)'
  <2> SUFFICES ASSUME NEW d \in Children, fate'[g][d] # "untried", NEW b \in 1 .. d - 1
               PROVE  fate'[g][b] \in {"disabled", "error", "panic"}
    BY <1>1 DEF PriorityInv, Children
  <2>1. d <= c
    BY <1>4, <1>5, <1>6
  <2>2. b \in Children /\ b < c
    BY <1>6, <2>1 DEF Children, DispatchTypeOK
  <2> QED
    BY <1>4, <1>5, <1>6, <2>2
<1>8. CallInv(g)'
  <2>1. CASE outcome = "ok"
    <3>1. pc'[g] = "returned"
      BY <1>2, <2>1 DEF DispatchTypeOK
    <3>2. \A d \in Children \ {c} : fate'[g][d] # "ok"
      <4> SUFFICES ASSUME NEW d \in Children \ {c} PROVE fate[g][d] # "ok"
        BY <1>5
      <4>1. d < c \/ d > c
        BY <1>4, <1>6
      <4> QED
        BY <1>4, <4>1
    <3>3. ReturnedInv(g)'
      BY <1>1, <1>5, <2>1, <3>2 DEF ReturnedInv, Children
    <3> QED
      BY <1>7, <3>1, <3>3 DEF CallInv, EnabledInv, LoopInv
  <2>2. CASE outcome \in {"error", "panic"}
    <3>1. pc'[g] = "loop" /\ err'[g] # Nil
      BY <1>2, <2>2 DEF DispatchTypeOK
    <3>2. \A d \in Children : Admits(g, d)' <=> Admits(g, d)
      BY <1>1 DEF Admits
    <3>3. ASSUME NEW d \in Children
          PROVE  /\ d < pos'[g] => /\ fate'[g][d] \in {"disabled", "error", "panic"}
                                   /\ fate'[g][d] = "disabled" /\ fresh[g] => ~ Admits(g, d)
                 /\ d >= pos'[g] => fate'[g][d] = "untried"
      <4>1. CASE d < c
        BY <1>4, <1>5, <1>6, <4>1
      <4>2. CASE d = c
        BY <1>5, <1>6, <2>2, <4>2
      <4>3. CASE d > c
        BY <1>4, <1>5, <1>6, <4>3
      <4>4. d < c \/ d = c \/ d > c
        BY <1>6 DEF Children, DispatchTypeOK
      <4> QED
        BY <4>1, <4>2, <4>3, <4>4
    <3>4. LoopInv(g)'
      BY <1>1, <1>4, <1>6, <3>1, <3>2, <3>3 DEF LoopInv, Children
    <3> QED
      BY <1>7, <3>1, <3>4 DEF CallInv, EnabledInv, ReturnedInv
  <2> QED
    BY <2>1, <2>2 DEF Outcome
<1>9. ASSUME NEW h \in Goroutine, h # g PROVE CallInv(h)'
  <2>1. Untouched(h)
    BY <1>1, <1>2, <1>9 DEF Untouched, DispatchTypeOK
  <2> QED
    BY <2>1, UntouchedKeepsInv
<1> QED
  BY <1>3, <1>8, <1>9

(* The loop ends with every child behind the counter.                      *)
LEMMA GiveUpKeepsInv ==
  ASSUME IInv, NEW g \in Goroutine, HandleGiveUp(g)
  PROVE  IInv'
<1> USE DEF IInv, TypeOK
<1>1. DispatchTypeOK'
  BY
     DEF HandleGiveUp, Exhaust, DispatchTypeOK, Children, Level, Control, Rest, Fate, Outcome
<1>2. TypeOK'
  BY <1>1 DEF HandleGiveUp, Exhaust, Children
<1>3. CallInv(g)'
  BY DEF HandleGiveUp, Exhaust, CallInv, EnabledInv, PriorityInv, LoopInv, ReturnedInv,
         DispatchTypeOK, Children, Admits
<1>4. ASSUME NEW h \in Goroutine, h # g PROVE CallInv(h)'
  <2>1. Untouched(h)
    BY <1>4 DEF HandleGiveUp, Exhaust, Untouched, DispatchTypeOK
  <2> QED
    BY <2>1, UntouchedKeepsInv
<1> QED
  BY <1>2, <1>3, <1>4

(* Every step preserves the invariant.                                     *)
LEMMA NextInv == IInv /\ [Next]_vars => IInv'
<1> SUFFICES ASSUME IInv, [Next]_vars PROVE IInv'
  OBVIOUS
<1>1. CASE Environment
  BY <1>1, EnvironmentInv
<1>2. ASSUME NEW g \in Goroutine, Advance(g) PROVE IInv'
  BY <1>2, EnabledKeepsInv, HandleKeepsInv, TryKeepsInv, GiveUpKeepsInv DEF Advance
<1>3. ASSUME NEW g \in Goroutine, ChildComesBack(g) PROVE IInv'
  BY <1>3, AttemptedKeepsInv DEF ChildComesBack
<1>4. CASE UNCHANGED vars
  BY <1>4 DEF vars, dispatchVars, IInv, TypeOK, DispatchTypeOK, CallInv, EnabledInv,
              PriorityInv, LoopInv, ReturnedInv, Admits, Children
<1> QED
  BY <1>1, <1>2, <1>3, <1>4 DEF Next

(* The invariant holds in every reachable state.                           *)
THEOREM Invariance == Spec => []IInv
<1>1. Init => IInv
  BY InitInv
<1>2. IInv /\ [Next]_vars => IInv'
  BY NextInv
<1> QED
  BY <1>1, <1>2, PTL DEF Spec

-----------------------------------------------------------------------------

(* The variables of FailoverHandler stay in their types.                   *)
THEOREM TypeCorrect == Spec => []TypeOK
<1>1. IInv => TypeOK
  BY DEF IInv
<1> QED
  BY <1>1, Invariance, PTL

(* Priority order, for any number of children, goroutines and levels: a    *)
(* child is turned to only after each child before it was disabled or      *)
(* failed in the same call.                                                *)
THEOREM PriorityOrder == Spec => []PriorityRespected
<1>1. IInv => PriorityRespected
  BY DEF IInv, CallInv, PriorityInv, PriorityRespected
<1> QED
  BY <1>1, Invariance, PTL

(* No silent loss, for any number of children, goroutines and levels: a    *)
(* nil error of a call during which no level moved means that exactly one  *)
(* child accepted the record, or that none wanted it.                      *)
THEOREM LossIsReported == Spec => []NoSilentLoss
<1>1. IInv => NoSilentLoss
  <2> SUFFICES ASSUME IInv, NEW g \in Goroutine, fresh[g]
               PROVE  /\ pc[g] = "returned" /\ err[g] = Nil =>
                            \/ \E c \in Children : Reached(g) \ Failed(g) = {c}
                            \/ \A c \in Children : ~ Admits(g, c)
                      /\ pc[g] = "dropped" => \A c \in Children : ~ Admits(g, c)
    BY DEF NoSilentLoss
  <2>1. ASSUME NEW c \in Children, fate[g][c] = "ok",
               \A d \in Children \ {c} : fate[g][d] # "ok"
        PROVE  Reached(g) \ Failed(g) = {c}
    BY <2>1 DEF Reached, Failed, Outcome
  <2>2. ASSUME pc[g] = "returned", err[g] = Nil
        PROVE  \/ \E c \in Children : Reached(g) \ Failed(g) = {c}
               \/ \A c \in Children : ~ Admits(g, c)
    BY <2>1, <2>2 DEF IInv, CallInv, ReturnedInv
  <2>3. ASSUME pc[g] = "dropped", NEW c \in Children PROVE ~ Admits(g, c)
    BY <2>3 DEF IInv, CallInv, TypeOK, DispatchTypeOK, EnabledInv, Children
  <2> QED
    BY <2>2, <2>3
<1> QED
  BY <1>1, Invariance, PTL

-----------------------------------------------------------------------------

(* The error the first-success dispatch sees, and what it does not see     *)
(* change of goroutine h.                                                  *)
Verdict(g) == IF pc[g] \in {"loop", "child", "returned"} THEN err[g] ELSE Nil

Unseen(h) ==
  /\ CallStatus(h)' = CallStatus(h)
  /\ \A c \in Children : Settlement(h, c)' = Settlement(h, c)
  /\ Verdict(h)' = Verdict(h)

(* A step that nothing of is seen is a stuttering step.                    *)
LEMMA UnseenStutters ==
  ASSUME UNCHANGED size, \A h \in Goroutine : Unseen(h)
  PROVE  UNCHANGED F!vars
BY DEF F!vars, Unseen, Verdict, Children

LEMMA InitRefines == Init => F!Init
BY DispatchAssumption
   DEF Init, DispatchInit, F!Init, F!Nil, Nil, CallStatus, Settlement, Children

LEMMA UntouchedUnseen ==
  ASSUME NEW h \in Goroutine, Untouched(h)
  PROVE  Unseen(h)
BY DEF Untouched, Unseen, CallStatus, Settlement, Verdict, Children

(* How the steps of the first-success dispatch look through the mapping:   *)
(* goroutine g does something that is seen and the others do not.          *)
LEMMA SeenBegin ==
  ASSUME UNCHANGED size, NEW g \in Goroutine,
         \A h \in Goroutine \ {g} : Unseen(h),
         CallStatus(g) # "open", CallStatus(g)' = "open",
         \A c \in Children : Settlement(g, c)' = "pending",
         Verdict(g)' = Nil
  PROVE  F!Begin(g)
BY DEF F!Begin, F!Nil, Nil, Unseen, Verdict, Children

LEMMA SeenAttempt ==
  ASSUME UNCHANGED size, NEW g \in Goroutine, NEW c \in Children, NEW result,
         \A h \in Goroutine \ {g} : Unseen(h),
         CallStatus(g) = "open",
         Settlement(g, c) = "pending", Settlement(g, c)' = result,
         \A d \in Children \ {c} : Settlement(g, d)' = Settlement(g, d)
  PROVE  F!Attempt(g, c, result)
BY DEF F!Attempt, Unseen, Children

LEMMA SeenStatus ==
  ASSUME NEW g \in Goroutine, NEW s,
         \A h \in Goroutine \ {g} : Unseen(h),
         CallStatus(g)' = s
  PROVE  [h \in Goroutine |-> CallStatus(h)]'
           = [[h \in Goroutine |-> CallStatus(h)] EXCEPT ![g] = s]
BY DEF Unseen

LEMMA SeenVerdict ==
  ASSUME NEW g \in Goroutine, NEW v,
         \A h \in Goroutine \ {g} : Unseen(h),
         Verdict(g)' = v
  PROVE  [h \in Goroutine |-> Verdict(h)]'
           = [[h \in Goroutine |-> Verdict(h)] EXCEPT ![g] = v]
BY DEF Unseen

(* A step that leaves a call abandoned, with no child settled by it.       *)
LEMMA SeenAbandon ==
  ASSUME UNCHANGED size, NEW g \in Goroutine,
         \A h \in Goroutine \ {g} : Unseen(h),
         CallStatus(g) = "open", CallStatus(g)' = "abandoned",
         \A c \in Children : Settlement(g, c)' = Settlement(g, c),
         Verdict(g)' = Nil
  PROVE  F!Abandon(g)
BY DEF F!Abandon, F!Nil, Nil, Unseen, Verdict, Children

(* Moving a level is not seen; a call begins a dispatch.                   *)
LEMMA EnvironmentRefines == IInv /\ Environment => [F!Next]_(F!vars)
<1> SUFFICES ASSUME IInv, Environment PROVE [F!Next]_(F!vars)
  OBVIOUS
<1> USE DEF IInv, TypeOK, DispatchTypeOK
<1>1. CASE \E c \in Children, l \in Level : SetLevel(c, l)
  <2>1. UNCHANGED <<size, pc, fate, err>>
    BY <1>1 DEF Environment, SetLevel
  <2>2. \A h \in Goroutine : Unseen(h)
    BY <2>1 DEF Unseen, CallStatus, Settlement, Verdict, Children
  <2> QED
    BY <2>1, <2>2, UnseenStutters
<1>2. ASSUME NEW g \in Goroutine, NEW l \in Level, NEW method \in {"Enabled", "Handle"},
             Call(g, l, method)
      PROVE  F!Begin(g)
  <2>1. UNCHANGED <<size, err>> /\ pc[g] \in Rest /\ pc'[g] = method
    BY <1>2 DEF Environment, Call
  <2>2. ASSUME NEW h \in Goroutine \ {g} PROVE Unseen(h)
    BY <1>2, <2>2, UntouchedUnseen DEF Environment, Call, Untouched
  <2>3. CallStatus(g) # "open" /\ CallStatus(g)' = "open" /\ Verdict(g)' = Nil
    BY <2>1 DEF CallStatus, Verdict, Rest
  <2>4. \A c \in Children : fate'[g][c] = "untried"
    BY <1>2 DEF Call
  <2>5. \A c \in Children : Settlement(g, c)' = "pending"
    BY <2>4 DEF Settlement
  <2> QED
    BY <2>1, <2>2, <2>3, <2>5, SeenBegin
<1> QED
  BY <1>1, <1>2 DEF Environment, F!Next

(* The Enabled loop is not seen, unless it ends the call.                  *)
LEMMA EnabledRefines ==
  ASSUME IInv, NEW g \in Goroutine, FailoverEnabled(g)
  PROVE  [F!Next]_(F!vars)
<1> USE DEF IInv, TypeOK, DispatchTypeOK
<1>1. UNCHANGED <<size, fate, err>> /\ pc[g] = "Enabled"
  BY DEF FailoverEnabled, Enabled
<1>2. ASSUME NEW h \in Goroutine \ {g} PROVE Unseen(h)
  BY <1>2, UntouchedUnseen DEF FailoverEnabled, Enabled, Untouched
<1>3. \A c \in Children : Settlement(g, c)' = Settlement(g, c)
  BY <1>1 DEF Settlement, Children
<1>4. CASE pc'[g] \in {"Enabled", "Handle"}
  <2>1. Unseen(g)
    BY <1>1, <1>3, <1>4 DEF Unseen, CallStatus, Verdict
  <2> QED
    BY <1>1, <1>2, <2>1, UnseenStutters
<1>5. CASE pc'[g] \in {"dropped", "panicked"}
  <2>1. CallStatus(g) = "open" /\ CallStatus(g)' = "abandoned" /\ Verdict(g)' = Nil
    BY <1>1, <1>5 DEF CallStatus, Verdict
  <2> QED
    BY <1>1, <1>2, <1>3, <2>1, SeenAbandon DEF F!Next
<1>6. pc'[g] \in {"Enabled", "Handle", "dropped", "panicked"}
  BY DEF FailoverEnabled, Enabled
<1> QED
  BY <1>4, <1>5, <1>6

(* Entering the Handle loop is not seen.                                   *)
LEMMA HandleRefines ==
  ASSUME IInv, NEW g \in Goroutine, Handle(g)
  PROVE  UNCHANGED F!vars
<1> USE DEF IInv, TypeOK, DispatchTypeOK
<1>1. UNCHANGED size
  BY DEF Handle
<1>2. ASSUME NEW h \in Goroutine \ {g} PROVE Unseen(h)
  BY <1>2, UntouchedUnseen DEF Handle, Untouched
<1>3. Unseen(g)
  BY DEF Handle, Unseen, CallStatus, Settlement, Verdict, Children
<1> QED
  BY <1>1, <1>2, <1>3, UnseenStutters

(* A disabled child is passed over; a child that begins to run is still    *)
(* pending; a child whose Enabled panics ends the call.                    *)
LEMMA TryRefines ==
  ASSUME IInv, NEW g \in Goroutine, HandleTry(g)
  PROVE  [F!Next]_(F!vars)
<1> USE DEF IInv, TypeOK, DispatchTypeOK
<1>0. PICK c \in Children : c = pos[g]
  BY DEF HandleTry, Visit, Children
<1>1. UNCHANGED <<size, err>> /\ pc[g] = "loop" /\ fate[g][c] = "untried"
  BY <1>0 DEF HandleTry, Visit, Children, CallInv, LoopInv
<1>2. ASSUME NEW h \in Goroutine \ {g} PROVE Unseen(h)
  BY <1>2, UntouchedUnseen DEF HandleTry, Visit, Untouched
<1>3. CASE pc'[g] = "child" /\ fate' = [fate EXCEPT ![g][c] = "running"]
  <2>1. \A d \in Children : Settlement(g, d)' = Settlement(g, d)
    BY <1>1, <1>3 DEF Settlement, Children
  <2>2. Unseen(g)
    BY <1>1, <1>3, <2>1 DEF Unseen, CallStatus, Verdict
  <2> QED
    BY <1>1, <1>2, <2>2, UnseenStutters
<1>4. CASE pc' = pc /\ fate' = [fate EXCEPT ![g][c] = "disabled"]
  <2>1. CallStatus(g) = "open" /\ CallStatus(g)' = "open" /\ Verdict(g)' = Verdict(g)
    BY <1>1, <1>4 DEF CallStatus, Verdict
  <2>2. /\ Settlement(g, c) = "pending" /\ Settlement(g, c)' = "passed"
        /\ \A d \in Children \ {c} : Settlement(g, d)' = Settlement(g, d)
    BY <1>1, <1>4 DEF Settlement, Children
  <2>3. F!Attempt(g, c, "passed")
    BY <1>1, <1>2, <2>1, <2>2, SeenAttempt
  <2>4. F!Pass(g, c)
    BY <1>2, <2>1, <2>3 DEF F!Pass, Unseen, Verdict
  <2> QED
    BY <1>1, <2>4 DEF F!Next, Children
<1>5. CASE pc'[g] = "panicked" /\ fate' = fate
  <2>1. CallStatus(g) = "open" /\ CallStatus(g)' = "abandoned" /\ Verdict(g)' = Nil
    BY <1>1, <1>5 DEF CallStatus, Verdict
  <2>2. \A d \in Children : Settlement(g, d)' = Settlement(g, d)
    BY <1>1, <1>5 DEF Settlement, Children
  <2> QED
    BY <1>1, <1>2, <2>1, <2>2, SeenAbandon DEF F!Next
<1> QED
  BY <1>0, <1>3, <1>4, <1>5 DEF HandleTry, Visit

(* A child that comes back has accepted the record, which ends the call    *)
(* with nil, or refused it, which is then the error to report.             *)
LEMMA AttemptedRefines ==
  ASSUME IInv, NEW g \in Goroutine, NEW outcome \in Outcome, HandleAttempted(g, outcome)
  PROVE  [F!Next]_(F!vars)
<1> DEFINE result == IF outcome = "ok" THEN "accepted" ELSE "refused"
<1> USE DEF IInv, TypeOK, DispatchTypeOK
<1>0. PICK c \in Children : c = pos[g]
  BY DEF HandleAttempted, Settle, Children, CallInv, LoopInv
<1>1. UNCHANGED size /\ pc[g] = "child" /\ fate[g][c] = "running"
  BY <1>0 DEF HandleAttempted, Settle, Children, CallInv, LoopInv
<1>2. fate' = [fate EXCEPT ![g][c] = outcome]
  BY <1>0 DEF HandleAttempted, Settle
<1>3. ASSUME NEW h \in Goroutine \ {g} PROVE Unseen(h)
  BY <1>3, UntouchedUnseen DEF HandleAttempted, Settle, Untouched
<1>4. /\ Settlement(g, c) = "pending" /\ Settlement(g, c)' = result
      /\ \A d \in Children \ {c} : Settlement(g, d)' = Settlement(g, d)
  BY <1>1, <1>2 DEF Settlement, Children, Outcome
<1>5. F!Attempt(g, c, result)
  BY <1>1, <1>3, <1>4, SeenAttempt DEF CallStatus
<1>6. CASE outcome = "ok"
  <2>1. pc'[g] = "returned" /\ err'[g] = Nil
    BY <1>6 DEF HandleAttempted, Settle, try
  <2>2. CallStatus(g)' = "complete" /\ Verdict(g)' = Nil
    BY <2>1 DEF CallStatus, Verdict
  <2>3. F!Accept(g, c)
    BY <1>3, <1>5, <1>6, <2>2, SeenStatus, SeenVerdict
       DEF F!Accept, F!Nil, Nil, Verdict
  <2> QED
    BY <1>1, <2>3 DEF F!Next, Children
<1>7. CASE outcome \in {"error", "panic"}
  <2>1. try(outcome, pos[g]) = c /\ c # Nil
    BY <1>0, <1>7 DEF try, Nil, Children
  <2>2. pc'[g] = "loop" /\ err'[g] = c
    BY <2>1 DEF HandleAttempted, Settle
  <2>3. CallStatus(g)' = CallStatus(g) /\ Verdict(g)' = c
    BY <1>1, <2>2 DEF CallStatus, Verdict
  <2>4. F!Refuse(g, c)
    BY <1>3, <1>5, <1>7, <2>3, SeenVerdict DEF F!Refuse, Unseen, Verdict
  <2> QED
    BY <1>1, <2>4 DEF F!Next, Children
<1> QED
  BY <1>6, <1>7 DEF Outcome

(* The end of the loop gives up: every child was passed over or refused.   *)
LEMMA GiveUpRefines ==
  ASSUME IInv, NEW g \in Goroutine, HandleGiveUp(g)
  PROVE  [F!Next]_(F!vars)
<1> USE DEF IInv, TypeOK, DispatchTypeOK
<1>1. UNCHANGED <<size, fate, err>> /\ pc[g] = "loop" /\ pc'[g] = "returned" /\ pos[g] > size
  BY DEF HandleGiveUp, Exhaust
<1>2. ASSUME NEW h \in Goroutine \ {g} PROVE Unseen(h)
  BY <1>2, UntouchedUnseen DEF HandleGiveUp, Exhaust, Untouched
<1>3. CallStatus(g) = "open" /\ CallStatus(g)' = "complete" /\ Verdict(g)' = Verdict(g)
  BY <1>1 DEF CallStatus, Verdict
<1>4. \A c \in Children : Settlement(g, c)' = Settlement(g, c)
  BY <1>1 DEF Settlement, Children
<1>5. \A c \in Children : fate[g][c] \in {"disabled", "error", "panic"}
  BY <1>1 DEF CallInv, LoopInv, Children
<1>6. \A c \in Children : Settlement(g, c) \in {"passed", "refused"}
  BY <1>5 DEF Settlement
<1>7. F!GiveUp(g)
  BY <1>1, <1>2, <1>3, <1>4, <1>6 DEF F!GiveUp, Unseen, Verdict, Children
<1> QED
  BY <1>7 DEF F!Next

(* FailoverHandler implements the first-success dispatch: nobody is        *)
(* attempted twice in a call, the first child that accepts ends it, and    *)
(* the error of a call without one is the last refusal.                    *)
THEOREM Refinement == Spec => ImplementsFirstSuccess
<1>1. ASSUME IInv, [Next]_vars PROVE [F!Next]_(F!vars)
  <2>1. CASE Environment
    BY <1>1, <2>1, EnvironmentRefines
  <2>2. ASSUME NEW g \in Goroutine, Advance(g) PROVE [F!Next]_(F!vars)
    BY <1>1, <2>2, EnabledRefines, HandleRefines, TryRefines, GiveUpRefines DEF Advance
  <2>3. ASSUME NEW g \in Goroutine, ChildComesBack(g) PROVE [F!Next]_(F!vars)
    BY <1>1, <2>3, AttemptedRefines DEF ChildComesBack
  <2>4. CASE UNCHANGED vars
    <3>1. UNCHANGED size /\ \A h \in Goroutine : Unseen(h)
      BY <2>4 DEF vars, dispatchVars, Unseen, CallStatus, Settlement, Verdict, Children
    <3> QED
      BY <3>1, UnseenStutters
  <2> QED
    BY <1>1, <2>1, <2>2, <2>3, <2>4 DEF Next
<1> QED
  BY <1>1, InitRefines, Invariance, PTL DEF Spec, ImplementsFirstSuccess
=============================================================================
