---------------------------- MODULE FanoutProofs ----------------------------
(***************************************************************************)
(* FanoutHandler keeps its promises for any number of goroutines, children *)
(* and levels.  The promise ServesExactlyTheEnabled speaks only of calls   *)
(* that have ended; what makes it inductive is what each goroutine knows   *)
(* of the children behind its loop counter.                                *)
(***************************************************************************)
EXTENDS Fanout, TLAPS

(* In the Handle loop the children behind the counter are settled, those   *)
(* that got the record being the enabled ones unless a level moved; the    *)
(* one at the counter may be running; the others are untried; and errs has *)
(* collected the failures.                                                 *)
LoopInv(g) ==
  pc[g] \in {"loop", "child", "returned"} =>
     /\ \A c \in Children :
           /\ c < pos[g] => /\ fate[g][c] \in Outcome \cup {"disabled"}
                            /\ fresh[g] => (fate[g][c] \in Outcome <=> Admits(g, c))
           /\ c = pos[g] => fate[g][c] = IF pc[g] = "child" THEN "running" ELSE "untried"
           /\ c > pos[g] => fate[g][c] = "untried"
     /\ pc[g] = "child" => pos[g] <= size /\ (fresh[g] => Admits(g, pos[g]))
     /\ pc[g] = "returned" => pos[g] > size
     /\ errs[g] = Failed(g)

IInv ==
  /\ TypeOK
  /\ \A g \in Goroutine : EnabledInv(g) /\ LoopInv(g)

-----------------------------------------------------------------------------

(* A turn of the Enabled loop keeps the types.                             *)
LEMMA EnabledTyped ==
  ASSUME DispatchTypeOK, NEW g \in Goroutine, Enabled(g)
  PROVE  DispatchTypeOK'
<1>1. UNCHANGED <<size, threshold, level, fate, fresh>>
  BY DEF Enabled
<1>2. pos' \in [Goroutine -> 1 .. size + 1]
  BY DEF Enabled, DispatchTypeOK
<1>3. pc' \in [Goroutine -> Control]
  BY DEF Enabled, DispatchTypeOK, Control, Rest
<1> QED
  BY <1>1, <1>2, <1>3 DEF DispatchTypeOK, Children

(* A turn of a Handle loop keeps the types.                                *)
LEMMA VisitTyped ==
  ASSUME DispatchTypeOK, NEW g \in Goroutine, NEW c \in Children, Visit(g, c)
  PROVE  DispatchTypeOK'
<1>1. UNCHANGED <<size, threshold, level, fresh>>
  BY DEF Visit
<1>2. CASE fate' = [fate EXCEPT ![g][c] = "running"] /\ pc' = [pc EXCEPT ![g] = "child"] /\ UNCHANGED pos
  BY <1>1, <1>2 DEF DispatchTypeOK, Children, Control, Fate
<1>3. CASE fate' = [fate EXCEPT ![g][c] = "disabled"] /\ pos' = [pos EXCEPT ![g] = @ + 1] /\ UNCHANGED pc
  <2>1. pos[g] + 1 \in 1 .. size + 1
    BY DEF Visit, DispatchTypeOK
  <2> QED
    BY <1>1, <1>3, <2>1 DEF DispatchTypeOK, Children, Fate
<1>4. CASE pc' = [pc EXCEPT ![g] = "panicked"] /\ UNCHANGED <<pos, fate>>
  BY <1>1, <1>4 DEF DispatchTypeOK, Children, Control, Rest
<1> QED
  BY <1>2, <1>3, <1>4 DEF Visit

(* The steps of the others do not touch what goroutine h knows.            *)
Untouched(h) ==
  /\ UNCHANGED <<size, threshold>>
  /\ pc'[h] = pc[h] /\ level'[h] = level[h] /\ pos'[h] = pos[h]
  /\ fate'[h] = fate[h] /\ fresh'[h] = fresh[h] /\ errs'[h] = errs[h]

LEMMA UntouchedKeepsInv ==
  ASSUME NEW h \in Goroutine, EnabledInv(h), LoopInv(h), Untouched(h)
  PROVE  EnabledInv(h)' /\ LoopInv(h)'
BY DEF EnabledInv, LoopInv, Untouched, Admits, Failed, Children

(* The handler starts with every goroutine at rest.                        *)
LEMMA InitInv == Init => IInv
<1> SUFFICES ASSUME Init PROVE IInv
  OBVIOUS
<1>1. DispatchTypeOK
  BY DispatchAssumption
     DEF Init, DispatchInit, FanoutSizes, DispatchTypeOK, Children, Level, Control, Rest, Fate, Outcome
<1>2. TypeOK
  BY <1>1 DEF TypeOK, Init
<1>3. ASSUME NEW g \in Goroutine PROVE EnabledInv(g) /\ LoopInv(g)
  BY DEF Init, DispatchInit, EnabledInv, LoopInv
<1> QED
  BY <1>2, <1>3 DEF IInv

(* Calls and moving levels preserve the invariant: a moved level only      *)
(* takes away what was said of fresh calls.                                *)
LEMMA EnvironmentInv == IInv /\ Environment => IInv'
<1> SUFFICES ASSUME IInv, Environment PROVE IInv'
  OBVIOUS
<1> USE DEF IInv, TypeOK
<1>1. CASE \E c \in Children, l \in Level : SetLevel(c, l)
  <2>1. PICK c \in Children, l \in Level : SetLevel(c, l)
    BY <1>1
  <2>2. DispatchTypeOK'
    BY <2>1 DEF SetLevel, DispatchTypeOK, Children, Level, Control, Rest, Fate, Outcome
  <2>3. TypeOK'
    BY <2>1, <2>2 DEF Environment, SetLevel, Children
  <2>4. ASSUME NEW g \in Goroutine PROVE EnabledInv(g)' /\ LoopInv(g)'
    BY <2>1 DEF Environment, SetLevel, EnabledInv, LoopInv, Failed, Children
  <2> QED
    BY <2>3, <2>4
<1>2. CASE \E g \in Goroutine, l \in Level, method \in {"Enabled", "Handle"} : Call(g, l, method)
  <2>1. PICK g \in Goroutine, l \in Level, method \in {"Enabled", "Handle"} : Call(g, l, method)
    BY <1>2
  <2>2. DispatchTypeOK'
    BY <2>1 DEF Call, DispatchTypeOK, Children, Level, Control, Rest, Fate, Outcome
  <2>3. TypeOK'
    BY <2>1, <2>2 DEF Environment, Call, Children
  <2>4. EnabledInv(g)' /\ LoopInv(g)'
    BY <2>1 DEF Call, EnabledInv, LoopInv, DispatchTypeOK, Children
  <2>5. ASSUME NEW h \in Goroutine, h # g PROVE EnabledInv(h)' /\ LoopInv(h)'
    <3>1. Untouched(h)
      BY <2>1, <2>5 DEF Environment, Call, Untouched, DispatchTypeOK
    <3> QED
      BY <3>1, UntouchedKeepsInv
  <2> QED
    BY <2>3, <2>4, <2>5
<1> QED
  BY <1>1, <1>2 DEF Environment

(* A turn of the Enabled loop leaves a child behind only if it does not    *)
(* want the record.                                                        *)
LEMMA EnabledKeepsInv ==
  ASSUME IInv, NEW g \in Goroutine, FanoutEnabled(g)
  PROVE  IInv'
<1> USE DEF IInv, TypeOK
<1>1. DispatchTypeOK'
  BY EnabledTyped DEF FanoutEnabled
<1>2. TypeOK'
  BY <1>1 DEF FanoutEnabled, Enabled, Children
<1>3. EnabledInv(g)'
  BY DEF FanoutEnabled, Enabled, EnabledInv, Admits, DispatchTypeOK, Children
<1>4. LoopInv(g)'
  BY DEF FanoutEnabled, Enabled, LoopInv, DispatchTypeOK
<1>5. ASSUME NEW h \in Goroutine, h # g PROVE EnabledInv(h)' /\ LoopInv(h)'
  <2>1. Untouched(h)
    BY <1>5 DEF FanoutEnabled, Enabled, Untouched, DispatchTypeOK
  <2> QED
    BY <2>1, UntouchedKeepsInv
<1> QED
  BY <1>2, <1>3, <1>4, <1>5

(* Entering the Handle loop: nobody was tried and nothing collected.       *)
LEMMA HandleKeepsInv ==
  ASSUME IInv, NEW g \in Goroutine, Handle(g)
  PROVE  IInv'
<1> USE DEF IInv, TypeOK
<1>1. TypeOK'
  BY DEF Handle, DispatchTypeOK, Children, Control
<1>2. EnabledInv(g)'
  BY DEF Handle, EnabledInv, DispatchTypeOK
<1>3. LoopInv(g)'
  BY DEF Handle, EnabledInv, LoopInv, DispatchTypeOK, Failed, Children
<1>4. ASSUME NEW h \in Goroutine, h # g PROVE EnabledInv(h)' /\ LoopInv(h)'
  <2>1. Untouched(h)
    BY <1>4 DEF Handle, Untouched, DispatchTypeOK
  <2> QED
    BY <2>1, UntouchedKeepsInv
<1> QED
  BY <1>1, <1>2, <1>3, <1>4

(* A turn of the Handle loop: the child at the counter begins to run if it *)
(* is enabled, and is left behind as disabled if it is not.                *)
LEMMA VisitKeepsInv ==
  ASSUME IInv, NEW g \in Goroutine, HandleVisit(g)
  PROVE  IInv'
<1> USE DEF IInv, TypeOK
<1>1. pos[g] \in Children
  BY DEF HandleVisit, Visit, DispatchTypeOK, Children
<1>2. DispatchTypeOK'
  BY <1>1, VisitTyped DEF HandleVisit
<1>3. TypeOK'
  BY <1>2 DEF HandleVisit, Visit, Children
<1>4. EnabledInv(g)'
  BY DEF HandleVisit, Visit, EnabledInv, DispatchTypeOK
<1>5. LoopInv(g)'
  <2> USE <1>1 DEF LoopInv, DispatchTypeOK, Failed, Children, Outcome
  <2>1. CASE /\ Admits(g, pos[g])
             /\ pc' = [pc EXCEPT ![g] = "child"]
             /\ fate' = [fate EXCEPT ![g][pos[g]] = "running"]
             /\ UNCHANGED pos
    <3>1. Failed(g)' = Failed(g) /\ errs' = errs
      BY <2>1 DEF HandleVisit, Visit
    <3>2. Admits(g, pos[g])'
      BY <2>1 DEF HandleVisit, Visit, Admits
    <3>3. \A c \in Children : Admits(g, c)' <=> Admits(g, c)
      BY DEF HandleVisit, Visit, Admits
    <3> QED
      BY <2>1, <3>1, <3>2, <3>3 DEF HandleVisit, Visit
  <2>2. CASE /\ ~ Admits(g, pos[g])
             /\ fate' = [fate EXCEPT ![g][pos[g]] = "disabled"]
             /\ pos' = [pos EXCEPT ![g] = @ + 1]
             /\ UNCHANGED pc
    BY <2>2 DEF HandleVisit, Visit, Admits
  <2>3. CASE pc' = [pc EXCEPT ![g] = "panicked"]
    BY <2>3
  <2> QED
    BY <2>1, <2>2, <2>3 DEF HandleVisit, Visit
<1>6. ASSUME NEW h \in Goroutine, h # g PROVE EnabledInv(h)' /\ LoopInv(h)'
  <2>1. Untouched(h)
    BY <1>6 DEF HandleVisit, Visit, Untouched, DispatchTypeOK
  <2> QED
    BY <2>1, UntouchedKeepsInv
<1> QED
  BY <1>3, <1>4, <1>5, <1>6

(* A child that comes back is left behind as delivered, whatever came of   *)
(* it, and its failure is collected.                                       *)
LEMMA CollectKeepsInv ==
  ASSUME IInv, NEW g \in Goroutine, NEW outcome \in Outcome, HandleCollect(g, outcome)
  PROVE  IInv'
<1> USE DEF IInv, TypeOK
<1>1. pc[g] = "child" /\ pos[g] \in Children
  BY DEF HandleCollect, Settle, LoopInv, DispatchTypeOK, Children
<1>2. DispatchTypeOK'
  BY <1>1
     DEF HandleCollect, Settle, DispatchTypeOK, Children, Level, Control, Rest, Fate, Outcome
<1>3. errs'[g] = errs[g] \cup (IF outcome = "ok" THEN {} ELSE {pos[g]})
  BY <1>1 DEF HandleCollect, try, Nil, Outcome, Children
<1>4. TypeOK'
  BY <1>1, <1>2 DEF HandleCollect, Settle, try, Nil, Children, Outcome
<1>5. EnabledInv(g)'
  BY DEF HandleCollect, Settle, EnabledInv, DispatchTypeOK
<1>6. LoopInv(g)'
  <2>1. Failed(g)' = Failed(g) \cup (IF outcome = "ok" THEN {} ELSE {pos[g]})
    BY <1>1 DEF HandleCollect, Settle, LoopInv, DispatchTypeOK, Failed, Children, Outcome
  <2> QED
    BY <1>1, <1>3, <2>1
       DEF HandleCollect, Settle, LoopInv, DispatchTypeOK, Children, Admits, Outcome
<1>7. ASSUME NEW h \in Goroutine, h # g PROVE EnabledInv(h)' /\ LoopInv(h)'
  <2>1. Untouched(h)
    BY <1>7 DEF HandleCollect, Settle, Untouched, DispatchTypeOK
  <2> QED
    BY <2>1, UntouchedKeepsInv
<1> QED
  BY <1>4, <1>5, <1>6, <1>7

(* The loop ends with every child behind the counter.                      *)
LEMMA ReturnKeepsInv ==
  ASSUME IInv, NEW g \in Goroutine, HandleReturn(g)
  PROVE  IInv'
<1> USE DEF IInv, TypeOK
<1>1. DispatchTypeOK'
  BY
     DEF HandleReturn, Exhaust, DispatchTypeOK, Children, Level, Control, Rest, Fate, Outcome
<1>2. TypeOK'
  BY <1>1 DEF HandleReturn, Exhaust, Children
<1>3. EnabledInv(g)' /\ LoopInv(g)'
  BY DEF HandleReturn, Exhaust, EnabledInv, LoopInv, DispatchTypeOK, Failed, Children, Admits
<1>4. ASSUME NEW h \in Goroutine, h # g PROVE EnabledInv(h)' /\ LoopInv(h)'
  <2>1. Untouched(h)
    BY <1>4 DEF HandleReturn, Exhaust, Untouched, DispatchTypeOK
  <2> QED
    BY <2>1, UntouchedKeepsInv
<1> QED
  BY <1>2, <1>3, <1>4

(* Every step preserves the invariant.                                     *)
LEMMA NextInv == IInv /\ [Next]_vars => IInv'
<1> SUFFICES ASSUME IInv, [Next]_vars PROVE IInv'
  OBVIOUS
<1>1. CASE Environment
  BY <1>1, EnvironmentInv
<1>2. ASSUME NEW g \in Goroutine, Advance(g) PROVE IInv'
  BY <1>2, EnabledKeepsInv, HandleKeepsInv, VisitKeepsInv, ReturnKeepsInv DEF Advance
<1>3. ASSUME NEW g \in Goroutine, NEW outcome \in Outcome, HandleCollect(g, outcome)
      PROVE  IInv'
  BY <1>3, CollectKeepsInv
<1>4. CASE UNCHANGED vars
  BY <1>4 DEF vars, dispatchVars, IInv, TypeOK, DispatchTypeOK, EnabledInv, LoopInv,
              Admits, Failed, Children
<1> QED
  BY <1>1, <1>2, <1>3, <1>4 DEF Next

(* The invariant holds in every reachable state.                           *)
THEOREM Invariance == Spec => []IInv
<1>1. Init => IInv
  BY InitInv
<1>2. IInv /\ [Next]_vars => IInv'
  BY NextInv
<1> QED
  BY <1>1, <1>2, PTL DEF Spec

-----------------------------------------------------------------------------

(* The variables of FanoutHandler stay in their types.                     *)
THEOREM TypeCorrect == Spec => []TypeOK
<1>1. IInv => TypeOK
  BY DEF IInv
<1> QED
  BY <1>1, Invariance, PTL

(* Failure isolation, for any number of children, goroutines and levels: a *)
(* call during which no level moves hands the record to the enabled        *)
(* children, all of them, whatever errors and panics it meets.             *)
THEOREM FailureIsolation == Spec => []ServesExactlyTheEnabled
<1>1. IInv => ServesExactlyTheEnabled
  <2> SUFFICES ASSUME IInv, NEW g \in Goroutine, fresh[g]
               PROVE  /\ pc[g] = "returned" => Reached(g) = {c \in Children : Admits(g, c)}
                      /\ pc[g] = "dropped"  => \A c \in Children : ~ Admits(g, c)
    BY DEF ServesExactlyTheEnabled
  <2>1. ASSUME pc[g] = "returned", NEW c \in Children
        PROVE  fate[g][c] \in Outcome <=> Admits(g, c)
    BY <2>1 DEF IInv, TypeOK, DispatchTypeOK, LoopInv, Children
  <2>2. ASSUME pc[g] = "dropped", NEW c \in Children PROVE ~ Admits(g, c)
    BY <2>2 DEF IInv, TypeOK, DispatchTypeOK, EnabledInv, Children
  <2> QED
    BY <2>1, <2>2 DEF Reached
<1> QED
  BY <1>1, Invariance, PTL

-----------------------------------------------------------------------------

Reported(g) == IF pc[g] = "returned" THEN errs[g] ELSE {}

(* What the broadcast sees of goroutine h does not change.                 *)
Unseen(h) ==
  /\ CallStatus(h)' = CallStatus(h)
  /\ \A c \in Children : Settlement(h, c)' = Settlement(h, c)
  /\ Reported(h)' = Reported(h)

(* A step that nothing of is seen is a stuttering step of the broadcast.   *)
LEMMA UnseenStutters ==
  ASSUME UNCHANGED size, \A h \in Goroutine : Unseen(h)
  PROVE  UNCHANGED B!vars
BY DEF B!vars, Unseen, Reported, Children

LEMMA InitRefines == Init => B!Init
BY DispatchAssumption
   DEF Init, DispatchInit, FanoutSizes, B!Init, CallStatus, Settlement, Children

LEMMA UntouchedUnseen ==
  ASSUME NEW h \in Goroutine, Untouched(h)
  PROVE  Unseen(h)
BY DEF Untouched, Unseen, CallStatus, Settlement, Reported, Children

(* How the steps of the broadcast look through the mapping: goroutine g    *)
(* does something that is seen and the others do not.                      *)
LEMMA SeenBegin ==
  ASSUME UNCHANGED size, NEW g \in Goroutine,
         \A h \in Goroutine \ {g} : Unseen(h),
         CallStatus(g) # "open", CallStatus(g)' = "open",
         \A c \in Children : Settlement(g, c)' = "pending",
         Reported(g)' = {}
  PROVE  B!Begin(g)
BY DEF B!Begin, Unseen, Reported, Children

LEMMA SeenSettle ==
  ASSUME UNCHANGED size, NEW g \in Goroutine, NEW c \in Children, NEW result,
         \A h \in Goroutine \ {g} : Unseen(h),
         CallStatus(g) = "open", CallStatus(g)' = "open",
         Settlement(g, c) = "pending", Settlement(g, c)' = result,
         \A d \in Children \ {c} : Settlement(g, d)' = Settlement(g, d),
         Reported(g)' = Reported(g)
  PROVE  B!Settle(g, c, result)
BY DEF B!Settle, Unseen, Reported, Children

LEMMA SeenComplete ==
  ASSUME UNCHANGED size, NEW g \in Goroutine,
         \A h \in Goroutine \ {g} : Unseen(h),
         CallStatus(g) = "open", CallStatus(g)' = "complete",
         \A c \in Children : Settlement(g, c) \in {"passed", "accepted", "refused"},
         \A c \in Children : Settlement(g, c)' = Settlement(g, c),
         Reported(g)' = {c \in Children : Settlement(g, c) = "refused"}
  PROVE  B!Complete(g)
BY DEF B!Complete, B!Settled, Unseen, Reported, Children

LEMMA SeenAbandon ==
  ASSUME UNCHANGED size, NEW g \in Goroutine,
         \A h \in Goroutine \ {g} : Unseen(h),
         CallStatus(g) = "open", CallStatus(g)' = "abandoned",
         \A c \in Children : Settlement(g, c)' = Settlement(g, c),
         Reported(g)' = Reported(g)
  PROVE  B!Abandon(g)
BY DEF B!Abandon, Unseen, Reported, Children

(* Moving a level is not seen; a call begins a broadcast.                  *)
LEMMA EnvironmentRefines == IInv /\ Environment => [B!Next]_(B!vars)
<1> SUFFICES ASSUME IInv, Environment PROVE [B!Next]_(B!vars)
  OBVIOUS
<1> USE DEF IInv, TypeOK, DispatchTypeOK
<1>1. CASE \E c \in Children, l \in Level : SetLevel(c, l)
  <2>1. UNCHANGED <<size, pc, fate, errs>>
    BY <1>1 DEF Environment, SetLevel
  <2>2. \A h \in Goroutine : Unseen(h)
    BY <2>1 DEF Unseen, CallStatus, Settlement, Reported, Children
  <2> QED
    BY <2>1, <2>2, UnseenStutters
<1>2. ASSUME NEW g \in Goroutine, NEW l \in Level, NEW method \in {"Enabled", "Handle"},
             Call(g, l, method)
      PROVE  B!Begin(g)
  <2>1. UNCHANGED <<size, errs>> /\ pc[g] \in Rest /\ pc'[g] = method
    BY <1>2 DEF Environment, Call
  <2>2. ASSUME NEW h \in Goroutine \ {g} PROVE Unseen(h)
    BY <1>2, <2>2, UntouchedUnseen DEF Environment, Call, Untouched
  <2>3. CallStatus(g) # "open" /\ CallStatus(g)' = "open" /\ Reported(g)' = {}
    BY <2>1 DEF CallStatus, Reported, Rest
  <2>4. \A c \in Children : fate'[g][c] = "untried"
    BY <1>2 DEF Call
  <2>5. \A c \in Children : Settlement(g, c)' = "pending"
    BY <2>4 DEF Settlement
  <2> QED
    BY <2>1, <2>2, <2>3, <2>5, SeenBegin
<1> QED
  BY <1>1, <1>2 DEF Environment, B!Next

(* The Enabled loop is not seen, unless it ends the call.                  *)
LEMMA EnabledRefines ==
  ASSUME IInv, NEW g \in Goroutine, FanoutEnabled(g)
  PROVE  [B!Next]_(B!vars)
<1> USE DEF IInv, TypeOK, DispatchTypeOK
<1>1. UNCHANGED <<size, fate, errs>> /\ pc[g] = "Enabled"
  BY DEF FanoutEnabled, Enabled
<1>2. ASSUME NEW h \in Goroutine \ {g} PROVE Unseen(h)
  BY <1>2, UntouchedUnseen DEF FanoutEnabled, Enabled, Untouched
<1>3. \A c \in Children : Settlement(g, c)' = Settlement(g, c)
  BY <1>1 DEF Settlement, Children
<1>4. CASE pc'[g] \in {"Enabled", "Handle"}
  <2>1. Unseen(g)
    BY <1>1, <1>3, <1>4 DEF Unseen, CallStatus, Reported
  <2> QED
    BY <1>1, <1>2, <2>1, UnseenStutters
<1>5. CASE pc'[g] \in {"dropped", "panicked"}
  <2>1. CallStatus(g) = "open" /\ CallStatus(g)' = "abandoned" /\ Reported(g)' = Reported(g)
    BY <1>1, <1>5 DEF CallStatus, Reported
  <2> QED
    BY <1>1, <1>2, <1>3, <2>1, SeenAbandon DEF B!Next
<1>6. pc'[g] \in {"Enabled", "Handle", "dropped", "panicked"}
  BY DEF FanoutEnabled, Enabled
<1> QED
  BY <1>4, <1>5, <1>6

(* Entering the Handle loop is not seen.                                   *)
LEMMA HandleRefines ==
  ASSUME IInv, NEW g \in Goroutine, Handle(g)
  PROVE  UNCHANGED B!vars
<1> USE DEF IInv, TypeOK, DispatchTypeOK
<1>1. UNCHANGED size
  BY DEF Handle
<1>2. ASSUME NEW h \in Goroutine \ {g} PROVE Unseen(h)
  BY <1>2, UntouchedUnseen DEF Handle, Untouched
<1>3. Unseen(g)
  BY DEF Handle, Unseen, CallStatus, Settlement, Reported, Children
<1> QED
  BY <1>1, <1>2, <1>3, UnseenStutters

(* A disabled child is passed over; a child that begins to run is still    *)
(* pending; a child whose Enabled panics ends the call.                    *)
LEMMA VisitRefines ==
  ASSUME IInv, NEW g \in Goroutine, HandleVisit(g)
  PROVE  [B!Next]_(B!vars)
<1> USE DEF IInv, TypeOK, DispatchTypeOK
<1>0. PICK c \in Children : c = pos[g]
  BY DEF HandleVisit, Visit, Children
<1>1. UNCHANGED <<size, errs>> /\ pc[g] = "loop" /\ fate[g][c] = "untried"
  BY <1>0 DEF HandleVisit, Visit, Children, LoopInv
<1>2. ASSUME NEW h \in Goroutine \ {g} PROVE Unseen(h)
  BY <1>2, UntouchedUnseen DEF HandleVisit, Visit, Untouched
<1>3. CASE pc'[g] = "child" /\ fate' = [fate EXCEPT ![g][c] = "running"]
  <2>1. \A d \in Children : Settlement(g, d)' = Settlement(g, d)
    BY <1>1, <1>3 DEF Settlement, Children
  <2>2. Unseen(g)
    BY <1>1, <1>3, <2>1 DEF Unseen, CallStatus, Reported
  <2> QED
    BY <1>1, <1>2, <2>2, UnseenStutters
<1>4. CASE pc' = pc /\ fate' = [fate EXCEPT ![g][c] = "disabled"]
  <2>1. CallStatus(g) = "open" /\ CallStatus(g)' = "open" /\ Reported(g)' = Reported(g)
    BY <1>1, <1>4 DEF CallStatus, Reported
  <2>2. /\ Settlement(g, c) = "pending" /\ Settlement(g, c)' = "passed"
        /\ \A d \in Children \ {c} : Settlement(g, d)' = Settlement(g, d)
    BY <1>1, <1>4 DEF Settlement, Children
  <2>3. B!Settle(g, c, "passed")
    BY <1>1, <1>2, <2>1, <2>2, SeenSettle
  <2> QED
    BY <1>1, <2>3 DEF B!Next, B!Settled, Children
<1>5. CASE pc'[g] = "panicked" /\ fate' = fate
  <2>1. CallStatus(g) = "open" /\ CallStatus(g)' = "abandoned" /\ Reported(g)' = Reported(g)
    BY <1>1, <1>5 DEF CallStatus, Reported
  <2>2. \A d \in Children : Settlement(g, d)' = Settlement(g, d)
    BY <1>1, <1>5 DEF Settlement, Children
  <2> QED
    BY <1>1, <1>2, <2>1, <2>2, SeenAbandon DEF B!Next
<1> QED
  BY <1>0, <1>3, <1>4, <1>5 DEF HandleVisit, Visit

(* A child that comes back has accepted the record or failed.              *)
LEMMA CollectRefines ==
  ASSUME IInv, NEW g \in Goroutine, NEW outcome \in Outcome, HandleCollect(g, outcome)
  PROVE  [B!Next]_(B!vars)
<1> DEFINE result == IF outcome = "ok" THEN "accepted" ELSE "refused"
<1> USE DEF IInv, TypeOK, DispatchTypeOK
<1>0. PICK c \in Children : c = pos[g]
  BY DEF HandleCollect, Settle, Children, LoopInv
<1>1. UNCHANGED size /\ pc[g] = "child" /\ fate[g][c] = "running"
  BY <1>0 DEF HandleCollect, Settle, Children, LoopInv
<1>2. pc'[g] = "loop" /\ fate' = [fate EXCEPT ![g][c] = outcome]
  BY <1>0 DEF HandleCollect, Settle
<1>3. ASSUME NEW h \in Goroutine \ {g} PROVE Unseen(h)
  BY <1>3, UntouchedUnseen DEF HandleCollect, Settle, Untouched
<1>4. CallStatus(g) = "open" /\ CallStatus(g)' = "open" /\ Reported(g)' = Reported(g)
  BY <1>1, <1>2 DEF CallStatus, Reported
<1>5. /\ Settlement(g, c) = "pending" /\ Settlement(g, c)' = result
      /\ \A d \in Children \ {c} : Settlement(g, d)' = Settlement(g, d)
  BY <1>1, <1>2 DEF Settlement, Children, Outcome
<1>6. B!Settle(g, c, result)
  BY <1>1, <1>3, <1>4, <1>5, SeenSettle
<1> QED
  BY <1>1, <1>6 DEF B!Next, B!Settled, Children

(* The end of the loop completes the call: every child is behind the       *)
(* counter, and errs names those that failed.                              *)
LEMMA ReturnRefines ==
  ASSUME IInv, NEW g \in Goroutine, HandleReturn(g)
  PROVE  [B!Next]_(B!vars)
<1> USE DEF IInv, TypeOK, DispatchTypeOK
<1>1. UNCHANGED <<size, fate, errs>> /\ pc[g] = "loop" /\ pc'[g] = "returned" /\ pos[g] > size
  BY DEF HandleReturn, Exhaust
<1>2. ASSUME NEW h \in Goroutine \ {g} PROVE Unseen(h)
  BY <1>2, UntouchedUnseen DEF HandleReturn, Exhaust, Untouched
<1>3. CallStatus(g) = "open" /\ CallStatus(g)' = "complete" /\ Reported(g)' = errs[g]
  BY <1>1 DEF CallStatus, Reported
<1>4. \A c \in Children : Settlement(g, c)' = Settlement(g, c)
  BY <1>1 DEF Settlement, Children
<1>5. \A c \in Children : fate[g][c] \in Outcome \cup {"disabled"}
  BY <1>1 DEF LoopInv, Children
<1>6. \A c \in Children : Settlement(g, c) \in {"passed", "accepted", "refused"}
  BY <1>5 DEF Settlement, Outcome
<1>7. errs[g] = {c \in Children : Settlement(g, c) = "refused"}
  <2>1. errs[g] = {c \in Children : fate[g][c] \in {"error", "panic"}}
    BY <1>1 DEF LoopInv, Failed
  <2>2. \A c \in Children : Settlement(g, c) = "refused" <=> fate[g][c] \in {"error", "panic"}
    BY <1>5 DEF Settlement, Outcome
  <2> QED
    BY <2>1, <2>2
<1> QED
  BY <1>1, <1>2, <1>3, <1>4, <1>6, <1>7, SeenComplete DEF B!Next

(* FanoutHandler implements the broadcast: no child is settled twice in a  *)
(* call, a call completes only when every child is settled, and the error  *)
(* it returns names the failed children.                                   *)
THEOREM Refinement == Spec => ImplementsBroadcast
<1>1. ASSUME IInv, [Next]_vars PROVE [B!Next]_(B!vars)
  <2>1. CASE Environment
    BY <1>1, <2>1, EnvironmentRefines
  <2>2. ASSUME NEW g \in Goroutine, Advance(g) PROVE [B!Next]_(B!vars)
    BY <1>1, <2>2, EnabledRefines, HandleRefines, VisitRefines, ReturnRefines DEF Advance
  <2>3. ASSUME NEW g \in Goroutine, NEW outcome \in Outcome, HandleCollect(g, outcome)
        PROVE  [B!Next]_(B!vars)
    BY <1>1, <2>3, CollectRefines
  <2>4. CASE UNCHANGED vars
    <3>1. UNCHANGED size /\ \A h \in Goroutine : Unseen(h)
      BY <2>4 DEF vars, dispatchVars, Unseen, CallStatus, Settlement, Reported, Children
    <3> QED
      BY <3>1, UnseenStutters
  <2> QED
    BY <1>1, <2>1, <2>2, <2>3, <2>4 DEF Next
<1> QED
  BY <1>1, InitRefines, Invariance, PTL DEF Spec, ImplementsBroadcast
=============================================================================
