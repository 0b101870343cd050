-------------------------- MODULE FirstMatchProofs --------------------------
(***************************************************************************)
(* FirstMatchHandler keeps its promises for any number of goroutines,      *)
(* routes and levels, whatever the predicates answer.  In the loop all the *)
(* routes behind the counter were asked and did not match, and none ahead  *)
(* of it was asked.                                                        *)
(***************************************************************************)
EXTENDS FirstMatch, TLAPS

(* A route whose fate is known was asked, and none is asked twice.         *)
AskedInv(g) ==
  \A c \in Children :
     /\ asked[g][c] \in {0, 1}
     /\ fate[g][c] # "untried" => asked[g][c] = 1

LoopInv(g) ==
  pc[g] \in {"loop", "matched", "child"} =>
     /\ err[g] = Nil
     /\ \A c \in Children :
           /\ c < pos[g] => fate[g][c] = "unmatched"
           /\ c = pos[g] => /\ fate[g][c] = IF pc[g] = "child" THEN "running" ELSE "untried"
                            /\ asked[g][c] = IF pc[g] = "loop" THEN 0 ELSE 1
           /\ c > pos[g] => fate[g][c] = "untried" /\ asked[g][c] = 0
     /\ pc[g] \in {"matched", "child"} => pos[g] <= size
     /\ pc[g] = "child" /\ fresh[g] => Admits(g, pos[g])

(* The route at which the call ended, if it ended at one.                  *)
EndedAt(g, c) ==
  /\ \A b \in 1 .. c - 1 : fate[g][b] = "unmatched"
  /\ \A d \in c + 1 .. size : fate[g][d] = "untried"
  /\ fate[g][c] \in Outcome \cup {"disabled"}
  /\ fresh[g] => (fate[g][c] = "disabled" <=> ~ Admits(g, c))
  /\ err[g] = IF fate[g][c] \in {"error", "panic"} THEN c ELSE Nil

ReturnedInv(g) ==
  pc[g] = "returned" =>
     \/ /\ \A c \in Children : fate[g][c] = "unmatched"
        /\ err[g] = Nil
     \/ \E c \in Children : EndedAt(g, c)

CallInv(g) == EnabledInv(g) /\ AskedInv(g) /\ LoopInv(g) /\ ReturnedInv(g)

IInv ==
  /\ TypeOK
  /\ \A g \in Goroutine : CallInv(g)

-----------------------------------------------------------------------------

(* A turn of the Enabled loop keeps the types.                             *)
LEMMA EnabledTyped ==
  ASSUME DispatchTypeOK, NEW g \in Goroutine, Enabled(g)
  PROVE  DispatchTypeOK'
<1>1. UNCHANGED <<size, threshold, level, fate, fresh>>
  BY DEF Enabled
<1>2. pos' \in [Goroutine -> 1 .. size + 1]
  BY DEF Enabled, DispatchTypeOK
<1>3. pc' \in [Goroutine -> Control]
  BY DEF Enabled, DispatchTypeOK, Control, Rest
<1> QED
  BY <1>1, <1>2, <1>3 DEF DispatchTypeOK, Children

(* The steps of the others do not touch what goroutine h knows.            *)
Untouched(h) ==
  /\ UNCHANGED <<size, threshold>>
  /\ pc'[h] = pc[h] /\ level'[h] = level[h] /\ pos'[h] = pos[h]
  /\ fate'[h] = fate[h] /\ fresh'[h] = fresh[h]
  /\ err'[h] = err[h] /\ asked'[h] = asked[h]

LEMMA UntouchedKeepsInv ==
  ASSUME NEW h \in Goroutine, CallInv(h), Untouched(h)
  PROVE  CallInv(h)'
BY DEF CallInv, EnabledInv, AskedInv, LoopInv, ReturnedInv, EndedAt, Untouched, Admits, Children

(* The handler starts with nobody asked.                                   *)
LEMMA InitInv == Init => IInv
<1> SUFFICES ASSUME Init PROVE IInv
  OBVIOUS
<1>1. DispatchTypeOK
  BY DispatchAssumption
     DEF Init, DispatchInit, DispatchTypeOK, Children, Level, Control, Rest, Fate, Outcome
<1>2. TypeOK
  BY <1>1 DEF TypeOK, Init
<1>3. ASSUME NEW g \in Goroutine PROVE CallInv(g)
  BY DEF Init, DispatchInit, CallInv, EnabledInv, AskedInv, LoopInv, ReturnedInv
<1> QED
  BY <1>2, <1>3 DEF IInv

(* Calls and moving levels preserve the invariant: a moved level only      *)
(* takes away what was said of fresh calls.                                *)
LEMMA EnvironmentInv == IInv /\ Environment => IInv'
<1> SUFFICES ASSUME IInv, Environment PROVE IInv'
  OBVIOUS
<1> USE DEF IInv, TypeOK
<1>1. CASE \E c \in Children, l \in Level : SetLevel(c, l)
  <2>1. PICK c \in Children, l \in Level : SetLevel(c, l)
    BY <1>1
  <2>2. DispatchTypeOK'
    BY <2>1 DEF SetLevel, DispatchTypeOK, Children, Level, Control, Rest, Fate, Outcome
  <2>3. TypeOK'
    BY <2>1, <2>2 DEF Environment, SetLevel, Children
  <2>4. UNCHANGED <<size, pc, level, pos, fate, err, asked>> /\ \A g \in Goroutine : ~ fresh'[g]
    BY <2>1 DEF Environment, SetLevel
  <2>5. ASSUME NEW g \in Goroutine PROVE CallInv(g)'
    <3>1. EnabledInv(g)' /\ AskedInv(g)'
      BY <2>4 DEF CallInv, EnabledInv, AskedInv, Children
    <3>2. LoopInv(g)'
      BY <2>4 DEF CallInv, LoopInv, Children
    <3>3. \A c1 \in Children : EndedAt(g, c1) => EndedAt(g, c1)'
      BY <2>4 DEF EndedAt
    <3>4. ReturnedInv(g)'
      BY <2>4, <3>3 DEF CallInv, ReturnedInv, Children
    <3> QED
      BY <3>1, <3>2, <3>4 DEF CallInv
  <2> QED
    BY <2>3, <2>5
<1>2. CASE \E g \in Goroutine, l \in Level, method \in {"Enabled", "Handle"} : Call(g, l, method)
  <2>1. PICK g \in Goroutine, l \in Level, method \in {"Enabled", "Handle"} : Call(g, l, method)
    BY <1>2
  <2>2. DispatchTypeOK'
    BY <2>1 DEF Call, DispatchTypeOK, Children, Level, Control, Rest, Fate, Outcome
  <2>3. TypeOK'
    BY <2>1, <2>2 DEF Environment, Call, Children
  <2>4. CallInv(g)'
    BY <2>1 DEF Environment, Call, CallInv, EnabledInv, AskedInv, LoopInv, ReturnedInv,
                DispatchTypeOK, Children
  <2>5. ASSUME NEW h \in Goroutine, h # g PROVE CallInv(h)'
    <3>1. Untouched(h)
      BY <2>1, <2>5 DEF Environment, Call, Untouched, DispatchTypeOK
    <3> QED
      BY <3>1, UntouchedKeepsInv
  <2> QED
    BY <2>3, <2>4, <2>5
<1> QED
  BY <1>1, <1>2 DEF Environment

(* A turn of the Enabled loop asks no predicate.                           *)
LEMMA EnabledKeepsInv ==
  ASSUME IInv, NEW g \in Goroutine, FirstMatchEnabled(g)
  PROVE  IInv'
<1> USE DEF IInv, TypeOK
<1>1. DispatchTypeOK'
  BY EnabledTyped DEF FirstMatchEnabled
<1>2. TypeOK'
  BY <1>1 DEF FirstMatchEnabled, Enabled, Children
<1>3. EnabledInv(g)'
  BY DEF FirstMatchEnabled, Enabled, CallInv, EnabledInv, Admits, DispatchTypeOK, Children
<1>4. AskedInv(g)' /\ LoopInv(g)' /\ ReturnedInv(g)'
  BY DEF FirstMatchEnabled, Enabled, CallInv, AskedInv, LoopInv, ReturnedInv,
         DispatchTypeOK, Children
<1>5. ASSUME NEW h \in Goroutine, h # g PROVE CallInv(h)'
  <2>1. Untouched(h)
    BY <1>5 DEF FirstMatchEnabled, Enabled, Untouched, DispatchTypeOK
  <2> QED
    BY <2>1, UntouchedKeepsInv
<1> QED
  BY <1>2, <1>3, <1>4, <1>5 DEF CallInv

(* Entering the loop: nobody was asked.                                    *)
LEMMA HandleKeepsInv ==
  ASSUME IInv, NEW g \in Goroutine, Handle(g)
  PROVE  IInv'
<1> USE DEF IInv, TypeOK
<1>1. TypeOK'
  BY DEF Handle, DispatchTypeOK, Children, Control
<1>2. CallInv(g)'
  BY DEF Handle, CallInv, EnabledInv, AskedInv, LoopInv, ReturnedInv, DispatchTypeOK, Children
<1>3. ASSUME NEW h \in Goroutine, h # g PROVE CallInv(h)'
  <2>1. Untouched(h)
    BY <1>3 DEF Handle, Untouched, DispatchTypeOK
  <2> QED
    BY <2>1, UntouchedKeepsInv
<1> QED
  BY <1>1, <1>2, <1>3

(* The route at the counter is asked, for the first time.                  *)
LEMMA IsMatchKeepsInv ==
  ASSUME IInv, NEW g \in Goroutine, isMatch(g)
  PROVE  IInv'
<1> USE DEF IInv, TypeOK
<1>0. PICK c \in Children : c = pos[g]
  BY DEF isMatch, DispatchTypeOK, Children
<1>1. /\ pc[g] = "loop" /\ pos[g] <= size
      /\ UNCHANGED <<size, threshold, level, fresh, err>>
      /\ asked[g][c] = 0
      /\ asked' = [asked EXCEPT ![g][c] = 1]
  <2>1. pc[g] = "loop" /\ asked[g][c] = 0
    BY <1>0 DEF isMatch, CallInv, LoopInv
  <2>2. asked' = [asked EXCEPT ![g][c] = asked[g][c] + 1]
    BY <1>0 DEF isMatch
  <2>3. asked[g][c] + 1 = 1
    BY <2>1
  <2>4. asked' = [asked EXCEPT ![g][c] = 1]
    BY <2>2, <2>3
  <2> QED
    BY <2>1, <2>4 DEF isMatch
<1>2. /\ asked' \in [Goroutine -> [Children -> 0 .. 2]]
      /\ asked'[g][c] = 1
      /\ \A d \in Children \ {c} : asked'[g][d] = asked[g][d]
  BY <1>1
<1>3. \A d \in Children : /\ d \in Int /\ (d < c \/ d = c \/ d > c)
                          /\ d < c => fate[g][d] = "unmatched" /\ asked[g][d] = 1
                          /\ d = c => fate[g][d] = "untried"
                          /\ d > c => fate[g][d] = "untried" /\ asked[g][d] = 0
  BY <1>0, <1>1 DEF CallInv, AskedInv, LoopInv, Children
<1>4. CASE pc' = [pc EXCEPT ![g] = "matched"] /\ UNCHANGED <<pos, fate>>
  <2>1. TypeOK'
    BY <1>1, <1>2, <1>4 DEF DispatchTypeOK, Children, Control
  <2>2. AskedInv(g)'
    BY <1>1, <1>2, <1>4 DEF CallInv, AskedInv, Children
  <2>3. LoopInv(g)'
    <3>1. pc'[g] = "matched" /\ err[g] = Nil
      BY <1>1, <1>4 DEF DispatchTypeOK, CallInv, LoopInv
    <3> QED
      BY <1>0, <1>1, <1>2, <1>3, <1>4, <3>1 DEF LoopInv, Children
  <2>4. EnabledInv(g)' /\ ReturnedInv(g)'
    BY <1>4 DEF EnabledInv, ReturnedInv, DispatchTypeOK
  <2> QED
    BY <1>1, <1>4, <2>1, <2>2, <2>3, <2>4, UntouchedKeepsInv
       DEF CallInv, Untouched, DispatchTypeOK
<1>5. CASE /\ fate' = [fate EXCEPT ![g][c] = "unmatched"]
           /\ pos' = [pos EXCEPT ![g] = @ + 1]
           /\ UNCHANGED pc
  <2>1. TypeOK'
    <3>1. pos[g] + 1 \in 1 .. size + 1
      BY <1>1 DEF DispatchTypeOK
    <3>2. pos' \in [Goroutine -> 1 .. size + 1]
      BY <1>1, <1>5, <3>1 DEF DispatchTypeOK
    <3>3. fate' \in [Goroutine -> [Children -> Fate]]
      BY <1>1, <1>5 DEF DispatchTypeOK, Fate
    <3> QED
      BY <1>1, <1>2, <1>5, <3>2, <3>3 DEF DispatchTypeOK, Children
  <2>2. fate'[g][c] = "unmatched" /\ \A d \in Children \ {c} : fate'[g][d] = fate[g][d]
    BY <1>5 DEF DispatchTypeOK
  <2>3. AskedInv(g)'
    <3>1. Children' = Children /\ AskedInv(g)
      BY <1>0, <1>1 DEF Children, CallInv
    <3>2. ASSUME NEW d \in Children
          PROVE  asked'[g][d] \in {0, 1} /\ (fate'[g][d] # "untried" => asked'[g][d] = 1)
      <4>1. CASE d = c
        BY <1>2, <4>1
      <4>2. CASE d # c
        BY <1>2, <2>2, <3>1, <4>2 DEF AskedInv
      <4> QED
        BY <4>1, <4>2
    <3> QED
      BY <3>1, <3>2 DEF AskedInv
  <2>4. pos'[g] = c + 1 /\ pc'[g] = "loop" /\ err[g] = Nil
    BY <1>0, <1>1, <1>5 DEF DispatchTypeOK, CallInv, LoopInv
  <2>5. LoopInv(g)'
    BY <1>1, <1>2, <1>3, <2>2, <2>4 DEF LoopInv, Children
  <2>6. EnabledInv(g)' /\ ReturnedInv(g)'
    BY <2>4 DEF EnabledInv, ReturnedInv
  <2> QED
    BY <1>1, <1>5, <2>1, <2>3, <2>5, <2>6, UntouchedKeepsInv
       DEF CallInv, Untouched, DispatchTypeOK
<1>6. CASE pc' = [pc EXCEPT ![g] = "panicked"] /\ UNCHANGED <<pos, fate>>
  <2>1. TypeOK'
    BY <1>1, <1>2, <1>6 DEF DispatchTypeOK, Children, Control, Rest
  <2>2. AskedInv(g)'
    BY <1>1, <1>2, <1>6 DEF CallInv, AskedInv, Children
  <2>3. EnabledInv(g)' /\ LoopInv(g)' /\ ReturnedInv(g)'
    BY <1>6 DEF EnabledInv, LoopInv, ReturnedInv, DispatchTypeOK
  <2> QED
    BY <1>1, <1>6, <2>1, <2>2, <2>3, UntouchedKeepsInv
       DEF CallInv, Untouched, DispatchTypeOK
<1> QED
  BY <1>0, <1>4, <1>5, <1>6 DEF isMatch

(* The matched route gets the record, or ends the call because it is       *)
(* disabled or panics.  Nobody is asked again.                             *)
LEMMA MatchedKeepsInv ==
  ASSUME IInv, NEW g \in Goroutine, HandleMatched(g)
  PROVE  IInv'
<1> USE DEF IInv, TypeOK
<1>0. PICK c \in Children : c = pos[g]
  BY DEF HandleMatched, CallInv, LoopInv, DispatchTypeOK, Children
<1>1. /\ pc[g] = "matched" /\ err[g] = Nil
      /\ UNCHANGED <<size, threshold, level, pos, fresh, err, asked>>
      /\ asked[g][c] = 1
  BY <1>0 DEF HandleMatched, skipPredicates, CallInv, LoopInv
<1>2. \A d \in Children : /\ d \in Int /\ (d < c \/ d = c \/ d > c)
                          /\ d < c => fate[g][d] = "unmatched"
                          /\ d > c => fate[g][d] = "untried" /\ asked[g][d] = 0
  BY <1>0, <1>1 DEF CallInv, LoopInv, Children
<1>3. CASE /\ Admits(g, c)
           /\ pc' = [pc EXCEPT ![g] = "child"]
           /\ fate' = [fate EXCEPT ![g][c] = "running"]
  <2>1. TypeOK'
    BY <1>1, <1>3 DEF DispatchTypeOK, Children, Control, Fate
  <2>2. fate'[g][c] = "running" /\ \A d \in Children \ {c} : fate'[g][d] = fate[g][d]
    BY <1>3 DEF DispatchTypeOK
  <2>3. AskedInv(g)'
    BY <1>1, <2>2 DEF CallInv, AskedInv, Children
  <2>4. pc'[g] = "child" /\ pos[g] <= size /\ Admits(g, pos[g])'
    BY <1>0, <1>1, <1>3 DEF DispatchTypeOK, Children, Admits
  <2>5. LoopInv(g)'
    BY <1>0, <1>1, <1>2, <2>2, <2>4 DEF LoopInv, Children
  <2>6. EnabledInv(g)' /\ ReturnedInv(g)'
    BY <2>4 DEF EnabledInv, ReturnedInv
  <2> QED
    BY <1>1, <1>3, <2>1, <2>3, <2>5, <2>6, UntouchedKeepsInv
       DEF CallInv, Untouched, DispatchTypeOK
<1>4. CASE /\ ~ Admits(g, c)
           /\ pc' = [pc EXCEPT ![g] = "returned"]
           /\ fate' = [fate EXCEPT ![g][c] = "disabled"]
  <2>1. TypeOK'
    BY <1>1, <1>4 DEF DispatchTypeOK, Children, Control, Rest, Fate
  <2>2. fate'[g][c] = "disabled" /\ \A d \in Children \ {c} : fate'[g][d] = fate[g][d]
    BY <1>4 DEF DispatchTypeOK
  <2>3. AskedInv(g)'
    BY <1>1, <2>2 DEF CallInv, AskedInv, Children
  <2>4. pc'[g] = "returned" /\ ~ Admits(g, c)'
    BY <1>1, <1>4 DEF DispatchTypeOK, Admits
  <2>5. EndedAt(g, c)'
    <3>1. \A b \in 1 .. c - 1 : b \in Children \ {c} /\ b < c
      BY DEF Children, DispatchTypeOK
    <3>2. \A d \in c + 1 .. size : d \in Children \ {c} /\ d > c
      BY DEF Children, DispatchTypeOK
    <3>3. /\ \A b \in 1 .. c - 1 : fate'[g][b] = "unmatched"
          /\ \A d \in c + 1 .. size : fate'[g][d] = "untried"
      BY <1>2, <2>2, <3>1, <3>2
    <3> QED
      BY <1>1, <2>2, <2>4, <3>3 DEF EndedAt
  <2>6. EnabledInv(g)' /\ LoopInv(g)' /\ ReturnedInv(g)'
    BY <1>1, <2>4, <2>5 DEF EnabledInv, LoopInv, ReturnedInv, Children
  <2> QED
    BY <1>1, <1>4, <2>1, <2>3, <2>6, UntouchedKeepsInv
       DEF CallInv, Untouched, DispatchTypeOK
<1>5. CASE pc' = [pc EXCEPT ![g] = "panicked"] /\ UNCHANGED fate
  <2>1. TypeOK'
    BY <1>1, <1>5 DEF DispatchTypeOK, Children, Control, Rest
  <2>2. CallInv(g)'
    BY <1>1, <1>5 DEF CallInv, EnabledInv, AskedInv, LoopInv, ReturnedInv,
                      DispatchTypeOK, Children
  <2> QED
    BY <1>1, <1>5, <2>1, <2>2, UntouchedKeepsInv DEF Untouched, DispatchTypeOK
<1> QED
  BY <1>0, <1>3, <1>4, <1>5 DEF HandleMatched

(* The route comes back and its result is the call's.                      *)
LEMMA ReturnKeepsInv ==
  ASSUME IInv, NEW g \in Goroutine, NEW outcome \in Outcome, HandleReturn(g, outcome)
  PROVE  IInv'
<1> USE DEF IInv, TypeOK
<1>0. PICK c \in Children : c = pos[g]
  BY DEF HandleReturn, Settle, CallInv, LoopInv, DispatchTypeOK, Children
<1>1. /\ pc[g] = "child"
      /\ UNCHANGED <<size, threshold, level, fresh, asked>>
      /\ pc' = [pc EXCEPT ![g] = "returned"]
      /\ pos' = [pos EXCEPT ![g] = @ + 1]
      /\ fate' = [fate EXCEPT ![g][c] = outcome]
      /\ err' = [err EXCEPT ![g] = try(outcome, c)]
  BY <1>0 DEF HandleReturn, Settle
<1>2. try(outcome, c) = IF outcome \in {"error", "panic"} THEN c ELSE Nil
  BY DEF try
<1>3. TypeOK'
  <2>1. DispatchTypeOK'
    BY <1>0
       DEF HandleReturn, Settle, DispatchTypeOK, Children, Level, Control, Rest, Fate, Outcome
  <2> QED
    BY <1>1, <1>2, <2>1 DEF Children
<1>4. fate'[g][c] = outcome /\ \A d \in Children \ {c} : fate'[g][d] = fate[g][d]
  BY <1>1 DEF DispatchTypeOK
<1>5. pc'[g] = "returned" /\ err'[g] = try(outcome, c)
  BY <1>1 DEF DispatchTypeOK
<1>6. \A d \in Children : /\ d \in Int
                          /\ d < c => fate[g][d] = "unmatched"
                          /\ d = c => asked[g][d] = 1
                          /\ d > c => fate[g][d] = "untried"
  BY <1>0, <1>1 DEF CallInv, LoopInv, Children
<1>7. AskedInv(g)'
  BY <1>1, <1>4, <1>6 DEF CallInv, AskedInv, Children
<1>8. EndedAt(g, c)'
  <2>1. fresh[g] => Admits(g, c)'
    BY <1>0, <1>1 DEF CallInv, LoopInv, Admits
  <2>2. \A b \in 1 .. c - 1 : b \in Children \ {c} /\ b < c
    BY DEF Children, DispatchTypeOK
  <2>3. \A d \in c + 1 .. size : d \in Children \ {c} /\ d > c
    BY DEF Children, DispatchTypeOK
  <2>4. /\ \A b \in 1 .. c - 1 : fate'[g][b] = "unmatched"
        /\ \A d \in c + 1 .. size : fate'[g][d] = "untried"
    BY <1>4, <1>6, <2>2, <2>3
  <2>5. outcome # "disabled"
    BY DEF Outcome
  <2> QED
    BY <1>1, <1>2, <1>4, <1>5, <2>1, <2>4, <2>5 DEF EndedAt
<1>9. EnabledInv(g)' /\ LoopInv(g)' /\ ReturnedInv(g)'
  BY <1>1, <1>5, <1>8 DEF EnabledInv, LoopInv, ReturnedInv, Children
<1> QED
  BY <1>1, <1>3, <1>7, <1>9, UntouchedKeepsInv DEF CallInv, Untouched, DispatchTypeOK

(* The loop ends with no match.                                            *)
LEMMA NoMatchKeepsInv ==
  ASSUME IInv, NEW g \in Goroutine, HandleNoMatch(g)
  PROVE  IInv'
<1> USE DEF IInv, TypeOK
<1>1. DispatchTypeOK'
  BY
     DEF HandleNoMatch, Exhaust, DispatchTypeOK, Children, Level, Control, Rest, Fate, Outcome
<1>2. TypeOK'
  BY <1>1 DEF HandleNoMatch, Exhaust, Children
<1>3. CallInv(g)'
  BY DEF HandleNoMatch, Exhaust, CallInv, EnabledInv, AskedInv, LoopInv, ReturnedInv,
         DispatchTypeOK, Children
<1>4. ASSUME NEW h \in Goroutine, h # g PROVE CallInv(h)'
  <2>1. Untouched(h)
    BY <1>4 DEF HandleNoMatch, Exhaust, Untouched, DispatchTypeOK
  <2> QED
    BY <2>1, UntouchedKeepsInv
<1> QED
  BY <1>2, <1>3, <1>4

(* Every step preserves the invariant.                                     *)
LEMMA NextInv == IInv /\ [Next]_vars => IInv'
<1> SUFFICES ASSUME IInv, [Next]_vars PROVE IInv'
  OBVIOUS
<1>1. CASE Environment
  BY <1>1, EnvironmentInv
<1>2. ASSUME NEW g \in Goroutine, Advance(g) PROVE IInv'
  BY <1>2, EnabledKeepsInv, HandleKeepsInv, IsMatchKeepsInv, MatchedKeepsInv,
     NoMatchKeepsInv DEF Advance
<1>3. ASSUME NEW g \in Goroutine, ChildComesBack(g) PROVE IInv'
  BY <1>3, ReturnKeepsInv DEF ChildComesBack
<1>4. CASE UNCHANGED vars
  BY <1>4 DEF vars, dispatchVars, IInv, TypeOK, DispatchTypeOK, CallInv, EnabledInv,
              AskedInv, LoopInv, ReturnedInv, EndedAt, Admits, Children
<1> QED
  BY <1>1, <1>2, <1>3, <1>4 DEF Next

(* The invariant holds in every reachable state.                           *)
THEOREM Invariance == Spec => []IInv
BY InitInv, NextInv, PTL DEF Spec

-----------------------------------------------------------------------------

(* The variables of FirstMatchHandler stay in their types.                 *)
THEOREM TypeCorrect == Spec => []TypeOK
<1>1. IInv => TypeOK
  BY DEF IInv
<1> QED
  BY <1>1, Invariance, PTL

(* For any number of routes, goroutines and levels, whatever predicates    *)
(* answer: the first match and no other gets the record.                   *)
THEOREM FirstMatchServed == Spec => []OnlyTheFirstMatchIsServed
<1>1. IInv => OnlyTheFirstMatchIsServed
  BY DEF IInv, CallInv, ReturnedInv, EndedAt, OnlyTheFirstMatchIsServed
<1> QED
  BY <1>1, Invariance, PTL

(* For any number of routes, goroutines and levels: no predicate runs      *)
(* twice for a record, though the route's Handle could ask it again.       *)
THEOREM NoDoubleMatching == Spec => []PredicatesRunOnce
<1>1. IInv => PredicatesRunOnce
  BY DEF IInv, CallInv, AskedInv, PredicatesRunOnce
<1> QED
  BY <1>1, Invariance, PTL
=============================================================================
