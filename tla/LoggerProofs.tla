---------------------------- MODULE LoggerProofs ----------------------------
(***************************************************************************)
(* The invariants of Logger, for every set of compositions of any depth    *)
(* and width, any records and any additions, from the assumption that the  *)
(* operators which follow the tree of handlers are what their definitions  *)
(* say (Recursion).                                                        *)
(*                                                                         *)
(* Nothing here is proved by induction over a composition as a term: a set *)
(* of levels that has 0 and with n also n + 1 is Nat (Induction), and so a *)
(* property of the user's handlers that every handler inherits from those  *)
(* it has is one of all the handlers (KidsInduction).  The parts:          *)
(*   - numbers, sequences and the levels of the tree;                      *)
(*   - the lemmas on attributes: counting is checking, and merging what is *)
(*     added into a group keeps what counts of what is logged;             *)
(*   - what a handler has in it, and that WithAttrs, WithGroup and the     *)
(*     constructors rebuild it over what became of the handlers it has;    *)
(*   - hence every route agrees with the sinks behind it (RoutesAgree);    *)
(*   - what Handle delivers, and to whom (Delivers);                       *)
(*   - the inductive invariant (IInv) and the theorems.                    *)
(***************************************************************************)
EXTENDS Logger, SequenceTheorems, FiniteSetTheorems, TLAPS

(* The least number of a set.                                              *)
LEMMA LeastOf ==
  ASSUME NEW T \in SUBSET Nat, T # {}
  PROVE  \E x \in T : \A y \in T : x <= y
<1> DEFINE F == {0 .. x : x \in T}
<1>1. IsWellFoundedOn(StrictSubsetOrdering(Nat), FiniteSubsetsOf(Nat))
  BY FS_StrictSubsetOrderingWellFounded
<1>2. F \subseteq FiniteSubsetsOf(Nat) /\ F # {}
  <2>1. ASSUME NEW x \in T PROVE 0 .. x \in SUBSET Nat /\ IsFiniteSet(0 .. x)
    BY FS_Interval
  <2> QED
    BY <2>1 DEF FiniteSubsetsOf
<1> HIDE DEF F
<1>3. PICK X \in F : \A Y \in F : ~ (<<Y, X>> \in StrictSubsetOrdering(Nat))
  BY <1>1, <1>2, WFMin
<1> USE DEF F
<1>4. PICK x \in T : X = 0 .. x
  OBVIOUS
<1>5. ASSUME NEW y \in T, y < x PROVE FALSE
  <2>1. 0 .. y \subseteq 0 .. x /\ 0 .. y # 0 .. x /\ 0 .. x \subseteq Nat
    <3>1. x \in 0 .. x /\ x \notin 0 .. y
      BY <1>5
    <3> QED
      BY <1>5, <3>1
  <2>2. <<0 .. y, 0 .. x>> \in StrictSubsetOrdering(Nat)
    BY <2>1 DEF StrictSubsetOrdering
  <2> QED
    BY <1>3, <1>4, <2>2
<1> QED
  BY <1>5

(* Min of the community modules is that number.                            *)
LEMMA LeastIsIn ==
  ASSUME NEW T \in SUBSET Nat, T # {}
  PROVE  Min(T) \in T /\ \A y \in T : Min(T) <= y
BY LeastOf DEF Min

(* Induction, told of sets instead of properties.                          *)
LEMMA Induction ==
  ASSUME NEW T \in SUBSET Nat, 0 \in T, \A n \in T : n + 1 \in T
  PROVE  T = Nat
<1> SUFFICES ASSUME Nat \ T # {} PROVE FALSE
  OBVIOUS
<1>1. PICK x \in Nat \ T : \A y \in Nat \ T : x <= y
  BY LeastOf
<1>2. x # 0 /\ x - 1 \in Nat /\ ~ (x <= x - 1) /\ (x - 1) + 1 = x
  BY <1>1
<1>3. x - 1 \in T
  BY <1>1, <1>2
<1> QED
  BY <1>1, <1>2, <1>3

-----------------------------------------------------------------------------

(* The levels of the tree are what their definition says: there is a       *)
(* function that satisfies it.                                             *)
Levels(f, n) ==
  f = [i \in 0 .. n |-> IF i = 0 THEN UsersHandlers ELSE f[i - 1] \cup Over(f[i - 1])]

(* There is a function that is built level by level, for any number of     *)
(* them.                                                                   *)
LEMMA LevelsExist ==
  ASSUME NEW n \in Nat
  PROVE  \E f : Levels(f, n)
<1> DEFINE T == {k \in Nat : \E f : Levels(f, k)}
<1>1. 0 \in T
  <2> DEFINE f == [i \in 0 .. 0 |-> UsersHandlers]
  <2>1. f = [i \in 0 .. 0 |-> IF i = 0 THEN UsersHandlers ELSE f[i - 1] \cup Over(f[i - 1])]
    OBVIOUS
  <2> QED
    BY <2>1 DEF Levels
<1>2. ASSUME NEW k \in T PROVE k + 1 \in T
  <2>1. PICK f : Levels(f, k)
    BY <1>2
  <2> DEFINE g == [i \in 0 .. k + 1 |-> IF i = k + 1 THEN f[k] \cup Over(f[k]) ELSE f[i]]
  <2>2. \A i \in 0 .. k : g[i] = f[i]
    OBVIOUS
  <2>3. \A i \in 0 .. k : f[i] = IF i = 0 THEN UsersHandlers ELSE f[i - 1] \cup Over(f[i - 1])
    BY <2>1 DEF Levels
  <2>4. \A i \in 0 .. k + 1 :
           g[i] = IF i = 0 THEN UsersHandlers ELSE g[i - 1] \cup Over(g[i - 1])
    <3>1. ASSUME NEW i \in 0 .. k + 1, i = k + 1
          PROVE  g[i] = g[i - 1] \cup Over(g[i - 1]) /\ i # 0
      BY <2>2, <3>1
    <3>2. ASSUME NEW i \in 0 .. k + 1, i # k + 1
          PROVE  g[i] = IF i = 0 THEN UsersHandlers ELSE g[i - 1] \cup Over(g[i - 1])
      <4>1. i \in 0 .. k /\ (i # 0 => i - 1 \in 0 .. k)
        BY <3>2
      <4> HIDE DEF g
      <4>2. g[i] = f[i] /\ (i # 0 => g[i - 1] = f[i - 1])
        BY <2>2, <4>1
      <4>3. f[i] = IF i = 0 THEN UsersHandlers ELSE f[i - 1] \cup Over(f[i - 1])
        BY <2>3, <4>1
      <4> QED
        BY <4>2, <4>3
    <3> QED
      BY <3>1, <3>2
  <2>5. Levels(g, k + 1)
    BY <2>4 DEF Levels
  <2> QED
    BY <2>5
<1> HIDE DEF T
<1>3. T = Nat
  BY <1>1, <1>2, Induction DEF T
<1> QED
  BY <1>3 DEF T

(* Two such functions agree as far as both go.                             *)
LEMMA LevelsAgree ==
  ASSUME NEW m \in Nat, NEW n \in Nat, NEW f, NEW g, Levels(f, m), Levels(g, n)
  PROVE  \A i \in Nat : i <= m /\ i <= n => f[i] = g[i]
<1> DEFINE T == {i \in Nat : i <= m /\ i <= n => f[i] = g[i]}
<1>1. /\ \A i \in 0 .. m : f[i] = IF i = 0 THEN UsersHandlers ELSE f[i - 1] \cup Over(f[i - 1])
      /\ \A i \in 0 .. n : g[i] = IF i = 0 THEN UsersHandlers ELSE g[i - 1] \cup Over(g[i - 1])
  BY DEF Levels
<1>2. 0 \in T
  <2>1. 0 \in 0 .. m /\ 0 \in 0 .. n
    OBVIOUS
  <2>2. f[0] = UsersHandlers /\ g[0] = UsersHandlers
    BY <1>1, <2>1
  <2> QED
    BY <2>2
<1>3. ASSUME NEW i \in T PROVE i + 1 \in T
  <2> SUFFICES ASSUME i + 1 <= m, i + 1 <= n PROVE f[i + 1] = g[i + 1]
    OBVIOUS
  <2>1. /\ (i + 1) - 1 = i /\ i + 1 # 0
        /\ i + 1 \in 0 .. m /\ i + 1 \in 0 .. n /\ f[i] = g[i]
    OBVIOUS
  <2>2. f[i + 1] = f[i] \cup Over(f[i])
    BY <1>1, <2>1
  <2>3. g[i + 1] = g[i] \cup Over(g[i])
    BY <1>1, <2>1
  <2> QED
    BY <2>1, <2>2, <2>3
<1> HIDE DEF T
<1>4. T = Nat
  BY <1>2, <1>3, Induction DEF T
<1> QED
  BY <1>4 DEF T

(* So Tree is what its definition says: a level is the one below it and    *)
(* the handlers over that.                                                 *)
LEMMA TreeUnfolds ==
  /\ Tree[0] = UsersHandlers
  /\ \A n \in Nat : Tree[n + 1] = Tree[n] \cup Over(Tree[n])
<1> DEFINE level(n) == CHOOSE f : Levels(f, n)
           t == [n \in Nat |-> level(n)[n]]
<1>1. \A n \in Nat : Levels(level(n), n)
  BY LevelsExist
<1>2. ASSUME NEW n \in Nat
      PROVE  t[n] = IF n = 0 THEN UsersHandlers ELSE t[n - 1] \cup Over(t[n - 1])
  <2>1. level(n)[n] = IF n = 0 THEN UsersHandlers ELSE level(n)[n - 1] \cup Over(level(n)[n - 1])
    <3>1. PICK f : f = level(n)
      OBVIOUS
    <3>2. Levels(f, n)
      BY <1>1, <3>1
    <3>3. f[n] = IF n = 0 THEN UsersHandlers ELSE f[n - 1] \cup Over(f[n - 1])
      <4>1. \A i \in 0 .. n : f[i] = IF i = 0 THEN UsersHandlers ELSE f[i - 1] \cup Over(f[i - 1])
        BY <3>2 DEF Levels
      <4>2. n \in 0 .. n
        OBVIOUS
      <4> QED
        BY <4>1, <4>2
    <3> QED
      BY <3>1, <3>3
  <2>2. n # 0 => n - 1 \in Nat /\ n - 1 <= n /\ n - 1 <= n - 1
    OBVIOUS
  <2>3. n # 0 => level(n)[n - 1] = level(n - 1)[n - 1]
    BY <1>1, <2>2, LevelsAgree
  <2> QED
    BY <2>1, <2>2, <2>3
<1>3. t = [n \in Nat |-> IF n = 0 THEN UsersHandlers ELSE t[n - 1] \cup Over(t[n - 1])]
  BY <1>2
<1> HIDE DEF t
<1>4. Tree = [n \in Nat |-> IF n = 0 THEN UsersHandlers ELSE Tree[n - 1] \cup Over(Tree[n - 1])]
  BY <1>3 DEF Tree
<1>5. \A n \in Nat : n + 1 \in Nat /\ n + 1 # 0 /\ (n + 1) - 1 = n
  OBVIOUS
<1> QED
  BY <1>4, <1>5

-----------------------------------------------------------------------------

(* FlattenSeq: what is in the sequences is in the flat one, and nothing    *)
(* else; sequences of one element are replaced by their elements.          *)
FlatParts(f, seqs, n) ==
  f = [i \in 1 .. n |-> IF i = 1 THEN seqs[i] ELSE f[i - 1] \o seqs[i]]

(* Flattening from the left: there is a function of the partial results.   *)
LEMMA FlatPartsExist ==
  ASSUME NEW seqs, NEW n \in Nat
  PROVE  \E f : FlatParts(f, seqs, n)
<1> DEFINE T == {k \in Nat : \E f : FlatParts(f, seqs, k)}
<1>1. 0 \in T
  <2> DEFINE f == [i \in 1 .. 0 |-> i]
  <2>1. f = [i \in 1 .. 0 |-> IF i = 1 THEN seqs[i] ELSE f[i - 1] \o seqs[i]]
    OBVIOUS
  <2> QED
    BY <2>1 DEF FlatParts
<1>2. ASSUME NEW k \in T PROVE k + 1 \in T
  <2>1. PICK f : FlatParts(f, seqs, k)
    BY <1>2
  <2> DEFINE last == IF k + 1 = 1 THEN seqs[k + 1] ELSE f[k] \o seqs[k + 1]
             g == [i \in 1 .. k + 1 |-> IF i = k + 1 THEN last ELSE f[i]]
  <2>2. \A i \in 1 .. k : g[i] = f[i]
    OBVIOUS
  <2>3. \A i \in 1 .. k : f[i] = IF i = 1 THEN seqs[i] ELSE f[i - 1] \o seqs[i]
    BY <2>1 DEF FlatParts
  <2>4. g[k + 1] = last
    OBVIOUS
  <2>5. DOMAIN g = 1 .. k + 1 /\ g = [i \in 1 .. k + 1 |-> g[i]]
    OBVIOUS
  <2> HIDE DEF g
  <2>6. \A i \in 1 .. k + 1 : g[i] = IF i = 1 THEN seqs[i] ELSE g[i - 1] \o seqs[i]
    <3>1. ASSUME NEW i \in 1 .. k + 1, i = k + 1
          PROVE  g[i] = IF i = 1 THEN seqs[i] ELSE g[i - 1] \o seqs[i]
      <4>1. i # 1 => i - 1 = k /\ k \in 1 .. k
        BY <3>1
      <4> QED
        BY <2>2, <2>4, <3>1, <4>1
    <3>2. ASSUME NEW i \in 1 .. k + 1, i # k + 1
          PROVE  g[i] = IF i = 1 THEN seqs[i] ELSE g[i - 1] \o seqs[i]
      <4>1. i \in 1 .. k /\ (i # 1 => i - 1 \in 1 .. k)
        BY <3>2
      <4>2. g[i] = f[i] /\ (i # 1 => g[i - 1] = f[i - 1])
        BY <2>2, <4>1
      <4>3. f[i] = IF i = 1 THEN seqs[i] ELSE f[i - 1] \o seqs[i]
        BY <2>3, <4>1
      <4> QED
        BY <4>2, <4>3
    <3> QED
      BY <3>1, <3>2
  <2>7. FlatParts(g, seqs, k + 1)
    BY <2>5, <2>6 DEF FlatParts
  <2> QED
    BY <2>7
<1> HIDE DEF T
<1>3. T = Nat
  BY <1>1, <1>2, Induction DEF T
<1> QED
  BY <1>3 DEF T

(* What FlattenSeq returns is the last of them.                            *)
LEMMA FlattenIsLastPart ==
  ASSUME NEW seqs, Len(seqs) \in Nat, Len(seqs) # 0
  PROVE  \E f : FlatParts(f, seqs, Len(seqs)) /\ FlattenSeq(seqs) = f[Len(seqs)]
<1> DEFINE f == CHOOSE g : FlatParts(g, seqs, Len(seqs))
<1>1. FlatParts(f, seqs, Len(seqs))
  BY FlatPartsExist
<1>2. FlattenSeq(seqs) = f[Len(seqs)]
  BY DEF FlattenSeq, FlatParts
<1> QED
  BY <1>1, <1>2

Within(s) == {s[i] : i \in DOMAIN s}

(* A concatenation has the elements of both.                               *)
LEMMA WithinBoth ==
  ASSUME NEW S, NEW s \in Seq(S), NEW t \in Seq(S)
  PROVE  s \o t \in Seq(S) /\ Within(s \o t) = Within(s) \cup Within(t)
<1>1. /\ DOMAIN s = 1 .. Len(s) /\ DOMAIN t = 1 .. Len(t) /\ s \o t \in Seq(S)
      /\ DOMAIN (s \o t) = 1 .. Len(s) + Len(t)
      /\ Len(s) \in Nat /\ Len(t) \in Nat
  BY LenProperties, ConcatProperties
<1>2. \A i \in DOMAIN s : i \in DOMAIN (s \o t) /\ (s \o t)[i] = s[i]
  BY <1>1, ConcatProperties
<1>3. \A i \in DOMAIN t : Len(s) + i \in DOMAIN (s \o t) /\ (s \o t)[Len(s) + i] = t[i]
  BY <1>1, ConcatProperties
<1>4. ASSUME NEW i \in DOMAIN (s \o t)
      PROVE  \/ i \in DOMAIN s /\ (s \o t)[i] = s[i]
             \/ i - Len(s) \in DOMAIN t /\ (s \o t)[i] = t[i - Len(s)]
  BY <1>1, ConcatProperties
<1>5. \A x : x \in Within(s \o t) <=> x \in Within(s) \/ x \in Within(t)
  <2>1. \A x : x \in Within(s \o t) <=> \E i \in DOMAIN (s \o t) : (s \o t)[i] = x
    BY DEF Within
  <2>2. \A x : x \in Within(s) <=> \E i \in DOMAIN s : s[i] = x
    BY DEF Within
  <2>3. \A x : x \in Within(t) <=> \E i \in DOMAIN t : t[i] = x
    BY DEF Within
  <2> QED
    BY <1>2, <1>3, <1>4, <2>1, <2>2, <2>3
<1> QED
  BY <1>1, <1>5

(* A flattened sequence has the elements of its parts.                     *)
LEMMA FlattenWithin ==
  ASSUME NEW S, NEW seqs \in Seq(Seq(S))
  PROVE  /\ FlattenSeq(seqs) \in Seq(S)
         /\ Within(FlattenSeq(seqs)) = UNION {Within(seqs[i]) : i \in DOMAIN seqs}
<1>0. DOMAIN seqs = 1 .. Len(seqs) /\ Len(seqs) \in Nat
  BY LenProperties
<1>1. CASE Len(seqs) = 0
  <2>1. FlattenSeq(seqs) = seqs
    BY <1>1 DEF FlattenSeq
  <2>2. DOMAIN seqs = {} /\ seqs = <<>>
    BY <1>0, <1>1
  <2> QED
    BY <2>1, <2>2 DEF Within
<1>2. CASE Len(seqs) # 0
  <2>1. PICK f : FlatParts(f, seqs, Len(seqs)) /\ FlattenSeq(seqs) = f[Len(seqs)]
    BY <1>0, <1>2, FlattenIsLastPart
  <2>2. \A i \in 1 .. Len(seqs) : f[i] = IF i = 1 THEN seqs[i] ELSE f[i - 1] \o seqs[i]
    BY <2>1 DEF FlatParts
  <2> DEFINE Upto(i) == UNION {Within(seqs[j]) : j \in 1 .. i}
             T == {k \in Nat : k + 1 \in 1 .. Len(seqs) =>
                                 f[k + 1] \in Seq(S) /\ Within(f[k + 1]) = Upto(k + 1)}
  <2>3. 0 \in T
    <3>1. 1 \in 1 .. Len(seqs) /\ 0 + 1 = 1 /\ 1 .. 1 = {1}
      BY <1>0, <1>2
    <3>2. f[1] = seqs[1] /\ seqs[1] \in Seq(S)
      BY <2>2, <3>1, ElementOfSeq
    <3>3. Upto(1) = Within(seqs[1])
      BY <3>1
    <3> QED
      BY <3>1, <3>2, <3>3
  <2>4. ASSUME NEW k \in T PROVE k + 1 \in T
    <3> SUFFICES ASSUME (k + 1) + 1 \in 1 .. Len(seqs)
                 PROVE  /\ f[(k + 1) + 1] \in Seq(S)
                        /\ Within(f[(k + 1) + 1]) = Upto((k + 1) + 1)
      OBVIOUS
    <3>1. PICK i : i = (k + 1) + 1
      OBVIOUS
    <3>2. /\ i \in 1 .. Len(seqs) /\ i # 1 /\ i - 1 = k + 1
          /\ k + 1 \in 1 .. Len(seqs) /\ 1 .. i = (1 .. k + 1) \cup {i}
      BY <1>0, <3>1
    <3>3. f[k + 1] \in Seq(S) /\ Within(f[k + 1]) = Upto(k + 1)
      BY <3>2
    <3>4. f[i] = f[k + 1] \o seqs[i] /\ seqs[i] \in Seq(S)
      BY <2>2, <3>2, ElementOfSeq
    <3>5. Upto(i) = Upto(k + 1) \cup Within(seqs[i])
      BY <3>2
    <3> HIDE DEF Upto
    <3>6. f[i] \in Seq(S) /\ Within(f[i]) = Upto(i)
      BY <3>3, <3>4, <3>5, WithinBoth
    <3> QED
      BY <3>1, <3>6
  <2> HIDE DEF T
  <2>5. T = Nat
    BY <2>3, <2>4, Induction DEF T
  <2>6. Len(seqs) - 1 \in Nat /\ (Len(seqs) - 1) + 1 = Len(seqs) /\ Len(seqs) \in 1 .. Len(seqs)
    BY <1>0, <1>2
  <2>7. Len(seqs) - 1 \in T
    BY <2>5, <2>6
  <2>8. f[Len(seqs)] \in Seq(S) /\ Within(f[Len(seqs)]) = Upto(Len(seqs))
    BY <2>6, <2>7 DEF T
  <2> QED
    BY <1>0, <2>1, <2>8
<1> QED
  BY <1>1, <1>2

-----------------------------------------------------------------------------

(* The handlers a handler has.                                             *)
Kids(h) ==
  CASE h.kind \in {"sink", "inline"}    -> {}
    [] h.kind \in {"route", "recovery"} -> {h.handler}
    [] h.kind = "middleware"            -> {h.next}
    [] OTHER                            -> Within(h.handlers)

(* A level has all that the levels below it have.                          *)
LEMMA LevelsGrow ==
  ASSUME NEW m \in Nat
  PROVE  \A n \in Nat : m <= n => Tree[m] \subseteq Tree[n]
<1> DEFINE T == {n \in Nat : m <= n => Tree[m] \subseteq Tree[n]}
<1>1. 0 \in T
  <2>1. m <= 0 => m = 0
    OBVIOUS
  <2> QED
    BY <2>1
<1>2. ASSUME NEW n \in T PROVE n + 1 \in T
  <2>1. m <= n + 1 => m = n + 1 \/ m <= n
    OBVIOUS
  <2>2. Tree[n] \subseteq Tree[n + 1]
    BY TreeUnfolds
  <2> QED
    BY <2>1, <2>2
<1> HIDE DEF T
<1>3. T = Nat
  BY <1>1, <1>2, Induction DEF T
<1> QED
  BY <1>3 DEF T

(* Finitely many handlers have a level that has them all.                  *)
LEMMA OneLevelHasThem ==
  ASSUME NEW k \in Nat, NEW f, \A i \in 1 .. k : f[i] \in Handlers
  PROVE  \E n \in Nat : \A i \in 1 .. k : f[i] \in Tree[n]
<1> DEFINE T == {j \in Nat : j <= k => \E n \in Nat : \A i \in 1 .. j : f[i] \in Tree[n]}
<1>1. 0 \in T
  OBVIOUS
<1>2. ASSUME NEW j \in T PROVE j + 1 \in T
  <2> SUFFICES ASSUME j + 1 <= k
               PROVE  \E n \in Nat : \A i \in 1 .. j + 1 : f[i] \in Tree[n]
    OBVIOUS
  <2>1. j <= k /\ j + 1 \in 1 .. k
    OBVIOUS
  <2>2. PICK m \in Nat : \A i \in 1 .. j : f[i] \in Tree[m]
    BY <2>1
  <2>3. PICK n \in Nat : f[j + 1] \in Tree[n]
    BY <2>1 DEF Handlers
  <2>4. PICK top \in Nat : m <= top /\ n <= top
    <3>1. m <= m + n /\ n <= m + n /\ m + n \in Nat
      OBVIOUS
    <3> QED
      BY <3>1
  <2>5. Tree[m] \subseteq Tree[top] /\ Tree[n] \subseteq Tree[top]
    BY <2>4, LevelsGrow
  <2>6. \A i \in 1 .. j + 1 : i = j + 1 \/ i \in 1 .. j
    OBVIOUS
  <2> QED
    BY <2>2, <2>3, <2>5, <2>6
<1> HIDE DEF T
<1>3. T = Nat
  BY <1>1, <1>2, Induction DEF T
<1>4. k \in T /\ k <= k
  BY <1>3
<1> QED
  BY <1>4 DEF T

(* A sequence is one over any set that has its elements.                   *)
LEMMA ItsElements ==
  ASSUME NEW S, NEW s, NEW T, s \in Seq(T), \A i \in DOMAIN s : s[i] \in S
  PROVE  s \in Seq(S)
<1>1. DOMAIN s = 1 .. Len(s) /\ Len(s) \in Nat /\ s = [i \in 1 .. Len(s) |-> s[i]]
  BY LenProperties
<1>2. s \in [1 .. Len(s) -> S]
  BY <1>1
<1>3. \A n \in Nat : \A f \in [1 .. n -> S] : f \in Seq(S)
  OBVIOUS
<1> QED
  BY <1>1, <1>2, <1>3

(* So a handler over handlers is a handler.                                *)
LEMMA HandlersClosed ==
  Over(Handlers) \subseteq Handlers
<1> SUFFICES ASSUME NEW h \in Over(Handlers) PROVE \E n \in Nat : h \in Over(Tree[n])
  <2>1. \A n \in Nat : Over(Tree[n]) \subseteq Tree[n + 1] /\ n + 1 \in Nat
    BY TreeUnfolds
  <2> QED
    BY <2>1 DEF Handlers
<1>1. CASE h \in [kind : {"fanout", "failover"}, handlers : Seq(Handlers)]
  <2>1. DOMAIN h.handlers = 1 .. Len(h.handlers) /\ Len(h.handlers) \in Nat
    BY <1>1, LenProperties
  <2>2. \A i \in 1 .. Len(h.handlers) : h.handlers[i] \in Handlers
    BY <1>1, ElementOfSeq
  <2>3. PICK n \in Nat : \A i \in 1 .. Len(h.handlers) : h.handlers[i] \in Tree[n]
    BY <2>1, <2>2, OneLevelHasThem
  <2>4. h.handlers \in Seq(Tree[n])
    <3>1. h.handlers \in Seq(Handlers) /\ \A i \in DOMAIN h.handlers : h.handlers[i] \in Tree[n]
      BY <1>1, <2>1, <2>3
    <3> QED
      BY <3>1, ItsElements
  <2>5. h \in [kind : {"fanout", "failover"}, handlers : Seq(Tree[n])]
    BY <1>1, <2>4
  <2> QED
    BY <2>5 DEF Over
<1>2. CASE h \in [kind : {"pool"}, name : STRING, handlers : Seq(Handlers)]
  <2>1. DOMAIN h.handlers = 1 .. Len(h.handlers) /\ Len(h.handlers) \in Nat
    BY <1>2, LenProperties
  <2>2. \A i \in 1 .. Len(h.handlers) : h.handlers[i] \in Handlers
    BY <1>2, ElementOfSeq
  <2>3. PICK n \in Nat : \A i \in 1 .. Len(h.handlers) : h.handlers[i] \in Tree[n]
    BY <2>1, <2>2, OneLevelHasThem
  <2>4. h.handlers \in Seq(Tree[n])
    <3>1. h.handlers \in Seq(Handlers) /\ \A i \in DOMAIN h.handlers : h.handlers[i] \in Tree[n]
      BY <1>2, <2>1, <2>3
    <3> QED
      BY <3>1, ItsElements
  <2>5. h \in [kind : {"pool"}, name : STRING, handlers : Seq(Tree[n])]
    BY <1>2, <2>4
  <2> QED
    BY <2>5 DEF Over
<1>3. CASE h \in RoutesTo(Handlers)
  <2>1. PICK n \in Nat : h.handler \in Tree[n]
    BY <1>3 DEF Handlers, RoutesTo
  <2>2. h \in RoutesTo(Tree[n])
    BY <1>3, <2>1 DEF RoutesTo
  <2> QED
    BY <2>2 DEF Over
<1>4. CASE h \in [kind : {"firstmatch"}, handlers : Seq(RoutesTo(Handlers))]
  <2>1. DOMAIN h.handlers = 1 .. Len(h.handlers) /\ Len(h.handlers) \in Nat
    BY <1>4, LenProperties
  <2>2. PICK f : f = [i \in 1 .. Len(h.handlers) |-> h.handlers[i].handler]
    OBVIOUS
  <2>3. \A i \in 1 .. Len(h.handlers) : h.handlers[i] \in RoutesTo(Handlers)
    BY <1>4, ElementOfSeq
  <2>4. \A i \in 1 .. Len(h.handlers) : f[i] \in Handlers
    BY <2>2, <2>3 DEF RoutesTo
  <2>5. PICK n \in Nat : \A i \in 1 .. Len(h.handlers) : f[i] \in Tree[n]
    BY <2>1, <2>4, OneLevelHasThem
  <2>6. \A i \in 1 .. Len(h.handlers) : h.handlers[i] \in RoutesTo(Tree[n])
    BY <2>2, <2>3, <2>5 DEF RoutesTo
  <2>7. h.handlers \in Seq(RoutesTo(Tree[n]))
    <3>1. /\ h.handlers \in Seq(RoutesTo(Handlers))
          /\ \A i \in DOMAIN h.handlers : h.handlers[i] \in RoutesTo(Tree[n])
      BY <1>4, <2>1, <2>6
    <3> QED
      BY <3>1, ItsElements
  <2>8. h \in [kind : {"firstmatch"}, handlers : Seq(RoutesTo(Tree[n]))]
    BY <1>4, <2>7
  <2> QED
    BY <2>8 DEF Over
<1>5. CASE h \in [kind : {"recovery"}, handler : Handlers]
  <2>1. PICK n \in Nat : h.handler \in Tree[n]
    BY <1>5 DEF Handlers
  <2>2. h \in [kind : {"recovery"}, handler : Tree[n]]
    BY <1>5, <2>1
  <2> QED
    BY <2>2 DEF Over
<1>6. CASE h \in [kind : {"middleware"}, hooks : SUBSET Methods, next : Handlers]
  <2>1. PICK n \in Nat : h.next \in Tree[n]
    BY <1>6 DEF Handlers
  <2>2. h \in [kind : {"middleware"}, hooks : SUBSET Methods, next : Tree[n]]
    BY <1>6, <2>1
  <2> QED
    BY <2>2 DEF Over
<1> QED
  BY <1>1, <1>2, <1>3, <1>4, <1>5, <1>6 DEF Over

(* A handler is a user's, or made of handlers of the level below.          *)
LEMMA KidsAreBelow ==
  ASSUME NEW S
  PROVE  /\ \A h \in UsersHandlers : Kids(h) = {}
         /\ \A h \in Over(S) : Kids(h) \subseteq S \cup RoutesTo(S)
<1>1. \A h \in UsersHandlers : h.kind \in {"sink", "inline"}
  BY DEF UsersHandlers
<1>2. ASSUME NEW h \in Over(S) PROVE Kids(h) \subseteq S \cup RoutesTo(S)
  <2>1. CASE h \in [kind : {"fanout", "failover"}, handlers : Seq(S)]
    <3>1. Kids(h) = Within(h.handlers) /\ h.handlers \in Seq(S)
      BY <2>1 DEF Kids
    <3> QED
      BY <3>1, LenProperties, ElementOfSeq DEF Within
  <2>2. CASE h \in [kind : {"pool"}, name : STRING, handlers : Seq(S)]
    <3>1. Kids(h) = Within(h.handlers) /\ h.handlers \in Seq(S)
      BY <2>2 DEF Kids
    <3> QED
      BY <3>1, LenProperties, ElementOfSeq DEF Within
  <2>3. CASE h \in RoutesTo(S)
    BY <2>3 DEF RoutesTo, Kids
  <2>4. CASE h \in [kind : {"firstmatch"}, handlers : Seq(RoutesTo(S))]
    <3>1. Kids(h) = Within(h.handlers) /\ h.handlers \in Seq(RoutesTo(S))
      BY <2>4 DEF Kids
    <3> QED
      BY <3>1, LenProperties, ElementOfSeq DEF Within
  <2>5. CASE h \in [kind : {"recovery"}, handler : S]
    BY <2>5 DEF Kids
  <2>6. CASE h \in [kind : {"middleware"}, hooks : SUBSET Methods, next : S]
    BY <2>6 DEF Kids
  <2> QED
    BY <2>1, <2>2, <2>3, <2>4, <2>5, <2>6 DEF Over
<1> QED
  BY <1>1, <1>2 DEF Kids

(* What holds for a handler whenever it holds for those that it has holds  *)
(* for all of them.                                                        *)
LEMMA KidsInduction ==
  ASSUME NEW T \in SUBSET Handlers, \A h \in Handlers : Kids(h) \subseteq T => h \in T
  PROVE  T = Handlers
<1> DEFINE N == {n \in Nat : Tree[n] \subseteq T}
<1>1. 0 \in N
  BY TreeUnfolds, KidsAreBelow DEF Handlers
<1>2. ASSUME NEW n \in N PROVE n + 1 \in N
  <2>1. Tree[n + 1] = Tree[n] \cup Over(Tree[n]) /\ n + 1 \in Nat /\ Tree[n] \subseteq T
    BY TreeUnfolds
  <2>2. Over(Tree[n]) \subseteq Handlers
    BY <2>1 DEF Handlers
  <2>3. RoutesTo(Tree[n]) \subseteq T
    <3> SUFFICES ASSUME NEW h \in RoutesTo(Tree[n]) PROVE h \in T
      OBVIOUS
    <3>1. h \in Handlers
      BY <2>2 DEF Over
    <3>2. Kids(h) \subseteq Tree[n]
      BY DEF RoutesTo, Kids
    <3> QED
      BY <2>1, <3>1, <3>2
  <2>4. Over(Tree[n]) \subseteq T
    BY <2>1, <2>2, <2>3, KidsAreBelow
  <2> QED
    BY <2>1, <2>4
<1> HIDE DEF N
<1>3. N = Nat
  BY <1>1, <1>2, Induction DEF N
<1> QED
  BY <1>3 DEF N, Handlers

-----------------------------------------------------------------------------

(* When counting is as good as checking: AttrValueIs and AttrKindIs count  *)
(* attributes and compare with the number of keys, and that tells whether  *)
(* all the keys are there exactly because no key occurs twice.  The        *)
(* argument is the pigeonhole principle.                                   *)

(* Different attributes with different keys, as many as there are keys,    *)
(* have all the keys.                                                      *)
LEMMA CountingIsChecking ==
  ASSUME NEW K, IsFiniteSet(K), NEW I, NEW f \in [I -> K],
         \A i, j \in I : f[i] = f[j] => i = j
  PROVE  Cardinality(I) >= Cardinality(K) <=> \A k \in K : \E i \in I : f[i] = k
<1>1. f \in Injection(I, K)
  BY DEF Injection, IsInjective
<1>2. /\ IsFiniteSet(I)
      /\ Cardinality(I) <= Cardinality(K)
      /\ Cardinality(I) = Cardinality(K) <=> f \in Surjection(I, K)
  BY <1>1, FS_Injection
<1>3. Cardinality(I) \in Nat /\ Cardinality(K) \in Nat
  BY <1>2, FS_CardinalityType
<1>4. f \in Surjection(I, K) <=> \A k \in K : \E i \in I : f[i] = k
  BY DEF Surjection
<1> QED
  BY <1>2, <1>3, <1>4

(* A call has finitely many arguments, and so the map of the pairs has     *)
(* finitely many keys.                                                     *)
LEMMA MapIsFinite ==
  ASSUME NEW S, NEW args \in Seq(S)
  PROVE  IsFiniteSet(DOMAIN MapOf(args))
<1> DEFINE keyAt == {i \in DOMAIN args : i % 2 = 1}
           keys  == {args[i].of : i \in keyAt}
           f     == [i \in keyAt |-> args[i].of]
<1>1. DOMAIN MapOf(args) = keys
  BY DEF MapOf
<1>2. IsFiniteSet(DOMAIN args)
  BY FS_Interval
<1>3. IsFiniteSet(keyAt)
  BY <1>2, FS_Subset
<1>4. f \in Surjection(keyAt, keys)
  BY DEF Surjection
<1> HIDE DEF keyAt, keys, f
<1> QED
  BY <1>1, <1>3, <1>4, FS_Surjection

(* AttrValueIs, for every number of arguments and attributes, of a record  *)
(* whose keys are distinct: it holds if and only if the record has all the *)
(* specified attributes.                                                   *)
THEOREM DistinctValues ==
  ASSUME NEW S, NEW args \in Seq(S), NEW r, DistinctKeys(r.attrs)
  PROVE  AttrValueIs(args, r) <=> HasAllValues(MapOf(args), r.attrs)
<1> DEFINE wanted == MapOf(args)
           I == WithValue(wanted, r.attrs)
           f == [i \in I |-> r.attrs[i].key]
<1>1. IsFiniteSet(DOMAIN wanted)
  BY MapIsFinite
<1> HIDE DEF wanted
<1>2. f \in [I -> DOMAIN wanted]
  BY DEF WithValue
<1>3. \A i, j \in I : f[i] = f[j] => i = j
  BY DEF DistinctKeys, WithValue
<1>4. (\A key \in DOMAIN wanted : \E i \in I : f[i] = key)
        <=> HasAllValues(wanted, r.attrs)
  BY DEF HasAllValues, WithValue
<1>5. AttrValueIs(args, r) <=> Cardinality(I) >= Cardinality(DOMAIN wanted)
  BY DEF AttrValueIs, CountReached, wanted
<1> HIDE DEF I, f
<1>6. Cardinality(I) >= Cardinality(DOMAIN wanted)
        <=> \A key \in DOMAIN wanted : \E i \in I : f[i] = key
  BY <1>1, <1>2, <1>3, CountingIsChecking
<1>7. AttrValueIs(args, r) <=> HasAllValues(wanted, r.attrs)
  BY <1>4, <1>5, <1>6
<1> QED
  BY <1>7 DEF wanted

(* AttrKindIs, likewise.                                                   *)
THEOREM DistinctKinds ==
  ASSUME NEW S, NEW args \in Seq(S), NEW r, DistinctKeys(r.attrs)
  PROVE  AttrKindIs(args, r) <=> HasAllKinds(MapOf(args), r.attrs)
<1> DEFINE wanted == MapOf(args)
           I == WithKind(wanted, r.attrs)
           f == [i \in I |-> r.attrs[i].key]
<1>1. IsFiniteSet(DOMAIN wanted)
  BY MapIsFinite
<1> HIDE DEF wanted
<1>2. f \in [I -> DOMAIN wanted]
  BY DEF WithKind
<1>3. \A i, j \in I : f[i] = f[j] => i = j
  BY DEF DistinctKeys, WithKind
<1>4. (\A key \in DOMAIN wanted : \E i \in I : f[i] = key)
        <=> HasAllKinds(wanted, r.attrs)
  BY DEF HasAllKinds, WithKind
<1>5. AttrKindIs(args, r) <=> Cardinality(I) >= Cardinality(DOMAIN wanted)
  BY DEF AttrKindIs, CountReached, wanted
<1> HIDE DEF I, f
<1>6. Cardinality(I) >= Cardinality(DOMAIN wanted)
        <=> \A key \in DOMAIN wanted : \E i \in I : f[i] = key
  BY <1>1, <1>2, <1>3, CountingIsChecking
<1>7. AttrKindIs(args, r) <=> HasAllKinds(wanted, r.attrs)
  BY <1>4, <1>5, <1>6
<1> QED
  BY <1>7 DEF wanted

-----------------------------------------------------------------------------

(* Max of the community modules is the greatest number of a set that has   *)
(* one.                                                                    *)
LEMMA GreatestIsIn ==
  ASSUME NEW n \in Nat, NEW T \in SUBSET (1 .. n), T # {}
  PROVE  Max(T) \in T /\ \A y \in T : y <= Max(T)
<1>0. \A x \in 1 .. n : x \in Nat /\ n - x \in Nat
  OBVIOUS
<1>1. \A x, y \in Nat : n - x <= n - y => y <= x /\ x >= y
  OBVIOUS
<1>2. \A x \in T : x \in Nat /\ n - x \in Nat
  BY <1>0
<1>3. PICK U : U = {n - x : x \in T}
  OBVIOUS
<1>4. U \in SUBSET Nat /\ U # {}
  BY <1>2, <1>3
<1>5. PICK least \in U : \A y \in U : least <= y
  BY <1>4, LeastOf
<1>6. PICK x \in T : least = n - x
  BY <1>3, <1>5
<1>7. ASSUME NEW y \in T PROVE y <= x /\ x >= y
  <2>1. n - y \in U
    BY <1>3
  <2>2. n - x <= n - y
    BY <1>5, <1>6, <2>1
  <2> QED
    BY <1>1, <1>2, <2>2
<1>8. Max(T) \in T /\ \A y \in T : Max(T) >= y
  BY <1>7 DEF Max
<1>9. \A a, b \in Nat : a >= b => b <= a
  OBVIOUS
<1> QED
  BY <1>2, <1>8, <1>9

-----------------------------------------------------------------------------

(* De-duplication.  Of the attributes of one key UniqAttrs keeps the last, *)
(* in the place of the first: the n-th of the first ones exists because    *)
(* counting those up to it is one-to-one.                                  *)

LastOfKey(attrs, i) == \A j \in DOMAIN attrs : attrs[j].key = attrs[i].key => j <= i

(* UniqAttrs returns the last attributes of their keys, and no others.     *)
LEMMA UniqIs ==
  ASSUME NEW S, NEW attrs \in Seq(S)
  PROVE  /\ UniqAttrs(attrs) \in Seq(S)
         /\ DistinctKeys(UniqAttrs(attrs))
         /\ \A x : (\E n \in DOMAIN UniqAttrs(attrs) : UniqAttrs(attrs)[n] = x)
                     <=> \E i \in DOMAIN attrs : LastOfKey(attrs, i) /\ attrs[i] = x
<1>1. /\ DOMAIN attrs = 1 .. Len(attrs) /\ Len(attrs) \in Nat
      /\ \A i \in DOMAIN attrs : attrs[i] \in S
  BY LenProperties, ElementOfSeq
<1>2. PICK firsts, c, rank, nth, final :
         /\ firsts = {i \in DOMAIN attrs : \A j \in 1 .. i - 1 : attrs[j].key # attrs[i].key}
         /\ c = Cardinality(firsts)
         /\ rank = [i \in firsts |-> Cardinality({j \in firsts : j <= i})]
         /\ nth = [n \in 1 .. c |-> CHOOSE i \in firsts : Cardinality({j \in firsts : j <= i}) = n]
         /\ final = [i \in DOMAIN attrs |-> Max({j \in DOMAIN attrs : attrs[j].key = attrs[i].key})]
  OBVIOUS
<1>3. firsts \in SUBSET Nat /\ IsFiniteSet(firsts) /\ c \in Nat
  <2>1. IsFiniteSet(DOMAIN attrs)
    BY <1>1, FS_Interval
  <2> QED
    BY <1>1, <1>2, <2>1, FS_Subset, FS_CardinalityType
<1>4. ASSUME NEW i \in firsts PROVE rank[i] \in 1 .. c
  <2>1. PICK upTo : upTo = {j \in firsts : j <= i}
    OBVIOUS
  <2>2. upTo \in SUBSET firsts /\ upTo # {}
    BY <1>3, <2>1
  <2>3. IsFiniteSet(upTo) /\ Cardinality(upTo) <= c
    BY <1>2, <1>3, <2>2, FS_Subset
  <2>4. Cardinality(upTo) \in Nat /\ Cardinality(upTo) # 0
    BY <2>2, <2>3, FS_CardinalityType, FS_EmptySet
  <2> QED
    BY <1>2, <1>3, <2>1, <2>3, <2>4
<1>5. ASSUME NEW i \in firsts, NEW k \in firsts, i < k PROVE rank[i] # rank[k]
  <2>1. PICK toI, toK : toI = {j \in firsts : j <= i} /\ toK = {j \in firsts : j <= k}
    OBVIOUS
  <2>2. toI \in SUBSET toK /\ toK \in SUBSET firsts /\ k \in toK /\ k \notin toI
    <3>1. \A j \in firsts : (j <= i => j <= k) /\ k <= k /\ ~ k <= i
      BY <1>3, <1>5
    <3> QED
      BY <2>1, <3>1
  <2>3. IsFiniteSet(toK)
    BY <1>3, <2>2, FS_Subset
  <2>4. Cardinality(toI) # Cardinality(toK)
    BY <2>2, <2>3, FS_Subset
  <2> QED
    BY <1>2, <2>1, <2>4
<1>6. \A i, k \in firsts : rank[i] = rank[k] => i = k
  <2>1. \A i, k \in firsts : i < k \/ k < i \/ i = k
    BY <1>3
  <2> QED
    BY <1>5, <2>1
<1>7. \A n \in 1 .. c : nth[n] \in firsts /\ rank[nth[n]] = n
  <2>1. rank \in [firsts -> 1 .. c]
    BY <1>2, <1>4
  <2>2. rank \in Injection(firsts, 1 .. c)
    BY <1>6, <2>1 DEF Injection, IsInjective
  <2>3. IsFiniteSet(1 .. c) /\ Cardinality(1 .. c) = c
    BY <1>3, FS_Interval
  <2>4. rank \in Surjection(firsts, 1 .. c)
    BY <1>2, <2>2, <2>3, FS_Injection
  <2>5. \A n \in 1 .. c : \E i \in firsts : rank[i] = n
    BY <2>4 DEF Surjection
  <2>9. \A i \in firsts : rank[i] = Cardinality({j \in firsts : j <= i})
    BY <1>2
  <2>6. \A n \in 1 .. c : \E i \in firsts : Cardinality({j \in firsts : j <= i}) = n
    BY <2>5, <2>9
  <2>7. \A n \in 1 .. c : nth[n] \in firsts /\ Cardinality({j \in firsts : j <= nth[n]}) = n
    BY <1>2, <2>6
  <2> QED
    BY <1>2, <2>7
<1>8. ASSUME NEW i \in DOMAIN attrs
      PROVE  final[i] \in DOMAIN attrs /\ attrs[final[i]].key = attrs[i].key /\ LastOfKey(attrs, final[i])
  <2>1. PICK same : same = {j \in DOMAIN attrs : attrs[j].key = attrs[i].key}
    OBVIOUS
  <2>2. same \in SUBSET (1 .. Len(attrs)) /\ same # {}
    BY <1>1, <2>1
  <2>3. Max(same) \in same /\ \A j \in same : j <= Max(same)
    BY <1>1, <2>2, GreatestIsIn
  <2>4. final[i] = Max(same)
    BY <1>2, <2>1
  <2> QED
    BY <2>1, <2>3, <2>4 DEF LastOfKey
<1>9. UniqAttrs(attrs) = [n \in 1 .. c |-> attrs[final[nth[n]]]]
  <2>1. \A n \in 1 .. c : nth[n] \in DOMAIN attrs
    BY <1>2, <1>7
  <2>2. PICK Nth, Final :
           /\ Nth = [n \in 1 .. c |-> CHOOSE i \in firsts : Cardinality({j \in firsts : j <= i}) = n]
           /\ Final = [n \in 1 .. c |-> Max({i \in DOMAIN attrs : attrs[i].key = attrs[Nth[n]].key})]
    OBVIOUS
  <2>3. UniqAttrs(attrs) = [n \in 1 .. c |-> attrs[Final[n]]]
    BY <1>2, <2>2 DEF UniqAttrs
  <2>4. \A n \in 1 .. c : Final[n] = final[nth[n]]
    BY <1>2, <2>1, <2>2
  <2> QED
    BY <2>3, <2>4
<1>10. PICK u : u = UniqAttrs(attrs)
  OBVIOUS
<1>11. DOMAIN u = 1 .. c /\ \A n \in 1 .. c : u[n] = attrs[final[nth[n]]] /\ nth[n] \in DOMAIN attrs
  <2>1. \A n \in 1 .. c : nth[n] \in DOMAIN attrs
    BY <1>2, <1>7
  <2> QED
    BY <1>9, <1>10, <2>1
<1>12. u \in Seq(S)
  <2>1. \A n \in 1 .. c : u[n] \in S
    BY <1>1, <1>8, <1>11
  <2>2. u \in [1 .. c -> S]
    BY <1>9, <1>10, <2>1
  <2> QED
    BY <1>3, <2>2
<1>13. DistinctKeys(u)
  <2> SUFFICES ASSUME NEW m \in 1 .. c, NEW n \in 1 .. c, u[m].key = u[n].key PROVE m = n
    BY <1>11 DEF DistinctKeys
  <2>1. attrs[nth[m]].key = attrs[nth[n]].key
    BY <1>8, <1>11
  <2>2. \A i, k \in firsts : i < k => attrs[i].key # attrs[k].key
    BY <1>1, <1>2
  <2>3. nth[m] \in firsts /\ nth[n] \in firsts
    BY <1>7
  <2>4. nth[m] = nth[n]
    <3>1. \A i, k \in firsts : i < k \/ k < i \/ i = k
      BY <1>3
    <3> QED
      BY <2>1, <2>2, <2>3, <3>1
  <2> QED
    BY <1>7, <2>4
<1>14. ASSUME NEW i \in DOMAIN attrs, LastOfKey(attrs, i) PROVE \E n \in 1 .. c : u[n] = attrs[i]
  <2>1. PICK same : same = {j \in DOMAIN attrs : attrs[j].key = attrs[i].key}
    OBVIOUS
  <2>2. same \in SUBSET Nat /\ same # {}
    BY <1>1, <2>1
  <2>3. PICK k \in same : \A j \in same : k <= j
    BY <2>2, LeastOf
  <2>4. k \in firsts
    BY <1>1, <1>2, <2>1, <2>3
  <2>5. PICK n \in 1 .. c : n = rank[k]
    BY <1>4, <2>4
  <2>6. nth[n] = k
    BY <1>6, <1>7, <2>4, <2>5
  <2>7. final[k] = i
    <3>1. k \in DOMAIN attrs /\ attrs[k].key = attrs[i].key
      BY <2>1
    <3>2. final[k] \in DOMAIN attrs /\ attrs[final[k]].key = attrs[k].key /\ LastOfKey(attrs, final[k])
      BY <1>8, <3>1
    <3>3. final[k] <= i /\ i <= final[k]
      BY <1>14, <3>1, <3>2 DEF LastOfKey
    <3> QED
      BY <1>1, <3>2, <3>3
  <2> QED
    BY <1>11, <2>6, <2>7
<1>15. \A n \in 1 .. c : \E i \in DOMAIN attrs : LastOfKey(attrs, i) /\ attrs[i] = u[n]
  BY <1>8, <1>11
<1>16. \A x : (\E n \in DOMAIN u : u[n] = x)
                <=> \E i \in DOMAIN attrs : LastOfKey(attrs, i) /\ attrs[i] = x
  BY <1>11, <1>14, <1>15
<1> QED
  BY <1>10, <1>12, <1>13, <1>16


-----------------------------------------------------------------------------

(* Paths.                                                                  *)

(* IsPrefix, place by place.                                               *)
LEMMA PrefixIs ==
  ASSUME NEW S, NEW s \in Seq(S), NEW t \in Seq(S)
  PROVE  IsPrefix(s, t) <=> Len(s) <= Len(t) /\ \A i \in 1 .. Len(s) : s[i] = t[i]
<1>1. Len(s) \in Nat /\ Len(t) \in Nat
  BY LenProperties
<1>2. SubSeq(s, 1, Len(s)) = s
  BY SubSeqFull
<1>3. ASSUME Len(s) <= Len(t)
      PROVE  SubSeq(t, 1, Len(s)) = s <=> \A i \in 1 .. Len(s) : s[i] = t[i]
  <2>1. PICK u : u = SubSeq(t, 1, Len(s))
    OBVIOUS
  <2>2. \A i \in 1 .. Len(s) : t[i] \in S
    BY <1>1, <1>3, ElementOfSeq
  <2>3. u \in Seq(S) /\ Len(u) = Len(s) /\ \A i \in 1 .. Len(s) : u[i] = t[i]
    BY <1>1, <1>3, <2>1, <2>2, SubSeqProperties
  <2>4. u = s <=> \A i \in 1 .. Len(s) : s[i] = u[i]
    BY <2>3, SeqEqual
  <2> QED
    BY <2>1, <2>3, <2>4
<1> QED
  BY <1>2, <1>3 DEF IsPrefix

(* A path below a key, place by place.                                     *)
LEMMA PathBelow ==
  ASSUME NEW S, NEW k \in S, NEW s \in Seq(S)
  PROVE  /\ <<k>> \o s \in Seq(S) /\ Len(<<k>> \o s) = Len(s) + 1 /\ Len(s) \in Nat
         /\ (<<k>> \o s)[1] = k
         /\ \A i \in 1 .. Len(s) : (<<k>> \o s)[i + 1] = s[i]
<1>1. <<k>> \in Seq(S) /\ Len(<<k>>) = 1 /\ <<k>>[1] = k /\ Len(s) \in Nat
  BY LenProperties
<1>2. /\ <<k>> \o s \in Seq(S) /\ Len(<<k>> \o s) = 1 + Len(s)
      /\ \A i \in 1 .. 1 + Len(s) : (<<k>> \o s)[i] = IF i <= 1 THEN <<k>>[i] ELSE s[i - 1]
  BY <1>1, ConcatProperties
<1>3. (<<k>> \o s)[1] = k
  BY <1>1, <1>2
<1>4. ASSUME NEW i \in 1 .. Len(s) PROVE (<<k>> \o s)[i + 1] = s[i]
  <2>1. i + 1 \in 1 .. 1 + Len(s) /\ ~ i + 1 <= 1 /\ i + 1 - 1 = i
    BY <1>1
  <2> QED
    BY <1>2, <2>1
<1> QED
  BY <1>1, <1>2, <1>3, <1>4

(* Paths below different keys do not clash, and below the same key they do *)
(* if they did.                                                            *)
LEMMA ClashBelow ==
  ASSUME NEW S, NEW k \in S, NEW l \in S, NEW s \in Seq(S), NEW t \in Seq(S)
  PROVE  Clash(<<k>> \o s, <<l>> \o t) <=> k = l /\ Clash(s, t)
<1>1. ASSUME NEW a \in S, NEW b \in S, NEW x \in Seq(S), NEW y \in Seq(S)
      PROVE  IsPrefix(<<a>> \o x, <<b>> \o y) <=> a = b /\ IsPrefix(x, y)
  <2>1. PICK ax \in Seq(S), by \in Seq(S) : ax = <<a>> \o x /\ by = <<b>> \o y
    BY PathBelow
  <2>2. /\ ax \in Seq(S) /\ Len(ax) = Len(x) + 1 /\ ax[1] = a /\ Len(x) \in Nat
        /\ \A i \in 1 .. Len(x) : ax[i + 1] = x[i]
    BY <2>1, PathBelow
  <2>3. /\ by \in Seq(S) /\ Len(by) = Len(y) + 1 /\ by[1] = b /\ Len(y) \in Nat
        /\ \A i \in 1 .. Len(y) : by[i + 1] = y[i]
    BY <2>1, PathBelow
  <2>4. IsPrefix(ax, by) <=> Len(ax) <= Len(by) /\ \A i \in 1 .. Len(ax) : ax[i] = by[i]
    BY PrefixIs
  <2>5. IsPrefix(x, y) <=> Len(x) <= Len(y) /\ \A i \in 1 .. Len(x) : x[i] = y[i]
    BY PrefixIs
  <2>6. ASSUME Len(x) <= Len(y)
        PROVE  (\A i \in 1 .. Len(ax) : ax[i] = by[i])
                 <=> a = b /\ \A i \in 1 .. Len(x) : x[i] = y[i]
    <3>1. ASSUME \A i \in 1 .. Len(ax) : ax[i] = by[i], NEW i \in 1 .. Len(x) PROVE x[i] = y[i]
      <4>1. i \in 1 .. Len(y) /\ i + 1 \in 1 .. Len(ax)
        BY <2>2, <2>3, <2>6
      <4> QED
        BY <2>2, <2>3, <3>1, <4>1
    <3>2. 1 \in 1 .. Len(ax)
      BY <2>2
    <3>3. ASSUME a = b, \A i \in 1 .. Len(x) : x[i] = y[i], NEW j \in 1 .. Len(ax) PROVE ax[j] = by[j]
      <4>1. CASE j = 1
        BY <2>2, <2>3, <3>3, <4>1
      <4>2. CASE j # 1
        <5>1. PICK i \in 1 .. Len(x) : j = i + 1
          <6>1. j - 1 \in 1 .. Len(x) /\ j = (j - 1) + 1
            BY <2>2, <4>2
          <6> QED
            BY <6>1
        <5>2. i \in 1 .. Len(y)
          BY <2>2, <2>3, <2>6
        <5> QED
          BY <2>2, <2>3, <3>3, <5>1, <5>2
      <4> QED
        BY <4>1, <4>2
    <3> QED
      BY <2>2, <2>3, <3>1, <3>2, <3>3
  <2>7. Len(ax) <= Len(by) <=> Len(x) <= Len(y)
    BY <2>2, <2>3
  <2> QED
    BY <2>1, <2>4, <2>5, <2>6, <2>7
<1>2. IsPrefix(<<k>> \o s, <<l>> \o t) <=> k = l /\ IsPrefix(s, t)
  BY <1>1
<1>3. IsPrefix(<<l>> \o t, <<k>> \o s) <=> l = k /\ IsPrefix(t, s)
  BY <1>1
<1> QED
  BY <1>2, <1>3 DEF Clash

(* What is a prefix of a path with a key behind it.                        *)
LEMMA PrefixOfLonger ==
  ASSUME NEW S, NEW p \in Seq(S), NEW g \in Seq(S), NEW k \in S
  PROVE  IsPrefix(p, Append(g, k)) <=> IsPrefix(p, g) \/ p = Append(g, k)
<1>1. PICK gk : gk = Append(g, k)
  OBVIOUS
<1>2. /\ gk \in Seq(S) /\ Len(gk) = Len(g) + 1 /\ gk[Len(g) + 1] = k
      /\ \A i \in 1 .. Len(g) : gk[i] = g[i]
  BY <1>1, AppendProperties
<1>3. Len(p) \in Nat /\ Len(g) \in Nat
  BY LenProperties
<1>4. IsPrefix(p, gk) <=> Len(p) <= Len(gk) /\ \A i \in 1 .. Len(p) : p[i] = gk[i]
  BY <1>2, PrefixIs
<1>5. IsPrefix(p, g) <=> Len(p) <= Len(g) /\ \A i \in 1 .. Len(p) : p[i] = g[i]
  BY PrefixIs
<1>6. CASE Len(p) <= Len(g)
  <2>1. p # gk
    BY <1>2, <1>3, <1>6
  <2>2. \A i \in 1 .. Len(p) : gk[i] = g[i]
    BY <1>2, <1>3, <1>6
  <2>3. Len(p) <= Len(gk)
    BY <1>2, <1>3, <1>6
  <2> QED
    BY <1>1, <1>4, <1>5, <1>6, <2>1, <2>2, <2>3
<1>7. CASE Len(p) = Len(g) + 1
  <2>1. ~ Len(p) <= Len(g) /\ Len(p) <= Len(gk) /\ Len(p) = Len(gk)
    BY <1>2, <1>3, <1>7
  <2>2. p = gk <=> \A i \in 1 .. Len(p) : p[i] = gk[i]
    BY <1>2, <2>1, SeqEqual
  <2> QED
    BY <1>1, <1>4, <1>5, <2>1, <2>2
<1>8. CASE Len(p) > Len(g) + 1
  <2>1. ~ Len(p) <= Len(g) /\ ~ Len(p) <= Len(gk) /\ Len(p) # Len(gk)
    BY <1>2, <1>3, <1>8
  <2> QED
    BY <1>1, <1>4, <1>5, <2>1
<1> QED
  BY <1>3, <1>6, <1>7, <1>8

(* In the same groups only one key clashes with another: itself.           *)
LEMMA ClashInGroups ==
  ASSUME NEW S, NEW g \in Seq(S), NEW k \in S, NEW l \in S
  PROVE  Clash(Append(g, k), Append(g, l)) <=> k = l
<1>1. ASSUME NEW a \in S, NEW b \in S PROVE IsPrefix(Append(g, a), Append(g, b)) <=> a = b
  <2>1. PICK ga, gb : ga = Append(g, a) /\ gb = Append(g, b)
    OBVIOUS
  <2>2. /\ ga \in Seq(S) /\ Len(ga) = Len(g) + 1 /\ ga[Len(g) + 1] = a
        /\ \A i \in 1 .. Len(g) : ga[i] = g[i]
    BY <2>1, AppendProperties
  <2>3. /\ gb \in Seq(S) /\ Len(gb) = Len(g) + 1 /\ gb[Len(g) + 1] = b
        /\ \A i \in 1 .. Len(g) : gb[i] = g[i]
    BY <2>1, AppendProperties
  <2>4. IsPrefix(ga, gb) <=> Len(ga) <= Len(gb) /\ \A i \in 1 .. Len(ga) : ga[i] = gb[i]
    BY <2>2, <2>3, PrefixIs
  <2>5. Len(g) \in Nat
    BY LenProperties
  <2>6. \A i \in 1 .. Len(ga) : i \in 1 .. Len(g) \/ i = Len(g) + 1
    BY <2>2, <2>5
  <2>7. Len(g) + 1 \in 1 .. Len(ga) /\ Len(ga) <= Len(gb)
    BY <2>2, <2>3, <2>5
  <2> QED
    BY <2>1, <2>2, <2>3, <2>4, <2>6, <2>7
<1> QED
  BY <1>1 DEF Clash


-----------------------------------------------------------------------------

(* What attributes write.                                                  *)

(* A leaf seen from outside of the attribute or the group of that key.     *)
Below(key, leaf) == [leaf EXCEPT !.path = <<key>> \o @]

AllBelow(key, leaves) == {Below(key, leaf) : leaf \in leaves}

(* What is logged, attribute by attribute.                                 *)
LEMMA LoggedIsUnion ==
  ASSUME NEW attrs
  PROVE  \A x : x \in Logged(attrs) <=> \E i \in DOMAIN attrs : x \in Written(attrs[i])
BY DEF Logged

(* What an attribute writes is below its key.                              *)
LEMMA WrittenIs ==
  ASSUME NEW attr \in Attribute
  PROVE  /\ Written(attr) = AllBelow(attr.key, attr.leaves)
         /\ attr.key \in STRING
         /\ \A leaf \in attr.leaves : /\ leaf.path \in Seq(STRING)
                                      /\ Below(attr.key, leaf).path = <<attr.key>> \o leaf.path
<1>1. attr.key \in STRING /\ attr.leaves \subseteq [path : Seq(STRING), value : Values]
  BY DEF Attribute
<1> QED
  BY <1>1 DEF Written, AllBelow, Below

(* Attributes one behind the other write what both write.                  *)
LEMMA BothAreLogged ==
  ASSUME NEW S, NEW s \in Seq(S), NEW T, NEW t \in Seq(T)
  PROVE  Logged(s \o t) = Logged(s) \cup Logged(t)
<1>0. s \in Seq(S \cup T) /\ t \in Seq(S \cup T)
  BY SeqMonotonic
<1>1. /\ DOMAIN s = 1 .. Len(s) /\ DOMAIN t = 1 .. Len(t)
      /\ DOMAIN (s \o t) = 1 .. Len(s) + Len(t)
      /\ Len(s) \in Nat /\ Len(t) \in Nat
  BY <1>0, LenProperties, ConcatProperties
<1>2. \A i \in DOMAIN s : i \in DOMAIN (s \o t) /\ (s \o t)[i] = s[i]
  BY <1>0, <1>1, ConcatProperties
<1>3. \A i \in DOMAIN t : Len(s) + i \in DOMAIN (s \o t) /\ (s \o t)[Len(s) + i] = t[i]
  BY <1>0, <1>1, ConcatProperties
<1>4. ASSUME NEW i \in DOMAIN (s \o t)
      PROVE  \/ i \in DOMAIN s /\ (s \o t)[i] = s[i]
             \/ i - Len(s) \in DOMAIN t /\ (s \o t)[i] = t[i - Len(s)]
  BY <1>0, <1>1, ConcatProperties
<1>5. \A x : x \in Logged(s \o t) <=> \E i \in DOMAIN (s \o t) : x \in Written((s \o t)[i])
  BY LoggedIsUnion
<1>6. \A x : x \in Logged(s) <=> \E i \in DOMAIN s : x \in Written(s[i])
  BY LoggedIsUnion
<1>7. \A x : x \in Logged(t) <=> \E i \in DOMAIN t : x \in Written(t[i])
  BY LoggedIsUnion
<1> QED
  BY <1>2, <1>3, <1>4, <1>5, <1>6, <1>7

(* What counts of attributes with others behind them: of the first what    *)
(* does not clash with the others, and of the others what counts of them.  *)
LEMMA LatestOfBoth ==
  ASSUME NEW S, NEW s \in Seq(S), NEW t \in Seq(S)
  PROVE  \A x : x \in Latest(s \o t) <=>
                  \/ x \in Latest(s) /\ \A later \in Logged(t) : ~ Clash(x.path, later.path)
                  \/ x \in Latest(t)
<1> DEFINE Counts(u, i, x) == \A j \in i + 1 .. Len(u) : \A later \in Written(u[j]) :
                                 ~ Clash(x.path, later.path)
<1>0. PICK u \in Seq(S) : u = s \o t
  BY ConcatProperties
<1>1. /\ DOMAIN s = 1 .. Len(s) /\ DOMAIN t = 1 .. Len(t) /\ DOMAIN u = 1 .. Len(s) + Len(t)
      /\ Len(u) = Len(s) + Len(t)
      /\ Len(s) \in Nat /\ Len(t) \in Nat
  BY <1>0, LenProperties, ConcatProperties
<1>2. \A i \in 1 .. Len(s) : i \in DOMAIN u /\ u[i] = s[i]
  BY <1>0, <1>1, ConcatProperties
<1>3. \A i \in 1 .. Len(t) : Len(s) + i \in DOMAIN u /\ u[Len(s) + i] = t[i]
  BY <1>0, <1>1, ConcatProperties
<1>4. \A i \in DOMAIN u : i \in 1 .. Len(s) \/ \E j \in 1 .. Len(t) : i = Len(s) + j
  <2> TAKE i \in DOMAIN u
  <2>1. CASE i <= Len(s)
    BY <1>1, <2>1
  <2>2. CASE ~ i <= Len(s)
    <3>1. i - Len(s) \in 1 .. Len(t) /\ i = Len(s) + (i - Len(s))
      BY <1>1, <2>2
    <3> QED
      BY <3>1
  <2> QED
    BY <2>1, <2>2
<1>5. \A x : x \in Latest(u) <=> \E i \in DOMAIN u : x \in Written(u[i]) /\ Counts(u, i, x)
  BY DEF Latest
<1>6. \A x : x \in Latest(s) <=> \E i \in DOMAIN s : x \in Written(s[i]) /\ Counts(s, i, x)
  BY DEF Latest
<1>7. \A x : x \in Latest(t) <=> \E i \in DOMAIN t : x \in Written(t[i]) /\ Counts(t, i, x)
  BY DEF Latest
<1>8. \A x : x \in Logged(t) <=> \E i \in DOMAIN t : x \in Written(t[i])
  BY LoggedIsUnion
<1>9. ASSUME NEW i \in 1 .. Len(s), NEW x
      PROVE  Counts(u, i, x) <=> Counts(s, i, x) /\ \A later \in Logged(t) : ~ Clash(x.path, later.path)
  <2>1. ASSUME Counts(u, i, x), NEW j \in i + 1 .. Len(s), NEW later \in Written(s[j])
        PROVE  ~ Clash(x.path, later.path)
    <3>1. j \in i + 1 .. Len(u) /\ j \in 1 .. Len(s)
      BY <1>1
    <3> QED
      BY <1>2, <2>1, <3>1
  <2>2. ASSUME Counts(u, i, x), NEW later \in Logged(t)
        PROVE  ~ Clash(x.path, later.path)
    <3>1. PICK j \in 1 .. Len(t) : later \in Written(t[j])
      BY <1>1, <1>8
    <3>2. Len(s) + j \in i + 1 .. Len(u)
      BY <1>1
    <3> QED
      BY <1>3, <2>2, <3>1, <3>2
  <2>3. ASSUME Counts(s, i, x), \A later \in Logged(t) : ~ Clash(x.path, later.path),
               NEW j \in i + 1 .. Len(u), NEW later \in Written(u[j])
        PROVE  ~ Clash(x.path, later.path)
    <3>1. CASE j \in 1 .. Len(s)
      <4>1. j \in i + 1 .. Len(s)
        BY <1>1, <3>1
      <4> QED
        BY <1>2, <2>3, <3>1, <4>1
    <3>2. ASSUME NEW k \in 1 .. Len(t), j = Len(s) + k PROVE ~ Clash(x.path, later.path)
      <4>1. later \in Logged(t)
        BY <1>1, <1>3, <1>8, <3>2
      <4> QED
        BY <2>3, <4>1
    <3>3. j \in DOMAIN u
      BY <1>1
    <3> QED
      BY <1>4, <3>1, <3>2, <3>3
  <2> QED
    BY <2>1, <2>2, <2>3
<1>10. ASSUME NEW i \in 1 .. Len(t), NEW x PROVE Counts(u, Len(s) + i, x) <=> Counts(t, i, x)
  <2>1. ASSUME Counts(u, Len(s) + i, x), NEW j \in i + 1 .. Len(t), NEW later \in Written(t[j])
        PROVE  ~ Clash(x.path, later.path)
    <3>1. Len(s) + j \in Len(s) + i + 1 .. Len(u) /\ j \in 1 .. Len(t)
      BY <1>1
    <3> QED
      BY <1>3, <2>1, <3>1
  <2>2. ASSUME Counts(t, i, x), NEW j \in Len(s) + i + 1 .. Len(u), NEW later \in Written(u[j])
        PROVE  ~ Clash(x.path, later.path)
    <3>1. j - Len(s) \in i + 1 .. Len(t) /\ j - Len(s) \in 1 .. Len(t) /\ j = Len(s) + (j - Len(s))
      BY <1>1
    <3> QED
      BY <1>3, <2>2, <3>1
  <2> QED
    BY <2>1, <2>2
<1> HIDE DEF Counts
<1>11. \A x : x \in Latest(u) <=>
                 \/ \E i \in DOMAIN s : x \in Written(s[i]) /\ Counts(u, i, x)
                 \/ \E i \in DOMAIN t : x \in Written(t[i]) /\ Counts(u, Len(s) + i, x)
  BY <1>1, <1>2, <1>3, <1>4, <1>5
<1>12. \A x : (\E i \in DOMAIN s : x \in Written(s[i]) /\ Counts(u, i, x))
                <=> x \in Latest(s) /\ \A later \in Logged(t) : ~ Clash(x.path, later.path)
  BY <1>1, <1>6, <1>9
<1>13. \A x : (\E i \in DOMAIN t : x \in Written(t[i]) /\ Counts(u, Len(s) + i, x))
                <=> x \in Latest(t)
  BY <1>1, <1>7, <1>10
<1> QED
  BY <1>0, <1>11, <1>12, <1>13

(* De-duplicated attributes write what the last ones of their keys do.     *)
LEMMA UniqIsLogged ==
  ASSUME NEW S, NEW attrs \in Seq(S)
  PROVE  \A x : x \in Logged(UniqAttrs(attrs))
                  <=> \E i \in DOMAIN attrs : LastOfKey(attrs, i) /\ x \in Written(attrs[i])
<1>1. \A a : (\E n \in DOMAIN UniqAttrs(attrs) : UniqAttrs(attrs)[n] = a)
               <=> \E i \in DOMAIN attrs : LastOfKey(attrs, i) /\ attrs[i] = a
  BY UniqIs
<1>2. \A x : x \in Logged(UniqAttrs(attrs))
               <=> \E n \in DOMAIN UniqAttrs(attrs) : x \in Written(UniqAttrs(attrs)[n])
  BY LoggedIsUnion
<1>3. \A x : (\E n \in DOMAIN UniqAttrs(attrs) : x \in Written(UniqAttrs(attrs)[n]))
               <=> \E a : (\E n \in DOMAIN UniqAttrs(attrs) : UniqAttrs(attrs)[n] = a) /\ x \in Written(a)
  OBVIOUS
<1>4. \A x : (\E i \in DOMAIN attrs : LastOfKey(attrs, i) /\ x \in Written(attrs[i]))
               <=> \E a : (\E i \in DOMAIN attrs : LastOfKey(attrs, i) /\ attrs[i] = a) /\ x \in Written(a)
  OBVIOUS
<1> QED
  BY <1>1, <1>2, <1>3, <1>4

(* The last of their keys, where attributes of different keys are followed *)
(* by others.                                                              *)
LEMMA LastOfBoth ==
  ASSUME NEW S, NEW s \in Seq(S), NEW t \in Seq(S), DistinctKeys(s)
  PROVE  \A x : x \in Logged(UniqAttrs(s \o t)) <=>
                  \/ \E i \in DOMAIN s : /\ x \in Written(s[i])
                                         /\ \A j \in DOMAIN t : t[j].key # s[i].key
                  \/ x \in Logged(UniqAttrs(t))
<1>0. PICK u \in Seq(S) : u = s \o t
  BY ConcatProperties
<1>1. /\ DOMAIN s = 1 .. Len(s) /\ DOMAIN t = 1 .. Len(t) /\ DOMAIN u = 1 .. Len(s) + Len(t)
      /\ Len(s) \in Nat /\ Len(t) \in Nat
  BY <1>0, LenProperties, ConcatProperties
<1>2. \A i \in DOMAIN s : i \in DOMAIN u /\ u[i] = s[i]
  BY <1>0, <1>1, ConcatProperties
<1>3. \A i \in DOMAIN t : Len(s) + i \in DOMAIN u /\ u[Len(s) + i] = t[i]
  BY <1>0, <1>1, ConcatProperties
<1>4. \A i \in DOMAIN u : i \in DOMAIN s \/ \E j \in DOMAIN t : i = Len(s) + j
  <2> TAKE i \in DOMAIN u
  <2>1. CASE i <= Len(s)
    BY <1>1, <2>1
  <2>2. CASE ~ i <= Len(s)
    <3>1. i - Len(s) \in DOMAIN t /\ i = Len(s) + (i - Len(s))
      BY <1>1, <2>2
    <3> QED
      BY <3>1
  <2> QED
    BY <2>1, <2>2
<1>5. ASSUME NEW i \in DOMAIN s
      PROVE  LastOfKey(u, i) <=> \A j \in DOMAIN t : t[j].key # s[i].key
  <2>1. ASSUME LastOfKey(u, i), NEW j \in DOMAIN t PROVE t[j].key # s[i].key
    <3>1. ~ Len(s) + j <= i
      BY <1>1
    <3> QED
      BY <1>2, <1>3, <2>1, <3>1 DEF LastOfKey
  <2>2. ASSUME \A j \in DOMAIN t : t[j].key # s[i].key, NEW j \in DOMAIN u, u[j].key = u[i].key
        PROVE  j <= i
    <3>1. CASE j \in DOMAIN s
      <4>1. j = i
        BY <1>2, <2>2, <3>1 DEF DistinctKeys
      <4> QED
        BY <1>1, <4>1
    <3>2. ASSUME NEW k \in DOMAIN t, j = Len(s) + k PROVE FALSE
      BY <1>2, <1>3, <2>2, <3>2
    <3> QED
      BY <1>4, <3>1, <3>2
  <2> QED
    BY <2>1, <2>2 DEF LastOfKey
<1>6. ASSUME NEW i \in DOMAIN t PROVE LastOfKey(u, Len(s) + i) <=> LastOfKey(t, i)
  <2>1. ASSUME LastOfKey(u, Len(s) + i), NEW j \in DOMAIN t, t[j].key = t[i].key PROVE j <= i
    <3>1. Len(s) + j <= Len(s) + i
      BY <1>3, <2>1 DEF LastOfKey
    <3> QED
      BY <1>1, <3>1
  <2>2. ASSUME LastOfKey(t, i), NEW j \in DOMAIN u, u[j].key = u[Len(s) + i].key
        PROVE  j <= Len(s) + i
    <3>1. CASE j \in DOMAIN s
      BY <1>1, <3>1
    <3>2. ASSUME NEW k \in DOMAIN t, j = Len(s) + k PROVE j <= Len(s) + i
      <4>1. k <= i
        BY <1>3, <2>2, <3>2 DEF LastOfKey
      <4> QED
        BY <1>1, <3>2, <4>1
    <3> QED
      BY <1>4, <3>1, <3>2
  <2> QED
    BY <2>1, <2>2 DEF LastOfKey
<1>7. \A x : x \in Logged(UniqAttrs(u)) <=> \E i \in DOMAIN u : LastOfKey(u, i) /\ x \in Written(u[i])
  BY UniqIsLogged
<1>8. \A x : x \in Logged(UniqAttrs(t)) <=> \E i \in DOMAIN t : LastOfKey(t, i) /\ x \in Written(t[i])
  BY UniqIsLogged
<1> QED
  BY <1>0, <1>2, <1>3, <1>4, <1>5, <1>6, <1>7, <1>8


-----------------------------------------------------------------------------

(* Attributes in groups.                                                   *)

(* Attributes nested in groups write, below the outermost group, the       *)
(* leaves they have together.                                              *)
LEMMA NestedIsLogged ==
  ASSUME NEW groups, groups # <<>>, NEW new, NEW added,
         added = UNION {Nest(groups, new[i]).leaves : i \in DOMAIN new}
  PROVE  Logged(NestAll(groups, new)) = AllBelow(Head(groups), added)
<1>1. \A attr : Written(attr) = AllBelow(attr.key, attr.leaves)
  BY DEF Written, AllBelow, Below
<1>2. \A leaf : leaf \in added <=> \E i \in DOMAIN new : leaf \in Nest(groups, new[i]).leaves
  OBVIOUS
<1>3. \A i \in DOMAIN new : Nest(groups, new[i]).key = Head(groups)
  BY DEF Nest
<1>4. /\ DOMAIN NestAll(groups, new) = DOMAIN new
      /\ \A i \in DOMAIN new : NestAll(groups, new)[i] = Nest(groups, new[i])
  BY DEF NestAll
<1>5. \A x : x \in Logged(NestAll(groups, new)) <=>
             \E i \in DOMAIN new : x \in AllBelow(Head(groups), Nest(groups, new[i]).leaves)
  BY <1>1, <1>3, <1>4, LoggedIsUnion
<1>6. \A x : x \in AllBelow(Head(groups), added) <=>
             \E i \in DOMAIN new : x \in AllBelow(Head(groups), Nest(groups, new[i]).leaves)
  BY <1>2 DEF AllBelow
<1> QED
  BY <1>5, <1>6

(* A key is below the outermost of its groups, and of the others.          *)
LEMMA OuterFirst ==
  ASSUME NEW S, NEW groups \in Seq(S), groups # <<>>, NEW k \in S
  PROVE  /\ Head(groups) \in S /\ Tail(groups) \in Seq(S)
         /\ Append(groups, k) = <<Head(groups)>> \o Append(Tail(groups), k)
         /\ Append(Tail(groups), k) \in Seq(S) /\ Append(groups, k) \in Seq(S)
<1>1. PICK outer \in S, inner \in Seq(S) : outer = Head(groups) /\ inner = Tail(groups)
  BY HeadTailProperties
<1>2. /\ Append(inner, k) \in Seq(S) /\ Len(Append(inner, k)) = Len(inner) + 1
      /\ \A i \in 1 .. Len(inner) : Append(inner, k)[i] = inner[i]
      /\ Append(inner, k)[Len(inner) + 1] = k
  BY AppendProperties
<1>3. /\ Append(groups, k) \in Seq(S) /\ Len(Append(groups, k)) = Len(groups) + 1
      /\ \A i \in 1 .. Len(groups) : Append(groups, k)[i] = groups[i]
      /\ Append(groups, k)[Len(groups) + 1] = k
  BY AppendProperties
<1>4. PICK below \in Seq(S) : below = <<outer>> \o Append(inner, k)
  BY <1>2, PathBelow
<1>5. /\ Len(below) = Len(inner) + 2 /\ below[1] = outer /\ Len(inner) \in Nat
      /\ \A i \in 1 .. Len(inner) + 1 : below[i + 1] = Append(inner, k)[i]
  BY <1>2, <1>4, PathBelow, LenProperties
<1>6. /\ Len(groups) = Len(inner) + 1 /\ groups[1] = outer
      /\ \A i \in 1 .. Len(inner) : inner[i] = groups[i + 1]
  BY <1>1, HeadTailProperties
<1>7. ASSUME NEW j \in 1 .. Len(inner) + 2 PROVE Append(groups, k)[j] = below[j]
  <2>1. CASE j = 1
    BY <1>3, <1>5, <1>6, <2>1
  <2>2. ASSUME NEW i \in 1 .. Len(inner), j = i + 1 PROVE Append(groups, k)[j] = below[j]
    <3>1. j \in 1 .. Len(groups) /\ i \in 1 .. Len(inner) + 1
      BY <1>5, <1>6, <2>2
    <3> QED
      BY <1>2, <1>3, <1>5, <1>6, <2>2, <3>1
  <2>3. CASE j = Len(inner) + 2
    <3>1. j = Len(groups) + 1 /\ j = Len(inner) + 1 + 1 /\ Len(inner) + 1 \in 1 .. Len(inner) + 1
      BY <1>5, <1>6, <2>3
    <3> QED
      BY <1>2, <1>3, <1>5, <3>1
  <2>4. j = 1 \/ j = Len(inner) + 2 \/ (j - 1 \in 1 .. Len(inner) /\ j = j - 1 + 1)
    BY <1>5
  <2> QED
    BY <2>1, <2>2, <2>3, <2>4
<1>8. Append(groups, k) = below
  <2>1. Len(Append(groups, k)) = Len(below) /\ Len(below) = Len(inner) + 2
    BY <1>3, <1>5, <1>6
  <2> QED
    BY <1>3, <1>7, <2>1, SeqEqual
<1> QED
  BY <1>1, <1>2, <1>3, <1>4, <1>8

(* Attributes in groups are attributes, and groups.                        *)
LEMMA NestedIsAttribute ==
  ASSUME NEW groups \in Seq(STRING), NEW attr \in Attribute
  PROVE  /\ Nest(groups, attr) \in Attribute
         /\ groups # <<>> => IsGroup(Nest(groups, attr))
<1>1. CASE groups = <<>>
  BY <1>1 DEF Nest
<1>2. CASE groups # <<>>
  <2>1. PICK outer \in STRING, inner \in Seq(STRING) : outer = Head(groups) /\ inner = Tail(groups)
    BY <1>2, HeadTailProperties
  <2>2. attr.key \in STRING /\ <<attr.key>> \in Seq(STRING)
    BY DEF Attribute
  <2>3. PICK front \in Seq(STRING) : front = inner \o <<attr.key>>
    BY <2>1, <2>2, ConcatProperties
  <2>9. front # <<>>
    BY <2>2, <2>3, ConcatEqualIffEmpty
  <2>4. ASSUME NEW leaf \in attr.leaves
        PROVE  /\ [leaf EXCEPT !.path = front \o @] \in [path : Seq(STRING), value : Values]
               /\ [leaf EXCEPT !.path = front \o @].path # <<>>
    <3>1. leaf \in [path : Seq(STRING), value : Values]
      BY DEF Attribute
    <3>2. front \o leaf.path \in Seq(STRING) /\ front \o leaf.path # <<>>
      BY <2>9, <3>1, ConcatProperties, ConcatEqualIffEmpty
    <3> QED
      BY <3>1, <3>2
  <2>5. Nest(groups, attr) = [key |-> outer,
                              leaves |-> {[leaf EXCEPT !.path = front \o @] : leaf \in attr.leaves}]
    BY <1>2, <2>1, <2>3 DEF Nest
  <2>6. PICK below : below = {[leaf EXCEPT !.path = front \o @] : leaf \in attr.leaves}
    OBVIOUS
  <2>7. /\ below \subseteq [path : Seq(STRING), value : Values]
        /\ \A leaf \in below : leaf.path # <<>>
    BY <2>4, <2>6
  <2>8. Nest(groups, attr) = [key |-> outer, leaves |-> below]
    BY <2>5, <2>6
  <2>10. IsGroup(Nest(groups, attr))
    BY <2>7, <2>8 DEF IsGroup
  <2> QED
    BY <2>1, <2>7, <2>8, <2>10 DEF Attribute
<1> QED
  BY <1>1, <1>2

(* Attributes inside of groups are attributes.                             *)
LEMMA NestedAreAttributes ==
  ASSUME NEW groups \in Seq(STRING), NEW attrs \in Seq(Attribute)
  PROVE  NestAll(groups, attrs) \in Seq(Attribute)
<1>1. DOMAIN attrs = 1 .. Len(attrs) /\ Len(attrs) \in Nat
  BY LenProperties
<1>2. \A i \in 1 .. Len(attrs) : Nest(groups, attrs[i]) \in Attribute
  BY ElementOfSeq, NestedIsAttribute
<1>3. NestAll(groups, attrs) \in [1 .. Len(attrs) -> Attribute]
  BY <1>1, <1>2 DEF NestAll
<1>4. \A n \in Nat : \A f \in [1 .. n -> Attribute] : f \in Seq(Attribute)
  OBVIOUS
<1> QED
  BY <1>1, <1>3, <1>4

(* What WithAttrs is called with.                                          *)
LEMMA AdditionIs ==
  ASSUME NEW new \in Addition
  PROVE  /\ new \in Seq(Attribute) /\ DOMAIN new # {}
         /\ \A i \in DOMAIN new : new[i] \in Attribute /\ Plain(new[i])
<1>1. PICK plain : plain = {attr \in Attribute : Plain(attr)}
  OBVIOUS
<1>2. new \in Seq(plain) /\ new # <<>>
  BY <1>1 DEF Addition
<1>3. new \in Seq(Attribute)
  BY <1>1, <1>2, SeqMonotonic
<1>4. DOMAIN new = 1 .. Len(new) /\ Len(new) \in Nat \ {0}
  BY <1>2, LenProperties, EmptySeq
<1>5. \A i \in DOMAIN new : new[i] \in plain
  BY <1>2, <1>4, ElementOfSeq
<1> QED
  BY <1>1, <1>3, <1>4, <1>5

(* A plain attribute in groups writes one value, at the groups and its key.*)
LEMMA PlainNested ==
  ASSUME NEW groups \in Seq(STRING), NEW attr \in Attribute, Plain(attr)
  PROVE  \E value : Written(Nest(groups, attr)) = {[path |-> Append(groups, attr.key), value |-> value]}
<1>1. PICK value \in Values : attr.leaves = {[path |-> <<>>, value |-> value]}
  BY DEF Plain
<1>2. attr.key \in STRING /\ <<attr.key>> \in Seq(STRING) /\ <<>> \in Seq(STRING)
  BY DEF Attribute
<1>3. CASE groups = <<>>
  <2>1. <<attr.key>> \o <<>> = <<attr.key>> /\ Append(<<>>, attr.key) = <<attr.key>>
    BY <1>2, ConcatEmptySeq
  <2>2. Written(attr) = {[path |-> <<attr.key>> \o <<>>, value |-> value]}
    <3>1. PICK leaf : leaf = [path |-> <<>>, value |-> value] /\ attr.leaves = {leaf}
      BY <1>1
    <3>2. Written(attr) = {[leaf EXCEPT !.path = <<attr.key>> \o @]}
      BY <3>1 DEF Written
    <3>3. [leaf EXCEPT !.path = <<attr.key>> \o @] = [path |-> <<attr.key>> \o <<>>, value |-> value]
      <4>1. PICK longer : longer = <<attr.key>> \o <<>>
        OBVIOUS
      <4>2. [leaf EXCEPT !.path = <<attr.key>> \o @] = [leaf EXCEPT !.path = longer]
        BY <3>1, <4>1
      <4>3. [leaf EXCEPT !.path = longer] = [path |-> longer, value |-> value]
        BY <3>1
      <4> QED
        BY <4>1, <4>2, <4>3
    <3> QED
      BY <3>2, <3>3
  <2> QED
    BY <1>3, <2>1, <2>2 DEF Nest
<1>4. CASE groups # <<>>
  <2>1. PICK outer \in STRING, inner \in Seq(STRING) : outer = Head(groups) /\ inner = Tail(groups)
    BY <1>4, HeadTailProperties
  <2>2. PICK front \in Seq(STRING) : front = inner \o <<attr.key>> /\ front = Append(inner, attr.key)
    BY <1>2, ConcatProperties, AppendIsConcat
  <2>3. front \o <<>> = front
    BY ConcatEmptySeq
  <2>4. PICK nested : nested = Nest(groups, attr)
    OBVIOUS
  <2>5. nested = [key |-> outer, leaves |-> {[path |-> front \o <<>>, value |-> value]}]
    <3>1. PICK leaf : leaf = [path |-> <<>>, value |-> value] /\ attr.leaves = {leaf}
      BY <1>1
    <3>2. nested = [key |-> outer, leaves |-> {[leaf EXCEPT !.path = front \o @]}]
      <4>1. PICK below : below = {[x EXCEPT !.path = front \o @] : x \in attr.leaves}
        OBVIOUS
      <4>2. nested = [key |-> outer, leaves |-> below]
        BY <1>4, <2>1, <2>2, <2>4, <4>1 DEF Nest
      <4>3. below = {[leaf EXCEPT !.path = front \o @]}
        <5>1. \A y : y \in below <=> \E x \in attr.leaves : y = [x EXCEPT !.path = front \o @]
          BY <4>1
        <5>2. \A y : y \in below <=> y = [leaf EXCEPT !.path = front \o @]
          BY <3>1, <5>1, Zenon
        <5> QED
          BY <5>2
      <4> QED
        BY <4>2, <4>3
    <3>3. [leaf EXCEPT !.path = front \o @] = [path |-> front \o <<>>, value |-> value]
      <4>1. PICK longer : longer = front \o <<>>
        OBVIOUS
      <4>2. [leaf EXCEPT !.path = front \o @] = [leaf EXCEPT !.path = longer]
        BY <3>1, <4>1
      <4>3. [leaf EXCEPT !.path = longer] = [path |-> longer, value |-> value]
        BY <3>1
      <4> QED
        BY <4>1, <4>2, <4>3
    <3> QED
      BY <3>2, <3>3
  <2>6. Written(nested) = {[path |-> <<outer>> \o front, value |-> value]}
    <3>1. PICK leaf : leaf = [path |-> front, value |-> value] /\ nested = [key |-> outer, leaves |-> {leaf}]
      BY <2>3, <2>5
    <3>2. Written(nested) = {[leaf EXCEPT !.path = <<outer>> \o @]}
      BY <3>1 DEF Written
    <3>3. [leaf EXCEPT !.path = <<outer>> \o @] = [path |-> <<outer>> \o front, value |-> value]
      <4>1. PICK longer : longer = <<outer>> \o front
        OBVIOUS
      <4>2. [leaf EXCEPT !.path = <<outer>> \o @] = [leaf EXCEPT !.path = longer]
        BY <3>1, <4>1
      <4>3. [leaf EXCEPT !.path = longer] = [path |-> longer, value |-> value]
        BY <3>1
      <4> QED
        BY <4>1, <4>2, <4>3
    <3> QED
      BY <3>2, <3>3
  <2>7. <<outer>> \o front = Append(groups, attr.key)
    BY <1>2, <1>4, <2>1, <2>2, OuterFirst
  <2> QED
    BY <2>4, <2>6, <2>7
<1> QED
  BY <1>3, <1>4

(* What an addition in groups writes clashes with what clashes with one of *)
(* its keys in these groups, and of it the last value of each key counts.  *)
LEMMA AdditionWrites ==
  ASSUME NEW groups \in Seq(STRING), NEW new \in Addition
  PROVE  /\ \A path : (\E later \in Logged(NestAll(groups, new)) : Clash(path, later.path))
                        <=> \E i \in DOMAIN new : Clash(path, Append(groups, new[i].key))
         /\ Latest(NestAll(groups, new)) = Logged(NestAll(groups, UniqAttrs(new)))
<1>1. /\ new \in Seq(Attribute)
      /\ \A i \in DOMAIN new : new[i] \in Attribute /\ Plain(new[i]) /\ new[i].key \in STRING
  BY AdditionIs DEF Attribute
<1>2. PICK n \in Nat : DOMAIN new = 1 .. n
  BY <1>1, LenProperties
<1>3. PICK leaf : leaf = [i \in DOMAIN new |-> CHOOSE x : Written(Nest(groups, new[i])) = {x}]
  OBVIOUS
<1>4. \A i \in DOMAIN new : /\ Written(Nest(groups, new[i])) = {leaf[i]}
                            /\ leaf[i].path = Append(groups, new[i].key)
  <2> TAKE i \in DOMAIN new
  <2>1. PICK value : Written(Nest(groups, new[i])) = {[path |-> Append(groups, new[i].key), value |-> value]}
    BY <1>1, PlainNested
  <2>2. Written(Nest(groups, new[i])) = {leaf[i]}
    BY <1>3, <2>1
  <2>3. leaf[i] = [path |-> Append(groups, new[i].key), value |-> value]
    BY <2>1, <2>2
  <2> QED
    BY <2>2, <2>3
<1>5. PICK nested \in Seq(Attribute) : nested = NestAll(groups, new)
  BY <1>1, NestedAreAttributes
<1>6. /\ DOMAIN nested = DOMAIN new /\ Len(nested) = n
      /\ \A i \in DOMAIN new : nested[i] = Nest(groups, new[i])
  <2>1. DOMAIN nested = DOMAIN new /\ \A i \in DOMAIN new : nested[i] = Nest(groups, new[i])
    BY <1>5 DEF NestAll
  <2>2. Len(nested) = n
    BY <1>2, <2>1, LenProperties
  <2> QED
    BY <2>1, <2>2
<1>7. \A x : x \in Logged(nested) <=> \E i \in DOMAIN new : x = leaf[i]
  BY <1>4, <1>6, LoggedIsUnion
<1>8. \A path : (\E later \in Logged(nested) : Clash(path, later.path))
                  <=> \E i \in DOMAIN new : Clash(path, Append(groups, new[i].key))
  <2>1. \A path : (\E later \in Logged(nested) : Clash(path, later.path))
                     <=> \E i \in DOMAIN new : Clash(path, leaf[i].path)
    BY <1>7
  <2>2. \A i \in DOMAIN new : leaf[i].path = Append(groups, new[i].key)
    BY <1>4
  <2> QED
    BY <2>1, <2>2
<1>9. ASSUME NEW i \in DOMAIN new
      PROVE  LastOfKey(new, i) <=>
                \A j \in i + 1 .. n : ~ Clash(Append(groups, new[i].key), Append(groups, new[j].key))
  <2>1. \A j \in DOMAIN new : Clash(Append(groups, new[i].key), Append(groups, new[j].key))
                                <=> new[i].key = new[j].key
    BY <1>1, ClashInGroups
  <2>2. \A j : j \in i + 1 .. n <=> j \in DOMAIN new /\ ~ j <= i
    BY <1>2
  <2> QED
    BY <2>1, <2>2 DEF LastOfKey
<1>10. \A x : x \in Latest(nested) <=>
                \E i \in DOMAIN new : /\ LastOfKey(new, i)
                                      /\ x = leaf[i]
  <2>1. \A x : x \in Latest(nested) <=>
                \E i \in DOMAIN new : /\ x \in Written(nested[i])
                                      /\ \A j \in i + 1 .. n : \A later \in Written(nested[j]) :
                                            ~ Clash(x.path, later.path)
    BY <1>6 DEF Latest
  <2>2. \A i \in DOMAIN new : \A j \in i + 1 .. n : j \in DOMAIN new
    BY <1>2
  <2>3. \A i \in DOMAIN new : \A x : x \in Written(nested[i]) <=> x = leaf[i]
    BY <1>4, <1>6
  <2>4. ASSUME NEW i \in DOMAIN new
        PROVE  (\A j \in i + 1 .. n : \A later \in Written(nested[j]) :
                    ~ Clash(leaf[i].path, later.path)) <=> LastOfKey(new, i)
    <3>1. (\A j \in i + 1 .. n : \A later \in Written(nested[j]) : ~ Clash(leaf[i].path, later.path))
            <=> \A j \in i + 1 .. n : ~ Clash(leaf[i].path, leaf[j].path)
      BY <2>2, <2>3
    <3>2. \A j \in i + 1 .. n : leaf[j].path = Append(groups, new[j].key)
      BY <1>4, <2>2
    <3> QED
      BY <1>4, <1>9, <3>1, <3>2
  <2> QED
    BY <2>1, <2>3, <2>4
<1>11. \A x : x \in Logged(NestAll(groups, UniqAttrs(new))) <=>
                \E i \in DOMAIN new : /\ LastOfKey(new, i)
                                      /\ x = leaf[i]
  <2>1. PICK uniq : uniq = UniqAttrs(new)
    OBVIOUS
  <2>2. \A a : (\E m \in DOMAIN uniq : uniq[m] = a)
                 <=> \E i \in DOMAIN new : LastOfKey(new, i) /\ new[i] = a
    <3>1. \A a : (\E m \in DOMAIN UniqAttrs(new) : UniqAttrs(new)[m] = a)
                   <=> \E i \in DOMAIN new : LastOfKey(new, i) /\ new[i] = a
      BY <1>1, UniqIs
    <3> QED
      BY <2>1, <3>1
  <2>3. \A x : x \in Logged(NestAll(groups, uniq))
                 <=> \E m \in DOMAIN uniq : x \in Written(Nest(groups, uniq[m]))
    <3>1. /\ DOMAIN NestAll(groups, uniq) = DOMAIN uniq
          /\ \A m \in DOMAIN uniq : NestAll(groups, uniq)[m] = Nest(groups, uniq[m])
      BY DEF NestAll
    <3> QED
      BY <3>1, LoggedIsUnion
  <2>4. \A x : (\E m \in DOMAIN uniq : x \in Written(Nest(groups, uniq[m])))
                 <=> \E i \in DOMAIN new : LastOfKey(new, i) /\ x \in Written(Nest(groups, new[i]))
    BY <2>2
  <2>5. \A i \in DOMAIN new : \A x : x \in Written(Nest(groups, new[i])) <=> x = leaf[i]
    BY <1>4
  <2> QED
    BY <2>1, <2>3, <2>4, <2>5
<1>12. Latest(nested) = Logged(NestAll(groups, UniqAttrs(new)))
  BY <1>10, <1>11
<1> QED
  BY <1>5, <1>8, <1>12


-----------------------------------------------------------------------------

(* What a route keeps for its predicates.  A derivation puts the new       *)
(* attributes into the open groups, or into the group of that name that is *)
(* there, and takes out what they replace.                                 *)

(* New attributes in groups are one group.                                 *)
LEMMA AddedIs ==
  ASSUME NEW groups \in Seq(STRING), groups # <<>>, NEW new \in Seq(Attribute), NEW added,
         added = UNION {Nest(groups, new[i]).leaves : i \in DOMAIN new}
  PROVE  /\ Head(groups) \in STRING
         /\ added \subseteq [path : Seq(STRING), value : Values]
         /\ \A leaf \in added : leaf.path # <<>>
<1>1. \A i \in DOMAIN new : new[i] \in Attribute
  BY LenProperties, ElementOfSeq
<1>2. \A i \in DOMAIN new : Nest(groups, new[i]) \in Attribute /\ IsGroup(Nest(groups, new[i]))
  BY <1>1, NestedIsAttribute
<1>3. \A i \in DOMAIN new : /\ Nest(groups, new[i]).leaves \subseteq [path : Seq(STRING), value : Values]
                            /\ \A leaf \in Nest(groups, new[i]).leaves : leaf.path # <<>>
  BY <1>2 DEF Attribute, IsGroup
<1> QED
  BY <1>3, HeadTailProperties

(* A group becomes another attribute, or joins the one of its name that    *)
(* is there.                                                               *)
Added(attrs, group, R) ==
  /\ \A i \in DOMAIN attrs : attrs[i].key = group.key => ~ IsGroup(attrs[i])
  /\ R = UniqAttrs(attrs \o <<group>>)

JoinedAt(m, attrs, group, inner, new, R) ==
  /\ m \in DOMAIN attrs /\ attrs[m].key = group.key
  /\ R \in Seq(Attribute) /\ DOMAIN R = DOMAIN attrs
  /\ R[m].key = group.key
  /\ \A leaf : leaf \in R[m].leaves <=>
        \/ leaf \in group.leaves
        \/ leaf \in attrs[m].leaves /\ ~ Replaced(leaf.path, inner, new)
  /\ \A i \in DOMAIN attrs : i # m => R[i] = attrs[i]

(* What AppendAttrsToGroup does while groups are open.                     *)
LEMMA MergedIs ==
  ASSUME NEW groups \in Seq(STRING), groups # <<>>, NEW attrs \in Seq(Attribute),
         NEW new \in Seq(Attribute), NEW R, R = AppendAttrsToGroup(groups, attrs, new)
  PROVE  \E group \in Attribute :
            /\ group.key = Head(groups)
            /\ Written(group) = Logged(NestAll(groups, UniqAttrs(new)))
            /\ Added(attrs, group, R) \/ \E m : JoinedAt(m, attrs, group, Tail(groups), new, R)
<1>1. PICK joined, added :
         /\ joined = {i \in DOMAIN attrs : attrs[i].key = Head(groups) /\ IsGroup(attrs[i])}
         /\ added = UNION {Nest(groups, UniqAttrs(new)[i]).leaves : i \in DOMAIN UniqAttrs(new)}
  OBVIOUS
<1>2. UniqAttrs(new) \in Seq(Attribute)
  BY UniqIs
<1>3. /\ Head(groups) \in STRING
      /\ added \subseteq [path : Seq(STRING), value : Values]
      /\ \A leaf \in added : leaf.path # <<>>
  BY <1>1, <1>2, AddedIs
<1>4. PICK group \in Attribute : group = [key |-> Head(groups), leaves |-> added]
  BY <1>3 DEF Attribute, IsGroup
<1>7. Written(group) = Logged(NestAll(groups, UniqAttrs(new)))
  <2>1. Logged(NestAll(groups, UniqAttrs(new))) = AllBelow(Head(groups), added)
    BY <1>1, NestedIsLogged, Zenon
  <2>2. Written(group) = AllBelow(group.key, group.leaves)
    BY WrittenIs
  <2> QED
    BY <1>4, <2>1, <2>2
<1>5. CASE joined = {}
  <2>1. R = UniqAttrs(Append(attrs, group))
    BY <1>1, <1>4, <1>5 DEF AppendAttrsToGroup
  <2>2. Append(attrs, group) = attrs \o <<group>>
    BY AppendIsConcat
  <2>3. Added(attrs, group, R)
    BY <1>1, <1>4, <1>5, <2>1, <2>2 DEF Added
  <2> QED
    BY <1>4, <1>7, <2>3
<1>6. CASE joined # {}
  <2>1. joined \in SUBSET Nat /\ DOMAIN attrs = 1 .. Len(attrs) /\ Len(attrs) \in Nat
    BY <1>1, LenProperties
  <2>2. PICK m \in joined : m = Min(joined)
    BY <1>6, <2>1, LeastIsIn
  <2>3. m \in DOMAIN attrs /\ attrs[m].key = Head(groups) /\ IsGroup(attrs[m]) /\ attrs[m] \in Attribute
    BY <1>1, <2>1, <2>2, ElementOfSeq
  <2>4. PICK leaves :
          leaves = {leaf \in attrs[m].leaves : ~ Replaced(leaf.path, Tail(groups), new)} \cup added
    OBVIOUS
  <2>5. R = [attrs EXCEPT ![m].leaves = leaves]
    BY <1>1, <1>6, <2>2, <2>4 DEF AppendAttrsToGroup
  <2>6. [attrs[m] EXCEPT !.leaves = leaves] = [key |-> Head(groups), leaves |-> leaves]
    BY <2>3 DEF Attribute
  <2>7. [key |-> Head(groups), leaves |-> leaves] \in Attribute
    <3>1. leaves \subseteq [path : Seq(STRING), value : Values]
      BY <1>3, <2>3, <2>4 DEF Attribute
    <3>2. \A leaf \in leaves : leaf.path # <<>>
      BY <1>3, <2>3, <2>4 DEF IsGroup
    <3> QED
      BY <1>3, <3>1, <3>2 DEF Attribute, IsGroup
  <2>8. /\ DOMAIN R = DOMAIN attrs
        /\ \A i \in DOMAIN attrs : i # m => R[i] = attrs[i]
        /\ R[m] = [key |-> Head(groups), leaves |-> leaves]
    BY <2>3, <2>5, <2>6
  <2>9. R \in Seq(Attribute)
    <3>1. \A i \in 1 .. Len(attrs) : R[i] \in Attribute
      BY <2>1, <2>7, <2>8, ElementOfSeq
    <3>2. R \in [1 .. Len(attrs) -> Attribute]
      BY <2>1, <2>5, <2>8, <3>1
    <3>3. \A n \in Nat : \A f \in [1 .. n -> Attribute] : f \in Seq(Attribute)
      OBVIOUS
    <3> QED
      BY <2>1, <3>2, <3>3
  <2>10. \A leaf : leaf \in R[m].leaves <=>
                      \/ leaf \in added
                      \/ leaf \in attrs[m].leaves /\ ~ Replaced(leaf.path, Tail(groups), new)
    BY <2>4, <2>8
  <2>11. R[m].key = Head(groups)
    BY <2>8
  <2>12. JoinedAt(m, attrs, group, Tail(groups), new, R)
    BY <1>4, <2>3, <2>8, <2>9, <2>10, <2>11 DEF JoinedAt
  <2> QED
    BY <1>4, <1>7, <2>12
<1> QED
  BY <1>5, <1>6


(* AppendAttrsToGroup returns attributes.                                  *)
LEMMA MergedAreAttributes ==
  ASSUME NEW groups \in Seq(STRING), NEW attrs \in Seq(Attribute), NEW new \in Seq(Attribute)
  PROVE  AppendAttrsToGroup(groups, attrs, new) \in Seq(Attribute)
<1>1. CASE groups = <<>>
  <2>1. AppendAttrsToGroup(groups, attrs, new) = UniqAttrs(attrs \o new)
    BY <1>1 DEF AppendAttrsToGroup
  <2>2. attrs \o new \in Seq(Attribute)
    BY ConcatProperties
  <2> QED
    BY <2>1, <2>2, UniqIs
<1>2. CASE groups # <<>>
  <2>1. PICK R : R = AppendAttrsToGroup(groups, attrs, new)
    OBVIOUS
  <2>2. R \in Seq(Attribute) \/ \E group \in Attribute : R = UniqAttrs(attrs \o <<group>>)
    BY <1>2, <2>1, MergedIs DEF Added, JoinedAt
  <2>3. \A group \in Attribute : UniqAttrs(attrs \o <<group>>) \in Seq(Attribute)
    <3> TAKE group \in Attribute
    <3>1. attrs \o <<group>> \in Seq(Attribute)
      BY ConcatProperties
    <3> QED
      BY <3>1, UniqIs
  <2> QED
    BY <2>1, <2>2, <2>3
<1> QED
  BY <1>1, <1>2

(* The path of no key is a prefix of every path.                           *)
LEMMA NoPath ==
  ASSUME NEW S, NEW path \in Seq(S)
  PROVE  <<>> \in Seq(S) /\ IsPrefix(<<>>, path)
<1>1. PICK empty \in Seq(S) : empty = <<>> /\ Len(empty) = 0
  BY EmptySeq
<1>2. IsPrefix(empty, path) <=> Len(empty) <= Len(path) /\ \A i \in 1 .. Len(empty) : empty[i] = path[i]
  BY PrefixIs
<1>3. Len(path) \in Nat
  BY LenProperties
<1> QED
  BY <1>1, <1>2, <1>3

(* What additions replace in a group is what clashes with them.            *)
LEMMA ReplacedIs ==
  ASSUME NEW path \in Seq(STRING), NEW groups \in Seq(STRING), NEW new \in Addition
  PROVE  /\ Replaced(path, groups, new)
              <=> \E i \in DOMAIN new : Clash(path, Append(groups, new[i].key))
         /\ path = <<>> => Replaced(path, groups, new)
<1>1. /\ DOMAIN new # {}
      /\ \A i \in DOMAIN new : new[i].key \in STRING /\ Append(groups, new[i].key) \in Seq(STRING)
  BY AdditionIs, AppendProperties DEF Attribute
<1>2. \A i \in DOMAIN new : IsPrefix(path, Append(groups, new[i].key))
                              <=> IsPrefix(path, groups) \/ path = Append(groups, new[i].key)
  BY <1>1, PrefixOfLonger
<1>3. \A i \in DOMAIN new : path = Append(groups, new[i].key) => IsPrefix(Append(groups, new[i].key), path)
  <2>1. IsPrefix(path, path)
    BY PrefixIs, LenProperties
  <2> QED
    BY <2>1
<1>4. path = <<>> => IsPrefix(path, groups)
  BY NoPath
<1> QED
  BY <1>1, <1>2, <1>3, <1>4 DEF Replaced, Clash

(* Which of the values that an attribute writes clash with additions.      *)
LEMMA ClashesAre ==
  ASSUME NEW groups \in Seq(STRING), NEW new \in Addition, NEW attr \in Attribute,
         NEW leaf \in attr.leaves
  PROVE  (\E i \in DOMAIN new : Clash(Below(attr.key, leaf).path, Append(groups, new[i].key)))
           <=> IF groups = <<>> THEN \E i \in DOMAIN new : new[i].key = attr.key
               ELSE attr.key = Head(groups) /\ Replaced(leaf.path, Tail(groups), new)
<1>1. PICK key \in STRING, path \in Seq(STRING) :
         key = attr.key /\ path = leaf.path /\ Below(attr.key, leaf).path = <<key>> \o path
  BY WrittenIs
<1>2. \A i \in DOMAIN new : new[i].key \in STRING
  BY AdditionIs DEF Attribute
<1>3. CASE groups = <<>>
  <2>1. <<>> \in Seq(STRING) /\ Clash(path, <<>>)
    BY NoPath DEF Clash
  <2>2. \A k \in STRING : Append(groups, k) = <<k>> \o <<>>
    <3> TAKE k \in STRING
    <3>1. <<k>> \in Seq(STRING) /\ Append(<<>>, k) = <<k>>
      OBVIOUS
    <3> QED
      BY <1>3, <3>1, ConcatEmptySeq
  <2>3. \A k \in STRING : Clash(<<key>> \o path, Append(groups, k)) <=> key = k
    <3> TAKE k \in STRING
    <3>1. Clash(<<key>> \o path, <<k>> \o <<>>) <=> key = k /\ Clash(path, <<>>)
      BY <2>1, ClashBelow
    <3> QED
      BY <2>1, <2>2, <3>1
  <2> QED
    BY <1>1, <1>2, <1>3, <2>3
<1>4. CASE groups # <<>>
  <2>1. PICK outer \in STRING, inner \in Seq(STRING) : outer = Head(groups) /\ inner = Tail(groups)
    BY <1>4, HeadTailProperties
  <2>2. \A k \in STRING : Append(inner, k) \in Seq(STRING) /\ Append(groups, k) = <<outer>> \o Append(inner, k)
    BY <1>4, <2>1, OuterFirst
  <2>3. \A k \in STRING : Clash(<<key>> \o path, Append(groups, k)) <=> key = outer /\ Clash(path, Append(inner, k))
    <3> TAKE k \in STRING
    <3>1. PICK below \in Seq(STRING) : below = Append(inner, k) /\ Append(groups, k) = <<outer>> \o below
      BY <2>2
    <3>2. Clash(<<key>> \o path, <<outer>> \o below) <=> key = outer /\ Clash(path, below)
      BY ClashBelow
    <3> QED
      BY <3>1, <3>2
  <2>4. Replaced(path, inner, new) <=> \E i \in DOMAIN new : Clash(path, Append(inner, new[i].key))
    BY ReplacedIs
  <2> QED
    BY <1>1, <1>2, <1>4, <2>1, <2>3, <2>4
<1> QED
  BY <1>3, <1>4

(* Attributes joined by additions: the keys stay distinct, what clashes is *)
(* replaced, and of the additions what counts is there.                    *)
LEMMA MergedAttrs ==
  ASSUME NEW groups \in Seq(STRING), NEW attrs \in Seq(Attribute), DistinctKeys(attrs),
         NEW new \in Addition
  PROVE  /\ DistinctKeys(AppendAttrsToGroup(groups, attrs, new))
         /\ \A x : x \in Logged(AppendAttrsToGroup(groups, attrs, new)) <=>
               \/ /\ x \in Logged(attrs)
                  /\ \A later \in Logged(NestAll(groups, new)) : ~ Clash(x.path, later.path)
               \/ x \in Latest(NestAll(groups, new))
<1>1. /\ new \in Seq(Attribute) /\ UniqAttrs(new) \in Seq(Attribute)
      /\ \A i \in DOMAIN attrs : attrs[i] \in Attribute
  BY AdditionIs, UniqIs, LenProperties, ElementOfSeq
<1>2. PICK R : R = AppendAttrsToGroup(groups, attrs, new)
  OBVIOUS
<1>3. PICK latest : latest = Latest(NestAll(groups, new)) /\ latest = Logged(NestAll(groups, UniqAttrs(new)))
  BY AdditionWrites
<1>4. PICK Hit : Hit = {x \in Logged(attrs) :
                          \E later \in Logged(NestAll(groups, new)) : Clash(x.path, later.path)}
  OBVIOUS
<1>5. \A x \in Logged(attrs) :
         x \in Hit <=> \E j \in DOMAIN new : Clash(x.path, Append(groups, new[j].key))
  BY <1>4, AdditionWrites
<1>6. \A x : x \in Logged(attrs) <=> \E i \in DOMAIN attrs : x \in Written(attrs[i])
  BY LoggedIsUnion
<1>7. \A i \in DOMAIN attrs : \A x : x \in Written(attrs[i])
                                        <=> \E leaf \in attrs[i].leaves : x = Below(attrs[i].key, leaf)
  BY <1>1, WrittenIs DEF AllBelow
<1>8. ASSUME NEW i \in DOMAIN attrs, NEW leaf \in attrs[i].leaves
      PROVE  Below(attrs[i].key, leaf) \in Hit
               <=> IF groups = <<>> THEN \E j \in DOMAIN new : new[j].key = attrs[i].key
                   ELSE attrs[i].key = Head(groups) /\ Replaced(leaf.path, Tail(groups), new)
  <2>1. Below(attrs[i].key, leaf) \in Logged(attrs)
    BY <1>6, <1>7
  <2> QED
    BY <1>1, <1>5, <2>1, ClashesAre
<1> SUFFICES DistinctKeys(R) /\ \A x : x \in Logged(R) <=> (x \in Logged(attrs) /\ x \notin Hit) \/ x \in latest
  BY <1>2, <1>3, <1>4
<1>9. CASE groups = <<>>
  <2>1. R = UniqAttrs(attrs \o new) /\ attrs \o new \in Seq(Attribute)
    BY <1>1, <1>2, <1>9, ConcatProperties DEF AppendAttrsToGroup
  <2>2. DistinctKeys(R)
    BY <2>1, UniqIs
  <2>3. \A x : x \in Logged(R) <=> \/ \E i \in DOMAIN attrs : /\ x \in Written(attrs[i])
                                                             /\ \A j \in DOMAIN new : new[j].key # attrs[i].key
                                   \/ x \in Logged(UniqAttrs(new))
    BY <1>1, <2>1, LastOfBoth
  <2>4. latest = Logged(UniqAttrs(new))
    <3>1. NestAll(groups, UniqAttrs(new)) = [i \in DOMAIN UniqAttrs(new) |-> UniqAttrs(new)[i]]
      BY <1>9 DEF NestAll, Nest
    <3>2. NestAll(groups, UniqAttrs(new)) = UniqAttrs(new)
      BY <1>1, <3>1, LenProperties
    <3> QED
      BY <1>3, <3>2
  <2>5. \A i \in DOMAIN attrs : \A x \in Written(attrs[i]) :
           x \in Hit <=> \E j \in DOMAIN new : new[j].key = attrs[i].key
    BY <1>7, <1>8, <1>9
  <2> QED
    BY <1>6, <2>2, <2>3, <2>4, <2>5
<1>10. CASE groups # <<>>
  <2>1. PICK group \in Attribute :
           /\ group.key = Head(groups)
           /\ Written(group) = Logged(NestAll(groups, UniqAttrs(new)))
           /\ Added(attrs, group, R) \/ \E m : JoinedAt(m, attrs, group, Tail(groups), new, R)
    BY <1>1, <1>2, <1>10, MergedIs
  <2>2. Written(group) = latest
    BY <1>3, <2>1
  <2>4. CASE Added(attrs, group, R)
    <3>2. PICK one \in Seq(Attribute) : one = <<group>> /\ DOMAIN one = {1} /\ one[1] = group
      <4>1. <<group>> \in Seq(Attribute) /\ Len(<<group>>) = 1 /\ <<group>>[1] = group
        OBVIOUS
      <4>2. DOMAIN <<group>> = {1}
        BY <4>1, LenProperties
      <4> QED
        BY <4>1, <4>2
    <3>3. R = UniqAttrs(attrs \o one) /\ attrs \o one \in Seq(Attribute)
      BY <2>4, <3>2, ConcatProperties DEF Added
    <3>4. DistinctKeys(R)
      BY <3>3, UniqIs
    <3>5. \A x : x \in Logged(UniqAttrs(one)) <=> x \in Written(group)
      <4>1. LastOfKey(one, 1)
        BY <3>2 DEF LastOfKey
      <4>2. \A x : x \in Logged(UniqAttrs(one)) <=> \E i \in DOMAIN one : LastOfKey(one, i) /\ x \in Written(one[i])
        BY UniqIsLogged
      <4> QED
        BY <3>2, <4>1, <4>2
    <3>7. \A x : x \in Logged(R) <=> \/ \E i \in DOMAIN attrs : x \in Written(attrs[i]) /\ group.key # attrs[i].key
                                     \/ x \in Logged(UniqAttrs(one))
      <4>1. \A x : x \in Logged(R) <=> \/ \E i \in DOMAIN attrs : /\ x \in Written(attrs[i])
                                                                 /\ \A j \in DOMAIN one : one[j].key # attrs[i].key
                                       \/ x \in Logged(UniqAttrs(one))
        BY <3>3, LastOfBoth
      <4> QED
        BY <3>2, <4>1
    <3>8. ASSUME NEW i \in DOMAIN attrs, NEW leaf \in attrs[i].leaves, attrs[i].key = Head(groups)
          PROVE  Replaced(leaf.path, Tail(groups), new)
      <4>1. Plain(attrs[i])
        BY <1>1, <2>1, <2>4, <3>8 DEF Attribute, Added
      <4>2. leaf.path = <<>>
        BY <4>1 DEF Plain
      <4>3. Tail(groups) \in Seq(STRING) /\ <<>> \in Seq(STRING)
        BY <1>10, HeadTailProperties
      <4> QED
        BY <4>2, <4>3, ReplacedIs
    <3>9. \A i \in DOMAIN attrs : \A x \in Written(attrs[i]) : x \in Hit <=> group.key = attrs[i].key
      BY <1>7, <1>8, <1>10, <2>1, <3>8
    <3> QED
      BY <1>6, <2>2, <3>4, <3>5, <3>7, <3>9
  <2>5. ASSUME NEW m, JoinedAt(m, attrs, group, Tail(groups), new, R)
        PROVE  DistinctKeys(R) /\ \A x : x \in Logged(R) <=> (x \in Logged(attrs) /\ x \notin Hit) \/ x \in latest
    <3>0. /\ m \in DOMAIN attrs /\ attrs[m].key = Head(groups) /\ R[m].key = Head(groups)
          /\ R \in Seq(Attribute) /\ DOMAIN R = DOMAIN attrs
          /\ \A i \in DOMAIN attrs : i # m => R[i] = attrs[i]
      BY <2>1, <2>5 DEF JoinedAt
    <3>1. PICK kept : kept = {leaf \in attrs[m].leaves : ~ Replaced(leaf.path, Tail(groups), new)}
      OBVIOUS
    <3>2. \A leaf : leaf \in R[m].leaves <=> leaf \in kept \/ leaf \in group.leaves
      BY <2>5, <3>1 DEF JoinedAt
    <3>3. DistinctKeys(R)
      <4>1. \A i \in DOMAIN attrs : R[i].key = attrs[i].key
        BY <3>0
      <4> QED
        BY <3>0, <4>1 DEF DistinctKeys
    <3>4. \A x : x \in Logged(R) <=> \E i \in DOMAIN attrs : x \in Written(R[i])
      BY <3>0, LoggedIsUnion
    <3>5. \A x : x \in Written(R[m]) <=> x \in AllBelow(Head(groups), kept) \/ x \in latest
      <4>1. R[m] \in Attribute
        BY <3>0, LenProperties, ElementOfSeq
      <4>2. Written(R[m]) = AllBelow(R[m].key, R[m].leaves)
        BY <4>1, WrittenIs
      <4> QED
        <5>1. Written(group) = AllBelow(group.key, group.leaves)
          BY WrittenIs
        <5> QED
          BY <2>1, <2>2, <3>0, <3>2, <4>2, <5>1 DEF AllBelow
    <3>6. \A i \in DOMAIN attrs : i # m => attrs[i].key # Head(groups)
      BY <3>0 DEF DistinctKeys
    <3>7. \A i \in DOMAIN attrs : i # m => \A x \in Written(attrs[i]) : x \notin Hit
      BY <1>7, <1>8, <1>10, <3>6
    <3>8. \A leaf \in attrs[m].leaves : Below(Head(groups), leaf) \in Hit <=> leaf \notin kept
      BY <1>8, <1>10, <3>0, <3>1
    <3>9. \A x : x \in AllBelow(Head(groups), kept) <=> x \in Written(attrs[m]) /\ x \notin Hit
      BY <1>7, <3>0, <3>1, <3>8 DEF AllBelow
    <3>10. \A x : x \in Logged(R) <=> \/ \E i \in DOMAIN attrs : i # m /\ x \in Written(attrs[i])
                                      \/ x \in Written(R[m])
      BY <3>0, <3>4
    <3>11. \A x : x \in Logged(attrs) <=> \/ \E i \in DOMAIN attrs : i # m /\ x \in Written(attrs[i])
                                          \/ x \in Written(attrs[m])
      BY <1>6, <3>0
    <3> QED
      BY <3>3, <3>5, <3>7, <3>9, <3>10, <3>11
  <2> QED
    BY <2>1, <2>4, <2>5
<1> QED
  BY <1>9, <1>10

(* AppendAttrsToGroup adds attributes while groups are open.  If no key    *)
(* occurs twice in what it adds to (the keys of a route's attributes never *)
(* do: see Agrees), and what is added is plain, no key does afterwards,    *)
(* and what is written is what was, less all that shares its path with     *)
(* what is added or is below or above of it, and of what is added the last *)
(* for each key: as much as if each attribute were put into the groups by  *)
(* itself and the later one counted.                                       *)
THEOREM MergingKeepsTheLog ==
  ASSUME NEW groups \in Seq(STRING),
         NEW attrs \in Seq(Attribute), DistinctKeys(attrs),
         NEW new \in Addition
  PROVE  /\ DistinctKeys(AppendAttrsToGroup(groups, attrs, new))
         /\ Logged(AppendAttrsToGroup(groups, attrs, new))
              = {leaf \in Logged(attrs) : \A later \in Logged(NestAll(groups, new)) :
                                             ~ Clash(leaf.path, later.path)}
                \cup Latest(NestAll(groups, new))
<1>1. PICK R : R = AppendAttrsToGroup(groups, attrs, new)
  OBVIOUS
<1>2. /\ DistinctKeys(R)
      /\ \A x : x \in Logged(R) <=>
           \/ /\ x \in Logged(attrs)
              /\ \A later \in Logged(NestAll(groups, new)) : ~ Clash(x.path, later.path)
           \/ x \in Latest(NestAll(groups, new))
  BY <1>1, MergedAttrs
<1> QED
  BY <1>1, <1>2

(* So if what is kept writes what counts of what was written, it does so   *)
(* with the added attributes too.                                          *)
LEMMA KeptIsLatest ==
  ASSUME NEW groups \in Seq(STRING),
         NEW kept \in Seq(Attribute), DistinctKeys(kept),
         NEW written \in Seq(Attribute), Logged(kept) = Latest(written),
         NEW new \in Addition
  PROVE  Logged(AppendAttrsToGroup(groups, kept, new)) = Latest(written \o NestAll(groups, new))
<1>1. PICK nested : nested = NestAll(groups, new)
  OBVIOUS
<1>2. nested \in Seq(Attribute)
  BY <1>1, NestedAreAttributes, AdditionIs
<1>3. \A x : x \in Latest(written \o nested) <=>
         \/ x \in Latest(written) /\ \A later \in Logged(nested) : ~ Clash(x.path, later.path)
         \/ x \in Latest(nested)
  BY <1>2, LatestOfBoth
<1>4. \A x : x \in Logged(AppendAttrsToGroup(groups, kept, new)) <=>
         \/ x \in Logged(kept) /\ \A later \in Logged(nested) : ~ Clash(x.path, later.path)
         \/ x \in Latest(nested)
  BY <1>1, MergedAttrs
<1> QED
  BY <1>1, <1>3, <1>4

(* One derivation of a route, with plain attributes in any groups.  If the *)
(* attributes kept for the predicates have distinct keys, and write what   *)
(* counts of what the handler behind the route writes, they still do so    *)
(* after WithAttrs, with the attributes of any record behind them: the     *)
(* step of an induction over derivations, of any length and depth.         *)
THEOREM DerivationKeepsWhatIsSeen ==
  ASSUME NEW groups \in Seq(STRING),
         NEW kept \in Seq(Attribute), DistinctKeys(kept),
         NEW written \in Seq(Attribute), Logged(kept) = Latest(written),
         NEW new \in Addition,
         NEW r, r.attrs \in Seq(Attribute)
  PROVE  Logged(AppendRecordAttrsToAttrs(AppendAttrsToGroup(groups, kept, new), groups, r))
           = Latest(written \o NestAll(groups, new)) \cup Logged(NestAll(groups, r.attrs))
<1>1. AppendAttrsToGroup(groups, kept, new) \in Seq(Attribute)
  BY MergedAreAttributes, AdditionIs
<1>2. NestAll(groups, r.attrs) \in Seq(Attribute)
  BY NestedAreAttributes
<1>3. Logged(AppendRecordAttrsToAttrs(AppendAttrsToGroup(groups, kept, new), groups, r))
        = Logged(AppendAttrsToGroup(groups, kept, new)) \cup Logged(NestAll(groups, r.attrs))
  BY <1>1, <1>2, BothAreLogged DEF AppendRecordAttrsToAttrs
<1> QED
  BY <1>3, KeptIsLatest

-----------------------------------------------------------------------------

(* What the handlers of each kind are made of.                             *)
LEMMA HandlersAre ==
  Handlers = UsersHandlers \cup Over(Handlers)
<1>1. UsersHandlers \subseteq Handlers
  BY TreeUnfolds DEF Handlers
<1> DEFINE N == {n \in Nat : Tree[n] \subseteq UsersHandlers \cup Over(Handlers)}
<1>2. 0 \in N
  BY TreeUnfolds
<1>3. ASSUME NEW n \in N PROVE n + 1 \in N
  <2>1. Tree[n + 1] = Tree[n] \cup Over(Tree[n]) /\ n \in Nat
    BY TreeUnfolds
  <2>2. Tree[n] \subseteq Handlers
    BY <2>1 DEF Handlers
  <2>3. Over(Tree[n]) \subseteq Over(Handlers)
    <3>1. RoutesTo(Tree[n]) \subseteq RoutesTo(Handlers)
      BY <2>2 DEF RoutesTo
    <3>2. /\ Seq(Tree[n]) \subseteq Seq(Handlers)
          /\ Seq(RoutesTo(Tree[n])) \subseteq Seq(RoutesTo(Handlers))
      BY <2>2, <3>1, SeqMonotonic
    <3> QED
      BY <2>2, <3>1, <3>2 DEF Over
  <2> QED
    BY <2>1, <2>3
<1> HIDE DEF N
<1>4. N = Nat
  BY <1>2, <1>3, Induction DEF N
<1> QED
  BY <1>1, <1>4, HandlersClosed DEF N, Handlers

(* What a handler of each type has.                                        *)
LEMMA Typed ==
  ASSUME NEW h \in Handlers
  PROVE  /\ h.kind \in {"sink", "inline", "fanout", "failover", "pool", "route",
                        "firstmatch", "recovery", "middleware"}
         /\ h.kind = "sink" =>
              h \in [kind : {"sink"}, name : STRING, groups : Seq(STRING), attrs : Seq(Attribute)]
         /\ h.kind = "inline" =>
              h \in [kind : {"inline"}, name : STRING, enabledFunc : BOOLEAN,
                     groups : Seq(STRING), attrs : Seq(Attribute)]
         /\ h.kind \in {"fanout", "failover"} =>
              h \in [kind : {"fanout", "failover"}, handlers : Seq(Handlers)]
         /\ h.kind = "pool" => h \in [kind : {"pool"}, name : STRING, handlers : Seq(Handlers)]
         /\ h.kind = "route" => h \in RoutesTo(Handlers)
         /\ h.kind = "firstmatch" =>
              h \in [kind : {"firstmatch"}, handlers : Seq(RoutesTo(Handlers))]
         /\ h.kind = "recovery" => h \in [kind : {"recovery"}, handler : Handlers]
         /\ h.kind = "middleware" =>
              h \in [kind : {"middleware"}, hooks : SUBSET Methods, next : Handlers]
<1>1. CASE h \in UsersHandlers
  BY <1>1 DEF UsersHandlers
<1>2. CASE h \in Over(Handlers)
  BY <1>2 DEF Over, RoutesTo
<1> QED
  BY <1>1, <1>2, HandlersAre

(* A route to a handler is a handler.                                      *)
LEMMA RoutesAreHandlers ==
  RoutesTo(Handlers) \subseteq Handlers
BY HandlersAre DEF Over

(* A handler has handlers.                                                 *)
LEMMA KidsAreHandlers ==
  ASSUME NEW h \in Handlers
  PROVE  Kids(h) \subseteq Handlers
BY HandlersAre, RoutesAreHandlers, KidsAreBelow

(* The nodes of a handler are it and those of the handlers it has.         *)
LEMMA NodesAre ==
  ASSUME Recursion, NEW h \in Handlers
  PROVE  Nodes(h) = {h} \cup UNION {Nodes(c) : c \in Kids(h)}
<1>1. Nodes(h) = NodesOf(h)
  BY DEF Recursion
<1>2. CASE h.kind \in {"sink", "inline"}
  BY <1>1, <1>2 DEF NodesOf, Kids
<1>3. CASE h.kind \in {"route", "recovery"}
  BY <1>1, <1>3 DEF NodesOf, Kids
<1>4. CASE h.kind = "middleware"
  BY <1>1, <1>4 DEF NodesOf, Kids
<1>5. CASE h.kind \notin {"sink", "inline", "route", "recovery", "middleware"}
  <2>1. Nodes(h) = {h} \cup UNION {Nodes(h.handlers[i]) : i \in DOMAIN h.handlers}
    BY <1>1, <1>5 DEF NodesOf
  <2>2. Kids(h) = {h.handlers[i] : i \in DOMAIN h.handlers}
    BY <1>5 DEF Kids, Within
  <2> QED
    BY <2>1, <2>2
<1> QED
  BY <1>2, <1>3, <1>4, <1>5

(* All of them are handlers.                                               *)
LEMMA NodesAreHandlers ==
  ASSUME Recursion
  PROVE  \A h \in Handlers : Nodes(h) \subseteq Handlers
<1> DEFINE T == {h \in Handlers : Nodes(h) \subseteq Handlers}
<1>1. ASSUME NEW h \in Handlers, Kids(h) \subseteq T PROVE h \in T
  <2>1. \A c \in Kids(h) : Nodes(c) \subseteq Handlers
    BY <1>1
  <2>2. Nodes(h) = {h} \cup UNION {Nodes(c) : c \in Kids(h)}
    BY NodesAre
  <2> QED
    BY <2>1, <2>2
<1> HIDE DEF T
<1>2. T = Handlers
  BY <1>1, KidsInduction DEF T
<1> QED
  BY <1>2 DEF T

(* A fan-out is flattened, everything else stays where it is.              *)
Inner(h) == {n \in Nodes(h) : n.kind # "fanout"}

(* The same for the inner ones, among which fan-outs do not count.         *)
LEMMA InnerAre ==
  ASSUME Recursion, NEW h \in Handlers
  PROVE  /\ h.kind = "fanout" => Inner(h) = UNION {Inner(c) : c \in Kids(h)}
         /\ h.kind # "fanout" => Inner(h) = {h} \cup UNION {Inner(c) : c \in Kids(h)}
<1>1. \A n : n \in Nodes(h) <=> n = h \/ \E c \in Kids(h) : n \in Nodes(c)
  BY NodesAre
<1>2. \A n : n \in Inner(h) <=> n \in Nodes(h) /\ n.kind # "fanout"
  BY DEF Inner
<1>3. \A n : n \in UNION {Inner(c) : c \in Kids(h)}
               <=> \E c \in Kids(h) : n \in Nodes(c) /\ n.kind # "fanout"
  BY DEF Inner
<1> QED
  BY <1>1, <1>2, <1>3

(* What no derivation changes of a handler.                                *)
Tag(n) ==
  [kind  |-> n.kind,
   name  |-> IF n.kind \in {"sink", "inline", "pool"} THEN n.name ELSE "",
   hooks |-> IF n.kind = "middleware" THEN n.hooks ELSE {},
   asked |-> IF n.kind = "inline" THEN n.enabledFunc ELSE TRUE]

Tags(h) == {Tag(n) : n \in Inner(h)}

(* And for their tags.                                                     *)
LEMMA TagsAre ==
  ASSUME Recursion, NEW h \in Handlers
  PROVE  /\ h.kind = "fanout" => Tags(h) = UNION {Tags(c) : c \in Kids(h)}
         /\ h.kind # "fanout" => Tags(h) = {Tag(h)} \cup UNION {Tags(c) : c \in Kids(h)}
<1>1. \A t : t \in Tags(h) <=> \E n \in Inner(h) : t = Tag(n)
  BY DEF Tags
<1>2. \A t : t \in UNION {Tags(c) : c \in Kids(h)}
               <=> \E c \in Kids(h) : \E n \in Inner(c) : t = Tag(n)
  BY DEF Tags
<1>3. ASSUME h.kind = "fanout" PROVE Tags(h) = UNION {Tags(c) : c \in Kids(h)}
  <2>1. \A n : n \in Inner(h) <=> \E c \in Kids(h) : n \in Inner(c)
    BY <1>3, InnerAre
  <2> QED
    BY <1>1, <1>2, <2>1
<1>4. ASSUME h.kind # "fanout" PROVE Tags(h) = {Tag(h)} \cup UNION {Tags(c) : c \in Kids(h)}
  <2>1. \A n : n \in Inner(h) <=> n = h \/ \E c \in Kids(h) : n \in Inner(c)
    BY <1>4, InnerAre
  <2> QED
    BY <1>1, <1>2, <2>1
<1> QED
  BY <1>3, <1>4

(* d is h with the handlers in it replaced, a fan-out perhaps flattened.   *)
Rebuilt(h, d, D) ==
  \/ /\ h.kind = "fanout"
     /\ Inner(d) = UNION {Inner(D[c]) : c \in Kids(h)}
  \/ /\ h.kind # "fanout" /\ Tag(d) = Tag(h)
     /\ Kids(d) = {D[c] : c \in Kids(h)}

(* A rebuilt handler has the tags it had, if those that it has do.         *)
LEMMA SameTags ==
  ASSUME Recursion, NEW h \in Handlers, NEW d \in Handlers, NEW D, Rebuilt(h, d, D),
         \A c \in Kids(h) : Tags(D[c]) = Tags(c)
  PROVE  Tags(d) = Tags(h)
<1>1. CASE /\ h.kind = "fanout"
           /\ Inner(d) = UNION {Inner(D[c]) : c \in Kids(h)}
  <2>1. \A t : t \in Tags(d) <=> \E c \in Kids(h) : t \in Tags(D[c])
    <3>1. \A t : t \in Tags(d) <=> \E n \in Inner(d) : t = Tag(n)
      BY DEF Tags
    <3>2. \A n : n \in Inner(d) <=> \E c \in Kids(h) : n \in Inner(D[c])
      BY <1>1
    <3>3. \A c : \A t : t \in Tags(c) <=> \E n \in Inner(c) : t = Tag(n)
      BY DEF Tags
    <3> QED
      BY <3>1, <3>2, <3>3
  <2>2. \A t : t \in Tags(h) <=> \E c \in Kids(h) : t \in Tags(c)
    BY <1>1, TagsAre
  <2> QED
    BY <2>1, <2>2
<1>2. CASE /\ h.kind # "fanout" /\ Tag(d) = Tag(h)
           /\ Kids(d) = {D[c] : c \in Kids(h)}
  <2>1. d.kind = h.kind
    BY <1>2 DEF Tag
  <2>2. \A t : t \in Tags(d) <=> t = Tag(h) \/ \E c \in Kids(h) : t \in Tags(D[c])
    BY <1>2, <2>1, TagsAre
  <2>3. \A t : t \in Tags(h) <=> t = Tag(h) \/ \E c \in Kids(h) : t \in Tags(c)
    BY <1>2, TagsAre
  <2> QED
    BY <2>2, <2>3
<1> QED
  BY <1>1, <1>2 DEF Rebuilt

(* The constructor of a fan-out flattens and loses nobody.                 *)
LEMMA FanoutOf ==
  ASSUME Recursion, NEW hs \in Seq(Handlers)
  PROVE  /\ Fanout(hs) \in Handlers
         /\ Inner(Fanout(hs)) = UNION {Inner(c) : c \in Within(hs)}
<1> DEFINE parts == MapOver(hs, LAMBDA h : IF h.kind = "fanout" THEN h.handlers ELSE <<h>>)
           flat  == FlattenSeq(parts)
<1>1. DOMAIN hs = 1 .. Len(hs) /\ Len(hs) \in Nat /\ \A i \in DOMAIN hs : hs[i] \in Handlers
  BY LenProperties, ElementOfSeq
<1>2. /\ DOMAIN parts = 1 .. Len(hs)
      /\ \A i \in 1 .. Len(hs) :
            parts[i] = IF hs[i].kind = "fanout" THEN hs[i].handlers ELSE <<hs[i]>>
  BY <1>1 DEF MapOver
<1>3. \A i \in 1 .. Len(hs) : parts[i] \in Seq(Handlers)
  <2> TAKE i \in 1 .. Len(hs)
  <2> HIDE DEF parts
  <2>1. PICK x \in Handlers : x = hs[i]
    BY <1>1
  <2>2. CASE x.kind = "fanout"
    <3>1. x.handlers \in Seq(Handlers)
      BY <2>2, Typed
    <3> QED
      BY <1>2, <2>1, <2>2, <3>1
  <2>3. CASE x.kind # "fanout"
    <3>1. parts[i] = <<x>>
      BY <1>2, <2>1, <2>3
    <3> QED
      BY <3>1
  <2> QED
    BY <2>2, <2>3
<1>4. parts \in Seq(Seq(Handlers))
  <2>1. parts = [i \in 1 .. Len(hs) |-> parts[i]]
    BY <1>1 DEF MapOver
  <2> HIDE DEF parts
  <2>2. parts \in [1 .. Len(hs) -> Seq(Handlers)]
    BY <1>3, <2>1
  <2>3. \A S : \A n \in Nat : \A f \in [1 .. n -> S] : f \in Seq(S)
    OBVIOUS
  <2> QED
    BY <1>1, <2>2, <2>3
<1>5. \A i \in 1 .. Len(hs) : UNION {Inner(c) : c \in Within(parts[i])} = Inner(hs[i])
  <2> TAKE i \in 1 .. Len(hs)
  <2>1. CASE hs[i].kind = "fanout"
    <3>1. Kids(hs[i]) = Within(parts[i]) /\ hs[i] \in Handlers
      BY <1>2, <2>1, ElementOfSeq DEF Kids
    <3> QED
      BY <2>1, <3>1, InnerAre
  <2>2. CASE hs[i].kind # "fanout"
    <3>1. Within(parts[i]) = {hs[i]}
      <4> HIDE DEF parts
      <4>1. PICK p : p = parts[i]
        OBVIOUS
      <4>2. p = <<hs[i]>>
        BY <1>2, <2>2, <4>1
      <4>3. DOMAIN p = {1} /\ p[1] = hs[i]
        BY <4>2
      <4> QED
        BY <4>1, <4>3 DEF Within
    <3> QED
      BY <3>1
  <2> QED
    BY <2>1, <2>2
<1> HIDE DEF parts
<1>6. /\ flat \in Seq(Handlers)
      /\ Within(flat) = UNION {Within(parts[i]) : i \in DOMAIN parts}
  BY <1>4, FlattenWithin
<1>7. Fanout(hs) = IF Len(flat) = 1 THEN flat[1] ELSE FanoutHandler(flat)
  BY DEF Fanout, parts
<1> HIDE DEF flat
<1>8. UNION {Inner(c) : c \in Within(flat)} = UNION {Inner(c) : c \in Within(hs)}
  <2>1. \A c : c \in Within(flat) <=> \E i \in 1 .. Len(hs) : c \in Within(parts[i])
    BY <1>2, <1>6
  <2>2. \A n : n \in UNION {Inner(c) : c \in Within(flat)}
                 <=> \E i \in 1 .. Len(hs) : \E c \in Within(parts[i]) : n \in Inner(c)
    BY <2>1
  <2>3. \A i \in 1 .. Len(hs) : \A n :
           n \in Inner(hs[i]) <=> \E c \in Within(parts[i]) : n \in Inner(c)
    BY <1>5
  <2>4. \A n : n \in UNION {Inner(c) : c \in Within(hs)}
                 <=> \E i \in 1 .. Len(hs) : n \in Inner(hs[i])
    BY <1>1 DEF Within
  <2> QED
    BY <2>2, <2>3, <2>4
<1>9. CASE Len(flat) = 1
  <2>1. Fanout(hs) = flat[1] /\ flat[1] \in Handlers /\ DOMAIN flat = {1}
    <3>1. DOMAIN flat = 1 .. 1 /\ 1 .. 1 = {1}
      BY <1>6, <1>9, LenProperties
    <3>2. flat[1] \in Handlers
      BY <1>6, <1>9, ElementOfSeq
    <3> QED
      BY <1>7, <1>9, <3>1, <3>2
  <2>2. Within(flat) = {flat[1]}
    BY <2>1 DEF Within
  <2> QED
    BY <1>8, <2>1, <2>2
<1>10. CASE Len(flat) # 1
  <2>1. Fanout(hs) = FanoutHandler(flat)
    BY <1>7, <1>10
  <2>2. FanoutHandler(flat) \in Handlers
    BY <1>6, HandlersAre DEF FanoutHandler, Over
  <2>3. FanoutHandler(flat).kind = "fanout" /\ Kids(FanoutHandler(flat)) = Within(flat)
    BY DEF FanoutHandler, Kids
  <2> QED
    BY <1>8, <2>1, <2>2, <2>3, InnerAre
<1> QED
  BY <1>9, <1>10

-----------------------------------------------------------------------------

(* Deriving with attributes.                                               *)

Mapped(D, hs) == [i \in DOMAIN hs |-> D[hs[i]]]

(* A mapped sequence has the images of the elements.                       *)
LEMMA MappedIsSeq ==
  ASSUME NEW S, NEW T, NEW hs \in Seq(S), NEW D, \A c \in Within(hs) : D[c] \in T
  PROVE  /\ Mapped(D, hs) \in Seq(T) /\ Len(Mapped(D, hs)) = Len(hs)
         /\ Within(Mapped(D, hs)) = {D[c] : c \in Within(hs)}
<1>0. PICK m : m = Mapped(D, hs)
  OBVIOUS
<1>1. DOMAIN hs = 1 .. Len(hs) /\ Len(hs) \in Nat
  BY LenProperties
<1>2. \A i \in 1 .. Len(hs) : D[hs[i]] \in T
  BY <1>1 DEF Within
<1>3. m \in [1 .. Len(hs) -> T]
  BY <1>0, <1>1, <1>2 DEF Mapped
<1>4. \A n \in Nat : \A f \in [1 .. n -> T] : f \in Seq(T) /\ Len(f) = n
  OBVIOUS
<1>5. Within(m) = {D[c] : c \in Within(hs)}
  <2>1. \A x : x \in Within(m) <=> \E i \in DOMAIN hs : x = D[hs[i]]
    BY <1>0 DEF Within, Mapped
  <2>2. \A x : x \in {D[c] : c \in Within(hs)} <=> \E i \in DOMAIN hs : x = D[hs[i]]
    BY DEF Within
  <2> QED
    BY <2>1, <2>2
<1> QED
  BY <1>0, <1>1, <1>3, <1>4, <1>5

(* The mark of the hooked methods is a list of attributes like those that  *)
(* WithAttrs is called with.                                               *)
LEMMA MarkIsAttrs ==
  Mark \in Addition /\ Mark \in Seq(Attribute)
BY LoggerAssumption, AdditionIs

(* So is a list with the mark behind it.                                   *)
LEMMA MarkedAttrs ==
  ASSUME NEW a \in Seq(Attribute)
  PROVE  /\ a \o Mark \in Seq(Attribute)
         /\ a \in Addition => a \o Mark \in Addition
<1>1. a \o Mark \in Seq(Attribute)
  BY MarkIsAttrs, ConcatProperties
<1>2. ASSUME a \in Addition PROVE a \o Mark \in Addition
  <2>1. PICK plain : plain = {attr \in Attribute : Plain(attr)}
    OBVIOUS
  <2>2. a \in Seq(plain) /\ Mark \in Seq(plain) /\ a # <<>>
    BY <1>2, <2>1, MarkIsAttrs DEF Addition
  <2>3. /\ a \o Mark \in Seq(plain) /\ Len(a \o Mark) = Len(a) + Len(Mark)
        /\ Len(a) \in Nat \ {0} /\ Len(Mark) \in Nat
    BY <2>2, ConcatProperties, LenProperties, EmptySeq
  <2>4. a \o Mark # <<>>
    BY <2>3, EmptySeq
  <2> QED
    BY <2>1, <2>3, <2>4 DEF Addition
<1> QED
  BY <1>1, <1>2

Passed(h, a) == IF h.kind = "middleware" /\ "WithAttrs" \in h.hooks THEN a \o Mark ELSE a

(* WithAttrs rebuilds a handler over what WithAttrs makes of those it has. *)
LEMMA AttrsRebuild ==
  ASSUME Recursion, NEW h \in Handlers, NEW a \in Seq(Attribute), NEW D,
         \A c \in Kids(h) : /\ D[c] = WithAttrs(c, Passed(h, a)) /\ D[c] \in Handlers
                            /\ c.kind = "route" => D[c].kind = "route"
  PROVE  /\ WithAttrs(h, a) \in Handlers
         /\ Rebuilt(h, WithAttrs(h, a), D)
         /\ h.kind = "route" => WithAttrs(h, a).kind = "route"
<1> DEFINE d == WithAttrs(h, a)
<1>0. d = WithAttrsOf(h, a)
  BY DEF Recursion, DynamicDispatch
<1>00. h.kind # "middleware" => Passed(h, a) = a
  BY DEF Passed
<1> HIDE DEF d
<1>1. CASE h.kind = "sink"
  <2>1. h \in [kind : {"sink"}, name : STRING, groups : Seq(STRING), attrs : Seq(Attribute)]
    BY <1>1, Typed
  <2>2. d = [h EXCEPT !.attrs = @ \o NestAll(h.groups, a)]
    BY <1>0, <1>1 DEF WithAttrsOf, SinkWithAttrs
  <2>3. h.attrs \o NestAll(h.groups, a) \in Seq(Attribute)
    BY <2>1, NestedAreAttributes, ConcatProperties
  <2>4. d \in UsersHandlers
    BY <2>1, <2>2, <2>3 DEF UsersHandlers
  <2>5. Tag(d) = Tag(h) /\ Kids(h) = {} /\ Kids(d) = {}
    BY <1>1, <2>1, <2>2 DEF Tag, Kids
  <2> QED
    BY <1>1, <2>4, <2>5, HandlersAre DEF Rebuilt, d
<1>2. CASE h.kind = "inline"
  <2>1. h \in [kind : {"inline"}, name : STRING, enabledFunc : BOOLEAN,
               groups : Seq(STRING), attrs : Seq(Attribute)]
    BY <1>2, Typed
  <2>2. d = [h EXCEPT !.attrs = @ \o a]
    BY <1>0, <1>2 DEF WithAttrsOf, InlineWithAttrs
  <2>3. h.attrs \o a \in Seq(Attribute)
    BY <2>1, ConcatProperties
  <2>4. d \in UsersHandlers
    BY <2>1, <2>2, <2>3 DEF UsersHandlers
  <2>5. Tag(d) = Tag(h) /\ Kids(h) = {} /\ Kids(d) = {}
    BY <1>2, <2>1, <2>2 DEF Tag, Kids
  <2> QED
    BY <1>2, <2>4, <2>5, HandlersAre DEF Rebuilt, d
<1>3. CASE h.kind \in {"fanout", "failover"}
  <2>1. h.handlers \in Seq(Handlers) /\ Kids(h) = Within(h.handlers)
    BY <1>3, Typed DEF Kids
  <2>2. PICK m : m = [i \in DOMAIN h.handlers |-> WithAttrs(h.handlers[i], a)]
    OBVIOUS
  <2>3. m = [i \in DOMAIN h.handlers |-> D[h.handlers[i]]]
    <3>1. \A i \in DOMAIN h.handlers : h.handlers[i] \in Kids(h)
      BY <2>1 DEF Within
    <3>2. \A c \in Kids(h) : D[c] = WithAttrs(c, a)
      BY <1>00, <1>3
    <3> QED
      BY <2>2, <3>1, <3>2
  <2>4. m \in Seq(Handlers) /\ Within(m) = {D[c] : c \in Kids(h)}
    <3>1. PICK hs \in Seq(Handlers) : hs = h.handlers
      BY <2>1
    <3>2. \A c \in Within(hs) : D[c] \in Handlers
      BY <2>1, <3>1
    <3>3. m = Mapped(D, hs)
      BY <2>3, <3>1 DEF Mapped
    <3>4. m \in Seq(Handlers) /\ Within(m) = {D[c] : c \in Within(hs)}
      BY <3>2, <3>3, MappedIsSeq
    <3> QED
      BY <2>1, <3>1, <3>4
  <2>5. CASE h.kind = "fanout"
    <3>1. d = Fanout(m)
      BY <1>0, <2>2, <2>5 DEF WithAttrsOf, FanoutWithAttrs, MapOver
    <3>2. d \in Handlers /\ Inner(d) = UNION {Inner(x) : x \in Within(m)}
      BY <2>4, <3>1, FanoutOf
    <3>3. UNION {Inner(x) : x \in Within(m)} = UNION {Inner(D[c]) : c \in Kids(h)}
      BY <2>4
    <3> QED
      BY <2>5, <3>2, <3>3 DEF Rebuilt, d
  <2>6. CASE h.kind = "failover"
    <3>1. d = [kind |-> "failover", handlers |-> m]
      BY <1>0, <2>2, <2>6 DEF WithAttrsOf, FailoverWithAttrs, Failover, MapOver
    <3>2. d \in Handlers
      BY <2>4, <3>1, HandlersAre DEF Over
    <3>3. Tag(d) = Tag(h) /\ Kids(d) = {D[c] : c \in Kids(h)}
      BY <2>4, <2>6, <3>1 DEF Tag, Kids
    <3> QED
      BY <2>6, <3>2, <3>3 DEF Rebuilt, d
  <2> QED
    BY <1>3, <2>5, <2>6
<1>4. CASE h.kind = "pool"
  <2>1. h.handlers \in Seq(Handlers) /\ Kids(h) = Within(h.handlers) /\ h.name \in STRING
    BY <1>4, Typed DEF Kids
  <2>2. PICK m : m = [i \in DOMAIN h.handlers |-> WithAttrs(h.handlers[i], a)]
    OBVIOUS
  <2>3. m = [i \in DOMAIN h.handlers |-> D[h.handlers[i]]]
    <3>1. \A i \in DOMAIN h.handlers : h.handlers[i] \in Kids(h)
      BY <2>1 DEF Within
    <3>2. \A c \in Kids(h) : D[c] = WithAttrs(c, a)
      BY <1>00, <1>4
    <3> QED
      BY <2>2, <3>1, <3>2
  <2>4. m \in Seq(Handlers) /\ Within(m) = {D[c] : c \in Kids(h)}
    <3>1. PICK hs \in Seq(Handlers) : hs = h.handlers
      BY <2>1
    <3>2. \A c \in Within(hs) : D[c] \in Handlers
      BY <2>1, <3>1
    <3>3. m = Mapped(D, hs)
      BY <2>3, <3>1 DEF Mapped
    <3>4. m \in Seq(Handlers) /\ Within(m) = {D[c] : c \in Within(hs)}
      BY <3>2, <3>3, MappedIsSeq
    <3> QED
      BY <2>1, <3>1, <3>4
  <2>5. d = [kind |-> "pool", name |-> h.name, handlers |-> m]
    BY <1>0, <1>4, <2>2 DEF WithAttrsOf, PoolWithAttrs, Pool, MapOver
  <2>6. d \in Handlers
    BY <2>1, <2>4, <2>5, HandlersAre DEF Over
  <2>7. Tag(d) = Tag(h) /\ Kids(d) = {D[c] : c \in Kids(h)}
    BY <1>4, <2>4, <2>5 DEF Tag, Kids
  <2> QED
    BY <1>4, <2>6, <2>7 DEF Rebuilt, d
<1>5. CASE h.kind = "route"
  <2>1. h \in RoutesTo(Handlers) /\ Kids(h) = {h.handler}
    BY <1>5, Typed DEF Kids
  <2>2. PICK new : new = AppendAttrsToGroup(h.groups, h.attrs, a)
    OBVIOUS
  <2>3. d = [h EXCEPT !.handler = D[h.handler], !.attrs = new]
    BY <1>0, <1>00, <1>5, <2>1, <2>2 DEF WithAttrsOf, RoutableWithAttrs, RoutesTo
  <2>4. new \in Seq(Attribute) /\ D[h.handler] \in Handlers
    BY <2>1, <2>2, MergedAreAttributes DEF RoutesTo
  <2>5. d \in RoutesTo(Handlers)
    <3>1. PICK next \in Handlers : next = D[h.handler]
      BY <2>4
    <3>2. d = [h EXCEPT !.handler = next, !.attrs = new]
      BY <2>3, <3>1
    <3> QED
      BY <2>1, <2>4, <3>2 DEF RoutesTo
  <2>6. Tag(d) = Tag(h) /\ Kids(d) = {D[c] : c \in Kids(h)} /\ d.kind = "route"
    <3>1. d.kind = "route" /\ d.handler = D[h.handler]
      BY <1>5, <2>1, <2>3 DEF RoutesTo
    <3> QED
      BY <1>5, <2>1, <3>1 DEF Tag, Kids
  <2> QED
    BY <1>5, <2>5, <2>6, RoutesAreHandlers DEF Rebuilt, d
<1>6. CASE h.kind = "firstmatch"
  <2>1. h.handlers \in Seq(RoutesTo(Handlers)) /\ Kids(h) = Within(h.handlers)
    BY <1>6, Typed DEF Kids
  <2>2. PICK m : m = [i \in DOMAIN h.handlers |-> RoutableWithAttrs(h.handlers[i], a)]
    OBVIOUS
  <2>3. \A c \in Kids(h) : c.kind = "route"
    <3>1. \A i \in DOMAIN h.handlers : h.handlers[i] \in RoutesTo(Handlers)
      BY <2>1, LenProperties, ElementOfSeq
    <3>2. \A c \in RoutesTo(Handlers) : c.kind = "route"
      BY DEF RoutesTo
    <3> QED
      BY <2>1, <3>1, <3>2 DEF Within
  <2>4. \A c \in Kids(h) : D[c] = RoutableWithAttrs(c, a) /\ D[c] \in RoutesTo(Handlers)
    <3> TAKE c \in Kids(h)
    <3>1. WithAttrs(c, a) = WithAttrsOf(c, a) /\ c.kind = "route"
      BY <2>3, KidsAreHandlers DEF Recursion, DynamicDispatch
    <3>2. WithAttrsOf(c, a) = RoutableWithAttrs(c, a)
      BY <3>1 DEF WithAttrsOf
    <3>3. D[c] = WithAttrs(c, a) /\ D[c] \in Handlers /\ D[c].kind = "route"
      BY <1>00, <1>6, <3>1
    <3>4. D[c] \in RoutesTo(Handlers)
      BY <3>3, Typed
    <3> QED
      BY <3>1, <3>2, <3>3, <3>4
  <2>5. m = [i \in DOMAIN h.handlers |-> D[h.handlers[i]]]
    BY <2>1, <2>2, <2>4 DEF Within
  <2>6. m \in Seq(RoutesTo(Handlers)) /\ Within(m) = {D[c] : c \in Kids(h)}
    <3>1. PICK hs \in Seq(RoutesTo(Handlers)) : hs = h.handlers
      BY <2>1
    <3>2. \A c \in Within(hs) : D[c] \in RoutesTo(Handlers)
      BY <2>1, <2>4, <3>1
    <3>3. m = Mapped(D, hs)
      BY <2>5, <3>1 DEF Mapped
    <3>4. m \in Seq(RoutesTo(Handlers)) /\ Within(m) = {D[c] : c \in Within(hs)}
      BY <3>2, <3>3, MappedIsSeq
    <3> QED
      BY <2>1, <3>1, <3>4
  <2>7. d = [kind |-> "firstmatch", handlers |-> m]
    BY <1>0, <1>6, <2>2 DEF WithAttrsOf, FirstMatchWithAttrs, FirstMatchHandler, MapOver
  <2>8. d \in Handlers
    BY <2>6, <2>7, HandlersAre DEF Over
  <2>9. Tag(d) = Tag(h) /\ Kids(d) = {D[c] : c \in Kids(h)}
    BY <1>6, <2>6, <2>7 DEF Tag, Kids
  <2> QED
    BY <1>6, <2>8, <2>9 DEF Rebuilt, d
<1>7. CASE h.kind = "recovery"
  <2>1. Kids(h) = {h.handler}
    BY <1>7 DEF Kids
  <2>2. d = [kind |-> "recovery", handler |-> D[h.handler]]
    BY <1>0, <1>00, <1>7, <2>1 DEF WithAttrsOf, RecoveryWithAttrs, RecoverHandlerError
  <2>3. d \in Handlers
    BY <2>1, <2>2, HandlersAre DEF Over
  <2>4. Tag(d) = Tag(h) /\ Kids(d) = {D[c] : c \in Kids(h)}
    BY <1>7, <2>1, <2>2 DEF Tag, Kids
  <2> QED
    BY <1>7, <2>3, <2>4 DEF Rebuilt, d
<1>8. CASE h.kind = "middleware"
  <2>1. Kids(h) = {h.next} /\ h.hooks \in SUBSET Methods
    BY <1>8, Typed DEF Kids
  <2>2. d = [kind |-> "middleware", hooks |-> h.hooks, next |-> D[h.next]]
    BY <1>0, <1>8, <2>1 DEF WithAttrsOf, MiddlewareWithAttrs, Middleware, Passed
  <2>3. d \in Handlers
    BY <2>1, <2>2, HandlersAre DEF Over
  <2>4. Tag(d) = Tag(h) /\ Kids(d) = {D[c] : c \in Kids(h)}
    BY <1>8, <2>1, <2>2 DEF Tag, Kids
  <2> QED
    BY <1>8, <2>3, <2>4 DEF Rebuilt, d
<1> QED
  BY <1>1, <1>2, <1>3, <1>4, <1>5, <1>6, <1>7, <1>8, Typed

(* Derived with attributes, a composition is a composition of the same     *)
(* handlers.                                                               *)
LEMMA AttrsKeepTheHandlers ==
  ASSUME Recursion
  PROVE  \A h \in Handlers : \A a \in Seq(Attribute) :
            /\ WithAttrs(h, a) \in Handlers
            /\ h.kind = "route" => WithAttrs(h, a).kind = "route"
            /\ Tags(WithAttrs(h, a)) = Tags(h)
<1> DEFINE Kept(h, d) == d \in Handlers /\ (h.kind = "route" => d.kind = "route")
                         /\ Tags(d) = Tags(h)
           T == {h \in Handlers : \A a \in Seq(Attribute) : Kept(h, WithAttrs(h, a))}
<1>1. ASSUME NEW h \in Handlers, Kids(h) \subseteq T PROVE h \in T
  <2> SUFFICES ASSUME NEW a \in Seq(Attribute) PROVE Kept(h, WithAttrs(h, a))
    OBVIOUS
  <2>1. Passed(h, a) \in Seq(Attribute)
    BY MarkedAttrs DEF Passed
  <2>2. PICK D : D = [c \in Kids(h) |-> WithAttrs(c, Passed(h, a))]
    OBVIOUS
  <2>3. \A c \in Kids(h) : D[c] = WithAttrs(c, Passed(h, a)) /\ Kept(c, D[c])
    BY <1>1, <2>1, <2>2
  <2>4. /\ WithAttrs(h, a) \in Handlers
        /\ Rebuilt(h, WithAttrs(h, a), D)
        /\ h.kind = "route" => WithAttrs(h, a).kind = "route"
    BY <2>3, AttrsRebuild
  <2>5. \A c \in Kids(h) : Tags(D[c]) = Tags(c)
    BY <2>3
  <2>6. Tags(WithAttrs(h, a)) = Tags(h)
    BY <2>4, <2>5, SameTags
  <2> QED
    BY <2>4, <2>6
<1> HIDE DEF T
<1>2. T = Handlers
  BY <1>1, KidsInduction DEF T
<1> QED
  BY <1>2 DEF T

(* The same, as it is used once the derived handlers are known to be       *)
(* handlers.                                                               *)
LEMMA AttrsRebuilt ==
  ASSUME Recursion, NEW h \in Handlers, NEW a \in Seq(Attribute), NEW D,
         D = [c \in Kids(h) |-> WithAttrs(c, Passed(h, a))]
  PROVE  /\ Passed(h, a) \in Seq(Attribute) /\ (a \in Addition => Passed(h, a) \in Addition)
         /\ \A c \in Kids(h) : c \in Handlers /\ D[c] = WithAttrs(c, Passed(h, a))
         /\ Rebuilt(h, WithAttrs(h, a), D)
<1>1. Passed(h, a) \in Seq(Attribute) /\ (a \in Addition => Passed(h, a) \in Addition)
  BY MarkedAttrs DEF Passed
<1>2. \A c \in Kids(h) : c \in Handlers /\ D[c] = WithAttrs(c, Passed(h, a))
  BY KidsAreHandlers
<1>3. \A c \in Kids(h) : D[c] \in Handlers /\ (c.kind = "route" => D[c].kind = "route")
  BY <1>1, <1>2, AttrsKeepTheHandlers
<1> QED
  BY <1>1, <1>2, <1>3, AttrsRebuild

-----------------------------------------------------------------------------

(* The sinks behind a route, and whether the route keeps for its           *)
(* predicates, once for every key, what counts of what they write.         *)
Sinks(h) == {n \in Inner(h) : n.kind = "sink"}

Agrees(n) ==
  /\ DistinctKeys(n.attrs)
  /\ Unmarked(n.handler) =>
       \A s \in Sinks(n.handler) : s.groups = n.groups /\ Logged(n.attrs) = Latest(s.attrs)

RoutesAgree(h) == \A n \in Inner(h) : n.kind = "route" => Agrees(n)

(* The sinks of a handler are those of the handlers it has.                *)
LEMMA SinksAre ==
  ASSUME Recursion, NEW h \in Handlers
  PROVE  /\ h.kind = "sink" => Sinks(h) = {h}
         /\ h.kind # "sink" => Sinks(h) = UNION {Sinks(c) : c \in Kids(h)}
<1>1. \A n : n \in Sinks(h) <=> n \in Inner(h) /\ n.kind = "sink"
  BY DEF Sinks
<1>2. \A n : n \in UNION {Sinks(c) : c \in Kids(h)}
               <=> \E c \in Kids(h) : n \in Inner(c) /\ n.kind = "sink"
  BY DEF Sinks
<1>3. h.kind = "sink" => Kids(h) = {}
  BY DEF Kids
<1>4. h.kind = "sink" => Inner(h) = {h}
  BY <1>3, InnerAre
<1>5. h.kind # "sink" =>
        \A n : n \in Inner(h) /\ n.kind = "sink" <=> \E c \in Kids(h) : n \in Inner(c) /\ n.kind = "sink"
  BY InnerAre
<1> QED
  BY <1>1, <1>2, <1>4, <1>5

(* The sinks of a rebuilt handler are those of what became of the handlers *)
(* it had.                                                                 *)
LEMMA SinksRebuilt ==
  ASSUME Recursion, NEW h \in Handlers, h.kind # "sink", NEW d \in Handlers, NEW D, Rebuilt(h, d, D)
  PROVE  \A s : s \in Sinks(d) <=> \E c \in Kids(h) : s \in Sinks(D[c])
<1>1. CASE /\ h.kind = "fanout"
           /\ Inner(d) = UNION {Inner(D[c]) : c \in Kids(h)}
  BY <1>1 DEF Sinks
<1>2. CASE /\ h.kind # "fanout" /\ Tag(d) = Tag(h)
           /\ Kids(d) = {D[c] : c \in Kids(h)}
  <2>1. d.kind # "sink"
    BY <1>2 DEF Tag
  <2> QED
    BY <1>2, <2>1, SinksAre
<1> QED
  BY <1>1, <1>2 DEF Rebuilt

(* The routes of a rebuilt handler agree with their sinks if all those in  *)
(* it do.                                                                  *)
LEMMA RoutesAgreeRebuilt ==
  ASSUME Recursion, NEW h \in Handlers, NEW d \in Handlers, NEW D, Rebuilt(h, d, D),
         h.kind = "route" => Agrees(d), \A c \in Kids(h) : RoutesAgree(D[c])
  PROVE  RoutesAgree(d)
<1>1. CASE /\ h.kind = "fanout"
           /\ Inner(d) = UNION {Inner(D[c]) : c \in Kids(h)}
  BY <1>1 DEF RoutesAgree
<1>2. CASE /\ h.kind # "fanout" /\ Tag(d) = Tag(h)
           /\ Kids(d) = {D[c] : c \in Kids(h)}
  <2>1. d.kind = h.kind
    BY <1>2 DEF Tag
  <2>2. \A n \in Inner(d) : n = d \/ \E c \in Kids(h) : n \in Inner(D[c])
    BY <1>2, <2>1, InnerAre
  <2> QED
    BY <2>1, <2>2 DEF RoutesAgree
<1> QED
  BY <1>1, <1>2 DEF Rebuilt

(* If the routes of a handler agree, so do those of the handlers it has.   *)
LEMMA RoutesAgreeBelow ==
  ASSUME Recursion, NEW h \in Handlers, RoutesAgree(h)
  PROVE  /\ h.kind = "route" => Agrees(h)
         /\ \A c \in Kids(h) : RoutesAgree(c)
<1>1. /\ h.kind = "route" => h \in Inner(h)
      /\ \A c \in Kids(h) : Inner(c) \subseteq Inner(h)
  BY InnerAre
<1> QED
  BY <1>1 DEF RoutesAgree

(* The tags tell whether a middleware adds anything.                       *)
LEMMA UnmarkedIsTagged ==
  ASSUME NEW h
  PROVE  Unmarked(h) <=> \A t \in Tags(h) : t.kind = "middleware" => t.hooks \subseteq {"Enabled"}
<1>1. \A n : Tag(n).kind = n.kind /\ (n.kind = "middleware" => Tag(n).hooks = n.hooks)
  BY DEF Tag
<1>2. \A t : t \in Tags(h) <=> \E n \in Nodes(h) : n.kind # "fanout" /\ t = Tag(n)
  BY DEF Tags, Inner
<1> QED
  BY <1>1, <1>2 DEF Unmarked

(* If nothing in a handler adds anything, nothing in those it has does.    *)
LEMMA UnmarkedBelow ==
  ASSUME Recursion, NEW h \in Handlers, Unmarked(h)
  PROVE  /\ h.kind = "middleware" => h.hooks \subseteq {"Enabled"}
         /\ \A c \in Kids(h) : Unmarked(c)
<1>1. h \in Nodes(h) /\ \A c \in Kids(h) : Nodes(c) \subseteq Nodes(h)
  BY NodesAre
<1> QED
  BY <1>1 DEF Unmarked

(* Every sink behind handlers that add nothing gets the attributes.        *)
LEMMA AttrsReachSinks ==
  ASSUME Recursion
  PROVE  \A h \in Handlers : Unmarked(h) =>
            \A a \in Seq(Attribute) : \A s \in Sinks(WithAttrs(h, a)) :
               \E was \in Sinks(h) : s = SinkWithAttrs(was, a)
<1> DEFINE Reached(h, a) == \A s \in Sinks(WithAttrs(h, a)) :
                               \E was \in Sinks(h) : s = SinkWithAttrs(was, a)
           T == {h \in Handlers : Unmarked(h) => \A a \in Seq(Attribute) : Reached(h, a)}
<1>1. ASSUME NEW h \in Handlers, Kids(h) \subseteq T PROVE h \in T
  <2> SUFFICES ASSUME Unmarked(h), NEW a \in Seq(Attribute) PROVE Reached(h, a)
    OBVIOUS
  <2>1. CASE h.kind = "sink"
    <3>1. WithAttrs(h, a) = SinkWithAttrs(h, a)
      BY <2>1 DEF Recursion, DynamicDispatch, WithAttrsOf
    <3>2. SinkWithAttrs(h, a).kind = "sink"
      BY <2>1, Typed DEF SinkWithAttrs
    <3>3. Sinks(h) = {h} /\ Sinks(WithAttrs(h, a)) = {SinkWithAttrs(h, a)}
      BY <2>1, <3>1, <3>2, AttrsKeepTheHandlers, SinksAre
    <3> QED
      BY <3>3
  <2>2. CASE h.kind # "sink"
    <3>1. PICK D : D = [c \in Kids(h) |-> WithAttrs(c, Passed(h, a))]
      OBVIOUS
    <3>2. /\ \A c \in Kids(h) : c \in Handlers /\ D[c] = WithAttrs(c, Passed(h, a))
          /\ Rebuilt(h, WithAttrs(h, a), D)
      BY <3>1, AttrsRebuilt
    <3>3. Passed(h, a) = a /\ \A c \in Kids(h) : Unmarked(c)
      BY UnmarkedBelow DEF Passed
    <3>4. \A c \in Kids(h) : D[c] = WithAttrs(c, a) /\ Reached(c, a)
      BY <1>1, <3>2, <3>3
    <3>5. \A s : s \in Sinks(WithAttrs(h, a)) <=> \E c \in Kids(h) : s \in Sinks(D[c])
      BY <2>2, <3>2, AttrsKeepTheHandlers, SinksRebuilt
    <3>6. \A c \in Kids(h) : Sinks(c) \subseteq Sinks(h)
      BY <2>2, SinksAre
    <3> QED
      BY <3>4, <3>5, <3>6
  <2> QED
    BY <2>1, <2>2
<1> HIDE DEF T
<1>2. T = Handlers
  BY <1>1, KidsInduction DEF T
<1> QED
  BY <1>2 DEF T

(* The sinks are handlers of the user.                                     *)
LEMMA SinksAreTyped ==
  ASSUME Recursion, NEW h \in Handlers, NEW s \in Sinks(h)
  PROVE  s \in [kind : {"sink"}, name : STRING, groups : Seq(STRING), attrs : Seq(Attribute)]
BY NodesAreHandlers, Typed DEF Sinks, Inner

(* A route keeps what is written behind it when it derives.                *)
LEMMA RouteAgreesWithAttrs ==
  ASSUME Recursion, NEW h \in RoutesTo(Handlers), Agrees(h), NEW a \in Addition
  PROVE  Agrees(WithAttrs(h, a))
<1>0. a \in Seq(Attribute)
  BY AdditionIs
<1>1. h \in Handlers /\ h.kind = "route" /\ h.handler \in Handlers
  BY RoutesAreHandlers DEF RoutesTo
<1>2. PICK d : d = WithAttrs(h, a)
  OBVIOUS
<1>3. d = [h EXCEPT !.handler = WithAttrs(@, a), !.attrs = AppendAttrsToGroup(h.groups, @, a)]
  BY <1>1, <1>2 DEF Recursion, DynamicDispatch, WithAttrsOf, RoutableWithAttrs
<1>4. /\ d.groups = h.groups /\ d.handler = WithAttrs(h.handler, a)
      /\ d.attrs = AppendAttrsToGroup(h.groups, h.attrs, a)
  BY <1>3 DEF RoutesTo
<1>5. h.groups \in Seq(STRING) /\ h.attrs \in Seq(Attribute) /\ DistinctKeys(h.attrs)
  BY DEF RoutesTo, Agrees
<1>6. ASSUME Unmarked(d.handler), NEW s \in Sinks(d.handler)
      PROVE  s.groups = d.groups /\ Logged(d.attrs) = Latest(s.attrs)
  <2>1. Unmarked(h.handler)
    <3>1. Tags(d.handler) = Tags(h.handler)
      BY <1>0, <1>1, <1>4, AttrsKeepTheHandlers
    <3> QED
      BY <1>6, <3>1, UnmarkedIsTagged
  <2>2. PICK was \in Sinks(h.handler) : s = SinkWithAttrs(was, a)
    BY <1>0, <1>1, <1>4, <1>6, <2>1, AttrsReachSinks
  <2>3. was.groups = h.groups /\ Logged(h.attrs) = Latest(was.attrs)
    BY <2>1 DEF Agrees
  <2>4. was \in [kind : {"sink"}, name : STRING, groups : Seq(STRING), attrs : Seq(Attribute)]
    BY <1>1, SinksAreTyped
  <2>5. s.groups = was.groups /\ s.attrs = was.attrs \o NestAll(was.groups, a)
    BY <2>2, <2>4 DEF SinkWithAttrs
  <2>6. Logged(d.attrs) = Latest(was.attrs \o NestAll(h.groups, a))
    BY <1>4, <1>5, <2>3, <2>4, KeptIsLatest
  <2> QED
    BY <1>4, <2>3, <2>5, <2>6
<1>7. DistinctKeys(d.attrs)
  BY <1>4, <1>5, MergedAttrs
<1> QED
  BY <1>2, <1>6, <1>7 DEF Agrees

(* WithAttrs leaves every route in agreement with the sinks behind it.     *)
LEMMA AttrsKeepAgreement ==
  ASSUME Recursion
  PROVE  \A h \in Handlers : RoutesAgree(h) =>
            \A a \in Addition : RoutesAgree(WithAttrs(h, a))
<1> DEFINE T == {h \in Handlers : RoutesAgree(h) =>
                    \A a \in Addition : RoutesAgree(WithAttrs(h, a))}
<1>1. ASSUME NEW h \in Handlers, Kids(h) \subseteq T PROVE h \in T
  <2> SUFFICES ASSUME RoutesAgree(h), NEW a \in Addition PROVE RoutesAgree(WithAttrs(h, a))
    OBVIOUS
  <2>0. a \in Seq(Attribute)
    BY AdditionIs
  <2>1. PICK D : D = [c \in Kids(h) |-> WithAttrs(c, Passed(h, a))]
    OBVIOUS
  <2>2. /\ Passed(h, a) \in Addition
        /\ \A c \in Kids(h) : c \in Handlers /\ D[c] = WithAttrs(c, Passed(h, a))
        /\ Rebuilt(h, WithAttrs(h, a), D)
    BY <2>0, <2>1, AttrsRebuilt
  <2>3. \A c \in Kids(h) : RoutesAgree(D[c])
    BY <1>1, <2>2, RoutesAgreeBelow
  <2>4. h.kind = "route" => Agrees(WithAttrs(h, a))
    <3>1. h.kind = "route" => Agrees(h) /\ h \in RoutesTo(Handlers)
      BY RoutesAgreeBelow, Typed
    <3> QED
      BY <3>1, RouteAgreesWithAttrs
  <2> QED
    BY <2>0, <2>2, <2>3, <2>4, AttrsKeepTheHandlers, RoutesAgreeRebuilt
<1> HIDE DEF T
<1>2. T = Handlers
  BY <1>1, KidsInduction DEF T
<1> QED
  BY <1>2 DEF T

-----------------------------------------------------------------------------

(* Deriving with a group, likewise.                                        *)

Grouped(h, c, word) ==
  IF h.kind = "middleware" /\ "WithGroup" \in h.hooks
  THEN WithAttrs(WithGroup(c, word), Mark) ELSE WithGroup(c, word)

(* The names that name a group.                                            *)
Words == STRING \ {""}

(* A word is a string.                                                     *)
LEMMA AWord ==
  ASSUME NEW word \in Words
  PROVE  word \in STRING
BY DEF Words

(* WithGroup of each type for a name that is not empty, its guard gone.    *)
LEMMA WithGroupIs ==
  ASSUME Recursion, NEW h \in Handlers, NEW word \in Words
  PROVE  /\ h.kind \in {"sink", "inline"} =>
              WithGroup(h, word) = [h EXCEPT !.groups = Append(@, word)]
         /\ h.kind = "fanout" =>
              WithGroup(h, word) = Fanout(MapOver(h.handlers, LAMBDA c : WithGroup(c, word)))
         /\ h.kind = "failover" =>
              WithGroup(h, word) = Failover(MapOver(h.handlers, LAMBDA c : WithGroup(c, word)))
         /\ h.kind = "pool" =>
              WithGroup(h, word) = Pool(h.name, MapOver(h.handlers, LAMBDA c : WithGroup(c, word)))
         /\ h.kind = "route" => WithGroup(h, word) = RoutableWithGroup(h, word)
         /\ h.kind = "route" =>
              WithGroup(h, word) = [h EXCEPT !.handler = WithGroup(@, word),
                                             !.groups = Append(@, word)]
         /\ h.kind = "firstmatch" =>
              WithGroup(h, word) =
                FirstMatchHandler(MapOver(h.handlers, LAMBDA c : RoutableWithGroup(c, word)))
         /\ h.kind = "recovery" =>
              WithGroup(h, word) = RecoverHandlerError(WithGroup(h.handler, word))
         /\ h.kind = "middleware" =>
              WithGroup(h, word) = Middleware(h.hooks, Grouped(h, h.next, word))
<1>1. WithGroup(h, word) = WithGroupOf(h, word)
  BY DEF Recursion, DynamicDispatch
<1>2. word # ""
  BY DEF Words
<1>3. ASSUME h.kind \in {"sink", "inline"}
      PROVE  WithGroupOf(h, word) = [h EXCEPT !.groups = Append(@, word)]
  BY ONLY <1>2, <1>3 DEF WithGroupOf, SinkWithGroup, InlineWithGroup
<1>4. ASSUME h.kind = "fanout"
      PROVE  WithGroupOf(h, word) = Fanout(MapOver(h.handlers, LAMBDA c : WithGroup(c, word)))
  BY ONLY <1>2, <1>4 DEF WithGroupOf, FanoutWithGroup
<1>5. ASSUME h.kind = "failover"
      PROVE  WithGroupOf(h, word) = Failover(MapOver(h.handlers, LAMBDA c : WithGroup(c, word)))
  BY ONLY <1>2, <1>5 DEF WithGroupOf, FailoverWithGroup
<1>6. ASSUME h.kind = "pool"
      PROVE  WithGroupOf(h, word) = Pool(h.name, MapOver(h.handlers, LAMBDA c : WithGroup(c, word)))
  BY ONLY <1>2, <1>6 DEF WithGroupOf, PoolWithGroup
<1>7. ASSUME h.kind = "route"
      PROVE  WithGroupOf(h, word) = RoutableWithGroup(h, word)
  BY ONLY <1>2, <1>7 DEF WithGroupOf
<1>8. RoutableWithGroup(h, word) = [h EXCEPT !.handler = WithGroup(@, word),
                                             !.groups = Append(@, word)]
  BY ONLY <1>2 DEF RoutableWithGroup
<1>9. ASSUME h.kind = "firstmatch"
      PROVE  WithGroupOf(h, word) =
                FirstMatchHandler(MapOver(h.handlers, LAMBDA c : RoutableWithGroup(c, word)))
  BY ONLY <1>2, <1>9 DEF WithGroupOf, FirstMatchWithGroup
<1>10. ASSUME h.kind = "recovery"
       PROVE  WithGroupOf(h, word) = RecoverHandlerError(WithGroup(h.handler, word))
  BY ONLY <1>2, <1>10 DEF WithGroupOf, RecoveryWithGroup
<1>11. ASSUME h.kind = "middleware"
       PROVE  WithGroupOf(h, word) = Middleware(h.hooks, Grouped(h, h.next, word))
  BY ONLY <1>2, <1>11 DEF WithGroupOf, MiddlewareWithGroup, Grouped
<1> QED
  BY <1>1, <1>3, <1>4, <1>5, <1>6, <1>7, <1>8, <1>9, <1>10, <1>11

(* WithGroup rebuilds a handler over what it makes of those it has.        *)
LEMMA GroupRebuild ==
  ASSUME Recursion, NEW h \in Handlers, NEW word \in Words, NEW D,
         \A c \in Kids(h) : /\ D[c] = Grouped(h, c, word) /\ D[c] \in Handlers
                            /\ c.kind = "route" => D[c].kind = "route"
  PROVE  /\ WithGroup(h, word) \in Handlers
         /\ Rebuilt(h, WithGroup(h, word), D)
         /\ h.kind = "route" => WithGroup(h, word).kind = "route"
<1> DEFINE d == WithGroup(h, word)
<1>0. d = WithGroup(h, word) /\ word \in STRING
  BY AWord
<1>00. h.kind # "middleware" => \A c : Grouped(h, c, word) = WithGroup(c, word)
  BY DEF Grouped
<1> HIDE DEF d
<1>1. CASE h.kind = "sink"
  <2>1. h \in [kind : {"sink"}, name : STRING, groups : Seq(STRING), attrs : Seq(Attribute)]
    BY <1>1, Typed
  <2>2. d = [h EXCEPT !.groups = Append(@, word)]
    BY <1>0, <1>1, WithGroupIs
  <2>3. Append(h.groups, word) \in Seq(STRING)
    BY <1>0, <2>1, AppendProperties
  <2>4. d \in UsersHandlers
    BY <2>1, <2>2, <2>3 DEF UsersHandlers
  <2>5. Tag(d) = Tag(h) /\ Kids(h) = {} /\ Kids(d) = {}
    BY <1>1, <2>1, <2>2 DEF Tag, Kids
  <2> QED
    BY <1>1, <2>4, <2>5, HandlersAre DEF Rebuilt, d
<1>2. CASE h.kind = "inline"
  <2>1. h \in [kind : {"inline"}, name : STRING, enabledFunc : BOOLEAN,
               groups : Seq(STRING), attrs : Seq(Attribute)]
    BY <1>2, Typed
  <2>2. d = [h EXCEPT !.groups = Append(@, word)]
    BY <1>0, <1>2, WithGroupIs
  <2>3. Append(h.groups, word) \in Seq(STRING)
    BY <1>0, <2>1, AppendProperties
  <2>4. d \in UsersHandlers
    BY <2>1, <2>2, <2>3 DEF UsersHandlers
  <2>5. Tag(d) = Tag(h) /\ Kids(h) = {} /\ Kids(d) = {}
    BY <1>2, <2>1, <2>2 DEF Tag, Kids
  <2> QED
    BY <1>2, <2>4, <2>5, HandlersAre DEF Rebuilt, d
<1>3. CASE h.kind \in {"fanout", "failover"}
  <2>1. h.handlers \in Seq(Handlers) /\ Kids(h) = Within(h.handlers)
    BY <1>3, Typed DEF Kids
  <2>2. PICK m : m = [i \in DOMAIN h.handlers |-> WithGroup(h.handlers[i], word)]
    OBVIOUS
  <2>3. m = [i \in DOMAIN h.handlers |-> D[h.handlers[i]]]
    <3>1. \A i \in DOMAIN h.handlers : h.handlers[i] \in Kids(h)
      BY <2>1 DEF Within
    <3>2. \A c \in Kids(h) : D[c] = WithGroup(c, word)
      BY <1>00, <1>3
    <3> QED
      BY <2>2, <3>1, <3>2
  <2>4. m \in Seq(Handlers) /\ Within(m) = {D[c] : c \in Kids(h)}
    <3>1. PICK hs \in Seq(Handlers) : hs = h.handlers
      BY <2>1
    <3>2. \A c \in Within(hs) : D[c] \in Handlers
      BY <2>1, <3>1
    <3>3. m = Mapped(D, hs)
      BY <2>3, <3>1 DEF Mapped
    <3>4. /\ Mapped(D, hs) \in Seq(Handlers)
          /\ Within(Mapped(D, hs)) = {D[c] : c \in Within(hs)}
      BY <3>2, MappedIsSeq
    <3> QED
      BY <2>1, <3>1, <3>3, <3>4
  <2>5. CASE h.kind = "fanout"
    <3>1. d = Fanout(m)
      <4>1. d = Fanout(MapOver(h.handlers, LAMBDA c : WithGroup(c, word)))
        BY <1>0, <2>5, WithGroupIs
      <4>2. MapOver(h.handlers, LAMBDA c : WithGroup(c, word)) = m
        BY <2>2 DEF MapOver
      <4> QED
        BY <4>1, <4>2
    <3>2. d \in Handlers /\ Inner(d) = UNION {Inner(x) : x \in Within(m)}
      BY <2>4, <3>1, FanoutOf
    <3>3. UNION {Inner(x) : x \in Within(m)} = UNION {Inner(D[c]) : c \in Kids(h)}
      BY <2>4
    <3> QED
      BY <2>5, <3>2, <3>3 DEF Rebuilt, d
  <2>6. CASE h.kind = "failover"
    <3>1. d = [kind |-> "failover", handlers |-> m]
      <4>1. d = Failover(MapOver(h.handlers, LAMBDA c : WithGroup(c, word)))
        BY <1>0, <2>6, WithGroupIs
      <4> QED
        BY <2>2, <4>1 DEF Failover, MapOver
    <3>2. d \in Handlers
      BY <2>4, <3>1, HandlersAre DEF Over
    <3>3. Tag(d) = Tag(h) /\ Kids(d) = {D[c] : c \in Kids(h)}
      BY <2>4, <2>6, <3>1 DEF Tag, Kids
    <3> QED
      BY <2>6, <3>2, <3>3 DEF Rebuilt, d
  <2> QED
    BY <1>3, <2>5, <2>6
<1>4. CASE h.kind = "pool"
  <2>1. h.handlers \in Seq(Handlers) /\ Kids(h) = Within(h.handlers) /\ h.name \in STRING
    BY <1>4, Typed DEF Kids
  <2>2. PICK m : m = [i \in DOMAIN h.handlers |-> WithGroup(h.handlers[i], word)]
    OBVIOUS
  <2>3. m = [i \in DOMAIN h.handlers |-> D[h.handlers[i]]]
    <3>1. \A i \in DOMAIN h.handlers : h.handlers[i] \in Kids(h)
      BY <2>1 DEF Within
    <3>2. \A c \in Kids(h) : D[c] = WithGroup(c, word)
      BY <1>00, <1>4
    <3> QED
      BY <2>2, <3>1, <3>2
  <2>4. m \in Seq(Handlers) /\ Within(m) = {D[c] : c \in Kids(h)}
    <3>1. PICK hs \in Seq(Handlers) : hs = h.handlers
      BY <2>1
    <3>2. \A c \in Within(hs) : D[c] \in Handlers
      BY <2>1, <3>1
    <3>3. m = Mapped(D, hs)
      BY <2>3, <3>1 DEF Mapped
    <3>4. /\ Mapped(D, hs) \in Seq(Handlers)
          /\ Within(Mapped(D, hs)) = {D[c] : c \in Within(hs)}
      BY <3>2, MappedIsSeq
    <3> QED
      BY <2>1, <3>1, <3>3, <3>4
  <2>5. d = [kind |-> "pool", name |-> h.name, handlers |-> m]
    <3>1. d = Pool(h.name, MapOver(h.handlers, LAMBDA c : WithGroup(c, word)))
      BY <1>0, <1>4, WithGroupIs
    <3> QED
      BY <2>2, <3>1 DEF Pool, MapOver
  <2>6. d \in Handlers
    BY <2>1, <2>4, <2>5, HandlersAre DEF Over
  <2>7. Tag(d) = Tag(h) /\ Kids(d) = {D[c] : c \in Kids(h)}
    BY <1>4, <2>4, <2>5 DEF Tag, Kids
  <2> QED
    BY <1>4, <2>6, <2>7 DEF Rebuilt, d
<1>5. CASE h.kind = "route"
  <2>1. h \in RoutesTo(Handlers) /\ Kids(h) = {h.handler}
    BY <1>5, Typed DEF Kids
  <2>2. PICK new : new = Append(h.groups, word)
    OBVIOUS
  <2>3. d = [h EXCEPT !.handler = D[h.handler], !.groups = new]
    <3>1. d = [h EXCEPT !.handler = WithGroup(@, word), !.groups = Append(@, word)]
      BY <1>0, <1>5, WithGroupIs
    <3>2. D[h.handler] = WithGroup(h.handler, word)
      BY <1>00, <1>5, <2>1
    <3> QED
      BY <2>1, <2>2, <3>1, <3>2 DEF RoutesTo
  <2>4. new \in Seq(STRING) /\ D[h.handler] \in Handlers
    BY <1>0, <2>1, <2>2, AppendProperties DEF RoutesTo
  <2>5. d \in RoutesTo(Handlers)
    <3>1. PICK next \in Handlers : next = D[h.handler]
      BY <2>4
    <3>2. d = [h EXCEPT !.handler = next, !.groups = new]
      BY <2>3, <3>1
    <3> QED
      BY <2>1, <2>4, <3>2 DEF RoutesTo
  <2>6. Tag(d) = Tag(h) /\ Kids(d) = {D[c] : c \in Kids(h)} /\ d.kind = "route"
    <3>1. d.kind = "route" /\ d.handler = D[h.handler]
      BY <1>5, <2>1, <2>3 DEF RoutesTo
    <3> QED
      BY <1>5, <2>1, <3>1 DEF Tag, Kids
  <2> QED
    BY <1>5, <2>5, <2>6, RoutesAreHandlers DEF Rebuilt, d
<1>6. CASE h.kind = "firstmatch"
  <2>1. h.handlers \in Seq(RoutesTo(Handlers)) /\ Kids(h) = Within(h.handlers)
    BY <1>6, Typed DEF Kids
  <2>2. PICK m : m = [i \in DOMAIN h.handlers |-> RoutableWithGroup(h.handlers[i], word)]
    OBVIOUS
  <2>3. \A c \in Kids(h) : c.kind = "route"
    <3>1. \A i \in DOMAIN h.handlers : h.handlers[i] \in RoutesTo(Handlers)
      BY <2>1, LenProperties, ElementOfSeq
    <3>2. \A c \in RoutesTo(Handlers) : c.kind = "route"
      BY DEF RoutesTo
    <3> QED
      BY <2>1, <3>1, <3>2 DEF Within
  <2>4. \A c \in Kids(h) : D[c] = RoutableWithGroup(c, word) /\ D[c] \in RoutesTo(Handlers)
    <3> TAKE c \in Kids(h)
    <3>1. c.kind = "route"
      BY <2>3
    <3>2. WithGroup(c, word) = RoutableWithGroup(c, word)
      BY <3>1, KidsAreHandlers, WithGroupIs
    <3>3. D[c] = WithGroup(c, word) /\ D[c] \in Handlers /\ D[c].kind = "route"
      BY <1>00, <1>6, <3>1
    <3>4. D[c] \in RoutesTo(Handlers)
      BY <3>3, Typed
    <3> QED
      BY <3>1, <3>2, <3>3, <3>4
  <2>5. m = [i \in DOMAIN h.handlers |-> D[h.handlers[i]]]
    BY <2>1, <2>2, <2>4 DEF Within
  <2>6. m \in Seq(RoutesTo(Handlers)) /\ Within(m) = {D[c] : c \in Kids(h)}
    <3>1. PICK hs \in Seq(RoutesTo(Handlers)) : hs = h.handlers
      BY <2>1
    <3>2. \A c \in Within(hs) : D[c] \in RoutesTo(Handlers)
      BY <2>1, <2>4, <3>1
    <3>3. m = Mapped(D, hs)
      BY <2>5, <3>1 DEF Mapped
    <3>4. /\ Mapped(D, hs) \in Seq(RoutesTo(Handlers))
          /\ Within(Mapped(D, hs)) = {D[c] : c \in Within(hs)}
      BY <3>2, MappedIsSeq
    <3> QED
      BY <2>1, <3>1, <3>3, <3>4
  <2>7. d = [kind |-> "firstmatch", handlers |-> m]
    <3>1. d = FirstMatchHandler(MapOver(h.handlers, LAMBDA c : RoutableWithGroup(c, word)))
      BY <1>0, <1>6, WithGroupIs
    <3> QED
      BY <2>2, <3>1 DEF FirstMatchHandler, MapOver
  <2>8. d \in Handlers
    BY <2>6, <2>7, HandlersAre DEF Over
  <2>9. Tag(d) = Tag(h) /\ Kids(d) = {D[c] : c \in Kids(h)}
    BY <1>6, <2>6, <2>7 DEF Tag, Kids
  <2> QED
    BY <1>6, <2>8, <2>9 DEF Rebuilt, d
<1>7. CASE h.kind = "recovery"
  <2>1. Kids(h) = {h.handler}
    BY <1>7 DEF Kids
  <2>2. d = [kind |-> "recovery", handler |-> D[h.handler]]
    <3>1. d = RecoverHandlerError(WithGroup(h.handler, word))
      BY <1>0, <1>7, WithGroupIs
    <3>2. D[h.handler] = WithGroup(h.handler, word)
      BY <1>00, <1>7, <2>1
    <3> QED
      BY <3>1, <3>2 DEF RecoverHandlerError
  <2>3. d \in Handlers
    BY <2>1, <2>2, HandlersAre DEF Over
  <2>4. Tag(d) = Tag(h) /\ Kids(d) = {D[c] : c \in Kids(h)}
    BY <1>7, <2>1, <2>2 DEF Tag, Kids
  <2> QED
    BY <1>7, <2>3, <2>4 DEF Rebuilt, d
<1>8. CASE h.kind = "middleware"
  <2>1. Kids(h) = {h.next} /\ h.hooks \in SUBSET Methods
    BY <1>8, Typed DEF Kids
  <2>2. d = [kind |-> "middleware", hooks |-> h.hooks, next |-> D[h.next]]
    <3>1. d = Middleware(h.hooks, Grouped(h, h.next, word))
      BY <1>0, <1>8, WithGroupIs
    <3>2. D[h.next] = Grouped(h, h.next, word)
      BY <2>1
    <3> QED
      BY <1>8, <3>1, <3>2 DEF Middleware
  <2>3. d \in Handlers
    BY <2>1, <2>2, HandlersAre DEF Over
  <2>4. Tag(d) = Tag(h) /\ Kids(d) = {D[c] : c \in Kids(h)}
    BY <1>8, <2>1, <2>2 DEF Tag, Kids
  <2> QED
    BY <1>8, <2>3, <2>4 DEF Rebuilt, d
<1> QED
  BY <1>1, <1>2, <1>3, <1>4, <1>5, <1>6, <1>7, <1>8, Typed

(* For the empty name WithGroup returns the handler itself.                *)
LEMMA NoName ==
  ASSUME Recursion, NEW h \in Handlers
  PROVE  WithGroup(h, "") = h
<1>1. WithGroup(h, "") = WithGroupOf(h, "")
  BY DEF Recursion, DynamicDispatch
<1>2. CASE h.kind \in {"sink", "inline", "fanout", "failover", "pool"}
  BY <1>1, <1>2 DEF WithGroupOf, SinkWithGroup, InlineWithGroup, FanoutWithGroup,
                    FailoverWithGroup, PoolWithGroup
<1>3. CASE h.kind \in {"route", "firstmatch", "recovery", "middleware"}
  BY <1>1, <1>3 DEF WithGroupOf, RoutableWithGroup, FirstMatchWithGroup, RecoveryWithGroup,
                    MiddlewareWithGroup
<1> QED
  BY <1>2, <1>3, Typed

GroupedSink(s, word) == [s EXCEPT !.groups = Append(@, word)]

(* WithGroup keeps the handlers that the user named, wrappers included.    *)
LEMMA GroupKeepsTheHandlers ==
  ASSUME Recursion
  PROVE  \A h \in Handlers : \A word \in STRING :
            /\ WithGroup(h, word) \in Handlers
            /\ h.kind = "route" => WithGroup(h, word).kind = "route"
            /\ Tags(WithGroup(h, word)) = Tags(h)
<1> DEFINE Kept(h, d) == d \in Handlers /\ (h.kind = "route" => d.kind = "route")
                         /\ Tags(d) = Tags(h)
           T == {h \in Handlers : \A word \in STRING : Kept(h, WithGroup(h, word))}
<1>1. ASSUME NEW h \in Handlers, Kids(h) \subseteq T PROVE h \in T
  <2> SUFFICES ASSUME NEW word \in Words PROVE Kept(h, WithGroup(h, word))
    BY NoName DEF Words
  <2>1. PICK D : D = [c \in Kids(h) |-> Grouped(h, c, word)]
    OBVIOUS
  <2>2. ASSUME NEW c \in Kids(h) PROVE D[c] = Grouped(h, c, word) /\ Kept(c, D[c])
    <3>1. Kept(c, WithGroup(c, word))
      BY <1>1, AWord
    <3>2. Kept(WithGroup(c, word), WithAttrs(WithGroup(c, word), Mark))
      BY <3>1, MarkIsAttrs, AttrsKeepTheHandlers
    <3> QED
      BY <2>1, <3>1, <3>2 DEF Grouped
  <2>3. /\ WithGroup(h, word) \in Handlers
        /\ Rebuilt(h, WithGroup(h, word), D)
        /\ h.kind = "route" => WithGroup(h, word).kind = "route"
    BY <2>2, GroupRebuild
  <2>4. \A c \in Kids(h) : Tags(D[c]) = Tags(c)
    BY <2>2
  <2>5. Tags(WithGroup(h, word)) = Tags(h)
    BY <2>3, <2>4, SameTags
  <2> QED
    BY <2>3, <2>5
<1> HIDE DEF T
<1>2. T = Handlers
  BY <1>1, KidsInduction DEF T
<1> QED
  BY <1>2 DEF T

(* The same, as it is used once the derived handlers are known to be       *)
(* handlers.                                                               *)
LEMMA GroupRebuilt ==
  ASSUME Recursion, NEW h \in Handlers, NEW word \in Words, NEW D,
         D = [c \in Kids(h) |-> Grouped(h, c, word)]
  PROVE  /\ \A c \in Kids(h) : /\ c \in Handlers /\ WithGroup(c, word) \in Handlers
                               /\ D[c] = Grouped(h, c, word)
         /\ Rebuilt(h, WithGroup(h, word), D)
<1>1. \A c \in Kids(h) : c \in Handlers /\ D[c] = Grouped(h, c, word)
  BY KidsAreHandlers
<1>2. \A c \in Kids(h) : WithGroup(c, word) \in Handlers
                        /\ (c.kind = "route" => WithGroup(c, word).kind = "route")
  BY <1>1, AWord, GroupKeepsTheHandlers
<1>3. \A c \in Kids(h) : D[c] \in Handlers /\ (c.kind = "route" => D[c].kind = "route")
  BY <1>1, <1>2, MarkIsAttrs, AttrsKeepTheHandlers DEF Grouped
<1> QED
  BY <1>1, <1>2, <1>3, GroupRebuild

(* Every sink behind handlers that add nothing gets the group.             *)
LEMMA GroupReachesSinks ==
  ASSUME Recursion
  PROVE  \A h \in Handlers : Unmarked(h) =>
            \A word \in Words : \A s \in Sinks(WithGroup(h, word)) :
               \E was \in Sinks(h) : s = GroupedSink(was, word)
<1> DEFINE Reached(h, word) == \A s \in Sinks(WithGroup(h, word)) :
                               \E was \in Sinks(h) : s = GroupedSink(was, word)
           T == {h \in Handlers : Unmarked(h) => \A word \in Words : Reached(h, word)}
<1>1. ASSUME NEW h \in Handlers, Kids(h) \subseteq T PROVE h \in T
  <2> SUFFICES ASSUME Unmarked(h), NEW word \in Words PROVE Reached(h, word)
    OBVIOUS
  <2>1. CASE h.kind = "sink"
    <3>1. WithGroup(h, word) = GroupedSink(h, word)
      BY <2>1, WithGroupIs DEF GroupedSink
    <3>2. GroupedSink(h, word).kind = "sink"
      BY <2>1, Typed DEF GroupedSink
    <3>3. Sinks(h) = {h} /\ Sinks(WithGroup(h, word)) = {GroupedSink(h, word)}
      BY <2>1, <3>1, <3>2, AWord, GroupKeepsTheHandlers, SinksAre
    <3> QED
      BY <3>3
  <2>2. CASE h.kind # "sink"
    <3>1. PICK D : D = [c \in Kids(h) |-> Grouped(h, c, word)]
      OBVIOUS
    <3>2. /\ \A c \in Kids(h) : c \in Handlers /\ D[c] = Grouped(h, c, word)
          /\ Rebuilt(h, WithGroup(h, word), D)
      BY <3>1, GroupRebuilt
    <3>3. /\ \A c : Grouped(h, c, word) = WithGroup(c, word)
          /\ \A c \in Kids(h) : Unmarked(c)
      BY UnmarkedBelow DEF Grouped
    <3>4. \A c \in Kids(h) : D[c] = WithGroup(c, word) /\ Reached(c, word)
      BY <1>1, <3>2, <3>3
    <3>5. \A s : s \in Sinks(WithGroup(h, word)) <=> \E c \in Kids(h) : s \in Sinks(D[c])
      BY <2>2, <3>2, AWord, GroupKeepsTheHandlers, SinksRebuilt
    <3>6. \A c \in Kids(h) : Sinks(c) \subseteq Sinks(h)
      BY <2>2, SinksAre
    <3> QED
      BY <3>4, <3>5, <3>6
  <2> QED
    BY <2>1, <2>2
<1> HIDE DEF T
<1>2. T = Handlers
  BY <1>1, KidsInduction DEF T
<1> QED
  BY <1>2 DEF T

(* A route that agrees with its sinks does so after WithGroup.             *)
LEMMA RouteAgreesWithGroup ==
  ASSUME Recursion, NEW h \in RoutesTo(Handlers), Agrees(h), NEW word \in Words
  PROVE  Agrees(WithGroup(h, word))
<1>1. h \in Handlers /\ h.kind = "route" /\ h.handler \in Handlers
  BY RoutesAreHandlers DEF RoutesTo
<1>2. PICK d : d = WithGroup(h, word)
  OBVIOUS
<1>3. d = [h EXCEPT !.handler = WithGroup(@, word), !.groups = Append(@, word)]
  BY <1>1, <1>2, WithGroupIs
<1>4. /\ d.attrs = h.attrs /\ d.handler = WithGroup(h.handler, word)
      /\ d.groups = Append(h.groups, word)
  BY <1>3 DEF RoutesTo
<1>6. ASSUME Unmarked(d.handler), NEW s \in Sinks(d.handler)
      PROVE  s.groups = d.groups /\ Logged(d.attrs) = Latest(s.attrs)
  <2>1. Unmarked(h.handler)
    <3>1. Tags(d.handler) = Tags(h.handler)
      BY <1>1, <1>4, AWord, GroupKeepsTheHandlers
    <3> QED
      BY <1>6, <3>1, UnmarkedIsTagged
  <2>2. PICK was \in Sinks(h.handler) : s = GroupedSink(was, word)
    BY <1>1, <1>4, <1>6, <2>1, GroupReachesSinks
  <2>3. was.groups = h.groups /\ Logged(h.attrs) = Latest(was.attrs)
    BY <2>1 DEF Agrees
  <2>4. was \in [kind : {"sink"}, name : STRING, groups : Seq(STRING), attrs : Seq(Attribute)]
    BY <1>1, SinksAreTyped
  <2>5. s.groups = Append(was.groups, word) /\ s.attrs = was.attrs
    BY <2>2, <2>4 DEF GroupedSink
  <2> QED
    BY <1>4, <2>3, <2>5
<1>7. DistinctKeys(d.attrs)
  BY <1>4 DEF Agrees
<1> QED
  BY <1>2, <1>6, <1>7 DEF Agrees

(* WithGroup leaves every route in agreement with the sinks behind it.     *)
LEMMA GroupKeepsAgreement ==
  ASSUME Recursion
  PROVE  \A h \in Handlers : RoutesAgree(h) =>
            \A word \in STRING : RoutesAgree(WithGroup(h, word))
<1> DEFINE T == {h \in Handlers : RoutesAgree(h) =>
                    \A word \in STRING : RoutesAgree(WithGroup(h, word))}
<1>1. ASSUME NEW h \in Handlers, Kids(h) \subseteq T PROVE h \in T
  <2> SUFFICES ASSUME RoutesAgree(h), NEW word \in Words
               PROVE RoutesAgree(WithGroup(h, word))
    BY NoName DEF Words
  <2>1. PICK D : D = [c \in Kids(h) |-> Grouped(h, c, word)]
    OBVIOUS
  <2>2. /\ \A c \in Kids(h) : /\ c \in Handlers /\ WithGroup(c, word) \in Handlers
                              /\ D[c] = Grouped(h, c, word)
        /\ Rebuilt(h, WithGroup(h, word), D)
    BY <2>1, GroupRebuilt
  <2>3. ASSUME NEW c \in Kids(h) PROVE RoutesAgree(D[c])
    <3>1. RoutesAgree(WithGroup(c, word))
      BY <1>1, AWord, RoutesAgreeBelow
    <3>2. RoutesAgree(WithAttrs(WithGroup(c, word), Mark))
      BY <2>2, <3>1, MarkIsAttrs, AttrsKeepAgreement
    <3> QED
      BY <2>2, <3>1, <3>2 DEF Grouped
  <2>4. h.kind = "route" => Agrees(WithGroup(h, word))
    <3>1. h.kind = "route" => Agrees(h) /\ h \in RoutesTo(Handlers)
      BY RoutesAgreeBelow, Typed
    <3> QED
      BY <3>1, RouteAgreesWithGroup
  <2> QED
    BY <2>2, <2>3, <2>4, AWord, GroupKeepsTheHandlers, RoutesAgreeRebuilt
<1> HIDE DEF T
<1>2. T = Handlers
  BY <1>1, KidsInduction DEF T
<1> QED
  BY <1>2 DEF T

-----------------------------------------------------------------------------

(* The constructors.                                                       *)

Built(h, c) == IF h.kind = "firstmatch" THEN [Build(c) EXCEPT !.skipPredicates = TRUE] ELSE Build(c)

(* FirstMatch sets a flag in its routes and changes nothing else.          *)
LEMMA Skipping ==
  ASSUME NEW r \in RoutesTo(Handlers)
  PROVE  /\ [r EXCEPT !.skipPredicates = TRUE] \in RoutesTo(Handlers)
         /\ Tag([r EXCEPT !.skipPredicates = TRUE]) = Tag(r)
         /\ Kids([r EXCEPT !.skipPredicates = TRUE]) = Kids(r)
<1>1. PICK s : s = [r EXCEPT !.skipPredicates = TRUE]
  OBVIOUS
<1>2. s \in RoutesTo(Handlers)
  BY <1>1 DEF RoutesTo
<1>3. s.kind = "route" /\ r.kind = "route" /\ s.handler = r.handler
  BY <1>1 DEF RoutesTo
<1>4. Tag(s) = Tag(r) /\ Kids(s) = Kids(r)
  BY <1>3 DEF Tag, Kids
<1> QED
  BY <1>1, <1>2, <1>4

(* The constructors rebuild a composition over what they make of its       *)
(* parts.                                                                  *)
LEMMA BuildRebuild ==
  ASSUME Recursion, NEW h \in Handlers, NEW D,
         \A c \in Kids(h) : /\ D[c] = Built(h, c) /\ D[c] \in Handlers
                            /\ c.kind = "route" => D[c].kind = "route"
  PROVE  /\ Build(h) \in Handlers
         /\ Rebuilt(h, Build(h), D)
         /\ h.kind = "route" => Build(h).kind = "route"
         /\ h.kind \in {"sink", "inline", "route"} =>
              Build(h).groups = h.groups /\ Build(h).attrs = h.attrs
<1> DEFINE d == Build(h)
<1>0. d = BuildOf(h)
  BY DEF Recursion
<1>00. h.kind # "firstmatch" => \A c : Built(h, c) = Build(c)
  BY DEF Built
<1> HIDE DEF d
<1>1. CASE h.kind \in {"sink", "inline"}
  <2>1. d = h /\ Kids(h) = {}
    BY <1>0, <1>1 DEF BuildOf, Kids
  <2> QED
    BY <1>1, <2>1 DEF Rebuilt, d
<1>3. CASE h.kind \in {"fanout", "failover", "pool"}
  <2>1. h.handlers \in Seq(Handlers) /\ Kids(h) = Within(h.handlers)
    BY <1>3, Typed DEF Kids
  <2>2. PICK m : m = [i \in DOMAIN h.handlers |-> Build(h.handlers[i])]
    OBVIOUS
  <2>3. m = [i \in DOMAIN h.handlers |-> D[h.handlers[i]]]
    <3>1. \A i \in DOMAIN h.handlers : h.handlers[i] \in Kids(h)
      BY <2>1 DEF Within
    <3>2. \A c \in Kids(h) : D[c] = Build(c)
      BY <1>00, <1>3
    <3> QED
      BY <2>2, <3>1, <3>2
  <2>4. m \in Seq(Handlers) /\ Within(m) = {D[c] : c \in Kids(h)}
    <3>1. PICK hs \in Seq(Handlers) : hs = h.handlers
      BY <2>1
    <3>2. \A c \in Within(hs) : D[c] \in Handlers
      BY <2>1, <3>1
    <3>3. m = Mapped(D, hs)
      BY <2>3, <3>1 DEF Mapped
    <3>4. m \in Seq(Handlers) /\ Within(m) = {D[c] : c \in Within(hs)}
      BY <3>2, <3>3, MappedIsSeq
    <3> QED
      BY <2>1, <3>1, <3>4
  <2>5. CASE h.kind = "fanout"
    <3>1. d = Fanout(m)
      <4>1. d = Fanout(MapOver(h.handlers, Build))
        BY <1>0, <2>5 DEF BuildOf
      <4> QED
        BY <2>2, <4>1 DEF MapOver
    <3>2. d \in Handlers /\ Inner(d) = UNION {Inner(x) : x \in Within(m)}
      BY <2>4, <3>1, FanoutOf
    <3>3. UNION {Inner(x) : x \in Within(m)} = UNION {Inner(D[c]) : c \in Kids(h)}
      BY <2>4
    <3> QED
      BY <2>5, <3>2, <3>3 DEF Rebuilt, d
  <2>6. CASE h.kind \in {"failover", "pool"}
    <3>1. d = [h EXCEPT !.handlers = m]
      <4>1. d = [h EXCEPT !.handlers = MapOver(@, Build)]
        BY <1>0, <2>6 DEF BuildOf
      <4>2. MapOver(h.handlers, Build) = m
        BY <2>2 DEF MapOver
      <4> QED
        BY <4>1, <4>2
    <3>2. d \in Over(Handlers) /\ Kids(d) = Within(m) /\ Tag(d) = Tag(h)
      <4>1. CASE h.kind = "failover"
        <5>1. h \in [kind : {"fanout", "failover"}, handlers : Seq(Handlers)]
          BY <4>1, Typed
        <5>2. d = [kind |-> "failover", handlers |-> m]
          BY <3>1, <4>1, <5>1
        <5>3. d \in Over(Handlers)
          BY <2>4, <5>2 DEF Over
        <5> QED
          BY <4>1, <5>2, <5>3 DEF Kids, Tag
      <4>2. CASE h.kind = "pool"
        <5>1. h \in [kind : {"pool"}, name : STRING, handlers : Seq(Handlers)]
          BY <4>2, Typed
        <5>2. d = [kind |-> "pool", name |-> h.name, handlers |-> m] /\ h.name \in STRING
          BY <3>1, <4>2, <5>1
        <5>3. d \in Over(Handlers)
          BY <2>4, <5>2 DEF Over
        <5> QED
          BY <4>2, <5>2, <5>3 DEF Kids, Tag
      <4> QED
        BY <2>6, <4>1, <4>2
    <3> QED
      BY <2>4, <2>6, <3>2, HandlersAre DEF Rebuilt, d
  <2> QED
    BY <1>3, <2>5, <2>6
<1>5. CASE h.kind = "route"
  <2>1. h \in RoutesTo(Handlers) /\ Kids(h) = {h.handler}
    BY <1>5, Typed DEF Kids
  <2>2. d = [h EXCEPT !.handler = D[h.handler]] /\ D[h.handler] \in Handlers
    <3>1. d = [h EXCEPT !.handler = Build(@)]
      BY <1>0, <1>5 DEF BuildOf
    <3>2. D[h.handler] = Build(h.handler) /\ D[h.handler] \in Handlers
      BY <1>00, <1>5, <2>1
    <3> QED
      BY <3>1, <3>2
  <2>3. PICK next \in Handlers : next = D[h.handler]
    BY <2>2
  <2>4. d = [h EXCEPT !.handler = next]
    BY <2>2, <2>3
  <2>5. d \in RoutesTo(Handlers)
    BY <2>1, <2>4 DEF RoutesTo
  <2>6. d.kind = "route" /\ d.handler = next /\ d.groups = h.groups /\ d.attrs = h.attrs
    BY <2>1, <2>4 DEF RoutesTo
  <2>7. Tag(d) = Tag(h) /\ Kids(d) = {D[c] : c \in Kids(h)}
    BY <1>5, <2>1, <2>3, <2>6 DEF Tag, Kids
  <2> QED
    BY <1>5, <2>5, <2>6, <2>7, RoutesAreHandlers DEF Rebuilt, d
<1>6. CASE h.kind = "firstmatch"
  <2>1. h.handlers \in Seq(RoutesTo(Handlers)) /\ Kids(h) = Within(h.handlers)
    BY <1>6, Typed DEF Kids
  <2>2. PICK m : m = [i \in DOMAIN h.handlers |->
                         [Build(h.handlers[i]) EXCEPT !.skipPredicates = TRUE]]
    OBVIOUS
  <2>3. \A c \in Kids(h) : c.kind = "route"
    <3>1. \A i \in DOMAIN h.handlers : h.handlers[i] \in RoutesTo(Handlers)
      BY <2>1, LenProperties, ElementOfSeq
    <3>2. \A c \in RoutesTo(Handlers) : c.kind = "route"
      BY DEF RoutesTo
    <3> QED
      BY <2>1, <3>1, <3>2 DEF Within
  <2>4. \A c \in Kids(h) : /\ D[c] = [Build(c) EXCEPT !.skipPredicates = TRUE]
                           /\ D[c] \in RoutesTo(Handlers)
    <3> TAKE c \in Kids(h)
    <3>1. D[c] = [Build(c) EXCEPT !.skipPredicates = TRUE]
      BY <1>6 DEF Built
    <3>2. D[c] \in Handlers /\ D[c].kind = "route"
      BY <2>3
    <3> QED
      BY <3>1, <3>2, Typed
  <2>5. m = [i \in DOMAIN h.handlers |-> D[h.handlers[i]]]
    BY <2>1, <2>2, <2>4 DEF Within
  <2>6. m \in Seq(RoutesTo(Handlers)) /\ Within(m) = {D[c] : c \in Kids(h)}
    <3>1. PICK hs \in Seq(RoutesTo(Handlers)) : hs = h.handlers
      BY <2>1
    <3>2. \A c \in Within(hs) : D[c] \in RoutesTo(Handlers)
      BY <2>1, <2>4, <3>1
    <3>3. m = Mapped(D, hs)
      BY <2>5, <3>1 DEF Mapped
    <3>4. m \in Seq(RoutesTo(Handlers)) /\ Within(m) = {D[c] : c \in Within(hs)}
      BY <3>2, <3>3, MappedIsSeq
    <3> QED
      BY <2>1, <3>1, <3>4
  <2>7. d = [kind |-> "firstmatch", handlers |-> m]
    <3>1. d = FirstMatch(MapOver(h.handlers, Build))
      BY <1>0, <1>6 DEF BuildOf
    <3>2. PICK b : b = [i \in DOMAIN h.handlers |-> Build(h.handlers[i])]
      OBVIOUS
    <3>3. d = FirstMatch(b)
      BY <3>1, <3>2 DEF MapOver
    <3>4. FirstMatch(b) =
            [kind |-> "firstmatch",
             handlers |-> [i \in DOMAIN b |-> [b[i] EXCEPT !.skipPredicates = TRUE]]]
      BY DEF FirstMatch, FirstMatchHandler, MapOver
    <3>5. [i \in DOMAIN b |-> [b[i] EXCEPT !.skipPredicates = TRUE]] = m
      BY <2>2, <3>2
    <3> QED
      BY <3>3, <3>4, <3>5
  <2>8. d \in Handlers
    BY <2>6, <2>7, HandlersAre DEF Over
  <2>9. Tag(d) = Tag(h) /\ Kids(d) = {D[c] : c \in Kids(h)}
    BY <1>6, <2>6, <2>7 DEF Tag, Kids
  <2> QED
    BY <1>6, <2>8, <2>9 DEF Rebuilt, d
<1>7. CASE h.kind = "recovery"
  <2>1. Kids(h) = {h.handler} /\ h \in [kind : {"recovery"}, handler : Handlers]
    BY <1>7, Typed DEF Kids
  <2>2. d = [kind |-> "recovery", handler |-> D[h.handler]]
    <3>1. d = [h EXCEPT !.handler = Build(@)]
      BY <1>0, <1>7 DEF BuildOf
    <3>2. D[h.handler] = Build(h.handler)
      BY <1>00, <1>7, <2>1
    <3> QED
      BY <2>1, <3>1, <3>2
  <2>3. d \in Handlers
    BY <2>1, <2>2, HandlersAre DEF Over
  <2>4. Tag(d) = Tag(h) /\ Kids(d) = {D[c] : c \in Kids(h)}
    BY <1>7, <2>1, <2>2 DEF Tag, Kids
  <2> QED
    BY <1>7, <2>3, <2>4 DEF Rebuilt, d
<1>8. CASE h.kind = "middleware"
  <2>1. /\ Kids(h) = {h.next}
        /\ h \in [kind : {"middleware"}, hooks : SUBSET Methods, next : Handlers]
    BY <1>8, Typed DEF Kids
  <2>2. d = [kind |-> "middleware", hooks |-> h.hooks, next |-> D[h.next]]
    <3>1. d = [h EXCEPT !.next = Build(@)]
      BY <1>0, <1>8 DEF BuildOf
    <3>2. D[h.next] = Build(h.next)
      BY <1>00, <1>8, <2>1
    <3> QED
      BY <2>1, <3>1, <3>2
  <2>3. d \in Handlers
    BY <2>1, <2>2, HandlersAre DEF Over
  <2>4. Tag(d) = Tag(h) /\ Kids(d) = {D[c] : c \in Kids(h)}
    BY <1>8, <2>1, <2>2 DEF Tag, Kids
  <2> QED
    BY <1>8, <2>3, <2>4 DEF Rebuilt, d
<1> QED
  BY <1>1, <1>3, <1>5, <1>6, <1>7, <1>8, Typed

(* Nothing was derived yet.                                                *)
Fresh(h) ==
  \A n \in Inner(h) : n.kind \in {"sink", "inline", "route"} => n.groups = <<>> /\ n.attrs = <<>>

(* A handler is fresh if it and those that it has are.                     *)
LEMMA FreshIs ==
  ASSUME Recursion, NEW h \in Handlers
  PROVE  Fresh(h) <=> /\ h.kind \in {"sink", "inline", "route"} =>
                           h.groups = <<>> /\ h.attrs = <<>>
                      /\ \A c \in Kids(h) : Fresh(c)
<1>1. /\ h.kind = "fanout" => Inner(h) = UNION {Inner(c) : c \in Kids(h)}
      /\ h.kind # "fanout" => Inner(h) = {h} \cup UNION {Inner(c) : c \in Kids(h)}
  BY InnerAre
<1> QED
  BY <1>1 DEF Fresh

(* A fresh handler is rebuilt as a fresh one.                              *)
LEMMA FreshRebuilt ==
  ASSUME Recursion, NEW h \in Handlers, NEW d \in Handlers, NEW D, Rebuilt(h, d, D), Fresh(h),
         h.kind \in {"sink", "inline", "route"} => d.groups = h.groups /\ d.attrs = h.attrs,
         \A c \in Kids(h) : Fresh(D[c])
  PROVE  Fresh(d)
<1>1. CASE /\ h.kind = "fanout"
           /\ Inner(d) = UNION {Inner(D[c]) : c \in Kids(h)}
  BY <1>1 DEF Fresh
<1>2. CASE /\ h.kind # "fanout" /\ Tag(d) = Tag(h)
           /\ Kids(d) = {D[c] : c \in Kids(h)}
  <2>1. d.kind = h.kind
    BY <1>2 DEF Tag
  <2>2. d.kind \in {"sink", "inline", "route"} => d.groups = <<>> /\ d.attrs = <<>>
    BY <2>1, FreshIs
  <2> QED
    BY <1>2, <2>2, FreshIs
<1> QED
  BY <1>1, <1>2 DEF Rebuilt

(* The composition is built of the handlers that the user named.           *)
LEMMA BuildKeepsTheHandlers ==
  ASSUME Recursion
  PROVE  \A h \in Handlers : /\ Build(h) \in Handlers
                             /\ h.kind = "route" => Build(h).kind = "route"
                             /\ Tags(Build(h)) = Tags(h)
                             /\ Fresh(h) => Fresh(Build(h))
<1> DEFINE Kept(h, d) == /\ d \in Handlers /\ (h.kind = "route" => d.kind = "route")
                         /\ Tags(d) = Tags(h)
                         /\ Fresh(h) => Fresh(d)
           T == {h \in Handlers : Kept(h, Build(h))}
<1>1. ASSUME NEW h \in Handlers, Kids(h) \subseteq T PROVE Kept(h, Build(h))
  <2>1. PICK D : D = [c \in Kids(h) |-> Built(h, c)]
    OBVIOUS
  <2>2. ASSUME NEW c \in Kids(h) PROVE D[c] = Built(h, c) /\ Kept(c, D[c])
    <3>1. c \in Handlers /\ Kept(c, Build(c))
      BY <1>1
    <3>2. CASE h.kind = "firstmatch"
      <4>1. c.kind = "route"
        <5>1. h.handlers \in Seq(RoutesTo(Handlers)) /\ Kids(h) = Within(h.handlers)
          BY <3>2, Typed DEF Kids
        <5>2. c \in RoutesTo(Handlers)
          BY <5>1, LenProperties, ElementOfSeq DEF Within
        <5> QED
          BY <5>2 DEF RoutesTo
      <4>2. Build(c) \in RoutesTo(Handlers)
        BY <3>1, <4>1, Typed
      <4>3. PICK s : s = [Build(c) EXCEPT !.skipPredicates = TRUE]
        OBVIOUS
      <4>4. s \in RoutesTo(Handlers) /\ Tag(s) = Tag(Build(c)) /\ Kids(s) = Kids(Build(c))
        BY <4>2, <4>3, Skipping
      <4>5. s.kind = "route" /\ s.groups = Build(c).groups /\ s.attrs = Build(c).attrs
        BY <4>2, <4>3 DEF RoutesTo
      <4>6. Tags(s) = Tags(Build(c))
        <5>1. Build(c).kind = "route"
          BY <3>1, <4>1
        <5> QED
          BY <3>1, <4>4, <4>5, <5>1, RoutesAreHandlers, TagsAre
      <4>7. Fresh(Build(c)) => Fresh(s)
        <5>1. Build(c).kind = "route"
          BY <3>1, <4>1
        <5> QED
          BY <3>1, <4>4, <4>5, <5>1, RoutesAreHandlers, FreshIs
      <4>8. D[c] = s /\ Built(h, c) = s
        BY <2>1, <3>2, <4>3 DEF Built
      <4>9. s \in Handlers
        BY <4>4, RoutesAreHandlers
      <4> QED
        BY <3>1, <4>5, <4>6, <4>7, <4>8, <4>9
    <3>3. CASE h.kind # "firstmatch"
      BY <2>1, <3>1, <3>3 DEF Built
    <3> QED
      BY <3>2, <3>3
  <2> HIDE DEF Kept
  <2>3. \A c \in Kids(h) : /\ D[c] = Built(h, c) /\ D[c] \in Handlers
                           /\ c.kind = "route" => D[c].kind = "route"
    BY <2>2 DEF Kept
  <2>4. /\ Build(h) \in Handlers
        /\ Rebuilt(h, Build(h), D)
        /\ h.kind = "route" => Build(h).kind = "route"
        /\ h.kind \in {"sink", "inline", "route"} =>
             Build(h).groups = h.groups /\ Build(h).attrs = h.attrs
    BY <2>3, BuildRebuild
  <2>5. \A c \in Kids(h) : Tags(D[c]) = Tags(c) /\ (Fresh(c) => Fresh(D[c]))
    BY <2>2 DEF Kept
  <2>6. Tags(Build(h)) = Tags(h)
    BY <2>4, <2>5, SameTags
  <2>7. Fresh(h) => Fresh(Build(h))
    BY <2>4, <2>5, FreshRebuilt, FreshIs
  <2> QED
    BY <2>4, <2>6, <2>7 DEF Kept
<1> HIDE DEF T
<1>2. T = Handlers
  BY <1>1, KidsInduction DEF T
<1> QED
  BY <1>2 DEF T

(* Where nothing was derived, every route agrees with its sinks.           *)
LEMMA FreshAgrees ==
  ASSUME Recursion
  PROVE  \A h \in Handlers : Fresh(h) => RoutesAgree(h)
<1> DEFINE T == {h \in Handlers : Fresh(h) => RoutesAgree(h)}
<1>1. ASSUME NEW h \in Handlers, Kids(h) \subseteq T, Fresh(h) PROVE RoutesAgree(h)
  <2>1. \A c \in Kids(h) : Fresh(c) /\ RoutesAgree(c)
    BY <1>1, FreshIs
  <2>2. ASSUME h.kind = "route" PROVE Agrees(h)
    <3>1. h.groups = <<>> /\ h.attrs = <<>>
      BY <1>1, <2>2, FreshIs
    <3>2. h.handler \in Kids(h)
      BY <2>2 DEF Kids
    <3>3. \A s \in Sinks(h.handler) : s.groups = <<>> /\ s.attrs = <<>>
      BY <2>1, <3>2 DEF Fresh, Sinks
    <3>4. Logged(<<>>) = {} /\ Latest(<<>>) = {} /\ DistinctKeys(<<>>)
      BY DEF Logged, Latest, DistinctKeys
    <3> QED
      BY <3>1, <3>3, <3>4 DEF Agrees
  <2>3. \A n \in Inner(h) : (n = h /\ h.kind # "fanout") \/ \E c \in Kids(h) : n \in Inner(c)
    BY InnerAre
  <2> QED
    BY <2>1, <2>2, <2>3 DEF RoutesAgree
<1>2. ASSUME NEW h \in Handlers, Kids(h) \subseteq T PROVE h \in T
  BY <1>1, <1>2
<1> HIDE DEF T
<1>3. T = Handlers
  BY <1>2, KidsInduction DEF T
<1> QED
  BY <1>3 DEF T

-----------------------------------------------------------------------------

(* Who is enabled.                                                         *)

Says(n, env) == (n.kind = "inline" => n.enabledFunc) => env.mood[n.name] # "off"

(* The leaves of a handler are those of the handlers it has.               *)
LEMMA LeavesAre ==
  ASSUME Recursion, NEW h \in Handlers
  PROVE  /\ h.kind \in {"sink", "inline"} => Leaves(h) = {h}
         /\ h.kind \notin {"sink", "inline"} => Leaves(h) = UNION {Leaves(c) : c \in Kids(h)}
<1>1. \A n : n \in Nodes(h) <=> n = h \/ \E c \in Kids(h) : n \in Nodes(c)
  BY NodesAre
<1>2. \A x : \A n : n \in Leaves(x) <=> n \in Nodes(x) /\ n.kind \in {"sink", "inline"}
  BY DEF Leaves
<1>3. h.kind \in {"sink", "inline"} => Kids(h) = {}
  BY DEF Kids
<1>4. \A n : n \in UNION {Leaves(c) : c \in Kids(h)} <=> \E c \in Kids(h) : n \in Leaves(c)
  OBVIOUS
<1> QED
  BY <1>1, <1>2, <1>3, <1>4

(* If no middleware in a handler answers Enabled, none in those it has     *)
(* does.                                                                   *)
LEMMA TheirsBelow ==
  ASSUME Recursion, NEW h \in Handlers, EnabledIsTheirs(h)
  PROVE  /\ h.kind = "middleware" => "Enabled" \notin h.hooks
         /\ \A c \in Kids(h) : EnabledIsTheirs(c)
<1>1. h \in Nodes(h) /\ \A c \in Kids(h) : Nodes(c) \subseteq Nodes(h)
  BY NodesAre
<1> QED
  BY <1>1 DEF EnabledIsTheirs

(* A composite or a wrapper is enabled if one of those that it has is.     *)
LEMMA EnabledBelow ==
  ASSUME Recursion, NEW h \in Handlers, EnabledIsTheirs(h), NEW env,
         h.kind \notin {"sink", "inline"}
  PROVE  Enabled(h, env) <=> \E c \in Kids(h) : Enabled(c, env)
<1>1. Enabled(h, env) = EnabledOf(h, env)
  BY DEF Recursion, DynamicDispatch
<1>2. CASE h.kind \in {"route", "recovery"}
  <2>1. EnabledOf(h, env) = Enabled(h.handler, env) /\ Kids(h) = {h.handler}
    BY <1>2 DEF EnabledOf, RoutableEnabled, RecoveryEnabled, Kids
  <2> QED
    BY <1>1, <2>1
<1>3. CASE h.kind = "middleware"
  <2>1. EnabledOf(h, env) <=> Enabled(h.next, env)
    BY <1>3, TheirsBelow DEF EnabledOf, MiddlewareEnabled
  <2>2. Kids(h) = {h.next}
    BY <1>3 DEF Kids
  <2> QED
    BY <1>1, <2>1, <2>2
<1>4. CASE h.kind \in {"fanout", "failover", "pool", "firstmatch"}
  <2>1. EnabledOf(h, env) <=> \E i \in DOMAIN h.handlers : Enabled(h.handlers[i], env)
    BY <1>4 DEF EnabledOf, AnyEnabled
  <2>2. Kids(h) = {h.handlers[i] : i \in DOMAIN h.handlers}
    BY <1>4 DEF Kids, Within
  <2> QED
    BY <1>1, <2>1, <2>2
<1> QED
  BY <1>2, <1>3, <1>4, Typed

(* The user's handlers say themselves whether they are enabled.            *)
LEMMA LeafEnabled ==
  ASSUME Recursion, NEW h \in Handlers, NEW env, h.kind \in {"sink", "inline"}
  PROVE  Enabled(h, env) <=> Says(h, env)
<1>1. Enabled(h, env) = EnabledOf(h, env)
  BY DEF Recursion, DynamicDispatch
<1>2. CASE h.kind = "sink"
  BY <1>1, <1>2 DEF EnabledOf, Says
<1>3. CASE h.kind = "inline"
  BY <1>1, <1>3 DEF EnabledOf, InlineEnabled, Says
<1> QED
  BY <1>2, <1>3

(* A composition is enabled as soon as one of the user's handlers is.      *)
LEMMA EnabledIsAny ==
  ASSUME Recursion, NEW env
  PROVE  \A h \in Handlers : EnabledIsTheirs(h) =>
            (Enabled(h, env) <=> \E n \in Leaves(h) : Says(n, env))
<1> DEFINE Asks(h) == EnabledIsTheirs(h) =>
                       (Enabled(h, env) <=> \E n \in Leaves(h) : Says(n, env))
           T == {h \in Handlers : Asks(h)}
<1>1. ASSUME NEW h \in Handlers, Kids(h) \subseteq T PROVE h \in T
  <2> SUFFICES ASSUME EnabledIsTheirs(h)
               PROVE  Enabled(h, env) <=> \E n \in Leaves(h) : Says(n, env)
    OBVIOUS
  <2>1. CASE h.kind \in {"sink", "inline"}
    <3>1. Leaves(h) = {h}
      BY <2>1, LeavesAre
    <3>2. Enabled(h, env) <=> Says(h, env)
      BY <2>1, LeafEnabled
    <3> QED
      BY <3>1, <3>2
  <2>2. CASE h.kind \notin {"sink", "inline"}
    <3>1. Enabled(h, env) <=> \E c \in Kids(h) : Enabled(c, env)
      BY <2>2, EnabledBelow
    <3>2. \A c \in Kids(h) : Enabled(c, env) <=> \E n \in Leaves(c) : Says(n, env)
      BY <1>1, TheirsBelow
    <3>3. \A n : n \in Leaves(h) <=> \E c \in Kids(h) : n \in Leaves(c)
      BY <2>2, LeavesAre
    <3> QED
      BY <3>1, <3>2, <3>3
  <2> QED
    BY <2>1, <2>2
<1> HIDE DEF T
<1>2. T = Handlers
  BY <1>1, KidsInduction DEF T
<1> QED
  BY <1>2 DEF T

-----------------------------------------------------------------------------

(* What a call of Handle makes happen.                                     *)

Ends == {"ok", "error", "panic"}

IsSeq(s) == s \in Seq(Within(s))

Extra == {"predicates", "callback"}

(* The end is one that there is; whoever is called is enabled; and without *)
(* routes, somebody is called.                                             *)
Delivers(h, o, env) ==
  /\ o = Outcome(o.calls, o.result) /\ o.result \in Ends
  /\ IsSeq(o.calls)
  /\ EnabledIsTheirs(h) /\ Enabled(h, env) =>
       /\ \A call \in Within(o.calls) :
             call.to \in Extra \/ \E n \in Leaves(h) : Says(n, env) /\ call.to = n.name
       /\ Routes(h) = {} => \E call \in Within(o.calls) : \E n \in Leaves(h) : call.to = n.name

(* A handler delivers if it calls nobody but those that are enabled, and   *)
(* one of them.                                                            *)
LEMMA Passes ==
  ASSUME Recursion, NEW h \in Handlers, h.kind \notin {"sink", "inline"},
         NEW env, NEW o, NEW O,
         \A c \in Kids(h) : Delivers(c, O[c], env),
         o = Outcome(o.calls, o.result), o.result \in Ends, IsSeq(o.calls),
         (\E c \in Kids(h) : Enabled(c, env)) =>
            \A call \in Within(o.calls) :
               \/ call.to \in Extra
               \/ \E c \in Kids(h) : Enabled(c, env) /\ call \in Within(O[c].calls),
         Routes(h) = {} /\ (\E c \in Kids(h) : Enabled(c, env)) =>
            \E c \in Kids(h) : Enabled(c, env) /\ Within(O[c].calls) \subseteq Within(o.calls)
  PROVE  Delivers(h, o, env)
<1> SUFFICES ASSUME EnabledIsTheirs(h), Enabled(h, env)
             PROVE  /\ \A call \in Within(o.calls) :
                          call.to \in Extra \/ \E n \in Leaves(h) : Says(n, env) /\ call.to = n.name
                    /\ Routes(h) = {} =>
                          \E call \in Within(o.calls) : \E n \in Leaves(h) : call.to = n.name
  BY DEF Delivers
<1>1. \E c \in Kids(h) : Enabled(c, env)
  BY EnabledBelow
<1>2. \A c \in Kids(h) : EnabledIsTheirs(c) /\ Leaves(c) \subseteq Leaves(h)
  BY TheirsBelow, LeavesAre
<1>3. \A c \in Kids(h) : Routes(h) = {} => Routes(c) = {}
  BY NodesAre DEF Routes
<1>4. ASSUME NEW call \in Within(o.calls)
      PROVE  call.to \in Extra \/ \E n \in Leaves(h) : Says(n, env) /\ call.to = n.name
  <2>1. CASE call.to \in Extra
    BY <2>1
  <2>2. ASSUME NEW c \in Kids(h), Enabled(c, env), call \in Within(O[c].calls)
        PROVE  call.to \in Extra \/ \E n \in Leaves(h) : Says(n, env) /\ call.to = n.name
    <3>1. call.to \in Extra \/ \E n \in Leaves(c) : Says(n, env) /\ call.to = n.name
      BY <1>2, <2>2 DEF Delivers
    <3> QED
      BY <1>2, <3>1
  <2> QED
    BY <1>1, <2>1, <2>2
<1>5. ASSUME Routes(h) = {}
      PROVE  \E call \in Within(o.calls) : \E n \in Leaves(h) : call.to = n.name
  <2>1. PICK c \in Kids(h) : Enabled(c, env) /\ Within(O[c].calls) \subseteq Within(o.calls)
    BY <1>1, <1>5
  <2>2. PICK call \in Within(O[c].calls) : \E n \in Leaves(c) : call.to = n.name
    BY <1>2, <1>3, <1>5, <2>1 DEF Delivers
  <2> QED
    BY <1>2, <2>1, <2>2
<1> QED
  BY <1>4, <1>5

(* One sequence of calls behind the other.                                 *)
LEMMA CallsBehind ==
  ASSUME NEW s, IsSeq(s), NEW t, IsSeq(t)
  PROVE  IsSeq(s \o t) /\ Within(s \o t) = Within(s) \cup Within(t)
<1>1. PICK S : S = Within(s) \cup Within(t)
  OBVIOUS
<1>2. s \in Seq(S) /\ t \in Seq(S)
  BY <1>1, SeqMonotonic DEF IsSeq
<1>3. s \o t \in Seq(S) /\ Within(s \o t) = Within(s) \cup Within(t)
  BY <1>2, WithinBoth
<1> QED
  BY <1>1, <1>3 DEF IsSeq

(* The calls of a sequence of outcomes are those of each.                  *)
LEMMA CallsOfAll ==
  ASSUME NEW k \in Nat, NEW outcomes, DOMAIN outcomes = 1 .. k,
         \A i \in 1 .. k : IsSeq(outcomes[i].calls)
  PROVE  /\ IsSeq(CallsOf(outcomes))
         /\ \A call : call \in Within(CallsOf(outcomes))
                        <=> \E i \in 1 .. k : call \in Within(outcomes[i].calls)
<1>1. PICK seqs : seqs = [i \in 1 .. k |-> outcomes[i].calls]
  OBVIOUS
<1>2. CallsOf(outcomes) = FlattenSeq(seqs)
  BY <1>1 DEF CallsOf, MapOver
<1>3. PICK S : S = UNION {Within(seqs[i]) : i \in 1 .. k}
  OBVIOUS
<1>4. \A i \in 1 .. k : seqs[i] \in Seq(S)
  <2> TAKE i \in 1 .. k
  <2>1. seqs[i] \in Seq(Within(seqs[i])) /\ Within(seqs[i]) \subseteq S
    BY <1>1, <1>3 DEF IsSeq
  <2> QED
    BY <2>1, SeqMonotonic
<1>5. seqs \in Seq(Seq(S)) /\ DOMAIN seqs = 1 .. k
  <2>1. seqs \in [1 .. k -> Seq(S)]
    BY <1>1, <1>4
  <2>2. \A U : \A n \in Nat : \A f \in [1 .. n -> U] : f \in Seq(U)
    OBVIOUS
  <2> QED
    BY <2>1, <2>2
<1>6. /\ FlattenSeq(seqs) \in Seq(S)
      /\ Within(FlattenSeq(seqs)) = UNION {Within(seqs[i]) : i \in DOMAIN seqs}
  BY <1>5, FlattenWithin
<1>7. Within(FlattenSeq(seqs)) = S
  BY <1>3, <1>5, <1>6
<1>8. \A call : call \in S <=> \E i \in 1 .. k : call \in Within(outcomes[i].calls)
  BY <1>1, <1>3
<1> QED
  BY <1>2, <1>6, <1>7, <1>8 DEF IsSeq

-----------------------------------------------------------------------------

(* The walk of a pool around its children meets all of them, whatever it   *)
(* draws.                                                                  *)

(* Multiples of n are n apart.                                             *)
LEMMA AtLeast ==
  ASSUME NEW n \in Nat \ {0}, NEW d \in Int, d >= 1
  PROVE  n * d >= n
<1>1. n * d = n * (d - 1) + n
  OBVIOUS
<1>2. n * (d - 1) >= 0
  OBVIOUS
<1> QED
  BY <1>1, <1>2

(* So a remainder is unique.                                               *)
LEMMA OneQuotient ==
  ASSUME NEW n \in Nat \ {0}, NEW p \in Int, NEW q \in Int, NEW a \in 0 .. n - 1,
         NEW b \in 0 .. n - 1, n * p + a = n * q + b
  PROVE  a = b
<1>1. n * p - n * q = n * (p - q) /\ n * q - n * p = n * (q - p)
  OBVIOUS
<1>2. CASE p - q >= 1
  <2>1. n * (p - q) >= n
    BY <1>2, AtLeast
  <2>2. n * p \in Int /\ n * q \in Int
    OBVIOUS
  <2>3. b - a >= n
    BY <1>1, <2>1, <2>2
  <2> QED
    BY <2>3
<1>3. CASE q - p >= 1
  <2>1. n * (q - p) >= n
    BY <1>3, AtLeast
  <2>2. n * p \in Int /\ n * q \in Int
    OBVIOUS
  <2>3. a - b >= n
    BY <1>1, <2>1, <2>2
  <2> QED
    BY <2>3
<1>4. CASE p = q
  <2>1. n * p \in Int /\ n * p = n * q
    BY <1>4
  <2> QED
    BY <2>1
<1> QED
  BY <1>2, <1>3, <1>4

(* A walk that goes once around is where it began.                         *)
LEMMA OnceAround ==
  ASSUME NEW s \in Nat, NEW n \in Nat \ {0}
  PROVE  (s + n) % n = s % n
<1>1. PICK q \in Int : q = s \div n
  OBVIOUS
<1>2. s = n * q + (s % n) /\ s % n \in 0 .. n - 1
  BY <1>1
<1>3. s + n = n * (q + 1) + (s % n)
  BY <1>1, <1>2
<1>4. PICK t \in Nat : t = s + n
  OBVIOUS
<1>5. PICK p \in Int : p = t \div n
  OBVIOUS
<1>6. t = n * p + (t % n) /\ t % n \in 0 .. n - 1
  BY <1>5
<1>7. PICK a \in 0 .. n - 1 : a = t % n
  BY <1>6
<1>8. PICK b \in 0 .. n - 1 : b = s % n
  BY <1>2
<1>9. PICK r \in Int : r = q + 1
  OBVIOUS
<1>10. n * p + a = n * r + b
  BY <1>3, <1>4, <1>6, <1>7, <1>8, <1>9
<1>11. a = b
  BY <1>10, OneQuotient, Zenon
<1> QED
  BY <1>4, <1>7, <1>8, <1>11

(* The walk stays in the slice.                                            *)
LEMMA AroundIsInside ==
  ASSUME NEW n \in Nat \ {0}, NEW x \in Nat
  PROVE  (x % n) + 1 \in 1 .. n
<1>1. x % n \in 0 .. n - 1
  BY SMT
<1> QED
  BY <1>1

(* From wherever it starts it meets every index.                           *)
LEMMA AroundMeetsAll ==
  ASSUME NEW n \in Nat \ {0}, NEW i \in 1 .. n
  PROVE  \A s \in Nat : \E j \in 1 .. n : ((s + j - 1) % n) + 1 = i
<1> DEFINE T == {s \in Nat : \E j \in 1 .. n : ((s + j - 1) % n) + 1 = i}
<1>1. 0 \in T
  <2>1. 0 + i - 1 = i - 1 /\ i - 1 \in 0 .. n - 1
    OBVIOUS
  <2>2. (0 + i - 1) % n = i - 1
    BY <2>1
  <2>3. ((0 + i - 1) % n) + 1 = i
    BY <2>2
  <2> QED
    BY <2>3
<1>2. ASSUME NEW s \in T PROVE s + 1 \in T
  <2>0. s \in Nat /\ s + 1 \in Nat
    OBVIOUS
  <2>1. PICK j \in 1 .. n : ((s + j - 1) % n) + 1 = i
    OBVIOUS
  <2>2. CASE j > 1
    <3>1. j - 1 \in 1 .. n /\ (s + 1) + (j - 1) - 1 = s + j - 1
      BY <2>0, <2>2
    <3>2. (((s + 1) + (j - 1) - 1) % n) + 1 = i
      BY <2>1, <3>1
    <3> QED
      BY <2>0, <3>1, <3>2
  <2>3. CASE j = 1
    <3>1. n \in 1 .. n /\ (s + 1) + n - 1 = s + n /\ s + j - 1 = s
      BY <2>0, <2>3
    <3>2. (s + n) % n = s % n
      BY <2>0, OnceAround
    <3>3. (((s + 1) + n - 1) % n) + 1 = i
      BY <2>1, <3>1, <3>2
    <3> QED
      BY <2>0, <3>1, <3>3
  <2> QED
    BY <2>2, <2>3
<1> HIDE DEF T
<1>3. T = Nat
  BY <1>1, <1>2, Induction DEF T
<1> QED
  BY <1>3 DEF T

(* So the order of a pool's walk has the same handlers as its slice.       *)
LEMMA PoolMeetsAll ==
  ASSUME NEW hs \in Seq(Handlers), NEW s \in Nat, NEW order,
         order = [j \in 1 .. Len(hs) |-> hs[((s + j - 1) % Len(hs)) + 1]]
  PROVE  order \in Seq(Handlers) /\ Within(order) = Within(hs)
<1>1. PICK n \in Nat : n = Len(hs)
  BY LenProperties
<1>2. DOMAIN hs = 1 .. n /\ \A i \in 1 .. n : hs[i] \in Handlers
  BY <1>1, LenProperties, ElementOfSeq
<1>3. ASSUME NEW j \in 1 .. n PROVE ((s + j - 1) % n) + 1 \in 1 .. n
  <2>1. n \in Nat \ {0} /\ s + j - 1 \in Nat
    OBVIOUS
  <2> QED
    BY <2>1, AroundIsInside
<1>4. ASSUME NEW i \in 1 .. n PROVE \E j \in 1 .. n : ((s + j - 1) % n) + 1 = i
  <2>1. n \in Nat \ {0}
    OBVIOUS
  <2> QED
    BY <2>1, AroundMeetsAll
<1>5. PICK at : at = [j \in 1 .. n |-> ((s + j - 1) % n) + 1]
  OBVIOUS
<1>6. /\ order = [j \in 1 .. n |-> hs[at[j]]]
      /\ \A j \in 1 .. n : at[j] \in 1 .. n
      /\ \A i \in 1 .. n : \E j \in 1 .. n : at[j] = i
  BY <1>1, <1>3, <1>4, <1>5
<1>7. order \in [1 .. n -> Handlers]
  BY <1>2, <1>6
<1>8. \A U : \A m \in Nat : \A f \in [1 .. m -> U] : f \in Seq(U)
  OBVIOUS
<1>9. order \in Seq(Handlers)
  BY <1>7, <1>8
<1>10. Within(order) = Within(hs)
  <2>1. DOMAIN order = 1 .. n
    BY <1>6
  <2>2. Within(order) = {order[j] : j \in 1 .. n} /\ Within(hs) = {hs[i] : i \in 1 .. n}
    BY <1>2, <2>1 DEF Within
  <2>3. \A j \in 1 .. n : order[j] = hs[at[j]] /\ at[j] \in 1 .. n
    BY <1>6
  <2>4. ASSUME NEW i \in 1 .. n PROVE hs[i] \in Within(order)
    <3>1. PICK j \in 1 .. n : at[j] = i
      BY <1>6
    <3>2. order[j] = hs[i] /\ order[j] \in Within(order)
      BY <2>2, <2>3, <3>1
    <3> QED
      BY <3>2
  <2>5. ASSUME NEW j \in 1 .. n PROVE order[j] \in Within(hs)
    BY <2>2, <2>3
  <2>6. Within(order) \subseteq Within(hs)
    BY <2>2, <2>5
  <2>7. Within(hs) \subseteq Within(order)
    BY <2>2, <2>4
  <2> QED
    BY <2>6, <2>7
<1> QED
  BY <1>9, <1>10

-----------------------------------------------------------------------------

(* What Handle makes happen.                                               *)

(* What the user's code may do in a call.                                  *)
Can(h, env) ==
  /\ \A n \in Leaves(h) : env.mood[n.name] \in Ends \cup {"off"}
  /\ \A n \in Pools(h) : env.start[n.name] \in Nat

(* What the user's code may do behind a handler it may do behind those     *)
(* that it has.                                                            *)
LEMMA CanBelow ==
  ASSUME Recursion, NEW h \in Handlers, NEW env, Can(h, env)
  PROVE  /\ h.kind \in {"sink", "inline"} => env.mood[h.name] \in Ends \cup {"off"}
         /\ h.kind = "pool" => env.start[h.name] \in Nat
         /\ \A c \in Kids(h) : Can(c, env)
<1>1. h \in Nodes(h) /\ \A c \in Kids(h) : Nodes(c) \subseteq Nodes(h)
  BY NodesAre
<1>2. \A c \in Kids(h) : Leaves(c) \subseteq Leaves(h) /\ Pools(c) \subseteq Pools(h)
  BY <1>1 DEF Leaves, Pools
<1>3. h.kind \in {"sink", "inline"} => h \in Leaves(h)
  BY <1>1 DEF Leaves
<1>4. h.kind = "pool" => h \in Pools(h)
  BY <1>1 DEF Pools
<1> QED
  BY <1>2, <1>3, <1>4 DEF Can

(* One call.                                                               *)
LEMMA OneCall ==
  ASSUME NEW call
  PROVE  IsSeq(<<call>>) /\ Within(<<call>>) = {call}
<1>1. Within(<<call>>) = {call}
  BY DEF Within
<1>2. <<call>> \in Seq({call})
  OBVIOUS
<1> QED
  BY <1>1, <1>2 DEF IsSeq

(* No call.                                                                *)
LEMMA NoCall ==
  IsSeq(<<>>) /\ Within(<<>>) = {}
<1>1. Within(<<>>) = {}
  BY DEF Within
<1>2. <<>> \in Seq({})
  OBVIOUS
<1> QED
  BY <1>1, <1>2 DEF IsSeq

(* The parts of an outcome.                                                *)
LEMMA AnOutcome ==
  ASSUME NEW s, NEW e
  PROVE  /\ Outcome(s, e).calls = s /\ Outcome(s, e).result = e
         /\ Outcome(s, e) = Outcome(Outcome(s, e).calls, Outcome(s, e).result)
BY DEF Outcome

(* A handler of the user's is called and nobody else.                      *)
LEMMA LeafDelivers ==
  ASSUME Recursion, NEW h \in Handlers, h.kind \in {"sink", "inline"},
         NEW r, NEW env, Can(h, env)
  PROVE  Delivers(h, Handle(h, r, env), env)
<1>1. Handle(h, r, env) = UsersHandle(h, r, env)
  <2>1. Handle(h, r, env) = HandleOf(h, r, env)
    BY DEF Recursion, DynamicDispatch
  <2> QED
    BY <2>1 DEF HandleOf, InlineHandle
<1>2. PICK call : call = [to |-> h.name, groups |-> h.groups, attrs |-> h.attrs, record |-> r]
  OBVIOUS
<1>3. PICK o : o = Outcome(<<call>>, End(h.name, env))
  OBVIOUS
<1>4. Handle(h, r, env) = o
  BY <1>1, <1>2, <1>3 DEF UsersHandle
<1>5. o = Outcome(o.calls, o.result) /\ o.calls = <<call>> /\ o.result = End(h.name, env)
  BY <1>3, AnOutcome
<1>6. End(h.name, env) \in Ends
  BY CanBelow DEF End, Ends
<1>7. IsSeq(o.calls) /\ Within(o.calls) = {call} /\ call.to = h.name
  BY <1>2, <1>5, OneCall
<1>8. Leaves(h) = {h}
  BY LeavesAre
<1>9. Enabled(h, env) <=> Says(h, env)
  BY LeafEnabled
<1> QED
  BY <1>4, <1>5, <1>6, <1>7, <1>8, <1>9 DEF Delivers

(* try changes the end of a panic and nothing else.                        *)
LEMMA Trying ==
  ASSUME NEW o, o = Outcome(o.calls, o.result), o.result \in Ends
  PROVE  /\ try(o) = Outcome(try(o).calls, try(o).result)
         /\ try(o).calls = o.calls /\ try(o).result \in {"ok", "error"}
<1>1. PICK s, e : s = o.calls /\ e = o.result
  OBVIOUS
<1>2. o = [calls |-> s, result |-> e] /\ e \in Ends
  BY <1>1 DEF Outcome
<1>3. CASE e = "panic"
  <2>1. try(o) = [calls |-> s, result |-> "error"]
    BY <1>2, <1>3 DEF try
  <2> QED
    BY <1>1, <2>1 DEF Outcome
<1>4. CASE e # "panic"
  <2>1. try(o) = o
    BY <1>2, <1>4 DEF try
  <2> QED
    BY <1>2, <1>4, <2>1 DEF Outcome, Ends
<1> QED
  BY <1>3, <1>4

(* The turns of the handlers of a composite: those that are not enabled    *)
(* are passed over.                                                        *)
LEMMA TurnsAre ==
  ASSUME NEW hs \in Seq(Handlers), NEW r, NEW env, NEW turns, turns = Turns(hs, r, env),
         \A c \in Within(hs) : Delivers(c, Handle(c, r, env), env)
  PROVE  /\ DOMAIN turns = 1 .. Len(hs) /\ Len(hs) \in Nat
         /\ \A i \in 1 .. Len(hs) :
               /\ hs[i] \in Within(hs)
               /\ turns[i].result \in {"ok", "error"} /\ IsSeq(turns[i].calls)
               /\ Enabled(hs[i], env) => turns[i].calls = Handle(hs[i], r, env).calls
               /\ ~ Enabled(hs[i], env) => turns[i].calls = <<>> /\ turns[i].result = "ok"
<1>1. DOMAIN hs = 1 .. Len(hs) /\ Len(hs) \in Nat
  BY LenProperties
<1>2. turns = [i \in DOMAIN hs |-> IF Enabled(hs[i], env) THEN try(Handle(hs[i], r, env))
                                                         ELSE Nothing]
  BY DEF Turns, MapOver
<1>3. ASSUME NEW i \in 1 .. Len(hs)
      PROVE  /\ hs[i] \in Within(hs)
             /\ turns[i].result \in {"ok", "error"} /\ IsSeq(turns[i].calls)
             /\ Enabled(hs[i], env) => turns[i].calls = Handle(hs[i], r, env).calls
             /\ ~ Enabled(hs[i], env) => turns[i].calls = <<>> /\ turns[i].result = "ok"
  <2>1. hs[i] \in Within(hs)
    BY <1>1 DEF Within
  <2>2. CASE Enabled(hs[i], env)
    <3>1. turns[i] = try(Handle(hs[i], r, env))
      BY <1>1, <1>2, <2>2
    <3>2. PICK o : o = Handle(hs[i], r, env)
      OBVIOUS
    <3>3. o = Outcome(o.calls, o.result) /\ o.result \in Ends /\ IsSeq(o.calls)
      BY <2>1, <3>2 DEF Delivers
    <3>4. try(o).calls = o.calls /\ try(o).result \in {"ok", "error"}
      BY <3>3, Trying
    <3> QED
      BY <2>1, <2>2, <3>1, <3>2, <3>3, <3>4
  <2>3. CASE ~ Enabled(hs[i], env)
    <3>1. turns[i] = Nothing
      BY <1>1, <1>2, <2>3
    <3>2. Nothing.calls = <<>> /\ Nothing.result = "ok"
      BY DEF Nothing, Outcome
    <3> QED
      BY <2>1, <2>3, <3>1, <3>2, NoCall
  <2> QED
    BY <2>2, <2>3
<1>4. DOMAIN turns = 1 .. Len(hs)
  BY <1>1, <1>2
<1> QED
  BY <1>1, <1>3, <1>4

(* A loop over the handlers that goes on to the end, or to one of them     *)
(* that was enabled.                                                       *)
LEMMA LoopDelivers ==
  ASSUME Recursion, NEW h \in Handlers, h.kind \notin {"sink", "inline"},
         NEW hs \in Seq(Handlers), Within(hs) = Kids(h), NEW r, NEW env,
         \A c \in Kids(h) : Delivers(c, Handle(c, r, env), env),
         NEW k \in 0 .. Len(hs), k = Len(hs) \/ Enabled(hs[k], env), k > 0 \/ k = Len(hs),
         NEW outs, DOMAIN outs = 1 .. k, \A i \in 1 .. k : outs[i] = Turns(hs, r, env)[i],
         NEW e \in Ends
  PROVE  Delivers(h, Outcome(CallsOf(outs), e), env)
<1>0. PICK turns : turns = Turns(hs, r, env)
  OBVIOUS
<1>1. /\ DOMAIN turns = 1 .. Len(hs) /\ Len(hs) \in Nat
      /\ \A i \in 1 .. Len(hs) :
            /\ hs[i] \in Within(hs)
            /\ turns[i].result \in {"ok", "error"} /\ IsSeq(turns[i].calls)
            /\ Enabled(hs[i], env) => turns[i].calls = Handle(hs[i], r, env).calls
            /\ ~ Enabled(hs[i], env) => turns[i].calls = <<>> /\ turns[i].result = "ok"
  <2>1. \A c \in Within(hs) : Delivers(c, Handle(c, r, env), env)
    OBVIOUS
  <2> QED
    BY <1>0, <2>1, TurnsAre
<1>2. k \in Nat /\ \A i \in 1 .. k : i \in 1 .. Len(hs)
  BY <1>1
<1>3. \A i \in 1 .. k : IsSeq(outs[i].calls)
  BY <1>0, <1>1, <1>2
<1>4. PICK calls : calls = CallsOf(outs)
  OBVIOUS
<1>5. /\ IsSeq(calls)
      /\ \A call : call \in Within(calls) <=> \E i \in 1 .. k : call \in Within(outs[i].calls)
  BY <1>2, <1>3, <1>4, CallsOfAll
<1>6. PICK O : O = [c \in Kids(h) |-> Handle(c, r, env)]
  OBVIOUS
<1>7. \A c \in Kids(h) : Delivers(c, O[c], env)
  BY <1>6
<1>8. ASSUME NEW call \in Within(calls)
      PROVE  \E c \in Kids(h) : Enabled(c, env) /\ call \in Within(O[c].calls)
  <2>1. PICK i \in 1 .. k : call \in Within(outs[i].calls)
    BY <1>5
  <2>2. i \in 1 .. Len(hs) /\ outs[i] = turns[i]
    BY <1>0, <1>2
  <2>3. Enabled(hs[i], env)
    BY <1>1, <2>1, <2>2, NoCall
  <2>4. hs[i] \in Kids(h) /\ turns[i].calls = O[hs[i]].calls
    BY <1>1, <1>6, <2>2, <2>3
  <2> QED
    BY <2>1, <2>2, <2>3, <2>4
<1>9. ASSUME NEW d \in Kids(h), Enabled(d, env)
      PROVE  \E c \in Kids(h) : Enabled(c, env) /\ Within(O[c].calls) \subseteq Within(calls)
  <2>1. \E i \in 1 .. k : Enabled(hs[i], env)
    <3>1. CASE k = Len(hs)
      <4>1. DOMAIN hs = 1 .. Len(hs)
        BY LenProperties
      <4> QED
        BY <1>9, <3>1, <4>1 DEF Within
    <3>2. CASE k # Len(hs)
      <4>1. k \in 1 .. k
        BY <1>2, <3>2
      <4> QED
        BY <3>2, <4>1
    <3> QED
      BY <3>1, <3>2
  <2>2. PICK i \in 1 .. k : Enabled(hs[i], env)
    BY <2>1
  <2>3. i \in 1 .. Len(hs) /\ outs[i] = turns[i]
    BY <1>0, <1>2
  <2>4. hs[i] \in Kids(h) /\ outs[i].calls = O[hs[i]].calls
    BY <1>1, <1>6, <2>2, <2>3
  <2> QED
    BY <1>5, <2>2, <2>4
<1>10. PICK o : o = Outcome(calls, e)
  OBVIOUS
<1>11. o = Outcome(o.calls, o.result) /\ o.calls = calls /\ o.result = e
  BY <1>10, AnOutcome
<1>12. Delivers(h, o, env)
  BY <1>5, <1>7, <1>8, <1>9, <1>11, Passes
<1> QED
  BY <1>4, <1>10, <1>12

(* FanoutHandler.Handle goes through all its handlers.                     *)
LEMMA FanoutDelivers ==
  ASSUME Recursion, NEW h \in Handlers, h.kind = "fanout", NEW r, NEW env,
         \A c \in Kids(h) : Delivers(c, Handle(c, r, env), env)
  PROVE  Delivers(h, Handle(h, r, env), env)
<1>1. Handle(h, r, env) = FanoutHandle(h, r, env)
  <2>1. Handle(h, r, env) = HandleOf(h, r, env)
    BY DEF Recursion, DynamicDispatch
  <2> QED
    BY <2>1 DEF HandleOf
<1>2. PICK hs \in Seq(Handlers) : hs = h.handlers
  BY Typed
<1>3. Within(hs) = Kids(h)
  BY <1>2 DEF Kids
<1>4. PICK turns : turns = Turns(hs, r, env)
  OBVIOUS
<1>5. PICK e : e = IF \E i \in DOMAIN turns : turns[i].result = "error" THEN "error" ELSE "ok"
  OBVIOUS
<1>6. Handle(h, r, env) = Outcome(CallsOf(turns), e)
  BY <1>1, <1>2, <1>4, <1>5 DEF FanoutHandle
<1>7. e \in Ends
  BY <1>5 DEF Ends
<1>8. PICK k \in Nat : k = Len(hs)
  BY LenProperties
<1>9. DOMAIN turns = 1 .. k
  <2>1. \A c \in Within(hs) : Delivers(c, Handle(c, r, env), env)
    BY <1>3
  <2> QED
    BY <1>4, <1>8, <2>1, TurnsAre
<1>10. k \in 0 .. Len(hs) /\ (k > 0 \/ k = Len(hs)) /\ (k = Len(hs) \/ Enabled(hs[k], env))
  BY <1>8
<1>11. h.kind \notin {"sink", "inline"} /\ \A i \in 1 .. k : turns[i] = Turns(hs, r, env)[i]
  BY <1>4
<1> QED
  BY <1>3, <1>6, <1>7, <1>9, <1>10, <1>11, LoopDelivers

(* The loop of failover and pool ends with a handler that was enabled, or  *)
(* at the end.                                                             *)
LEMMA FirstSuccessDelivers ==
  ASSUME Recursion, NEW h \in Handlers, h.kind \notin {"sink", "inline"},
         NEW hs \in Seq(Handlers), Within(hs) = Kids(h), NEW r, NEW env,
         \A c \in Kids(h) : Delivers(c, Handle(c, r, env), env)
  PROVE  Delivers(h, FirstSuccess(hs, r, env), env)
<1>1. PICK turns : turns = Turns(hs, r, env)
  OBVIOUS
<1>2. PICK n \in Nat : n = Len(hs)
  BY LenProperties
<1>3. DOMAIN turns = 1 .. n
  <2>1. \A c \in Within(hs) : Delivers(c, Handle(c, r, env), env)
    OBVIOUS
  <2> QED
    BY <1>1, <1>2, <2>1, TurnsAre
<1>4. PICK asked : asked = {i \in DOMAIN turns : Enabled(hs[i], env)}
  OBVIOUS
<1>5. PICK taken : taken = {i \in asked : turns[i].result = "ok"}
  OBVIOUS
<1>6. FirstSuccess(hs, r, env) =
        IF taken = {} THEN Outcome(CallsOf(turns), IF asked = {} THEN "ok" ELSE "error")
        ELSE Outcome(CallsOf(SubSeq(turns, 1, Min(taken))), "ok")
  BY <1>1, <1>4, <1>5 DEF FirstSuccess
<1>7. CASE taken = {}
  <2>1. PICK e : e = IF asked = {} THEN "ok" ELSE "error"
    OBVIOUS
  <2>2. FirstSuccess(hs, r, env) = Outcome(CallsOf(turns), e) /\ e \in Ends
    BY <1>6, <1>7, <2>1 DEF Ends
  <2>3. n \in 0 .. Len(hs) /\ (n > 0 \/ n = Len(hs)) /\ (n = Len(hs) \/ Enabled(hs[n], env))
    BY <1>2
  <2>4. \A i \in 1 .. n : turns[i] = Turns(hs, r, env)[i]
    BY <1>1
  <2> QED
    BY <1>3, <2>2, <2>3, <2>4, LoopDelivers
<1>8. CASE taken # {}
  <2>1. taken \in SUBSET Nat
    BY <1>3, <1>4, <1>5
  <2>2. PICK k : k = Min(taken)
    OBVIOUS
  <2>3. k \in taken
    BY <1>8, <2>1, <2>2, LeastIsIn
  <2>4. k \in 1 .. n /\ Enabled(hs[k], env)
    BY <1>3, <1>4, <1>5, <2>3
  <2>5. PICK outs : outs = SubSeq(turns, 1, k)
    OBVIOUS
  <2>6. FirstSuccess(hs, r, env) = Outcome(CallsOf(outs), "ok") /\ "ok" \in Ends
    BY <1>6, <1>8, <2>2, <2>5 DEF Ends
  <2>7. DOMAIN outs = 1 .. k /\ \A i \in 1 .. k : outs[i] = Turns(hs, r, env)[i]
    <3>1. PICK S : S = {turns[i] : i \in 1 .. n}
      OBVIOUS
    <3>2. turns = [i \in 1 .. n |-> turns[i]]
      BY <1>1, <1>2, <1>3, LenProperties DEF Turns, MapOver
    <3>3. turns \in [1 .. n -> S]
      BY <3>1, <3>2
    <3>4. \A m \in Nat : \A f \in [1 .. m -> S] : f \in Seq(S) /\ Len(f) = m
      OBVIOUS
    <3>5. turns \in Seq(S) /\ Len(turns) = n
      BY <3>3, <3>4
    <3>6. /\ SubSeq(turns, 1, k) \in Seq(S) /\ Len(SubSeq(turns, 1, k)) = k
          /\ \A i \in 1 .. k : SubSeq(turns, 1, k)[i] = turns[i]
      <4>1. 1 \in 1 .. Len(turns) + 1 /\ k \in 1 - 1 .. Len(turns) /\ k - 1 + 1 = k
        BY <2>4, <3>5
      <4>2. \A i \in 1 .. k : 1 + i - 1 = i
        OBVIOUS
      <4> QED
        BY <2>4, <3>5, <4>1, <4>2, SubSeqProperties
    <3> QED
      BY <1>1, <2>5, <3>6, LenProperties
  <2>8. k \in 0 .. Len(hs) /\ (k > 0 \/ k = Len(hs)) /\ (k = Len(hs) \/ Enabled(hs[k], env))
    BY <1>2, <2>4
  <2> QED
    BY <2>6, <2>7, <2>8, LoopDelivers
<1> QED
  BY <1>7, <1>8

(* FailoverHandler.Handle and PoolHandler.Handle, whatever the pool draws. *)
LEMMA FailoverDelivers ==
  ASSUME Recursion, NEW h \in Handlers, h.kind \in {"failover", "pool"}, NEW r, NEW env, Can(h, env),
         \A c \in Kids(h) : Delivers(c, Handle(c, r, env), env)
  PROVE  Delivers(h, Handle(h, r, env), env)
<1>1. Handle(h, r, env) = HandleOf(h, r, env)
  BY DEF Recursion, DynamicDispatch
<1>2. PICK hs \in Seq(Handlers) : hs = h.handlers
  BY Typed
<1>3. Within(hs) = Kids(h) /\ h.kind \notin {"sink", "inline"}
  BY <1>2 DEF Kids
<1>4. CASE h.kind = "failover"
  <2>1. Handle(h, r, env) = FirstSuccess(hs, r, env)
    BY <1>1, <1>2, <1>4 DEF HandleOf, FailoverHandle
  <2> QED
    BY <1>3, <2>1, FirstSuccessDelivers
<1>5. CASE h.kind = "pool"
  <2>1. PICK s \in Nat : s = env.start[h.name]
    BY <1>5, CanBelow
  <2>2. PICK order : order = [j \in 1 .. Len(hs) |-> hs[((s + j - 1) % Len(hs)) + 1]]
    OBVIOUS
  <2>3. Handle(h, r, env) = FirstSuccess(order, r, env)
    <3>1. Handle(h, r, env) = PoolHandle(h, r, env)
      BY <1>1, <1>5 DEF HandleOf
    <3> QED
      BY <1>2, <2>1, <2>2, <3>1 DEF PoolHandle
  <2>4. order \in Seq(Handlers) /\ Within(order) = Kids(h)
    BY <1>3, <2>2, PoolMeetsAll
  <2> QED
    BY <1>3, <2>3, <2>4, FirstSuccessDelivers
<1> QED
  BY <1>4, <1>5

(* What a wrapper of one handler does: it calls it, and calls others of    *)
(* its own.                                                                *)
LEMMA WrapperDelivers ==
  ASSUME Recursion, NEW h \in Handlers, h.kind \in {"route", "recovery", "middleware"},
         NEW c, Kids(h) = {c}, NEW env, NEW inner, Delivers(c, inner, env), NEW o,
         o = Outcome(o.calls, o.result), o.result \in Ends, IsSeq(o.calls),
         \A call \in Within(o.calls) : call.to \in Extra \/ call \in Within(inner.calls),
         Routes(h) = {} => Within(inner.calls) \subseteq Within(o.calls)
  PROVE  Delivers(h, o, env)
<1>1. PICK O : O = [x \in Kids(h) |-> inner]
  OBVIOUS
<1>2. \A x \in Kids(h) : x = c /\ O[x] = inner /\ Delivers(x, O[x], env)
  BY <1>1
<1>3. h.kind \notin {"sink", "inline"}
  OBVIOUS
<1>4. (\E x \in Kids(h) : Enabled(x, env)) =>
         \A call \in Within(o.calls) :
            \/ call.to \in Extra
            \/ \E x \in Kids(h) : Enabled(x, env) /\ call \in Within(O[x].calls)
  BY <1>2
<1>5. Routes(h) = {} /\ (\E x \in Kids(h) : Enabled(x, env)) =>
         \E x \in Kids(h) : Enabled(x, env) /\ Within(O[x].calls) \subseteq Within(o.calls)
  BY <1>2
<1> QED
  BY <1>2, <1>3, <1>4, <1>5, Passes

(* The outcome of a call that is not made.                                 *)
LEMMA NothingIs ==
  /\ Nothing.calls = <<>> /\ Nothing.result = "ok"
  /\ Nothing = Outcome(Nothing.calls, Nothing.result)
BY DEF Nothing, Outcome

(* The outcome o with calls in front.                                      *)
LEMMA InFront ==
  ASSUME NEW o, o = Outcome(o.calls, o.result), IsSeq(o.calls), NEW front, IsSeq(front),
         NEW p, p = [o EXCEPT !.calls = front \o @]
  PROVE  /\ p = Outcome(p.calls, p.result) /\ p.result = o.result
         /\ IsSeq(p.calls) /\ Within(p.calls) = Within(front) \cup Within(o.calls)
<1>1. PICK s : s = o.calls
  OBVIOUS
<1>2. PICK e : e = o.result
  OBVIOUS
<1>3. o = [calls |-> s, result |-> e]
  BY <1>1, <1>2 DEF Outcome
<1>4. PICK t : t = front \o s
  OBVIOUS
<1>5. p = [o EXCEPT !.calls = t]
  BY <1>1, <1>4
<1>6. p = [calls |-> t, result |-> e]
  BY <1>3, <1>5
<1>7. IsSeq(t) /\ Within(t) = Within(front) \cup Within(s)
  BY <1>1, <1>4, CallsBehind
<1>8. p = Outcome(t, e)
  BY <1>6 DEF Outcome
<1>9. p.calls = t /\ p.result = e
  BY <1>6
<1> QED
  BY <1>1, <1>2, <1>7, <1>8, <1>9

(* A route asks its predicates and nobody else.                            *)
LEMMA AskedIs ==
  ASSUME NEW h, NEW r
  PROVE  IsSeq(Asked(h, r)) /\ \A call \in Within(Asked(h, r)) : call.to = "predicates"
<1>1. PICK call : call = [to |-> "predicates", sees |-> Logged(Seen(h, r).attrs)]
  OBVIOUS
<1>2. Asked(h, r) = <<call>> /\ call.to = "predicates"
  BY <1>1 DEF Asked
<1> QED
  BY <1>2, OneCall

(* RoutableHandler.Handle.                                                 *)
LEMMA RouteDelivers ==
  ASSUME Recursion, NEW h \in Handlers, h.kind = "route", NEW r, NEW env,
         \A c \in Kids(h) : Delivers(c, Handle(c, r, env), env)
  PROVE  Delivers(h, Handle(h, r, env), env)
<1>1. Handle(h, r, env) = RoutableHandle(h, r, env)
  <2>1. Handle(h, r, env) = HandleOf(h, r, env)
    BY DEF Recursion, DynamicDispatch
  <2> QED
    BY <2>1 DEF HandleOf
<1>2. PICK c : c = h.handler
  OBVIOUS
<1>3. Kids(h) = {c}
  BY <1>2 DEF Kids
<1>4. PICK o : o = Handle(c, r, env)
  OBVIOUS
<1>5. Delivers(c, o, env)
  BY <1>3, <1>4
<1>6. o = Outcome(o.calls, o.result) /\ o.result \in Ends /\ IsSeq(o.calls)
  BY <1>5 DEF Delivers
<1>7. Routes(h) # {}
  BY NodesAre DEF Routes
<1>8. CASE h.skipPredicates
  <2>1. Handle(h, r, env) = o
    BY <1>1, <1>2, <1>4, <1>8 DEF RoutableHandle
  <2> QED
    BY <1>3, <1>5, <1>6, <2>1, WrapperDelivers
<1>9. CASE ~ h.skipPredicates
  <2>1. PICK inner : inner = IF isMatch(h, r) THEN o ELSE Nothing
    OBVIOUS
  <2>2. PICK p : p = [inner EXCEPT !.calls = Asked(h, r) \o @]
    OBVIOUS
  <2>3. Handle(h, r, env) = p
    BY <1>1, <1>2, <1>4, <1>9, <2>1, <2>2 DEF RoutableHandle
  <2>4. /\ inner = Outcome(inner.calls, inner.result) /\ inner.result \in Ends
        /\ IsSeq(inner.calls) /\ Within(inner.calls) \subseteq Within(o.calls)
    <3>1. CASE isMatch(h, r)
      BY <1>6, <2>1, <3>1
    <3>2. CASE ~ isMatch(h, r)
      BY <2>1, <3>2, NothingIs, NoCall DEF Ends
    <3> QED
      BY <3>1, <3>2
  <2>5. /\ p = Outcome(p.calls, p.result) /\ p.result = inner.result
        /\ IsSeq(p.calls) /\ Within(p.calls) = Within(Asked(h, r)) \cup Within(inner.calls)
    BY <2>2, <2>4, AskedIs, InFront
  <2>6. \A call \in Within(p.calls) : call.to \in Extra \/ call \in Within(o.calls)
    BY <2>4, <2>5, AskedIs DEF Extra
  <2> QED
    BY <1>3, <1>5, <1>7, <2>3, <2>4, <2>5, <2>6, WrapperDelivers
<1> QED
  BY <1>8, <1>9

(* HandlerErrorRecovery.Handle: the callback is called besides.            *)
LEMMA RecoveryDelivers ==
  ASSUME Recursion, NEW h \in Handlers, h.kind = "recovery", NEW r, NEW env,
         \A c \in Kids(h) : Delivers(c, Handle(c, r, env), env)
  PROVE  Delivers(h, Handle(h, r, env), env)
<1>1. Handle(h, r, env) = RecoveryHandle(h, r, env)
  <2>1. Handle(h, r, env) = HandleOf(h, r, env)
    BY DEF Recursion, DynamicDispatch
  <2> QED
    BY <2>1 DEF HandleOf
<1>2. PICK c : c = h.handler
  OBVIOUS
<1>3. Kids(h) = {c}
  BY <1>2 DEF Kids
<1>4. PICK o : o = Handle(c, r, env)
  OBVIOUS
<1>5. Delivers(c, o, env)
  BY <1>3, <1>4
<1>6. o = Outcome(o.calls, o.result) /\ o.result \in Ends /\ IsSeq(o.calls)
  BY <1>5 DEF Delivers
<1>7. CASE o.result = "ok"
  <2>1. Handle(h, r, env) = o
    BY <1>1, <1>2, <1>4, <1>7 DEF RecoveryHandle
  <2> QED
    BY <1>3, <1>5, <1>6, <2>1, WrapperDelivers
<1>8. CASE o.result # "ok"
  <2>1. PICK call : call = [to |-> "callback", record |-> r]
    OBVIOUS
  <2>2. PICK e : e = IF o.result = "panic" THEN "ok" ELSE "error"
    OBVIOUS
  <2>3. PICK p : p = Outcome(o.calls \o <<call>>, e)
    OBVIOUS
  <2>4. Handle(h, r, env) = p
    <3>1. Handle(h, r, env) = Outcome(Append(o.calls, call), e)
      BY <1>1, <1>2, <1>4, <1>8, <2>1, <2>2 DEF RecoveryHandle
    <3>2. Append(o.calls, call) = o.calls \o <<call>>
      <4>1. PICK S : S = Within(o.calls) \cup {call}
        OBVIOUS
      <4>2. o.calls \in Seq(S) /\ call \in S
        BY <1>6, <4>1, SeqMonotonic DEF IsSeq
      <4> QED
        BY <4>2, AppendIsConcat
    <3> QED
      BY <2>3, <3>1, <3>2
  <2>5. IsSeq(o.calls \o <<call>>) /\ Within(o.calls \o <<call>>) = Within(o.calls) \cup {call}
    BY <1>6, OneCall, CallsBehind
  <2>6. p.calls = o.calls \o <<call>> /\ p.result = e /\ p = Outcome(p.calls, p.result)
    BY <2>3, AnOutcome
  <2>7. e \in Ends /\ call.to \in Extra
    BY <2>1, <2>2 DEF Ends, Extra
  <2>8. \A x \in Within(p.calls) : x.to \in Extra \/ x \in Within(o.calls)
    BY <2>5, <2>6, <2>7
  <2>9. Within(o.calls) \subseteq Within(p.calls) /\ IsSeq(p.calls) /\ p.result \in Ends
    BY <2>5, <2>6, <2>7
  <2> QED
    BY <1>3, <1>5, <2>4, <2>6, <2>8, <2>9, WrapperDelivers
<1> QED
  BY <1>7, <1>8

(* The Handle of the inline middlewares: next is called, with a mark or    *)
(* without.                                                                *)
LEMMA MiddlewareDelivers ==
  ASSUME Recursion, NEW h \in Handlers, h.kind = "middleware", NEW r, NEW env,
         \A c \in Kids(h) : \A s : Delivers(c, Handle(c, s, env), env)
  PROVE  Delivers(h, Handle(h, r, env), env)
<1>1. Handle(h, r, env) = MiddlewareHandle(h, r, env)
  <2>1. Handle(h, r, env) = HandleOf(h, r, env)
    BY DEF Recursion, DynamicDispatch
  <2> QED
    BY <2>1 DEF HandleOf
<1>2. PICK c : c = h.next
  OBVIOUS
<1>3. Kids(h) = {c}
  BY <1>2 DEF Kids
<1>4. PICK s : s = IF "Handle" \in h.hooks THEN AddAttrs(r, Mark) ELSE r
  OBVIOUS
<1>5. PICK o : o = Handle(c, s, env)
  OBVIOUS
<1>6. Handle(h, r, env) = o
  BY <1>1, <1>2, <1>4, <1>5 DEF MiddlewareHandle
<1>7. Delivers(c, o, env)
  BY <1>3, <1>5
<1>8. o = Outcome(o.calls, o.result) /\ o.result \in Ends /\ IsSeq(o.calls)
  BY <1>7 DEF Delivers
<1> QED
  BY <1>3, <1>6, <1>7, <1>8, WrapperDelivers

(* Of the routes of a first match, the predicates are asked, and at most   *)
(* one is called.                                                          *)
LEMMA FirstMatchDelivers ==
  ASSUME Recursion, NEW h \in Handlers, h.kind = "firstmatch", NEW r, NEW env,
         \A c \in Kids(h) : Delivers(c, Handle(c, r, env), env)
  PROVE  Delivers(h, Handle(h, r, env), env)
<1>1. Handle(h, r, env) = FirstMatchHandle(h, r, env)
  <2>1. Handle(h, r, env) = HandleOf(h, r, env)
    BY DEF Recursion, DynamicDispatch
  <2> QED
    BY <2>1 DEF HandleOf
<1>2. PICK hs \in Seq(RoutesTo(Handlers)) : hs = h.handlers
  BY Typed
<1>3. Within(hs) = Kids(h) /\ DOMAIN hs = 1 .. Len(hs) /\ Len(hs) \in Nat
  BY <1>2, LenProperties DEF Kids
<1>4. PICK matching : matching = {i \in DOMAIN hs : isMatch(hs[i], r)}
  OBVIOUS
<1>5. PICK first : first = Min(matching)
  OBVIOUS
<1>6. PICK asked : asked = IF matching = {} THEN hs ELSE SubSeq(hs, 1, first)
  OBVIOUS
<1>7. PICK served : served = IF matching # {} /\ Enabled(hs[first], env)
                             THEN try(Handle(hs[first], r, env)) ELSE Nothing
  OBVIOUS
<1>8. PICK front : front = FlattenSeq(MapOver(asked, LAMBDA c : Asked(c, r)))
  OBVIOUS
<1>9. PICK o : o = [served EXCEPT !.calls = front \o @]
  OBVIOUS
<1>10. Handle(h, r, env) = o
  BY <1>1, <1>2, <1>4, <1>5, <1>6, <1>7, <1>8, <1>9 DEF FirstMatchHandle
<1>11. matching # {} => first \in 1 .. Len(hs)
  <2>1. matching \in SUBSET Nat
    BY <1>3, <1>4
  <2>2. matching # {} => first \in matching
    BY <1>5, <2>1, LeastIsIn
  <2> QED
    BY <1>3, <1>4, <2>2
<1>12. asked \in Seq(RoutesTo(Handlers))
  <2>1. CASE matching = {}
    BY <1>6, <2>1
  <2>2. CASE matching # {}
    <3>1. 1 \in 1 .. Len(hs) + 1 /\ first \in 1 - 1 .. Len(hs)
      BY <1>3, <1>11, <2>2
    <3>2. SubSeq(hs, 1, first) \in Seq(RoutesTo(Handlers))
      BY <3>1, SubSeqProperties
    <3> QED
      BY <1>6, <2>2, <3>2
  <2> QED
    BY <2>1, <2>2
<1>13. IsSeq(front) /\ \A call \in Within(front) : call.to = "predicates"
  <2>1. PICK n \in Nat : n = Len(asked) /\ DOMAIN asked = 1 .. n
    BY <1>12, LenProperties
  <2>2. PICK seqs : seqs = [i \in 1 .. n |-> Asked(asked[i], r)]
    OBVIOUS
  <2>3. front = FlattenSeq(seqs)
    BY <1>8, <2>1, <2>2 DEF MapOver
  <2>4. PICK S : S = UNION {Within(seqs[i]) : i \in 1 .. n}
    OBVIOUS
  <2>5. \A i \in 1 .. n : /\ seqs[i] \in Seq(S)
                          /\ \A call \in Within(seqs[i]) : call.to = "predicates"
    <3> TAKE i \in 1 .. n
    <3>1. seqs[i] = Asked(asked[i], r)
      BY <2>2
    <3>2. IsSeq(seqs[i]) /\ \A call \in Within(seqs[i]) : call.to = "predicates"
      BY <3>1, AskedIs
    <3>3. Within(seqs[i]) \subseteq S
      BY <2>4
    <3> QED
      BY <3>2, <3>3, SeqMonotonic DEF IsSeq
  <2>6. seqs \in Seq(Seq(S)) /\ DOMAIN seqs = 1 .. n
    <3>1. seqs \in [1 .. n -> Seq(S)]
      BY <2>2, <2>5
    <3>2. \A U : \A k \in Nat : \A f \in [1 .. k -> U] : f \in Seq(U)
      OBVIOUS
    <3> QED
      BY <2>2, <3>1, <3>2
  <2>7. front \in Seq(S) /\ Within(front) = UNION {Within(seqs[i]) : i \in DOMAIN seqs}
    BY <2>3, <2>6, FlattenWithin
  <2>8. Within(front) = S
    BY <2>4, <2>6, <2>7
  <2>9. \A call \in S : call.to = "predicates"
    BY <2>4, <2>5
  <2> QED
    BY <2>7, <2>8, <2>9 DEF IsSeq
<1>14. /\ served = Outcome(served.calls, served.result) /\ served.result \in Ends
       /\ IsSeq(served.calls)
       /\ \A call \in Within(served.calls) :
             \E c \in Kids(h) : Enabled(c, env) /\ call \in Within(Handle(c, r, env).calls)
  <2>1. CASE matching # {} /\ Enabled(hs[first], env)
    <3>1. PICK c : c = hs[first]
      OBVIOUS
    <3>2. c \in Kids(h)
      BY <1>3, <1>11, <2>1, <3>1 DEF Within
    <3>3. PICK p : p = Handle(c, r, env)
      OBVIOUS
    <3>4. p = Outcome(p.calls, p.result) /\ p.result \in Ends /\ IsSeq(p.calls)
      BY <3>2, <3>3 DEF Delivers
    <3>5. served = try(p)
      BY <1>7, <2>1, <3>1, <3>3
    <3>6. /\ served = Outcome(served.calls, served.result) /\ served.calls = p.calls
          /\ served.result \in {"ok", "error"}
      BY <3>4, <3>5, Trying
    <3> QED
      BY <2>1, <3>1, <3>2, <3>3, <3>4, <3>6 DEF Ends
  <2>2. CASE ~ (matching # {} /\ Enabled(hs[first], env))
    <3>1. served = Nothing
      BY <1>7, <2>2
    <3> QED
      BY <3>1, NothingIs, NoCall DEF Ends
  <2> QED
    BY <2>1, <2>2
<1>15. /\ o = Outcome(o.calls, o.result) /\ o.result = served.result
       /\ IsSeq(o.calls) /\ Within(o.calls) = Within(front) \cup Within(served.calls)
  BY <1>9, <1>13, <1>14, InFront
<1>16. PICK O : O = [c \in Kids(h) |-> Handle(c, r, env)]
  OBVIOUS
<1>17. \A c \in Kids(h) : Delivers(c, O[c], env)
  BY <1>16
<1>18. \A call \in Within(o.calls) :
          \/ call.to \in Extra
          \/ \E c \in Kids(h) : Enabled(c, env) /\ call \in Within(O[c].calls)
  BY <1>13, <1>14, <1>15, <1>16 DEF Extra
<1>19. Routes(h) = {} => Kids(h) = {}
  <2>1. \A c \in Kids(h) : c.kind = "route"
    <3>1. \A i \in DOMAIN hs : hs[i] \in RoutesTo(Handlers)
      BY <1>3, ElementOfSeq
    <3> QED
      BY <1>3, <3>1 DEF Within, RoutesTo
  <2>2. \A c \in Kids(h) : c \in Nodes(h)
    BY KidsAreHandlers, NodesAre
  <2> QED
    BY <2>1, <2>2 DEF Routes
<1>20. h.kind \notin {"sink", "inline"} /\ o.result \in Ends
  BY <1>14, <1>15
<1>21. Delivers(h, o, env)
  BY <1>15, <1>17, <1>18, <1>19, <1>20, Passes
<1> QED
  BY <1>10, <1>21

(* Whatever the composition, its Handle calls those behind it that are     *)
(* enabled, and without routes it calls one.                               *)
LEMMA HandleDelivers ==
  ASSUME Recursion, NEW env
  PROVE  \A h \in Handlers : Can(h, env) => \A r : Delivers(h, Handle(h, r, env), env)
<1> DEFINE T == {h \in Handlers : Can(h, env) => \A r : Delivers(h, Handle(h, r, env), env)}
<1>1. ASSUME NEW h \in Handlers, Kids(h) \subseteq T, Can(h, env), NEW r
      PROVE  Delivers(h, Handle(h, r, env), env)
  <2>1. \A c \in Kids(h) : \A s : Delivers(c, Handle(c, s, env), env)
    BY <1>1, CanBelow
  <2> HIDE DEF T
  <2>2. CASE h.kind \in {"sink", "inline"}
    BY <1>1, <2>2, LeafDelivers
  <2>3. CASE h.kind = "fanout"
    BY <2>1, <2>3, FanoutDelivers
  <2>4. CASE h.kind \in {"failover", "pool"}
    BY <1>1, <2>1, <2>4, FailoverDelivers
  <2>5. CASE h.kind = "route"
    BY <2>1, <2>5, RouteDelivers
  <2>6. CASE h.kind = "firstmatch"
    BY <2>1, <2>6, FirstMatchDelivers
  <2>7. CASE h.kind = "recovery"
    BY <2>1, <2>7, RecoveryDelivers
  <2>8. CASE h.kind = "middleware"
    BY <2>1, <2>8, MiddlewareDelivers
  <2> QED
    BY <2>2, <2>3, <2>4, <2>5, <2>6, <2>7, <2>8, Typed
<1>2. ASSUME NEW h \in Handlers, Kids(h) \subseteq T PROVE h \in T
  BY <1>1, <1>2
<1> HIDE DEF T
<1>3. T = Handlers
  BY <1>2, KidsInduction DEF T
<1> QED
  BY <1>3 DEF T

-----------------------------------------------------------------------------

(* Handlers with the same tags have the same leaves, pools and wrappers,   *)
(* but for what was derived.                                               *)
LEMMA Twins ==
  ASSUME NEW h, NEW g, Tags(h) = Tags(g)
  PROVE  /\ \A n \in Leaves(h) : \E m \in Leaves(g) :
               /\ m.kind = n.kind /\ m.name = n.name
               /\ n.kind = "inline" => m.enabledFunc = n.enabledFunc
         /\ \A n \in Pools(h) : \E m \in Pools(g) : m.name = n.name
         /\ EnabledIsTheirs(h) => EnabledIsTheirs(g)
         /\ Routes(h) = {} => Routes(g) = {}
<1>1. ASSUME NEW n \in Inner(h) PROVE \E m \in Inner(g) : Tag(m) = Tag(n)
  BY <1>1 DEF Tags
<1>2. ASSUME NEW m \in Inner(g) PROVE \E n \in Inner(h) : Tag(m) = Tag(n)
  BY <1>2 DEF Tags
<1>3. ASSUME NEW m, NEW n, Tag(m) = Tag(n)
      PROVE  /\ m.kind = n.kind
             /\ n.kind \in {"sink", "inline", "pool"} => m.name = n.name
             /\ n.kind = "middleware" => m.hooks = n.hooks
             /\ n.kind = "inline" => m.enabledFunc = n.enabledFunc
  <2>1. m.kind = n.kind
    BY <1>3 DEF Tag
  <2>2. n.kind \in {"sink", "inline", "pool"} => m.name = n.name
    BY <1>3, <2>1 DEF Tag
  <2>3. n.kind = "middleware" => m.hooks = n.hooks
    BY <1>3, <2>1 DEF Tag
  <2>4. n.kind = "inline" => m.enabledFunc = n.enabledFunc
    BY <1>3, <2>1 DEF Tag
  <2> QED
    BY <2>1, <2>2, <2>3, <2>4
<1>4. ASSUME NEW n \in Leaves(h)
      PROVE  \E m \in Leaves(g) : /\ m.kind = n.kind /\ m.name = n.name
                                  /\ n.kind = "inline" => m.enabledFunc = n.enabledFunc
  <2>1. n \in Inner(h) /\ n.kind \in {"sink", "inline"}
    BY <1>4 DEF Leaves, Inner
  <2>2. PICK m \in Inner(g) : Tag(m) = Tag(n)
    BY <1>1, <2>1
  <2>3. /\ m.kind = n.kind /\ m.name = n.name
        /\ n.kind = "inline" => m.enabledFunc = n.enabledFunc
    BY <1>3, <2>1, <2>2
  <2>4. m \in Leaves(g)
    BY <2>1, <2>3 DEF Leaves, Inner
  <2> QED
    BY <2>3, <2>4
<1>5. ASSUME NEW n \in Pools(h) PROVE \E m \in Pools(g) : m.name = n.name
  <2>1. n \in Inner(h) /\ n.kind = "pool"
    BY <1>5 DEF Pools, Inner
  <2>2. PICK m \in Inner(g) : Tag(m) = Tag(n)
    BY <1>1, <2>1
  <2>3. m.kind = "pool" /\ m.name = n.name
    BY <1>3, <2>1, <2>2
  <2>4. m \in Pools(g)
    BY <2>3 DEF Pools, Inner
  <2> QED
    BY <2>3, <2>4
<1>6. ASSUME EnabledIsTheirs(h), NEW m \in Nodes(g), m.kind = "middleware"
      PROVE  "Enabled" \notin m.hooks
  <2>1. m \in Inner(g)
    BY <1>6 DEF Inner
  <2>2. PICK n \in Inner(h) : Tag(m) = Tag(n)
    BY <1>2, <2>1
  <2>3. n.kind = "middleware" /\ m.hooks = n.hooks
    BY <1>3, <1>6, <2>2
  <2>4. n \in Nodes(h)
    BY DEF Inner
  <2> QED
    BY <1>6, <2>3, <2>4 DEF EnabledIsTheirs
<1>7. ASSUME NEW m \in Routes(g) PROVE Routes(h) # {}
  <2>1. m \in Inner(g) /\ m.kind = "route"
    BY <1>7 DEF Routes, Inner
  <2>2. PICK n \in Inner(h) : Tag(m) = Tag(n)
    BY <1>2, <2>1
  <2>3. n.kind = "route"
    BY <1>3, <2>1, <2>2
  <2> QED
    BY <2>3 DEF Routes, Inner
<1> QED
  BY <1>4, <1>5, <1>6, <1>7 DEF EnabledIsTheirs

(* The compositions that are built are handlers nothing was derived from.  *)
LEMMA CompositionsAreFresh ==
  ASSUME NEW c \in Compositions
  PROVE  c \in Handlers /\ Fresh(c)
<1>1. Composition(c) /\ MaxDepth \in Nat
  BY LoggerAssumption
<1>2. c \in Handlers
  BY <1>1 DEF Composition, Handlers
<1>3. \A n \in Inner(c) : n.kind \in {"sink", "inline", "route"} => n \in Leaves(c) \cup Routes(c)
  BY DEF Inner, Leaves, Routes
<1> QED
  BY <1>1, <1>2, <1>3 DEF Composition, Fresh

-----------------------------------------------------------------------------

Steps == [step : {"attrs"}, attrs : Seq(Attribute)] \cup [step : {"group"}, name : STRING]

(* What came of the last record is what the handler in use makes of it.    *)
EventIs(r, env) ==
  event = [record |-> r, env |-> env,
           outcome |-> IF Enabled(handler, env) THEN Handle(handler, r, env) ELSE Nothing]

(* The handler in use is still made of the handlers the user named, and    *)
(* its routes know what the sinks behind them know.                        *)
IInv ==
  /\ made \in Compositions
  /\ steps \in Seq(Steps) /\ Len(steps) <= MaxSteps
  /\ handler \in Handlers /\ RoutesAgree(handler) /\ Tags(handler) = Tags(made)
  /\ event = <<>> \/ \E r \in Records, env \in Environments(made) : EventIs(r, env)

(* The constructors establish the invariant.                               *)
LEMMA InitInv ==
  ASSUME Recursion, Init
  PROVE  IInv
<1>1. made \in Handlers /\ Fresh(made)
  BY CompositionsAreFresh DEF Init
<1>2. /\ Build(made) \in Handlers /\ Fresh(Build(made))
      /\ Tags(Build(made)) = Tags(made)
  BY <1>1, BuildKeepsTheHandlers
<1>3. RoutesAgree(Build(made))
  BY <1>2, FreshAgrees
<1>4. steps \in Seq(Steps) /\ Len(steps) <= MaxSteps
  BY LoggerAssumption DEF Init
<1> QED
  BY <1>2, <1>3, <1>4 DEF Init, IInv

(* A derivation may go on as long as it is short.                          *)
LEMMA LongerSteps ==
  ASSUME steps \in Seq(Steps), Len(steps) < MaxSteps, NEW s \in Steps
  PROVE  Append(steps, s) \in Seq(Steps) /\ Len(Append(steps, s)) <= MaxSteps
<1>1. Append(steps, s) \in Seq(Steps) /\ Len(Append(steps, s)) = Len(steps) + 1
  BY AppendProperties
<1>2. Len(steps) \in Nat /\ MaxSteps \in Nat
  BY LenProperties, LoggerAssumption
<1> QED
  BY <1>1, <1>2

(* WithAttrs keeps the invariant.                                          *)
LEMMA WithInv ==
  ASSUME Recursion, IInv, With
  PROVE  IInv'
<1>1. PICK before : before = {i \in DOMAIN steps : steps[i].step = "attrs"}
  OBVIOUS
<1>2. PICK n : n = Cardinality(before) + 1
  OBVIOUS
<1>3. PICK attrs : attrs = Additions[n]
  OBVIOUS
<1>4. /\ Len(steps) < MaxSteps
      /\ handler' = WithAttrs(handler, attrs)
      /\ steps' = Append(steps, AttrsStep(attrs))
      /\ event' = <<>> /\ made' = made
  BY <1>1, <1>2, <1>3 DEF With
<1>5. n \in 1 .. Len(Additions)
  <2>1. PICK k \in Nat : k = Len(steps) /\ DOMAIN steps = 1 .. k
    BY LenProperties DEF IInv
  <2>2. IsFiniteSet(1 .. k) /\ Cardinality(1 .. k) = k
    BY FS_Interval
  <2>3. IsFiniteSet(before) /\ Cardinality(before) <= Cardinality(1 .. k)
    BY <1>1, <2>1, <2>2, FS_Subset
  <2>4. Cardinality(before) \in Nat
    BY <2>3, FS_CardinalityType
  <2>5. Len(Additions) \in Nat /\ MaxSteps \in Nat /\ MaxSteps <= Len(Additions)
    BY LoggerAssumption, LenProperties
  <2> QED
    BY <1>2, <1>4, <2>1, <2>2, <2>3, <2>4, <2>5
<1>6. attrs \in Addition /\ attrs \in Seq(Attribute)
  BY <1>3, <1>5, LoggerAssumption, ElementOfSeq, AdditionIs
<1>7. AttrsStep(attrs) \in Steps
  BY <1>6 DEF AttrsStep, Steps
<1>8. steps' \in Seq(Steps) /\ Len(steps') <= MaxSteps
  BY <1>4, <1>7, LongerSteps DEF IInv
<1>9. /\ handler' \in Handlers /\ RoutesAgree(handler')
      /\ Tags(handler') = Tags(made)
  BY <1>4, <1>6, AttrsKeepTheHandlers, AttrsKeepAgreement DEF IInv
<1> QED
  BY <1>4, <1>8, <1>9 DEF IInv

(* WithGroup keeps it.                                                     *)
LEMMA WithNameInv ==
  ASSUME Recursion, IInv, NEW name \in Groups, WithName(name)
  PROVE  IInv'
<1>1. /\ handler' = WithGroup(handler, name)
      /\ event' = <<>> /\ made' = made
      /\ \/ steps' = steps
         \/ Len(steps) < MaxSteps /\ steps' = Append(steps, GroupStep(name))
  BY DEF WithName
<1>2. name \in STRING
  BY LoggerAssumption
<1> HIDE DEF WithName
<1>3. GroupStep(name) \in Steps
  BY <1>2 DEF GroupStep, Steps
<1>4. steps' \in Seq(Steps) /\ Len(steps') <= MaxSteps
  BY <1>1, <1>3, LongerSteps DEF IInv
<1>5. /\ handler' \in Handlers /\ RoutesAgree(handler')
      /\ Tags(handler') = Tags(made)
  BY <1>1, <1>2, GroupKeepsTheHandlers, GroupKeepsAgreement DEF IInv
<1> QED
  BY <1>1, <1>4, <1>5 DEF IInv

(* Logging a record changes the event alone.                               *)
LEMMA LogInv ==
  ASSUME IInv, NEW r \in Records, NEW env \in Environments(made), Log(r, env)
  PROVE  IInv'
<1>1. made' = made /\ steps' = steps /\ handler' = handler
  BY DEF Log
<1>2. EventIs(r, env)'
  BY <1>1 DEF Log, EventIs
<1> QED
  BY <1>1, <1>2 DEF IInv

(* So every step keeps it.                                                 *)
LEMMA NextInv ==
  ASSUME Recursion, IInv, [Next]_vars
  PROVE  IInv'
<1>1. CASE With
  BY <1>1, WithInv
<1>2. ASSUME NEW name \in Groups, WithName(name) PROVE IInv'
  BY <1>2, WithNameInv
<1>3. ASSUME NEW r \in Records, NEW env \in Environments(made), Log(r, env) PROVE IInv'
  BY <1>3, LogInv
<1>4. CASE UNCHANGED vars
  BY <1>4 DEF vars, IInv, EventIs
<1> QED
  BY <1>1, <1>2, <1>3, <1>4 DEF Next

(* It holds in every reachable state.                                      *)
LEMMA Invariance ==
  ASSUME Recursion
  PROVE  Spec => []IInv
<1>1. Init => IInv
  BY InitInv
<1>2. IInv /\ [Next]_vars => IInv'
  BY NextInv
<1> QED
  BY <1>1, <1>2, PTL DEF Spec

-----------------------------------------------------------------------------

(* The user's code behind the handler in use does what it may do behind    *)
(* the composition.                                                        *)
LEMMA CanCall ==
  ASSUME IInv, NEW env \in Environments(made)
  PROVE  /\ Can(handler, env)
         /\ \A n \in Leaves(made) : n \in Deciding(made) \/ env.mood[n.name] # "off"
<1>1. PICK M : M = Names(Leaves(made))
  OBVIOUS
<1>2. PICK P : P = Names(Pools(made))
  OBVIOUS
<1>3. /\ env.mood \in [M -> Moods] /\ env.start \in [P -> Draws]
      /\ \A name \in M \ Names(Deciding(made)) : env.mood[name] # "off"
  BY <1>1, <1>2 DEF Environments
<1>4. ASSUME NEW n \in Leaves(handler) PROVE env.mood[n.name] \in Ends \cup {"off"}
  <2>1. PICK m \in Leaves(made) : m.name = n.name
    BY Twins DEF IInv
  <2>2. n.name \in M
    BY <1>1, <2>1 DEF Names
  <2> QED
    BY <1>3, <2>2, LoggerAssumption DEF Ends
<1>5. ASSUME NEW n \in Pools(handler) PROVE env.start[n.name] \in Nat
  <2>1. PICK m \in Pools(made) : m.name = n.name
    BY Twins DEF IInv
  <2>2. n.name \in P
    BY <1>2, <2>1 DEF Names
  <2> QED
    BY <1>3, <2>2, LoggerAssumption
<1>6. ASSUME NEW n \in Leaves(made), n \notin Deciding(made) PROVE env.mood[n.name] # "off"
  <2>1. n.name \in M
    BY <1>1 DEF Names
  <2>2. \A d \in Deciding(made) : d \in Leaves(made)
    BY DEF Deciding
  <2>3. \A d \in Leaves(made) : d.name = n.name => d = n
    BY LoggerAssumption DEF IInv, Composition
  <2>4. n.name \notin Names(Deciding(made))
    BY <1>6, <2>2, <2>3 DEF Names
  <2> QED
    BY <1>3, <2>1, <2>4
<1> QED
  BY <1>4, <1>5, <1>6 DEF Can

(* The last record was handled by the handler in use, if it was enabled.   *)
LEMMA EventDelivers ==
  ASSUME Recursion, IInv, event # <<>>
  PROVE  \E env \in Environments(made) :
            /\ event.env = env
            /\ Enabled(handler, env) => Delivers(handler, event.outcome, env)
            /\ ~ Enabled(handler, env) => event.outcome = Nothing
<1>1. PICK r \in Records, env \in Environments(made) : EventIs(r, env)
  BY DEF IInv
<1>2. event.env = env
  BY <1>1 DEF EventIs
<1>3. event.outcome = IF Enabled(handler, env) THEN Handle(handler, r, env) ELSE Nothing
  BY <1>1 DEF EventIs
<1>4. Delivers(handler, Handle(handler, r, env), env)
  BY CanCall, HandleDelivers DEF IInv
<1> QED
  BY <1>2, <1>3, <1>4

(* The invariant bounds the types.                                         *)
LEMMA TypesHold ==
  ASSUME Recursion, IInv
  PROVE  TypeOK
<1>1. ASSUME event # <<>> PROVE event.outcome.result \in {"ok", "error", "panic"}
  <2>1. PICK env \in Environments(made) :
            /\ Enabled(handler, env) => Delivers(handler, event.outcome, env)
            /\ ~ Enabled(handler, env) => event.outcome = Nothing
    BY <1>1, EventDelivers
  <2>2. CASE Enabled(handler, env)
    BY <2>1, <2>2 DEF Delivers, Ends
  <2>3. CASE ~ Enabled(handler, env)
    BY <2>1, <2>3, NothingIs
  <2> QED
    BY <2>2, <2>3
<1>2. handler.kind \in {"sink", "inline", "fanout", "failover", "pool", "route",
                        "firstmatch", "recovery", "middleware"}
  BY Typed DEF IInv
<1> QED
  BY <1>1, <1>2 DEF IInv, TypeOK

(* A name stands for the same handler of the user's before and after.      *)
LEMMA NamesTellLeaves ==
  ASSUME Recursion, IInv, NEW m \in Leaves(made), NEW n \in Leaves(handler), n.name = m.name
  PROVE  /\ m.name \notin Extra
         /\ m.kind = n.kind /\ (n.kind = "inline" => m.enabledFunc = n.enabledFunc)
<1>1. PICK t \in Leaves(made) : /\ t.kind = n.kind /\ t.name = n.name
                                /\ n.kind = "inline" => t.enabledFunc = n.enabledFunc
  BY Twins DEF IInv
<1>2. t = m
  BY <1>1, LoggerAssumption DEF IInv, Composition
<1>3. m.name \notin Extra
  BY LoggerAssumption DEF IInv, Composition, Extra
<1> QED
  BY <1>1, <1>2, <1>3

(* Whoever was called is not off.                                          *)
LEMMA CalledIsOn ==
  ASSUME Recursion, IInv, event # <<>>, EnabledIsTheirs(made), NEW h \in Leaves(made), Called(h)
  PROVE  event.env.mood[h.name] # "off"
<1>1. PICK env \in Environments(made) :
          /\ event.env = env
          /\ Enabled(handler, env) => Delivers(handler, event.outcome, env)
          /\ ~ Enabled(handler, env) => event.outcome = Nothing
  BY EventDelivers
<1>2. PICK calls : calls = event.outcome.calls
  OBVIOUS
<1>3. PICK call \in Within(calls) : call.to = h.name
  BY <1>2 DEF Called, Within
<1>4. Enabled(handler, env)
  <2>1. ASSUME ~ Enabled(handler, env) PROVE FALSE
    <3>1. calls = <<>>
      BY <1>1, <1>2, <2>1, NothingIs
    <3> QED
      BY <1>3, <3>1, NoCall
  <2> QED
    BY <2>1
<1>5. EnabledIsTheirs(handler)
  BY Twins DEF IInv
<1>6. h.name \notin Extra
  BY LoggerAssumption DEF IInv, Composition, Extra
<1>7. PICK n \in Leaves(handler) : Says(n, env) /\ h.name = n.name
  BY <1>1, <1>2, <1>3, <1>4, <1>5, <1>6 DEF Delivers
<1>8. h.kind = n.kind /\ (n.kind = "inline" => h.enabledFunc = n.enabledFunc)
  BY <1>7, NamesTellLeaves
<1>9. CASE h \in Deciding(made)
  <2>1. n.kind = "inline" => n.enabledFunc
    BY <1>8, <1>9 DEF Deciding
  <2> QED
    BY <1>1, <1>7, <2>1 DEF Says
<1>10. CASE h \notin Deciding(made)
  BY <1>1, <1>10, CanCall
<1> QED
  BY <1>9, <1>10

(* If somebody is not off, somebody is called.                             *)
LEMMA SomebodyIsCalled ==
  ASSUME Recursion, IInv, event # <<>>, EnabledIsTheirs(made), Routes(made) = {},
         NEW h \in Leaves(made), event.env.mood[h.name] # "off"
  PROVE  \E m \in Leaves(made) : Called(m)
<1>1. PICK env \in Environments(made) :
          /\ event.env = env
          /\ Enabled(handler, env) => Delivers(handler, event.outcome, env)
          /\ ~ Enabled(handler, env) => event.outcome = Nothing
  BY EventDelivers
<1>2. EnabledIsTheirs(handler) /\ Routes(handler) = {} /\ handler \in Handlers
  BY Twins DEF IInv
<1>3. PICK n \in Leaves(handler) : n.name = h.name
  BY Twins DEF IInv
<1>4. Says(n, env)
  BY <1>1, <1>3 DEF Says
<1>5. Enabled(handler, env)
  BY <1>2, <1>4, EnabledIsAny
<1>6. PICK calls : calls = event.outcome.calls
  OBVIOUS
<1>7. PICK call \in Within(calls) : \E l \in Leaves(handler) : call.to = l.name
  BY <1>1, <1>2, <1>5, <1>6 DEF Delivers
<1>8. PICK l \in Leaves(handler) : call.to = l.name
  BY <1>7
<1>9. PICK m \in Leaves(made) : m.name = l.name
  BY Twins DEF IInv
<1>10. PICK i \in DOMAIN calls : calls[i].to = m.name
  BY <1>7, <1>8, <1>9 DEF Within
<1> QED
  BY <1>6, <1>10 DEF Called

(* The invariant bears on what predicates see.                             *)
LEMMA RoutesSeeTheLog ==
  ASSUME Recursion, IInv
  PROVE  PredicatesSeeWhatIsLogged
<1> SUFFICES ASSUME NEW h \in Routes(handler), Unmarked(h.handler), NEW n \in Leaves(h.handler),
                    NEW r \in Records, n.kind = "sink"
             PROVE  Logged(Seen(h, r).attrs) = Latest(n.attrs) \cup Logged(NestAll(n.groups, r.attrs))
  BY DEF PredicatesSeeWhatIsLogged
<1>1. h \in Inner(handler) /\ h.kind = "route" /\ h \in Handlers
  BY NodesAreHandlers DEF Routes, Inner, IInv
<1>2. h \in RoutesTo(Handlers)
  BY <1>1, Typed
<1>3. h.groups \in Seq(STRING) /\ h.attrs \in Seq(Attribute) /\ h.handler \in Handlers
  BY <1>2 DEF RoutesTo
<1>4. n \in Sinks(h.handler)
  BY DEF Leaves, Sinks, Inner
<1>5. n.groups = h.groups /\ Logged(h.attrs) = Latest(n.attrs)
  BY <1>1, <1>4 DEF IInv, RoutesAgree, Agrees
<1>7. r = Record(r.level, r.message, r.attrs) /\ r.attrs \in Seq(Attribute)
  BY LoggerAssumption
<1>8. PICK nested : nested = NestAll(h.groups, r.attrs)
  OBVIOUS
<1>9. nested \in Seq(Attribute)
  BY <1>3, <1>7, <1>8, NestedAreAttributes
<1>10. Seen(h, r).attrs = h.attrs \o nested
  <2>1. PICK seen : seen = AppendRecordAttrsToAttrs(h.attrs, h.groups, r)
    OBVIOUS
  <2>2. Seen(h, r) = [r EXCEPT !.attrs = seen]
    BY <2>1 DEF Seen
  <2>3. Seen(h, r).attrs = seen
    BY <1>7, <2>2 DEF Record
  <2>4. seen = h.attrs \o nested
    BY <1>8, <2>1 DEF AppendRecordAttrsToAttrs
  <2> QED
    BY <2>3, <2>4
<1>11. Logged(h.attrs \o nested) = Logged(h.attrs) \cup Logged(nested)
  BY <1>3, <1>9, BothAreLogged
<1> QED
  BY <1>5, <1>8, <1>10, <1>11

(* Every route is one whose predicates the lemmas on counting are about.   *)
LEMMA CountingSaysAll ==
  ASSUME Recursion, IInv
  PROVE  DistinctAttrsAreAllThere
<1> SUFFICES ASSUME NEW h \in Routes(handler), NEW r \in Records, NEW seen, seen = Seen(h, r),
                    DistinctKeys(seen.attrs), NEW i \in DOMAIN h.predicates,
                    SaysAll(h.predicates[i])
             PROVE  Holds(h.predicates[i], seen) <=> MeansAll(h.predicates[i], seen.attrs)
  BY DEF DistinctAttrsAreAllThere
<1>1. h.kind = "route" /\ h \in Handlers
  BY NodesAreHandlers DEF Routes, IInv
<1>2. h.predicates \in Seq(RoutePredicates)
  BY <1>1, Typed DEF RoutesTo
<1>3. PICK p \in RoutePredicates : p = h.predicates[i]
  BY <1>2, LenProperties, ElementOfSeq
<1>4. PICK args : args = p.arg
  OBVIOUS
<1>5. PICK S : args \in Seq(S)
  BY <1>3, <1>4, LoggerAssumption
<1>6. CASE p.is = "AttrValueIs"
  <2>1. Holds(p, seen) <=> AttrValueIs(args, seen)
    BY <1>4, <1>6 DEF Holds
  <2>2. MeansAll(p, seen.attrs) <=> HasAllValues(MapOf(args), seen.attrs)
    BY <1>4, <1>6 DEF MeansAll
  <2> QED
    BY <1>3, <1>5, <2>1, <2>2, DistinctValues
<1>7. CASE p.is = "AttrKindIs"
  <2>1. Holds(p, seen) <=> AttrKindIs(args, seen)
    BY <1>4, <1>7 DEF Holds
  <2>2. MeansAll(p, seen.attrs) <=> HasAllKinds(MapOf(args), seen.attrs)
    BY <1>4, <1>7 DEF MeansAll
  <2> QED
    BY <1>3, <1>5, <2>1, <2>2, DistinctKinds
<1> QED
  BY <1>3, <1>6, <1>7 DEF SaysAll

-----------------------------------------------------------------------------

(* A derived handler is of one of the package's types or the user's, and   *)
(* every call of it ends as a Handle may end.                              *)
THEOREM TypeCorrect ==
  ASSUME Recursion
  PROVE  Spec => []TypeOK
<1>1. IInv => TypeOK
  BY TypesHold
<1> QED
  BY <1>1, Invariance, PTL

(* Through all the composites and wrappers, and after any derivation with  *)
(* plain attributes (LoggerAssumption), what a route's predicates see      *)
(* (RoutableHandler's own groups and attributes and the record's) is what  *)
(* every sink behind it writes, the later of two values that clash counted *)
(* for both; keys may repeat, in one addition and in several.              *)
THEOREM PredicatesAgreeWithTheLog ==
  ASSUME Recursion
  PROVE  Spec => []PredicatesSeeWhatIsLogged
<1>1. IInv => PredicatesSeeWhatIsLogged
  BY RoutesSeeTheLog
<1> QED
  BY <1>1, Invariance, PTL

(* No composition hands a record to a handler that says it is not enabled, *)
(* as long as the Enabled of every wrapper is that of the wrapped.         *)
THEOREM TheDisabledAreSpared ==
  ASSUME Recursion
  PROVE  Spec => []DisabledHearNothing
<1>1. IInv => DisabledHearNothing
  <2>1. \A h \in Deciding(made) : h \in Leaves(made)
    BY DEF Deciding
  <2> QED
    BY <2>1, CalledIsOn DEF DisabledHearNothing
<1> QED
  BY <1>1, Invariance, PTL

(* What Enabled promises of a composition without routes is kept by its    *)
(* Handle: somebody takes the record, and nobody is left out in silence    *)
(* while it says that it is not enabled.                                   *)
THEOREM EnabledKeepsItsPromise ==
  ASSUME Recursion
  PROVE  Spec => []EnabledIsKept
<1>1. IInv => EnabledIsKept
  BY CalledIsOn, SomebodyIsCalled DEF EnabledIsKept
<1> QED
  BY <1>1, Invariance, PTL

(* Wherever in a composition a route stands, AttrValueIs and AttrKindIs    *)
(* mean "all of them" for the records without a repeated key.              *)
THEOREM PredicatesMeanAll ==
  ASSUME Recursion
  PROVE  Spec => []DistinctAttrsAreAllThere
<1>1. IInv => DistinctAttrsAreAllThere
  BY CountingSaysAll
<1> QED
  BY <1>1, Invariance, PTL

=============================================================================
