-------------------------- MODULE RestartPolicyProofs --------------------------
(***************************************************************************)
(* Proofs about RestartPolicy for every set of components, every budget    *)
(* that the code accepts and whose healthy interval is at least its        *)
(* window, and every length of the session.                                *)
(***************************************************************************)
EXTENDS RestartPolicy, SequenceTheorems, WellFoundedInduction, TLAPS

(* The inductive invariant: the rate bound, what the policy remembers and  *)
(* forgets, and the order of grants and launches.                          *)
IInv ==
    /\ TypeOK
    /\ RateBound
    /\ RemembersOnlyTheWindow
    /\ LedgerAgrees
    /\ Chronology

(* The fields of a valid budget are numbers.                               *)
LEMMA BudgetFields ==
    ASSUME NEW c \in Component
    PROVE  /\ MaxRestarts[c] \in Nat /\ Window[c] \in Nat /\ Healthy[c] \in Nat
           /\ MaxRestarts[c] > 0 /\ Window[c] > 0 /\ Healthy[c] > 0
  BY ValidBudget

-----------------------------------------------------------------------------
(* The backoff.                                                            *)

(* What holds of 0, and of every number up to N after one it holds of,     *)
(* holds up to N: there is no least exception.                             *)
LEMMA UpTo ==
    ASSUME NEW N \in Nat, NEW T, 0 \in T, \A n \in 1..N : n - 1 \in T => n \in T
    PROVE  \A n \in 0..N : n \in T
<1> DEFINE R == OpToRel(<, Nat)
           Missing == {n \in 0..N : n \notin T}
<1>1. SUFFICES ASSUME Missing # {} PROVE FALSE
  OBVIOUS
<1>2. PICK m \in Missing : \A n \in Missing : ~ (<<n, m>> \in R)
  <2>1. IsWellFoundedOn(R, Nat)
    BY NatLessThanWellFounded, Zenon
  <2>2. Missing \subseteq Nat
    OBVIOUS
  <2> HIDE DEF R, Missing
  <2> QED BY <1>1, <2>1, <2>2, WFMin, Zenon
<1>3. m \in 1..N /\ m \notin T /\ m - 1 \in 0..N
  OBVIOUS
<1>4. m - 1 \notin Missing
  <2>1. <<m - 1, m>> \in R
    BY <1>3 DEF OpToRel
  <2> HIDE DEF R, Missing
  <2> QED BY <1>2, <2>1, Zenon
<1> QED BY <1>3, <1>4

(* The delays that the budget of c allows.                                 *)
Allowed(c) == InitialBackoff[c]..MaximumBackoff[c]

(* One turn of the doubling loop stays between the bounds.                 *)
LEMMA DoublingIsAllowed ==
    ASSUME NEW c \in Component
    PROVE  /\ InitialBackoff[c] \in Allowed(c)
           /\ \A d \in Allowed(c) : Doubled(c, d) \in Allowed(c)
<1>1. /\ InitialBackoff[c] \in Nat /\ MaximumBackoff[c] \in Nat
      /\ InitialBackoff[c] <= MaximumBackoff[c]
  BY ValidBudget
<1> QED BY <1>1 DEF Allowed, Doubled

(* f has the delays of c up to the n-th doubling.                          *)
Doubles(c, f, n) ==
    f[0] = InitialBackoff[c] /\ \A i \in 1..n : f[i] = Doubled(c, f[i - 1])

(* The loop of backoffFor has a result for every ordinal.                  *)
LEMMA DelaysExist ==
    ASSUME NEW c \in Component, NEW N \in Nat
    PROVE  \E f \in [0..N -> Allowed(c)] : Doubles(c, f, N)
<1> DEFINE T == {n \in 0..N : \E f \in [0..N -> Allowed(c)] : Doubles(c, f, n)}
<1>1. 0 \in T
  <2> DEFINE g == [i \in 0..N |-> InitialBackoff[c]]
  <2>1. g \in [0..N -> Allowed(c)] /\ Doubles(c, g, 0)
    BY DoublingIsAllowed DEF Doubles
  <2>2. 0 \in 0..N
    OBVIOUS
  <2> HIDE DEF g
  <2> QED BY <2>1, <2>2
<1>2. ASSUME NEW n \in 1..N, n - 1 \in T PROVE n \in T
  <2>1. PICK f \in [0..N -> Allowed(c)] : Doubles(c, f, n - 1)
    BY <1>2
  <2> DEFINE v == Doubled(c, f[n - 1])
             g == [i \in 0..N |-> IF i = n THEN v ELSE f[i]]
  <2>2. v \in Allowed(c)
    BY DoublingIsAllowed
  <2>3. g \in [0..N -> Allowed(c)] /\ g[0] = InitialBackoff[c]
    BY <2>1, <2>2 DEF Doubles
  <2>4. ASSUME NEW i \in 1..n PROVE g[i] = Doubled(c, g[i - 1])
    <3>1. CASE i = n
      <4>1. g[i] = v /\ g[i - 1] = f[i - 1]
        BY <3>1
      <4> QED BY <3>1, <4>1
    <3>2. CASE i # n
      <4>1. i \in 1..(n - 1) /\ g[i] = f[i] /\ g[i - 1] = f[i - 1]
        BY <3>2
      <4> QED BY <2>1, <4>1 DEF Doubles
    <3> QED BY <3>1, <3>2
  <2> HIDE DEF g
  <2> QED BY <2>3, <2>4 DEF Doubles
<1>3. N \in T
  <2> HIDE DEF T
  <2> QED BY <1>1, <1>2, UpTo
<1> QED BY <1>3

(* Whatever the ordinal, the backoff lies between the initial and the      *)
(* maximum one (RestartPolicy.cpp backoffFor); so it is never zero.        *)
LEMMA BackoffIsBounded ==
    ASSUME NEW c \in Component, NEW n \in Nat \ {0}
    PROVE  BackoffFor(c, n) \in Allowed(c) /\ BackoffFor(c, n) \in Nat \ {0}
<1> DEFINE N == n - 1
           Rec(g) == g = [i \in 0..N |-> IF i = 0 THEN InitialBackoff[c] ELSE Doubled(c, g[i - 1])]
           D == Delays(c, N)
<1>1. N \in Nat
  OBVIOUS
<1> HIDE DEF N
<1>2. Rec(D)
  <2>1. PICK f \in [0..N -> Allowed(c)] : Doubles(c, f, N)
    BY <1>1, DelaysExist
  <2>2. ASSUME NEW i \in 0..N
        PROVE  f[i] = IF i = 0 THEN InitialBackoff[c] ELSE Doubled(c, f[i - 1])
    <3>1. i = 0 \/ i \in 1..N
      BY <1>1
    <3> QED BY <2>1, <3>1 DEF Doubles
  <2>3. Rec(f)
    BY <2>1, <2>2
  <2> QED BY <2>3, Zenon DEF Delays
<1> HIDE DEF D
<1>3. ASSUME NEW i \in 0..N
      PROVE  D[i] = IF i = 0 THEN InitialBackoff[c] ELSE Doubled(c, D[i - 1])
  BY <1>2
<1> HIDE DEF Rec
<1>4. D[N] \in Allowed(c)
  <2> DEFINE T == {i \in 0..N : D[i] \in Allowed(c)}
  <2>1. 0 \in T
    BY <1>1, <1>3, DoublingIsAllowed
  <2>2. \A i \in 1..N : i - 1 \in T => i \in T
    BY <1>1, <1>3, DoublingIsAllowed
  <2> HIDE DEF T
  <2>3. \A i \in 0..N : i \in T
    BY <1>1, <2>1, <2>2, UpTo, Zenon
  <2> QED BY <1>1, <2>3 DEF T
<1>5. BackoffFor(c, n) = Lesser(D[N], MaximumBackoff[c])
  BY DEF BackoffFor, D, N
<1> QED BY <1>4, <1>5, ValidBudget, Pd1Budget DEF Lesser, Allowed

-----------------------------------------------------------------------------
(* What observeExit still remembers of c after the healthy test and the    *)
(* pruning loop.                                                           *)
Kept(c, launched, k) ==
    SubSeq(Remembered(c, launched), k + 1, Len(Remembered(c, launched)))

(* The remembered history is the end of the recorded one.                  *)
LEMMA KeptIsSuffix ==
    ASSUME TypeOK, NEW c \in Component, NEW launched,
           NEW k \in 0..Len(Remembered(c, launched))
    PROVE  /\ Kept(c, launched, k) \in Seq(Nat)
           /\ Len(Kept(c, launched, k)) = Len(Remembered(c, launched)) - k
           /\ \A i \in 1..Len(Kept(c, launched, k)) :
                  Kept(c, launched, k)[i] = Remembered(c, launched)[k + i]
<1> DEFINE h == Remembered(c, launched)
<1>1. h \in Seq(Nat)
  BY DEF TypeOK, Remembered
<1>2. Len(h) \in Nat /\ \A i \in (k + 1)..Len(h) : h[i] \in Nat
  BY <1>1
<1>3. k + 1 \in Int /\ Len(h) \in Int
  BY <1>2
<1> HIDE DEF h
<1>4. /\ SubSeq(h, k + 1, Len(h)) \in Seq(Nat)
      /\ Len(SubSeq(h, k + 1, Len(h))) =
            IF k + 1 <= Len(h) THEN Len(h) - (k + 1) + 1 ELSE 0
      /\ \A i \in 1..(Len(h) - (k + 1) + 1) :
            SubSeq(h, k + 1, Len(h))[i] = h[(k + 1) + i - 1]
  BY <1>2, <1>3, SubSeqProperties
<1> QED
  BY <1>2, <1>4 DEF Kept, h

(* A pruned history is still the end of the history of grants, what it     *)
(* left out lies more than a window in the past, and what it holds does    *)
(* not.                                                                    *)
Pruned(c, kept) ==
    LET forgotten == Len(granted[c]) - Len(kept)
    IN  /\ forgotten \in Nat
        /\ \A i \in 1..Len(kept) : kept[i] = granted[c][forgotten + i]
        /\ \A i \in 1..forgotten : granted[c][i] + Window[c] < now
        /\ \A i \in 1..Len(kept) : now - kept[i] <= Window[c]

(* The loop that pops expired entries leaves those inside the window.      *)
LEMMA PruningForgetsTheOld ==
    ASSUME IInv, ~safeActive, NEW c \in Component, up[c],
           NEW launched \in {launchedAt[c], now},
           NEW k \in 0..Len(Remembered(c, launched)),
           PopsFront(Remembered(c, launched), now - Window[c], k)
    PROVE  Pruned(c, Kept(c, launched, k))
<1> DEFINE kept == Kept(c, launched, k)
           g == granted[c]
           e == exits[c]
<1>0. /\ g \in Seq(Nat) /\ e \in Seq(Nat)
      /\ Len(g) \in Nat /\ Len(e) \in Nat
      /\ \A i \in 1..Len(g) : g[i] \in Nat
  BY DEF IInv, TypeOK
<1>1. /\ now \in Nat /\ launchedAt[c] \in Nat
      /\ Window[c] \in Nat /\ Healthy[c] \in Nat /\ Healthy[c] > 0
      /\ Healthy[c] >= Window[c]
  BY ValidBudget, Pd1Budget DEF IInv, TypeOK
<1>2. Len(g) - Len(e) \in Nat
  BY DEF IInv, LedgerAgrees, Ledger
<1>3. /\ \A i \in 1..Len(e) : e[i] = g[Len(g) - Len(e) + i]
      /\ \A i \in 1..(Len(g) - Len(e)) : g[i] + Window[c] < now
  BY DEF IInv, LedgerAgrees, Ledger
<1>4. \A i, j \in 1..Len(g) : i <= j => g[i] <= g[j]
  <2> SUFFICES ASSUME NEW i \in 1..Len(g), NEW j \in 1..Len(g), i <= j
               PROVE  g[i] <= g[j]
    OBVIOUS
  <2>1. j \in i..Len(g)
    BY <1>0
  <2> QED BY <2>1 DEF IInv, Chronology
<1>5. /\ kept \in Seq(Nat)
      /\ Len(kept) = Len(Remembered(c, launched)) - k
      /\ \A i \in 1..Len(kept) : kept[i] = Remembered(c, launched)[k + i]
  BY KeptIsSuffix DEF IInv
<1>6. CASE now - launched >= Healthy[c]
  <2>1. Remembered(c, launched) = <<>>
    BY <1>6 DEF Remembered
  <2>2. Len(kept) = 0
    BY <1>5, <2>1
  <2>3. launched = launchedAt[c]
    BY <1>1, <1>6
  <2>4. \A i \in 1..Len(g) : g[i] + Window[c] < now
    <3> SUFFICES ASSUME NEW i \in 1..Len(g) PROVE g[i] + Window[c] < now
      OBVIOUS
    <3>1. g[i] \in Nat /\ g[i] < launchedAt[c]
      BY <1>0 DEF IInv, Chronology
    <3> QED BY <3>1, <1>1, <1>6, <2>3
  <2> QED BY <1>0, <2>2, <2>4 DEF Pruned
<1>7. CASE ~(now - launched >= Healthy[c])
  <2>1. Remembered(c, launched) = e
    BY <1>7 DEF Remembered
  <2>2. k \in Nat /\ k <= Len(e)
    BY <2>1, <1>0
  <2>3. /\ \A i \in 1..k : e[i] < now - Window[c]
        /\ k < Len(e) => e[k + 1] >= now - Window[c]
    BY <2>1 DEF PopsFront
  <2>4. Len(kept) = Len(e) - k
    BY <1>5, <2>1
  <2>5. \A i \in 1..Len(kept) : kept[i] = e[k + i]
    BY <1>5, <2>1
  <2> DEFINE d == Len(g) - Len(kept)
  <2>6. d \in Nat /\ d = (Len(g) - Len(e)) + k /\ Len(kept) \in Nat
    BY <1>0, <1>2, <2>2, <2>4
  <2> HIDE DEF kept, g, e
  <2>7. \A i \in 1..Len(kept) : kept[i] = g[d + i]
    <3> SUFFICES ASSUME NEW i \in 1..Len(kept) PROVE kept[i] = g[d + i]
      OBVIOUS
    <3>1. k + i \in 1..Len(e) /\ (Len(g) - Len(e)) + (k + i) = d + i
      BY <1>0, <2>2, <2>4, <2>6
    <3> QED BY <3>1, <2>5, <1>3
  <2>8. \A i \in 1..d : g[i] + Window[c] < now
    <3> SUFFICES ASSUME NEW i \in 1..d PROVE g[i] + Window[c] < now
      OBVIOUS
    <3>1. CASE i <= Len(g) - Len(e)
      BY <3>1, <1>2, <1>3, <2>6
    <3>2. CASE i > Len(g) - Len(e)
      <4> DEFINE j == i - (Len(g) - Len(e))
      <4>1. /\ j \in 1..k /\ j \in 1..Len(e)
            /\ (Len(g) - Len(e)) + j = i /\ i \in 1..Len(g)
        BY <3>2, <1>0, <1>2, <2>2, <2>4, <2>6
      <4>2. e[j] = g[i]
        BY <4>1, <1>3
      <4>3. g[i] < now - Window[c] /\ g[i] \in Nat
        BY <4>1, <4>2, <2>3, <1>0
      <4> QED BY <4>3, <1>1
    <3> QED BY <3>1, <3>2, <1>0, <1>2, <2>6
  <2>9. \A i \in 1..Len(kept) : now - kept[i] <= Window[c]
    <3> SUFFICES ASSUME NEW i \in 1..Len(kept) PROVE now - kept[i] <= Window[c]
      OBVIOUS
    <3>1. /\ 1 \in 1..Len(kept) /\ 1 <= i /\ k < Len(e)
          /\ d + 1 \in 1..Len(g) /\ d + i \in 1..Len(g) /\ d + 1 <= d + i
      BY <1>0, <1>2, <2>2, <2>4, <2>6
    <3>2. kept[1] <= kept[i]
      BY <3>1, <2>7, <1>4
    <3>3. kept[1] >= now - Window[c]
      BY <3>1, <2>3, <2>5
    <3>4. kept[1] \in Nat /\ kept[i] \in Nat
      BY <3>1, <2>7, <1>0
    <3> QED BY <3>2, <3>3, <3>4, <1>1
  <2> QED BY <2>6, <2>7, <2>8, <2>9 DEF Pruned, kept, g, e
<1> QED BY <1>6, <1>7

(* Pruning never lengthens a history.                                      *)
LEMMA PruningShortens ==
    ASSUME TypeOK, NEW c \in Component, NEW launched,
           NEW k \in 0..Len(Remembered(c, launched))
    PROVE  Kept(c, launched, k) \in Seq(Nat) /\ Len(Kept(c, launched, k)) <= MaxRestarts[c]
<1>1. Len(Remembered(c, launched)) <= Len(exits[c]) /\ Len(exits[c]) \in Nat
  BY DEF TypeOK, Remembered
<1>2. Len(exits[c]) <= MaxRestarts[c] /\ MaxRestarts[c] \in Nat
  BY ValidBudget DEF TypeOK
<1>3. /\ Kept(c, launched, k) \in Seq(Nat)
      /\ Len(Kept(c, launched, k)) = Len(Remembered(c, launched)) - k
  BY KeptIsSuffix
<1>4. Len(Remembered(c, launched)) \in Nat
  BY DEF TypeOK, Remembered
<1> QED BY <1>1, <1>2, <1>3, <1>4

-----------------------------------------------------------------------------
(* Granting a restart.                                                     *)

(* The budget is not exceeded by the entry that is added.                  *)
LEMMA RestartKeepsTypes ==
    ASSUME TypeOK, NEW c \in Component, NEW kept \in Seq(Nat), Restart(c, kept),
           up' = [up EXCEPT ![c] = FALSE], UNCHANGED <<now, safeActive, launchedAt>>
    PROVE  TypeOK'
<1>1. now \in Nat /\ MaxRestarts[c] \in Nat /\ Len(kept) \in Nat /\ Len(kept) < MaxRestarts[c]
  BY BudgetFields DEF TypeOK, Restart
<1>2. Append(kept, now) \in Seq(Nat) /\ Len(Append(kept, now)) <= MaxRestarts[c]
  BY <1>1, AppendProperties
<1>3. BackoffFor(c, Len(kept) + 1) \in Nat
  <2>1. Len(kept) + 1 \in 1..MaxRestarts[c]
    BY <1>1
  <2> QED BY <2>1, BackoffIsBounded
<1>4. /\ exits' \in [Component -> Seq(Nat)]
      /\ \A x \in Component : Len(exits'[x]) <= MaxRestarts[x]
  BY <1>2 DEF TypeOK, Restart
<1>5. granted' \in [Component -> Seq(Nat)]
  <2>1. Append(granted[c], now) \in Seq(Nat)
    BY <1>1, AppendProperties DEF TypeOK
  <2> QED BY <2>1 DEF TypeOK, Restart
<1>6. dueAt' \in [Component -> Nat]
  <2>1. now + BackoffFor(c, Len(kept) + 1) \in Nat
    BY <1>1, <1>3
  <2> QED BY <2>1 DEF TypeOK, Restart
<1> QED BY <1>4, <1>5, <1>6 DEF TypeOK, Restart

(* The new histories of the component.                                     *)
LEMMA RestartAppends ==
    ASSUME TypeOK, NEW c \in Component, NEW kept \in Seq(Nat), Restart(c, kept)
    PROVE  /\ Len(granted'[c]) = Len(granted[c]) + 1
           /\ \A i \in 1..Len(granted[c]) : granted'[c][i] = granted[c][i]
           /\ granted'[c][Len(granted[c]) + 1] = now
           /\ Len(exits'[c]) = Len(kept) + 1
           /\ \A i \in 1..Len(kept) : exits'[c][i] = kept[i]
           /\ exits'[c][Len(kept) + 1] = now
           /\ \A x \in Component \ {c} : granted'[x] = granted[x] /\ exits'[x] = exits[x]
<1>1. granted'[c] = Append(granted[c], now) /\ exits'[c] = Append(kept, now)
  BY DEF TypeOK, Restart
<1>2. granted[c] \in Seq(Nat) /\ now \in Nat
  BY DEF TypeOK
<1>3. \A x \in Component \ {c} : granted'[x] = granted[x] /\ exits'[x] = exits[x]
  BY DEF TypeOK, Restart
<1> QED BY <1>1, <1>2, <1>3, AppendProperties

(* The heart of the rate bound: a restart is granted only while fewer than *)
(* the budget are remembered, so the grant that many places before it has  *)
(* been forgotten, and is therefore old.                                   *)
LEMMA RestartKeepsRate ==
    ASSUME TypeOK, RateBound, NEW c \in Component, NEW kept \in Seq(Nat),
           Pruned(c, kept), Restart(c, kept)
    PROVE  RateBound'
<1> SUFFICES ASSUME NEW x \in Component, NEW i \in 1..Len(granted'[x]),
                    NEW j \in 1..Len(granted'[x]), j - i >= MaxRestarts[x]
             PROVE  granted'[x][j] - granted'[x][i] > Window[x]
  BY DEF RateBound
<1>1. CASE x # c
  <2>1. granted'[x] = granted[x]
    BY <1>1, RestartAppends
  <2> QED BY <2>1 DEF RateBound
<1>2. CASE x = c
  <2> DEFINE n == Len(granted[c])
             m == Len(kept)
  <2>1. /\ n \in Nat /\ m \in Nat /\ MaxRestarts[c] \in Nat
        /\ now \in Nat /\ Window[c] \in Nat /\ m < MaxRestarts[c]
        /\ \A y \in 1..n : granted[c][y] \in Nat
    <3>1. granted[c] \in Seq(Nat) /\ now \in Nat
      BY DEF TypeOK
    <3>2. m < MaxRestarts[c]
      BY DEF Restart
    <3> QED BY <3>1, <3>2, BudgetFields, SMTT(30)
  <2>2. /\ Len(granted'[c]) = n + 1 /\ granted'[c][n + 1] = now
        /\ \A y \in 1..n : granted'[c][y] = granted[c][y]
    BY RestartAppends
  <2>3. \A y \in 1..(n - m) : granted[c][y] + Window[c] < now
    BY DEF Pruned
  <2> HIDE DEF n, m
  <2>4. CASE j = n + 1
    <3>1. i \in 1..(n - m) /\ i \in 1..n
      BY <2>4, <1>2, <2>1, <2>2
    <3>2. granted[c][i] + Window[c] < now /\ granted[c][i] \in Nat
      BY <3>1, <2>1, <2>3
    <3>3. granted'[x][j] = now /\ granted'[x][i] = granted[c][i]
      BY <1>2, <2>2, <2>4, <3>1
    <3> QED BY <3>2, <3>3, <2>1, <1>2, SMTT(30)
  <2>5. CASE j # n + 1
    <3>1. j \in 1..n /\ i \in 1..n
      BY <2>5, <1>2, <2>1, <2>2
    <3>2. granted[c][j] - granted[c][i] > Window[c]
      BY <3>1, <1>2 DEF RateBound, n
    <3> QED BY <3>1, <3>2, <2>2, <1>2
  <2> QED BY <2>4, <2>5
<1> QED BY <1>1, <1>2
(* The remembered restarts are those of the window that ends now.          *)
LEMMA RestartRemembersTheWindow ==
    ASSUME TypeOK, RemembersOnlyTheWindow, session = "running",
           NEW c \in Component, NEW kept \in Seq(Nat),
           Pruned(c, kept), Restart(c, kept)
    PROVE  RemembersOnlyTheWindow'
<1> SUFFICES ASSUME NEW x \in Component, exits'[x] # <<>>,
                    NEW i \in 1..Len(exits'[x])
             PROVE  exits'[x][Len(exits'[x])] - exits'[x][i] <= Window[x]
  BY DEF RemembersOnlyTheWindow
<1>1. CASE x # c
  <2>1. exits'[x] = exits[x]
    BY <1>1, RestartAppends
  <2> QED BY <2>1 DEF RemembersOnlyTheWindow
<1>2. CASE x = c
  <2> DEFINE m == Len(kept)
  <2>1. m \in Nat /\ now \in Nat /\ Window[c] \in Nat
    BY BudgetFields DEF TypeOK
  <2>2. /\ Len(exits'[c]) = m + 1 /\ exits'[c][m + 1] = now
        /\ \A y \in 1..m : exits'[c][y] = kept[y]
    BY RestartAppends
  <2>3. \A y \in 1..m : now - kept[y] <= Window[c]
    BY DEF Pruned
  <2> HIDE DEF m
  <2>4. CASE i = m + 1
    BY <2>1, <2>2, <2>4, <1>2
  <2>5. CASE i # m + 1
    <3>1. i \in 1..m
      BY <2>1, <2>2, <2>5, <1>2
    <3> QED BY <3>1, <2>2, <2>3, <1>2
  <2> QED BY <2>4, <2>5
<1> QED BY <1>1, <1>2

(* The grant is the newest entry of the record and of the history.         *)
LEMMA RestartKeepsLedger ==
    ASSUME TypeOK, LedgerAgrees, ~safeActive, NEW c \in Component,
           NEW kept \in Seq(Nat), Pruned(c, kept), Restart(c, kept), now' = now
    PROVE  LedgerAgrees'
<1> SUFFICES ASSUME NEW x \in Component PROVE Ledger(x)'
  BY DEF LedgerAgrees
<1>1. CASE x # c
  <2>1. granted'[x] = granted[x] /\ exits'[x] = exits[x] /\ Ledger(x)
    BY <1>1, RestartAppends DEF LedgerAgrees
  <2> QED BY <2>1 DEF Ledger
<1>2. CASE x = c
  <2> DEFINE n == Len(granted[c])
             m == Len(kept)
  <2>1. n \in Nat /\ m \in Nat
    BY DEF TypeOK
  <2>2. /\ Len(granted'[c]) = n + 1 /\ granted'[c][n + 1] = now
        /\ \A y \in 1..n : granted'[c][y] = granted[c][y]
    BY RestartAppends
  <2>3. /\ Len(exits'[c]) = m + 1 /\ exits'[c][m + 1] = now
        /\ \A y \in 1..m : exits'[c][y] = kept[y]
    BY RestartAppends
  <2>4. /\ n - m \in Nat
        /\ \A y \in 1..m : kept[y] = granted[c][(n - m) + y]
        /\ \A y \in 1..(n - m) : granted[c][y] + Window[c] < now
    BY DEF Pruned
  <2> HIDE DEF n, m
  <2>5. Len(granted'[c]) - Len(exits'[c]) = n - m
    BY <2>1, <2>2, <2>3
  <2>6. \A y \in 1..Len(exits'[c]) : exits'[c][y] = granted'[c][(n - m) + y]
    <3> SUFFICES ASSUME NEW y \in 1..(m + 1)
                 PROVE  exits'[c][y] = granted'[c][(n - m) + y]
      BY <2>3
    <3>1. CASE y = m + 1
      <4>1. (n - m) + y = n + 1
        BY <3>1, <2>1
      <4> QED BY <4>1, <3>1, <2>2, <2>3
    <3>2. CASE y # m + 1
      <4>1. y \in 1..m /\ (n - m) + y \in 1..n
        BY <3>2, <2>1, <2>4
      <4> QED BY <4>1, <2>2, <2>3, <2>4
    <3> QED BY <3>1, <3>2
  <2>7. \A y \in 1..(n - m) : granted'[c][y] + Window[c] < now
    <3> SUFFICES ASSUME NEW y \in 1..(n - m)
                 PROVE  granted'[c][y] + Window[c] < now
      OBVIOUS
    <3>1. y \in 1..n
      BY <2>1, <2>4
    <3> QED BY <3>1, <2>2, <2>4
  <2> QED BY <1>2, <2>4, <2>5, <2>6, <2>7 DEF Ledger
<1> QED BY <1>1, <1>2

(* The grant is not before any other, and what it starts comes after it.   *)
LEMMA RestartKeepsChronology ==
    ASSUME TypeOK, Chronology, NEW c \in Component, up[c], ~safeActive,
           NEW kept \in Seq(Nat), Restart(c, kept), up' = [up EXCEPT ![c] = FALSE],
           UNCHANGED <<now, safeActive, launchedAt>>
    PROVE  Chronology'
<1> DEFINE After(x) ==
        /\ launchedAt[x] <= now
        /\ \A i \in 1..Len(granted'[x]) :
               /\ granted'[x][i] <= now
               /\ \A j \in i..Len(granted'[x]) : granted'[x][i] <= granted'[x][j]
               /\ up'[x] => granted'[x][i] < launchedAt[x]
               /\ ~up'[x] /\ session = "running" => granted'[x][i] < dueAt'[x]
<1>0. now \in Nat /\ session' = session
  BY DEF TypeOK, Restart
<1>1. ASSUME NEW x \in Component, x # c PROVE After(x)
  <2>1. granted'[x] = granted[x]
    BY <1>1, RestartAppends
  <2>2. up'[x] = up[x] /\ dueAt'[x] = dueAt[x]
    BY <1>1 DEF TypeOK, Restart
  <2> QED BY <2>1, <2>2 DEF Chronology
<1>2. After(c)
  <2> DEFINE n == Len(granted[c])
  <2>1. n \in Nat /\ \A i \in 1..n : granted[c][i] \in Nat
    BY DEF TypeOK
  <2>2. /\ Len(granted'[c]) = n + 1 /\ granted'[c][n + 1] = now
        /\ \A i \in 1..n : granted'[c][i] = granted[c][i]
    BY RestartAppends
  <2>3. ~up'[c]
    BY DEF TypeOK
  <2>4. dueAt'[c] > now
    <3>1. Len(kept) \in Nat /\ Len(kept) < MaxRestarts[c] /\ MaxRestarts[c] \in Nat
      BY BudgetFields DEF Restart
    <3>2. Len(kept) + 1 \in 1..MaxRestarts[c]
      BY <3>1
    <3>3. BackoffFor(c, Len(kept) + 1) \in Nat \ {0}
      BY <3>2, BackoffIsBounded
    <3>4. dueAt'[c] = now + BackoffFor(c, Len(kept) + 1)
      BY DEF TypeOK, Restart
    <3> QED BY <3>3, <3>4, <1>0
  <2>5. launchedAt[c] <= now /\ launchedAt[c] \in Nat
    BY DEF Chronology, TypeOK
  <2>6. dueAt'[c] \in Nat
    BY RestartKeepsTypes DEF TypeOK
  <2>7. \A i \in 1..n : granted[c][i] <= now /\ \A j \in i..n : granted[c][i] <= granted[c][j]
    BY DEF Chronology
  <2> HIDE DEF n
  <2>8. ASSUME NEW i \in 1..(n + 1)
        PROVE  granted'[c][i] <= now /\ granted'[c][i] \in Nat
    <3>1. CASE i = n + 1
      BY <3>1, <2>2, <1>0
    <3>2. CASE i # n + 1
      <4>1. i \in 1..n
        BY <3>2, <2>1
      <4> QED BY <4>1, <2>1, <2>2, <2>7
    <3> QED BY <3>1, <3>2
  <2>9. ASSUME NEW i \in 1..(n + 1), NEW j \in i..(n + 1)
        PROVE  granted'[c][i] <= granted'[c][j]
    <3>1. CASE j = n + 1
      BY <3>1, <2>2, <2>8
    <3>2. CASE j # n + 1
      <4>1. i \in 1..n /\ j \in 1..n /\ j \in i..n
        BY <3>2, <2>1
      <4> QED BY <4>1, <2>2, <2>7
    <3> QED BY <3>1, <3>2
  <2>10. ASSUME NEW i \in 1..(n + 1) PROVE granted'[c][i] < dueAt'[c]
    BY <2>4, <2>6, <2>8, <1>0
  <2> QED BY <2>2, <2>3, <2>5, <2>8, <2>9, <2>10
<1>3. \A x \in Component : After(x)
  BY <1>1, <1>2
<1> QED BY <1>0, <1>3 DEF Chronology
-----------------------------------------------------------------------------
(* An exhausted budget prunes the history and leaves the running session.  *)
LEMMA ExhaustedKeepsIInv ==
    ASSUME IInv, ~safeActive, NEW c \in Component, NEW kept \in Seq(Nat),
           Len(kept) <= MaxRestarts[c], Pruned(c, kept), Exhausted(c, kept),
           up' = [up EXCEPT ![c] = FALSE], UNCHANGED <<now, safeActive, launchedAt>>
    PROVE  IInv'
<1>1. /\ granted' = granted /\ dueAt' = dueAt /\ now' = now /\ safeActive' = safeActive
      /\ launchedAt' = launchedAt /\ session' \in {"ended", "entering_safe"}
      /\ exits' = [exits EXCEPT ![c] = kept] /\ safeOffered' = TRUE
  BY DEF Exhausted
<1>2. TypeOK'
  BY <1>1 DEF IInv, TypeOK
<1>3. RateBound'
  BY <1>1 DEF IInv, RateBound
<1>4. RemembersOnlyTheWindow'
  BY <1>1 DEF RemembersOnlyTheWindow
<1>5. LedgerAgrees'
  <2> SUFFICES ASSUME NEW x \in Component PROVE Ledger(x)'
    BY DEF LedgerAgrees
  <2>1. CASE x = c
    <3>1. exits'[c] = kept
      BY <1>1 DEF IInv, TypeOK
    <3> QED BY <2>1, <3>1, <1>1 DEF Pruned, Ledger
  <2>2. CASE x # c
    <3>1. exits'[x] = exits[x] /\ Ledger(x)
      BY <2>2, <1>1 DEF IInv, TypeOK, LedgerAgrees
    <3> QED BY <3>1, <1>1 DEF Ledger
  <2> QED BY <2>1, <2>2
<1>6. Chronology'
  <2>1. \A x \in Component : up'[x] => up[x]
    BY DEF IInv, TypeOK
  <2> QED BY <2>1, <1>1 DEF IInv, Chronology
<1> QED BY <1>2, <1>3, <1>4, <1>5, <1>6 DEF IInv

-----------------------------------------------------------------------------
(* The steps of the policy and of its caller.                              *)

(* A component exits: it is forgotten, restarted, or exhausted.            *)
LEMMA ObserveExitKeepsIInv ==
    ASSUME IInv, NEW c \in Component, NEW r \in Reason, ObserveExit(c, r)
    PROVE  IInv'
<1>1. /\ session = "running" /\ up[c] /\ up' = [up EXCEPT ![c] = FALSE]
      /\ UNCHANGED <<now, safeActive, launchedAt>>
  BY DEF ObserveExit
<1>2. CASE Terminal(r)
  <2>1. session' = "ended" /\ UNCHANGED <<exits, safeOffered, granted, dueAt>>
    BY <1>2 DEF ObserveExit
  <2>2. \A x \in Component : up'[x] => up[x]
    BY <1>1 DEF IInv, TypeOK
  <2>3. TypeOK'
    BY <1>1, <2>1 DEF IInv, TypeOK
  <2>4. RateBound' /\ RemembersOnlyTheWindow'
    BY <2>1 DEF IInv, RateBound, RemembersOnlyTheWindow
  <2>5. LedgerAgrees'
    BY <1>1, <2>1 DEF IInv, LedgerAgrees, Ledger
  <2>6. Chronology'
    BY <1>1, <2>1, <2>2 DEF IInv, Chronology
  <2> QED BY <2>3, <2>4, <2>5, <2>6 DEF IInv
<1>3. CASE ~Terminal(r)
  <2>1. PICK launched \in {launchedAt[c], now} : ChargeBudget(c, launched)
    BY <1>3 DEF ObserveExit
  <2>2. PICK k \in 0..Len(Remembered(c, launched)) :
          /\ PopsFront(Remembered(c, launched), now - Window[c], k)
          /\ \/ Restart(c, Kept(c, launched, k))
             \/ Exhausted(c, Kept(c, launched, k))
    BY <2>1 DEF ChargeBudget, Kept
  <2> DEFINE kept == Kept(c, launched, k)
  <2>3. ~safeActive
    BY <1>3 DEF Terminal
  <2>4. Pruned(c, kept)
    BY <1>1, <2>2, <2>3, PruningForgetsTheOld
  <2>5. kept \in Seq(Nat) /\ Len(kept) <= MaxRestarts[c]
    BY PruningShortens DEF IInv
  <2> HIDE DEF kept
  <2>6. CASE Restart(c, kept)
    <3>1. TypeOK'
      BY <1>1, <2>5, <2>6, RestartKeepsTypes DEF IInv
    <3>2. RateBound'
      BY <2>4, <2>5, <2>6, RestartKeepsRate DEF IInv
    <3>3. RemembersOnlyTheWindow'
      BY <1>1, <2>4, <2>5, <2>6, RestartRemembersTheWindow DEF IInv
    <3>4. LedgerAgrees'
      BY <1>1, <2>3, <2>4, <2>5, <2>6, RestartKeepsLedger DEF IInv
    <3>5. Chronology'
      BY <1>1, <2>3, <2>5, <2>6, RestartKeepsChronology DEF IInv
    <3> QED BY <3>1, <3>2, <3>3, <3>4, <3>5 DEF IInv
  <2>7. CASE Exhausted(c, kept)
    BY <1>1, <2>3, <2>4, <2>5, <2>7, ExhaustedKeepsIInv
  <2> QED BY <2>2, <2>6, <2>7 DEF kept
<1> QED BY <1>2, <1>3

(* Safe mode is activated: nothing is granted any more.                    *)
LEMMA ActivateKeepsIInv ==
    ASSUME IInv, ActivateSafeMode
    PROVE  IInv'
<1>1. /\ safeActive' = TRUE /\ exits' = [x \in Component |-> <<>>]
      /\ UNCHANGED <<now, safeOffered, launchedAt, dueAt, granted>>
      /\ up' = [x \in Component |-> FALSE] /\ session' = "running"
  BY DEF ActivateSafeMode
<1>2. TypeOK'
  <2>1. \A x \in Component : exits'[x] = <<>> /\ Len(exits'[x]) = 0 /\ MaxRestarts[x] \in Nat
    BY <1>1, BudgetFields
  <2>2. exits' \in [Component -> Seq(Nat)]
    BY <1>1
  <2>3. \A x \in Component : Len(exits'[x]) <= MaxRestarts[x]
    BY <2>1
  <2> QED BY <1>1, <2>2, <2>3 DEF IInv, TypeOK
<1>3. RateBound'
  BY <1>1 DEF IInv, RateBound
<1>4. RemembersOnlyTheWindow'
  BY <1>1 DEF RemembersOnlyTheWindow
<1>5. LedgerAgrees'
  BY <1>1 DEF LedgerAgrees
<1>6. Chronology'
  BY <1>1 DEF IInv, Chronology
<1> QED BY <1>2, <1>3, <1>4, <1>5, <1>6 DEF IInv

(* A granted restart is carried out, strictly after its grant.             *)
LEMMA LaunchKeepsIInv ==
    ASSUME IInv, NEW c \in Component, Launch(c)
    PROVE  IInv'
<1>1. /\ session = "running" /\ ~up[c] /\ now >= dueAt[c]
      /\ up' = [up EXCEPT ![c] = TRUE] /\ launchedAt' = [launchedAt EXCEPT ![c] = now]
      /\ UNCHANGED <<now, exits, safeOffered, safeActive, dueAt, session, granted>>
  BY DEF Launch
<1>2. TypeOK'
  BY <1>1 DEF IInv, TypeOK
<1>3. RateBound' /\ RemembersOnlyTheWindow'
  BY <1>1 DEF IInv, RateBound, RemembersOnlyTheWindow
<1>4. LedgerAgrees'
  BY <1>1 DEF IInv, LedgerAgrees, Ledger
<1>5. Chronology'
  <2> DEFINE Before(x, y) ==
        /\ y <= now
        /\ \A i \in 1..Len(granted[x]) :
               /\ granted[x][i] <= now
               /\ \A j \in i..Len(granted[x]) : granted[x][i] <= granted[x][j]
               /\ ~safeActive /\ up'[x] => granted[x][i] < y
               /\ ~safeActive /\ ~up'[x] /\ session = "running" => granted[x][i] < dueAt[x]
  <2>1. Before(c, now)
    <3>1. now \in Nat /\ dueAt[c] \in Nat /\ up'[c]
          /\ \A i \in 1..Len(granted[c]) : granted[c][i] \in Nat
      BY <1>1 DEF IInv, TypeOK
    <3>2. \A i \in 1..Len(granted[c]) :
             /\ granted[c][i] <= now
             /\ \A j \in i..Len(granted[c]) : granted[c][i] <= granted[c][j]
             /\ ~safeActive => granted[c][i] < dueAt[c]
      BY <1>1 DEF IInv, Chronology
    <3>3. \A i \in 1..Len(granted[c]) : ~safeActive => granted[c][i] < now
      BY <1>1, <3>1, <3>2
    <3> QED BY <3>1, <3>2, <3>3
  <2>2. ASSUME NEW x \in Component, x # c PROVE Before(x, launchedAt[x])
    <3>1. up'[x] = up[x]
      BY <1>1, <2>2 DEF IInv, TypeOK
    <3> QED BY <3>1 DEF IInv, Chronology
  <2>3. launchedAt'[c] = now /\ \A x \in Component : x # c => launchedAt'[x] = launchedAt[x]
    BY <1>1 DEF IInv, TypeOK
  <2>4. \A x \in Component : Before(x, launchedAt'[x])
    BY <2>1, <2>2, <2>3
  <2> QED BY <1>1, <2>4 DEF Chronology
<1> QED BY <1>2, <1>3, <1>4, <1>5 DEF IInv

(* Time passes.                                                            *)
LEMMA TickKeepsIInv ==
    ASSUME IInv, Tick
    PROVE  IInv'
<1>1. /\ now' = now + 1 /\ now \in Nat
      /\ UNCHANGED <<exits, safeOffered, safeActive, up, launchedAt, dueAt, session, granted>>
  BY DEF Tick, IInv, TypeOK
<1>2. TypeOK'
  BY <1>1 DEF IInv, TypeOK
<1>3. RateBound' /\ RemembersOnlyTheWindow'
  BY <1>1 DEF IInv, RateBound, RemembersOnlyTheWindow
<1>4. LedgerAgrees'
  <2> SUFFICES ASSUME ~safeActive, NEW x \in Component PROVE Ledger(x)'
    BY <1>1 DEF LedgerAgrees
  <2> DEFINE d == Len(granted[x]) - Len(exits[x])
  <2>1. Ledger(x)
    BY DEF IInv, LedgerAgrees
  <2>2. \A i \in 1..d : granted[x][i] + Window[x] < now + 1
    <3> SUFFICES ASSUME NEW i \in 1..d PROVE granted[x][i] + Window[x] < now + 1
      OBVIOUS
    <3>1. granted[x] \in Seq(Nat) /\ Len(exits[x]) \in Nat /\ Window[x] \in Nat
      BY BudgetFields DEF IInv, TypeOK
    <3>2. i \in 1..Len(granted[x])
      BY <3>1
    <3>3. granted[x][i] \in Nat /\ granted[x][i] + Window[x] < now
      BY <2>1, <3>1, <3>2 DEF Ledger
    <3> QED BY <3>1, <3>3, <1>1
  <2> QED BY <1>1, <2>1, <2>2 DEF Ledger
<1>5. Chronology'
  <2>1. \A x \in Component : launchedAt[x] <= now + 1
    BY <1>1 DEF IInv, TypeOK, Chronology
  <2>2. \A x \in Component : \A i \in 1..Len(granted[x]) : granted[x][i] <= now + 1
    BY <1>1 DEF IInv, TypeOK, Chronology
  <2> QED BY <1>1, <2>1, <2>2 DEF IInv, Chronology
<1> QED BY <1>2, <1>3, <1>4, <1>5 DEF IInv
-----------------------------------------------------------------------------
(* The invariant holds of the policy from its construction on, whatever    *)
(* exits it is told of and whenever they happen.                           *)
THEOREM InductiveInvariant == Spec => []IInv
<1>1. Init => IInv
  <2> SUFFICES ASSUME Init PROVE IInv
    OBVIOUS
  <2>1. /\ now = 0 /\ up = [x \in Component |-> FALSE] /\ session = "running"
        /\ safeOffered = FALSE /\ safeActive = FALSE
        /\ launchedAt = [x \in Component |-> 0] /\ dueAt = [x \in Component |-> 0]
    BY DEF Init
  <2>2. \A x \in Component : exits[x] = <<>> /\ granted[x] = <<>>
    BY DEF Init
  <2>3. \A x \in Component : Len(exits[x]) = 0 /\ Len(granted[x]) = 0
    <3>1. Len(<<>>) = 0
      BY EmptySeq
    <3> QED BY <2>2, <3>1
  <2>4. TypeOK
    <3>1. exits \in [Component -> Seq(Nat)] /\ granted \in [Component -> Seq(Nat)]
      BY DEF Init
    <3>2. \A x \in Component : Len(exits[x]) <= MaxRestarts[x]
      <4> TAKE x \in Component
      <4>1. Len(exits[x]) = 0
        BY <2>3
      <4>2. MaxRestarts[x] \in Nat
        BY BudgetFields
      <4> QED BY <4>1, <4>2
    <3>3. 0 \in Nat
      OBVIOUS
    <3> QED BY <2>1, <3>1, <3>2, <3>3 DEF TypeOK
  <2>5. \A x \in Component :
            1..Len(exits[x]) = {} /\ 1..Len(granted[x]) = {}
            /\ 1..(Len(granted[x]) - Len(exits[x])) = {}
            /\ Len(granted[x]) - Len(exits[x]) = 0
    <3>1. 1..0 = {} /\ 0 - 0 = 0
      OBVIOUS
    <3> QED BY <2>3, <3>1
  <2>6. RateBound /\ RemembersOnlyTheWindow
    BY <2>5 DEF RateBound, RemembersOnlyTheWindow
  <2>7. LedgerAgrees
    <3>1. 0 \in Nat
      OBVIOUS
    <3> QED BY <2>5, <3>1 DEF LedgerAgrees, Ledger
  <2>8. Chronology
    <3>1. \A x \in Component : launchedAt[x] <= now
      <4> TAKE x \in Component
      <4>1. launchedAt[x] = 0
        BY <2>1
      <4> QED BY <2>1, <4>1
    <3> QED BY <2>5, <3>1 DEF Chronology
  <2> QED BY <2>4, <2>6, <2>7, <2>8 DEF IInv
<1>2. IInv /\ [Next]_vars => IInv'
  <2> SUFFICES ASSUME IInv, [Next]_vars PROVE IInv'
    OBVIOUS
  <2>1. CASE Tick
    BY <2>1, TickKeepsIInv
  <2>2. CASE ActivateSafeMode
    BY <2>2, ActivateKeepsIInv
  <2>3. ASSUME NEW c \in Component, Launch(c) PROVE IInv'
    BY <2>3, LaunchKeepsIInv
  <2>4. ASSUME NEW c \in Component, NEW r \in Reason, ObserveExit(c, r) PROVE IInv'
    BY <2>4, ObserveExitKeepsIInv
  <2>5. CASE UNCHANGED vars
    BY <2>5 DEF vars, IInv, TypeOK, RateBound, RemembersOnlyTheWindow, LedgerAgrees,
                Ledger, Chronology
  <2> QED BY <2>1, <2>2, <2>3, <2>4, <2>5 DEF Next
<1> QED BY <1>1, <1>2, PTL DEF Spec

(* Every variable of the policy keeps its type and no history grows beyond *)
(* its component's budget (RestartPolicy.cpp observeExit).                 *)
THEOREM TypeCorrect == Spec => []TypeOK
<1>1. IInv => TypeOK
  BY DEF IInv
<1> QED BY <1>1, InductiveInvariant, PTL

(* For every budget, no component is restarted more often than its         *)
(* maximumRestarts in any inclusive window, however pruning and healthy    *)
(* runs shortened the policy's record (RestartPolicy.cpp observeExit).     *)
THEOREM RateIsBounded == Spec => []RateBound
<1>1. IInv => RateBound
  BY DEF IInv
<1> QED BY <1>1, InductiveInvariant, PTL

(* A component is only charged for restarts inside the window that ends at *)
(* its last one (the pruning loop of observeExit).                         *)
THEOREM OnlyTheWindowIsCharged == Spec => []RemembersOnlyTheWindow
<1>1. IInv => RemembersOnlyTheWindow
  BY DEF IInv
<1> QED BY <1>1, InductiveInvariant, PTL

(* Outside safe mode the policy's record is the end of the true history    *)
(* and what it forgot is out of every later window (observeExit).          *)
THEOREM RecordIsFaithful == Spec => [](LedgerAgrees /\ Chronology)
<1>1. IInv => LedgerAgrees /\ Chronology
  BY DEF IInv
<1> QED BY <1>1, InductiveInvariant, PTL

(* Once safe mode is active nothing is restarted and it is never left      *)
(* (activateSafeMode and the safe_mode_active_ test of observeExit).       *)
THEOREM SafeModeIsTheEnd == Spec => SafeModeIsFinal
<1>1. [Next]_vars => (safeActive => safeActive' /\ granted' = granted)
  <2> SUFFICES ASSUME [Next]_vars, safeActive PROVE safeActive' /\ granted' = granted
    OBVIOUS
  <2>1. CASE Tick
    BY <2>1 DEF Tick
  <2>2. CASE ActivateSafeMode
    BY <2>2 DEF ActivateSafeMode
  <2>3. ASSUME NEW c \in Component, Launch(c) PROVE safeActive' /\ granted' = granted
    BY <2>3 DEF Launch
  <2>4. ASSUME NEW c \in Component, NEW r \in Reason, ObserveExit(c, r)
        PROVE  safeActive' /\ granted' = granted
    BY <2>4 DEF ObserveExit, Terminal
  <2>5. CASE UNCHANGED vars
    BY <2>5 DEF vars
  <2> QED BY <2>1, <2>2, <2>3, <2>4, <2>5 DEF Next
<1> QED BY <1>1, PTL DEF Spec, SafeModeIsFinal

-----------------------------------------------------------------------------
(* The timed policy implements the untimed budget of RecoveryBudget: each  *)
(* exit is charged as if some of the outstanding restarts were forgiven.   *)

Used == [x \in Component |-> Len(exits[x])]

(* A charged exit is a charge of the abstract budget.                      *)
LEMMA ChargeIsCharge ==
    ASSUME IInv, ~safeActive, NEW c \in Component, NEW r \in Reason, r # "clean",
           NEW launched, ChargeBudget(c, launched), safeActive' = safeActive
    PROVE  Budget!BudgetNext
<1>1. PICK k \in 0..Len(Remembered(c, launched)) :
          \/ Restart(c, Kept(c, launched, k))
          \/ Exhausted(c, Kept(c, launched, k))
  BY DEF ChargeBudget, Kept
<1> DEFINE kept == Kept(c, launched, k)
           m == Len(kept)
<1>2. /\ kept \in Seq(Nat) /\ m \in Nat /\ m <= MaxRestarts[c] /\ MaxRestarts[c] \in Nat
  BY PruningShortens, BudgetFields DEF IInv
<1>3. m \in 0..Used[c]
  <2>1. m = Len(Remembered(c, launched)) - k
    BY KeptIsSuffix DEF IInv
  <2>2. /\ Len(Remembered(c, launched)) <= Len(exits[c]) /\ Len(exits[c]) \in Nat
        /\ Len(Remembered(c, launched)) \in Nat
    BY DEF IInv, TypeOK, Remembered
  <2> QED BY <1>2, <2>1, <2>2 DEF Used
<1> SUFFICES \E v \in Budget!Verdict : Budget!Charge(c, m, v)
  BY <1>3 DEF Budget!BudgetNext, Budget!Observe, Budget!Reason, Reason, Used
<1> HIDE DEF kept
<1>4. CASE Restart(c, kept)
  <2>1. Len(exits'[c]) = m + 1 /\ \A x \in Component \ {c} : exits'[x] = exits[x]
    BY <1>2, <1>4, RestartAppends DEF IInv
  <2>2. Used' = [Used EXCEPT ![c] = m + 1]
    BY <2>1 DEF Used
  <2>3. Budget!Charge(c, m, "restart_component")
    BY <1>4, <2>2 DEF Restart, Budget!Charge, Used
  <2> QED BY <2>3 DEF Budget!Verdict
<1>5. CASE Exhausted(c, kept)
  <2>1. m = MaxRestarts[c]
    BY <1>2, <1>5 DEF Exhausted
  <2>2. exits' = [exits EXCEPT ![c] = kept] /\ safeOffered' = TRUE
    BY <1>5 DEF Exhausted
  <2>3. Used' = [Used EXCEPT ![c] = m]
    BY <2>2 DEF IInv, TypeOK, Used
  <2>4. CASE safeOffered
    <3>1. Budget!Charge(c, m, "stop_failed")
      BY <2>1, <2>2, <2>3, <2>4 DEF Budget!Charge, Used
    <3> QED BY <3>1 DEF Budget!Verdict
  <2>5. CASE ~safeOffered
    <3>1. Budget!Charge(c, m, "enter_safe_mode")
      BY <2>1, <2>2, <2>3, <2>5 DEF Budget!Charge, Used
    <3> QED BY <3>1 DEF Budget!Verdict
  <2> QED BY <2>4, <2>5
<1> QED BY <1>1, <1>4, <1>5 DEF kept

(* RestartPolicy refines RecoveryBudget for every budget (the class        *)
(* SessionRecoveryPolicy against what its header promises).                *)
THEOREM PolicyImplementsBudget == Spec => ImplementsBudget
<1>1. Init => Budget!BudgetInit
  BY DEF Init, Budget!BudgetInit
<1>2. IInv /\ [Next]_vars => [Budget!BudgetNext]_(Budget!budgetVars)
  <2> SUFFICES ASSUME IInv, [Next]_vars
               PROVE  Budget!BudgetNext \/ UNCHANGED Budget!budgetVars
    OBVIOUS
  <2>1. CASE Tick
    BY <2>1 DEF Tick, Budget!budgetVars
  <2>2. CASE ActivateSafeMode
    <3>1. Used' = [x \in Component |-> 0]
      BY <2>2 DEF ActivateSafeMode, Used
    <3>2. Budget!Activate
      BY <2>2, <3>1 DEF ActivateSafeMode, Budget!Activate, Used
    <3> QED BY <3>2 DEF Budget!BudgetNext
  <2>3. ASSUME NEW c \in Component, Launch(c) PROVE UNCHANGED Budget!budgetVars
    BY <2>3 DEF Launch, Budget!budgetVars
  <2>4. ASSUME NEW c \in Component, NEW r \in Reason, ObserveExit(c, r)
        PROVE  Budget!BudgetNext \/ UNCHANGED Budget!budgetVars
    <3>1. CASE Terminal(r)
      BY <2>4, <3>1 DEF ObserveExit, Budget!budgetVars
    <3>2. CASE ~Terminal(r)
      <4>1. PICK launched \in {launchedAt[c], now} : ChargeBudget(c, launched)
        BY <2>4, <3>2 DEF ObserveExit
      <4>2. ~safeActive /\ r # "clean" /\ safeActive' = safeActive
        BY <2>4, <3>2 DEF Terminal, ObserveExit
      <4> QED BY <4>1, <4>2, ChargeIsCharge
    <3> QED BY <3>1, <3>2
  <2>5. CASE UNCHANGED vars
    BY <2>5 DEF vars, Budget!budgetVars
  <2> QED BY <2>1, <2>2, <2>3, <2>4, <2>5 DEF Next
<1> QED BY <1>1, <1>2, InductiveInvariant, PTL DEF Spec, ImplementsBudget, Budget!BudgetSpec
=============================================================================
