-------------------------- MODULE PresentationProofs ---------------------------
(***************************************************************************)
(* Proofs about what the user sees in two lists.                           *)
(*                                                                         *)
(* The notifications, for every set of inputs, every limit and any number  *)
(* of publications, captured by anybody and applied in any order or never: *)
(* the loop that edits the rows one by one arrives at the rows of the      *)
(* snapshot, an intent concerns what the user saw, and what is published   *)
(* is accepted.                                                            *)
(*                                                                         *)
(* The launcher, for any disks, changes, limits, queries and refreshes:    *)
(* the walk over the roots, the jobs and completions that replace one      *)
(* another, and the rows that are activated.                               *)
(***************************************************************************)
EXTENDS Notifications, LauncherController, SequenceTheorems, FiniteSetTheorems,
        WellFoundedInduction, TLAPS

-----------------------------------------------------------------------------
(* Recursion and induction over numbers, by their least counterexample.    *)

(* What holds of 0, and of every number up to N after one it holds of,     *)
(* holds up to N.                                                          *)
LEMMA UpTo ==
    ASSUME NEW N \in Nat, NEW T, 0 \in T, \A n \in 1..N : n - 1 \in T => n \in T
    PROVE  \A n \in 0..N : n \in T
<1> DEFINE R == OpToRel(<, Nat)
           Missing == {n \in 0..N : n \notin T}
<1>1. SUFFICES ASSUME Missing # {} PROVE FALSE
  OBVIOUS
<1>2. PICK m \in Missing : \A n \in Missing : ~ (<<n, m>> \in R)
  <2>1. IsWellFoundedOn(R, Nat)
    BY NatLessThanWellFounded, Zenon
  <2>2. Missing \subseteq Nat
    OBVIOUS
  <2> HIDE DEF R, Missing
  <2> QED BY <1>1, <2>1, <2>2, WFMin, Zenon
<1>3. m \in 1..N /\ m \notin T /\ m - 1 \in 0..N
  OBVIOUS
<1>4. m - 1 \notin Missing
  <2>1. <<m - 1, m>> \in R
    BY <1>3 DEF OpToRel
  <2> HIDE DEF R, Missing
  <2> QED BY <1>2, <2>1, Zenon
<1> QED BY <1>3, <1>4

(* A function may be defined by its value for 0 and by a step.             *)
Steps(N, V) == [(1..N) \X V -> V]
Obeys(f, N, base, step) == f[0] = base /\ \A i \in 1..N : f[i] = step[<<i, f[i - 1]>>]

(* There is such a function.                                               *)
LEMMA Recursion ==
    ASSUME NEW N \in Nat, NEW V, NEW base \in V, NEW step \in Steps(N, V)
    PROVE  \E f \in [0..N -> V] : Obeys(f, N, base, step)
<1> USE DEF Steps
<1> DEFINE Good(n, f) == /\ f[0] = base
                         /\ \A i \in 1..n : f[i] = step[<<i, f[i - 1]>>]
           T == {n \in 0..N : \E f \in [0..N -> V] : Good(n, f)}
<1>1. 0 \in T
  <2> DEFINE g == [i \in 0..N |-> base]
  <2>1. g \in [0..N -> V] /\ Good(0, g)
    OBVIOUS
  <2>2. 0 \in 0..N
    OBVIOUS
  <2> HIDE DEF g, Good
  <2> QED BY <2>1, <2>2
<1>2. ASSUME NEW n \in 1..N, n - 1 \in T PROVE n \in T
  <2>1. PICK f \in [0..N -> V] : Good(n - 1, f)
    BY <1>2
  <2> DEFINE v == step[<<n, f[n - 1]>>]
             g == [i \in 0..N |-> IF i = n THEN v ELSE f[i]]
  <2>2. v \in V
    OBVIOUS
  <2>3. g \in [0..N -> V] /\ g[0] = base
    BY <2>1, <2>2
  <2>4. ASSUME NEW i \in 1..n PROVE g[i] = step[<<i, g[i - 1]>>]
    <3>1. CASE i = n
      <4>1. g[i] = v /\ g[i - 1] = f[i - 1]
        BY <3>1
      <4> QED BY <3>1, <4>1
    <3>2. CASE i # n
      <4>1. i \in 1..(n - 1) /\ g[i] = f[i] /\ g[i - 1] = f[i - 1]
        BY <3>2
      <4> QED BY <2>1, <4>1
    <3> QED BY <3>1, <3>2
  <2> HIDE DEF g
  <2> QED BY <2>3, <2>4
<1>3. N \in T
  <2> HIDE DEF T
  <2> QED BY <1>1, <1>2, UpTo
<1> QED BY <1>3 DEF Obeys

-----------------------------------------------------------------------------
(* Sequences.                                                              *)

(* t is s with e put in its place i: what stands before the place stays,   *)
(* what stood behind it moves on.                                          *)
InsertedInto(s, i, e, t) ==
    /\ Len(t) = Len(s) + 1
    /\ \A j \in 1..(Len(s) + 1) :
          t[j] = IF j < i THEN s[j] ELSE IF j = i THEN e ELSE s[j - 1]

(* So it is in an insertion.                                               *)
LEMMA Inserting ==
    ASSUME NEW R, NEW s \in Seq(R), NEW e \in R, NEW i \in 1..(Len(s) + 1)
    PROVE  InsertAt(s, i, e) \in Seq(R) /\ InsertedInto(s, i, e, InsertAt(s, i, e))
<1> DEFINE a == SubSeq(s, 1, i - 1)
           b == SubSeq(s, i, Len(s))
           ae == a \o <<e>>
<1>1. Len(s) \in Nat /\ i \in Int /\ \A j \in 1..Len(s) : s[j] \in R
  OBVIOUS
<1>2. /\ a \in Seq(R) /\ Len(a) = i - 1
      /\ \A j \in 1..(i - 1) : a[j] = s[j]
  <2>1. \A j \in 1..(i - 1) : s[j] \in R
    BY <1>1
  <2> HIDE DEF a
  <2>2. /\ a \in Seq(R) /\ Len(a) = IF 1 <= i - 1 THEN (i - 1) - 1 + 1 ELSE 0
        /\ \A j \in 1..((i - 1) - 1 + 1) : a[j] = s[1 + j - 1]
    BY <1>1, <2>1, SubSeqProperties DEF a
  <2> QED BY <1>1, <2>2
<1>3. /\ b \in Seq(R) /\ Len(b) = Len(s) - i + 1
      /\ \A j \in 1..(Len(s) - i + 1) : b[j] = s[i + j - 1]
  <2>1. \A j \in i..Len(s) : s[j] \in R
    BY <1>1
  <2> HIDE DEF b
  <2>2. /\ b \in Seq(R) /\ Len(b) = IF i <= Len(s) THEN Len(s) - i + 1 ELSE 0
        /\ \A j \in 1..(Len(s) - i + 1) : b[j] = s[i + j - 1]
    BY <1>1, <2>1, SubSeqProperties DEF b
  <2> QED BY <1>1, <2>2
<1> HIDE DEF a, b
<1>4. /\ ae \in Seq(R) /\ Len(ae) = i
      /\ \A j \in 1..i : ae[j] = IF j < i THEN a[j] ELSE e
  <2>1. <<e>> \in Seq(R) /\ Len(<<e>>) = 1 /\ <<e>>[1] = e
    OBVIOUS
  <2>2. /\ ae \in Seq(R) /\ Len(ae) = Len(a) + Len(<<e>>)
        /\ \A j \in 1..(Len(a) + Len(<<e>>)) :
              ae[j] = IF j <= Len(a) THEN a[j] ELSE <<e>>[j - Len(a)]
    BY <1>2, <2>1, ConcatProperties
  <2> HIDE DEF ae
  <2> QED BY <1>1, <1>2, <2>1, <2>2
<1> HIDE DEF ae
<1>5. /\ ae \o b \in Seq(R) /\ Len(ae \o b) = Len(s) + 1
      /\ \A j \in 1..(Len(s) + 1) :
            (ae \o b)[j] = IF j <= i THEN ae[j] ELSE b[j - i]
  <2>1. /\ ae \o b \in Seq(R) /\ Len(ae \o b) = Len(ae) + Len(b)
        /\ \A j \in 1..(Len(ae) + Len(b)) :
              (ae \o b)[j] = IF j <= Len(ae) THEN ae[j] ELSE b[j - Len(ae)]
    BY <1>3, <1>4, ConcatProperties
  <2> QED BY <1>1, <1>3, <1>4, <2>1
<1>6. \A j \in 1..(Len(s) + 1) :
         (ae \o b)[j] = IF j < i THEN s[j] ELSE IF j = i THEN e ELSE s[j - 1]
  BY <1>1, <1>2, <1>3, <1>4, <1>5
<1>7. InsertAt(s, i, e) = ae \o b
  BY DEF InsertAt, ae, a, b
<1>8. InsertedInto(s, i, e, ae \o b)
  BY <1>5, <1>6 DEF InsertedInto
<1> QED BY <1>5, <1>7, <1>8

(* What stands before the place stays, what stood behind it closes up.     *)
LEMMA Removing ==
    ASSUME NEW R, NEW s \in Seq(R), NEW i \in 1..Len(s)
    PROVE  /\ RemoveAt(s, i) \in Seq(R)
           /\ Len(RemoveAt(s, i)) = Len(s) - 1
           /\ \A j \in 1..(Len(s) - 1) :
                 RemoveAt(s, i)[j] = IF j < i THEN s[j] ELSE s[j + 1]
<1> DEFINE a == SubSeq(s, 1, i - 1)
           b == SubSeq(s, i + 1, Len(s))
<1>1. Len(s) \in Nat /\ i \in Int /\ i + 1 \in Int /\ \A j \in 1..Len(s) : s[j] \in R
  OBVIOUS
<1>2. /\ a \in Seq(R) /\ Len(a) = i - 1
      /\ \A j \in 1..(i - 1) : a[j] = s[j]
  <2>1. \A j \in 1..(i - 1) : s[j] \in R
    BY <1>1
  <2> HIDE DEF a
  <2>2. /\ a \in Seq(R) /\ Len(a) = IF 1 <= i - 1 THEN (i - 1) - 1 + 1 ELSE 0
        /\ \A j \in 1..((i - 1) - 1 + 1) : a[j] = s[1 + j - 1]
    BY <1>1, <2>1, SubSeqProperties DEF a
  <2> QED BY <1>1, <2>2
<1>3. /\ b \in Seq(R) /\ Len(b) = Len(s) - i
      /\ \A j \in 1..(Len(s) - i) : b[j] = s[i + j]
  <2>1. \A j \in (i + 1)..Len(s) : s[j] \in R
    BY <1>1
  <2> HIDE DEF b
  <2>2. /\ b \in Seq(R) /\ Len(b) = IF i + 1 <= Len(s) THEN Len(s) - (i + 1) + 1 ELSE 0
        /\ \A j \in 1..(Len(s) - (i + 1) + 1) : b[j] = s[(i + 1) + j - 1]
    BY <1>1, <2>1, SubSeqProperties DEF b
  <2> QED BY <1>1, <2>2
<1> HIDE DEF a, b
<1>4. /\ a \o b \in Seq(R) /\ Len(a \o b) = Len(a) + Len(b)
      /\ \A j \in 1..(Len(a) + Len(b)) :
            (a \o b)[j] = IF j <= Len(a) THEN a[j] ELSE b[j - Len(a)]
  BY <1>2, <1>3, ConcatProperties
<1>5. ASSUME NEW j \in 1..(Len(s) - 1)
      PROVE  (a \o b)[j] = IF j < i THEN s[j] ELSE s[j + 1]
  <2>1. (a \o b)[j] = IF j <= i - 1 THEN a[j] ELSE b[j - (i - 1)]
    BY <1>1, <1>2, <1>3, <1>4
  <2>2. CASE j < i
    BY <1>1, <1>2, <2>1, <2>2
  <2>3. CASE ~ (j < i)
    <3>1. j - (i - 1) \in 1..(Len(s) - i) /\ i + (j - (i - 1)) = j + 1
      BY <1>1, <2>3
    <3>2. b[j - (i - 1)] = s[j + 1]
      BY <1>3, <3>1
    <3> QED BY <1>1, <2>1, <2>3, <3>2
  <2> QED BY <2>2, <2>3
<1>6. RemoveAt(s, i) = a \o b
  BY DEF RemoveAt, a, b
<1> QED BY <1>1, <1>2, <1>3, <1>4, <1>5, <1>6

(* A row that is further down is moved up to its place.                    *)
LEMMA Moving ==
    ASSUME NEW R, NEW s \in Seq(R), NEW from \in 1..Len(s), NEW to \in 1..from
    PROVE  /\ MoveRow(s, from, to) \in Seq(R)
           /\ Len(MoveRow(s, from, to)) = Len(s)
           /\ \A j \in 1..Len(s) :
                 MoveRow(s, from, to)[j] =
                    IF j = to THEN s[from]
                    ELSE IF j > to /\ j <= from THEN s[j - 1] ELSE s[j]
<1>1. CASE from = to
  BY <1>1 DEF MoveRow
<1>2. CASE from # to
  <2> DEFINE t == RemoveAt(s, from)
  <2>1. /\ t \in Seq(R) /\ Len(t) = Len(s) - 1
        /\ \A j \in 1..(Len(s) - 1) : t[j] = IF j < from THEN s[j] ELSE s[j + 1]
    BY Removing
  <2>2. MoveRow(s, from, to) = InsertAt(t, to, s[from])
    BY <1>2 DEF MoveRow
  <2>3. Len(s) \in Nat /\ s[from] \in R /\ to \in 1..(Len(t) + 1)
    BY <2>1
  <2> DEFINE e == s[from]
             u == InsertAt(t, to, e)
  <2> HIDE DEF t, e
  <2>4. /\ u \in Seq(R) /\ Len(u) = Len(t) + 1
        /\ \A j \in 1..(Len(t) + 1) :
              u[j] = IF j < to THEN t[j] ELSE IF j = to THEN e ELSE t[j - 1]
    <3>1. e \in R
      BY <2>3 DEF e
    <3>2. t \in Seq(R) /\ to \in 1..(Len(t) + 1)
      BY <2>1, <2>3
    <3> HIDE DEF u
    <3>3. InsertAt(t, to, e) \in Seq(R) /\ InsertedInto(t, to, e, InsertAt(t, to, e))
      BY <3>1, <3>2, Inserting, Zenon
    <3> QED BY <3>3 DEF u, InsertedInto
  <2> HIDE DEF u
  <2>5. ASSUME NEW j \in 1..Len(s)
        PROVE  u[j] = IF j = to THEN e ELSE IF j > to /\ j <= from THEN s[j - 1] ELSE s[j]
    <3>1. u[j] = IF j < to THEN t[j] ELSE IF j = to THEN e ELSE t[j - 1]
      BY <2>1, <2>3, <2>4
    <3>2. CASE j < to
      <4>1. j \in 1..(Len(s) - 1) /\ j < from /\ j # to
        BY <2>3, <3>2
      <4> QED BY <2>1, <2>3, <3>1, <3>2, <4>1
    <3>3. CASE j > to
      <4>1. j - 1 \in 1..(Len(s) - 1)
        BY <2>3, <3>3
      <4>2. t[j - 1] = IF j - 1 < from THEN s[j - 1] ELSE s[(j - 1) + 1]
        BY <2>1, <4>1
      <4> QED BY <2>3, <3>1, <3>3, <4>2
    <3>4. CASE j = to
      BY <3>1, <3>4
    <3> QED BY <3>2, <3>3, <3>4
  <2>6. MoveRow(s, from, to) = u /\ e = s[from]
    BY <2>2 DEF u, e
  <2> QED BY <2>1, <2>3, <2>4, <2>5, <2>6
<1> QED BY <1>1, <1>2

-----------------------------------------------------------------------------
(* What stays of a sequence.                                               *)

(* The elements of t are elements of s, in their order: f tells which.     *)
Embeds(t, s, f) ==
    /\ f \in [1..Len(t) -> 1..Len(s)]
    /\ \A i, j \in 1..Len(t) : i < j => f[i] < f[j]
    /\ \A i \in 1..Len(t) : t[i] = s[f[i]]

(* Whatever is kept, of the rows or of the cards, stays in its order       *)
(* (NotificationPresentationModel.cpp:247, NotificationModel.cpp:595).     *)
LEMMA KeptIsEmbedded ==
    ASSUME NEW R, NEW s \in Seq(R), NEW keep
    PROVE  /\ Kept(s, keep) \in Seq(R)
           /\ \E f : /\ Embeds(Kept(s, keep), s, f)
                     /\ \A i \in 1..Len(Kept(s, keep)) : f[i] \in keep
                     /\ \A i \in 1..Len(s) : i \in keep =>
                            \E j \in 1..Len(Kept(s, keep)) : f[j] = i
<1> DEFINE N == Len(s)
           Rec(g) == g = [i \in 0..N |->
                            IF i = 0 THEN <<>>
                            ELSE IF i \in keep THEN Append(g[i - 1], s[i]) ELSE g[i - 1]]
           step == [x \in (1..N) \X Seq(R) |->
                       IF x[1] \in keep THEN Append(x[2], s[x[1]]) ELSE x[2]]
<1>1. N \in Nat /\ \A i \in 1..N : s[i] \in R
  OBVIOUS
<1>2. PICK g : Rec(g) /\ Kept(s, keep) = g[N]
  <2>1. step \in Steps(N, Seq(R)) /\ <<>> \in Seq(R)
    BY <1>1 DEF Steps
  <2>2. PICK f \in [0..N -> Seq(R)] : Obeys(f, N, <<>>, step)
    <3> HIDE DEF step, N
    <3> QED BY <1>1, <2>1, Recursion, Zenon
  <2>3. ASSUME NEW i \in 1..N
        PROVE  f[i] = IF i \in keep THEN Append(f[i - 1], s[i]) ELSE f[i - 1]
    <3>1. f[i - 1] \in Seq(R)
      BY <1>1, <2>2
    <3>2. <<i, f[i - 1]>> \in (1..N) \X Seq(R)
      BY <3>1
    <3> QED BY <2>2, <3>2 DEF Obeys
  <2>4. Rec(f)
    <3>1. ASSUME NEW i \in 0..N
          PROVE  f[i] = IF i = 0 THEN <<>>
                        ELSE IF i \in keep THEN Append(f[i - 1], s[i]) ELSE f[i - 1]
      <4>1. i = 0 \/ i \in 1..N
        BY <1>1
      <4> HIDE DEF step, N
      <4> QED BY <2>2, <2>3, <4>1 DEF Obeys
    <3> HIDE DEF step, N
    <3> QED BY <2>2, <3>1
  <2> QED BY <2>4, Zenon DEF Kept
<1> HIDE DEF N
<1>3. g[0] = <<>>
  BY <1>1, <1>2
<1>4. \A i \in 1..N : g[i] = IF i \in keep THEN Append(g[i - 1], s[i]) ELSE g[i - 1]
  <2> HIDE DEF step
  <2>1. g = [i \in 0..N |-> IF i = 0 THEN <<>>
                            ELSE IF i \in keep THEN Append(g[i - 1], s[i]) ELSE g[i - 1]]
    BY <1>2
  <2>2. \A i \in 1..N : i \in 0..N /\ i # 0
    BY <1>1
  <2> HIDE DEF Rec
  <2> QED BY <2>1, <2>2
<1> HIDE DEF Rec, step
<1> DEFINE Tells(i, f) == /\ f \in [1..Len(g[i]) -> 1..i]
                          /\ \A j \in 1..Len(g[i]) : f[j] \in keep /\ g[i][j] = s[f[j]]
                          /\ \A j, k \in 1..Len(g[i]) : j < k => f[j] < f[k]
                          /\ \A j \in 1..i : j \in keep => \E k \in 1..Len(g[i]) : f[k] = j
           T == {i \in 0..N : g[i] \in Seq(R) /\ \E f : Tells(i, f)}
<1>5. 0 \in T
  <2>1. Tells(0, [j \in 1..0 |-> 1])
    BY <1>3
  <2>2. 0 \in 0..N /\ g[0] \in Seq(R)
    BY <1>1, <1>3
  <2> HIDE DEF Tells
  <2> QED BY <2>1, <2>2
<1>6. ASSUME NEW i \in 1..N, i - 1 \in T PROVE i \in T
  <2>1. PICK f : Tells(i - 1, f)
    BY <1>6
  <2>2. g[i - 1] \in Seq(R) /\ i \in 0..N /\ Len(g[i - 1]) \in Nat
    BY <1>6
  <2>3. CASE i \notin keep
    <3>1. g[i] = g[i - 1]
      BY <1>4, <2>3
    <3>2. Tells(i, f)
      <4>1. \A j \in 1..i : j \in keep => j \in 1..(i - 1)
        BY <1>1, <2>3
      <4> QED BY <2>1, <2>2, <3>1, <4>1
    <3> HIDE DEF Tells
    <3> QED BY <2>2, <3>1, <3>2
  <2>4. CASE i \in keep
    <3> DEFINE L == Len(g[i - 1])
               h == [j \in 1..(L + 1) |-> IF j = L + 1 THEN i ELSE f[j]]
    <3>1. g[i] = Append(g[i - 1], s[i]) /\ s[i] \in R
      BY <1>1, <1>4, <2>4
    <3>2. /\ g[i] \in Seq(R) /\ Len(g[i]) = L + 1 /\ g[i][L + 1] = s[i]
          /\ \A j \in 1..L : g[i][j] = g[i - 1][j]
      BY <2>2, <3>1, AppendProperties
    <3>3. L \in Nat /\ i \in 1..i /\ i \in Nat
      BY <2>2
    <3>4. /\ f \in [1..L -> 1..(i - 1)]
          /\ \A j \in 1..L : f[j] \in keep /\ g[i - 1][j] = s[f[j]]
          /\ \A j, k \in 1..L : j < k => f[j] < f[k]
          /\ \A j \in 1..(i - 1) : j \in keep => \E k \in 1..L : f[k] = j
      BY <2>1
    <3> HIDE DEF L
    <3>5. h \in [1..(L + 1) -> 1..i]
      BY <3>3, <3>4
    <3>6. \A j \in 1..(L + 1) : h[j] \in keep /\ g[i][j] = s[h[j]]
      BY <2>4, <3>2, <3>3, <3>4
    <3>7. \A j, k \in 1..(L + 1) : j < k => h[j] < h[k]
      BY <3>3, <3>4
    <3>9. \A j \in 1..i : j \in keep => \E k \in 1..(L + 1) : h[k] = j
      <4>1. ASSUME NEW j \in 1..i, j \in keep PROVE \E k \in 1..(L + 1) : h[k] = j
        <5>1. CASE j = i
          <6>1. L + 1 \in 1..(L + 1) /\ h[L + 1] = i
            BY <3>3
          <6> QED BY <5>1, <6>1
        <5>2. CASE j # i
          <6>1. j \in 1..(i - 1)
            BY <3>3, <5>2
          <6>2. PICK k \in 1..L : f[k] = j
            BY <3>4, <4>1, <6>1
          <6>3. k \in 1..(L + 1) /\ h[k] = j
            BY <3>3, <6>2
          <6> QED BY <6>3
        <5> QED BY <5>1, <5>2
      <4> QED BY <4>1
    <3> HIDE DEF h
    <3>8. Tells(i, h)
      BY <3>2, <3>5, <3>6, <3>7, <3>9
    <3> HIDE DEF Tells
    <3> QED BY <2>2, <3>2, <3>8
  <2> QED BY <2>3, <2>4
<1>7. N \in T
  <2> HIDE DEF T
  <2>1. \A n \in 1..N : n - 1 \in T => n \in T
    BY <1>6
  <2>2. \A n \in 0..N : n \in T
    BY <1>1, <1>5, <2>1, UpTo, Zenon
  <2> QED BY <1>1, <2>2
<1>8. PICK f : Tells(N, f)
  BY <1>7
<1>9. /\ Embeds(Kept(s, keep), s, f) /\ \A i \in 1..Len(Kept(s, keep)) : f[i] \in keep
      /\ \A i \in 1..Len(s) : i \in keep => \E j \in 1..Len(Kept(s, keep)) : f[j] = i
  BY <1>2, <1>8 DEF Embeds, N
<1> QED BY <1>2, <1>7, <1>9

(* So does what stays when one element is removed.                         *)
LEMMA RemovedIsEmbedded ==
    ASSUME NEW R, NEW s \in Seq(R), NEW i \in 1..Len(s)
    PROVE  RemoveAt(s, i) \in Seq(R) /\ \E f : Embeds(RemoveAt(s, i), s, f)
<1> DEFINE t == RemoveAt(s, i)
           f == [j \in 1..(Len(s) - 1) |-> IF j < i THEN j ELSE j + 1]
<1>1. /\ t \in Seq(R) /\ Len(t) = Len(s) - 1
      /\ \A j \in 1..(Len(s) - 1) : t[j] = IF j < i THEN s[j] ELSE s[j + 1]
  BY Removing
<1> HIDE DEF t
<1>2. Embeds(t, s, f)
  <2>1. Len(s) \in Nat
    OBVIOUS
  <2>2. f \in [1..(Len(s) - 1) -> 1..Len(s)]
    BY <2>1
  <2>3. \A j, k \in 1..(Len(s) - 1) : j < k => f[j] < f[k]
    BY <2>1
  <2>4. \A j \in 1..(Len(s) - 1) : t[j] = s[f[j]]
    BY <1>1, <2>1
  <2> HIDE DEF f
  <2> QED BY <1>1, <2>2, <2>3, <2>4 DEF Embeds
<1> HIDE DEF f
<1> QED BY <1>1, <1>2 DEF t

-----------------------------------------------------------------------------
(* The rows.                                                               *)

DistinctKeys(s) == \A i, j \in 1..Len(s) : s[i].key = s[j].key => i = j

(* After i rows of wanted have their place, the others that are left are   *)
(* of the rest of wanted, and what is not to be replaced is right already. *)
Staged(acc, wanted, replaced, i) ==
    /\ Len(acc) >= i
    /\ \A j \in 1..i : acc[j] = wanted[j]
    /\ DistinctKeys(acc)
    /\ \A j \in (i + 1)..Len(acc) : \E k \in (i + 1)..Len(wanted) :
          acc[j].key = wanted[k].key /\ (k \notin replaced => acc[j] = wanted[k])

(* One turn of the loop that inserts, moves or replaces a row              *)
(* (NotificationPresentationModel.cpp:259).                                *)
LEMMA PlaceRowStages ==
    ASSUME NEW R, NEW acc \in Seq(R), NEW wanted \in Seq(R), NEW replaced,
           NEW i \in 1..Len(wanted), DistinctKeys(wanted), Staged(acc, wanted, replaced, i - 1)
    PROVE  /\ PlaceRow(acc, wanted, replaced, i) \in Seq(R)
           /\ Staged(PlaceRow(acc, wanted, replaced, i), wanted, replaced, i)
<1> DEFINE new == PlaceRow(acc, wanted, replaced, i)
           w == wanted[i]
<1>1. /\ Len(acc) \in Nat /\ Len(wanted) \in Nat /\ i \in Nat /\ w \in R
      /\ DOMAIN acc = 1..Len(acc) /\ (i - 1) + 1 = i
  OBVIOUS
<1>2. /\ Len(acc) >= i - 1
      /\ \A j \in 1..(i - 1) : acc[j] = wanted[j]
      /\ \A j, k \in 1..Len(acc) : acc[j].key = acc[k].key => j = k
      /\ \A j \in i..Len(acc) : \E k \in i..Len(wanted) :
            acc[j].key = wanted[k].key /\ (k \notin replaced => acc[j] = wanted[k])
  BY <1>1 DEF Staged, DistinctKeys
<1>3. \A j, k \in 1..Len(wanted) : wanted[j].key = wanted[k].key => j = k
  BY DEF DistinctKeys
<1>4. CASE ~HasKey(acc, w.key)
  <2>1. new = InsertAt(acc, i, w)
    BY <1>4 DEF PlaceRow
  <2>2. \A j \in 1..Len(acc) : acc[j].key # w.key
    BY <1>1, <1>4 DEF HasKey
  <2>3. i \in 1..(Len(acc) + 1)
    BY <1>1, <1>2
  <2> HIDE DEF w
  <2>4. /\ new \in Seq(R) /\ Len(new) = Len(acc) + 1
        /\ \A j \in 1..(Len(acc) + 1) :
              new[j] = IF j < i THEN acc[j] ELSE IF j = i THEN w ELSE acc[j - 1]
    <3>1. InsertAt(acc, i, w) \in Seq(R) /\ InsertedInto(acc, i, w, InsertAt(acc, i, w))
      BY <1>1, <2>3, Inserting, Zenon
    <3> HIDE DEF new
    <3> QED BY <2>1, <3>1 DEF InsertedInto
  <2> HIDE DEF new
  <2>5. \A j \in 1..i : new[j] = wanted[j]
    <3>1. ASSUME NEW j \in 1..i PROVE new[j] = wanted[j]
      <4>1. j \in 1..(Len(acc) + 1) /\ j \in Int /\ i \in Int
        BY <1>1, <2>3
      <4>2. new[j] = IF j < i THEN acc[j] ELSE IF j = i THEN w ELSE acc[j - 1]
        BY <2>4, <4>1
      <4>3. CASE j = i
        <5>1. new[j] = w
          BY <4>1, <4>2, <4>3
        <5> QED BY <4>3, <5>1 DEF w
      <4>4. CASE j # i
        <5>1. j < i /\ j \in 1..(i - 1)
          BY <4>1, <4>4
        <5> QED BY <1>2, <4>2, <5>1
      <4> QED BY <4>3, <4>4
    <3> QED BY <3>1
  <2>6. DistinctKeys(new)
    <3>1. SUFFICES ASSUME NEW j \in 1..(Len(acc) + 1), NEW k \in 1..(Len(acc) + 1), j < k
                   PROVE  new[j].key # new[k].key
      BY <1>1, <2>4 DEF DistinctKeys
    <3>2. CASE k < i
      BY <1>1, <1>2, <2>4, <3>1, <3>2
    <3>3. CASE k = i
      <4>1. j \in 1..Len(acc) /\ new[j] = acc[j] /\ new[k] = w
        BY <1>1, <2>4, <3>1, <3>3
      <4> QED BY <2>2, <4>1
    <3>4. CASE k > i
      <4>1. k - 1 \in 1..Len(acc) /\ new[k] = acc[k - 1]
        BY <1>1, <2>4, <3>1, <3>4
      <4>2. CASE j = i
        BY <2>2, <2>4, <4>1, <4>2
      <4>3. CASE j < i
        <5>1. j \in 1..Len(acc) /\ new[j] = acc[j] /\ j # k - 1
          BY <1>1, <2>4, <3>1, <3>4, <4>3
        <5> QED BY <1>2, <4>1, <5>1
      <4>4. CASE j > i
        <5>1. j - 1 \in 1..Len(acc) /\ new[j] = acc[j - 1] /\ j - 1 # k - 1
          BY <1>1, <2>4, <3>1, <4>4
        <5> QED BY <1>2, <4>1, <5>1
      <4> QED BY <1>1, <4>2, <4>3, <4>4
    <3> QED BY <1>1, <3>2, <3>3, <3>4
  <2>7. ASSUME NEW j \in (i + 1)..Len(new)
        PROVE  \E k \in (i + 1)..Len(wanted) :
                  new[j].key = wanted[k].key /\ (k \notin replaced => new[j] = wanted[k])
    <3>1. j - 1 \in i..Len(acc) /\ j - 1 \in 1..Len(acc) /\ new[j] = acc[j - 1]
      BY <1>1, <2>3, <2>4
    <3>2. PICK k \in i..Len(wanted) :
             acc[j - 1].key = wanted[k].key /\ (k \notin replaced => acc[j - 1] = wanted[k])
      BY <1>2, <3>1
    <3>3. k # i
      BY <2>2, <3>1, <3>2 DEF w
    <3>4. k \in (i + 1)..Len(wanted)
      BY <1>1, <3>3
    <3> QED BY <3>1, <3>2, <3>4
  <2> QED BY <1>1, <2>3, <2>4, <2>5, <2>6, <2>7 DEF Staged, new
<1>5. CASE HasKey(acc, w.key)
  <2> DEFINE from == RowOf(acc, w.key)
             moved == MoveRow(acc, from, i)
  <2>1. from \in 1..Len(acc) /\ acc[from].key = w.key
    BY <1>1, <1>5 DEF HasKey, RowOf
  <2>2. new = IF i \in replaced THEN [moved EXCEPT ![i] = w] ELSE moved
    BY <1>5 DEF PlaceRow
  <2> HIDE DEF from
  <2>3. from >= i
    <3>1. SUFFICES ASSUME from < i PROVE FALSE
      BY <1>1, <2>1
    <3>2. from \in 1..(i - 1) /\ from \in 1..Len(wanted) /\ from # i
      BY <1>1, <2>1, <3>1
    <3>3. wanted[from].key = wanted[i].key
      BY <1>2, <2>1, <3>2
    <3> QED BY <1>3, <3>2, <3>3
  <2>4. i \notin replaced => acc[from] = w
    <3>1. from \in i..Len(acc)
      BY <1>1, <2>1, <2>3
    <3>2. PICK k \in i..Len(wanted) :
             acc[from].key = wanted[k].key /\ (k \notin replaced => acc[from] = wanted[k])
      BY <1>2, <3>1
    <3>3. k \in 1..Len(wanted)
      BY <1>1
    <3>4. k = i
      BY <1>3, <2>1, <3>2, <3>3
    <3> QED BY <3>2, <3>4
  <2>5. i \in 1..from
    BY <1>1, <2>1, <2>3
  <2>6. /\ moved \in Seq(R) /\ Len(moved) = Len(acc)
        /\ \A j \in 1..Len(acc) :
              moved[j] = IF j = i THEN acc[from]
                         ELSE IF j > i /\ j <= from THEN acc[j - 1] ELSE acc[j]
    BY <2>1, <2>5, Moving
  <2> HIDE DEF moved
  <2>7. /\ new \in Seq(R) /\ Len(new) = Len(acc)
        /\ \A j \in 1..Len(acc) : new[j] = IF j = i THEN w ELSE moved[j]
    <3>1. i \in 1..Len(acc)
      BY <1>1, <2>1, <2>5
    <3>2. CASE i \in replaced
      <4>1. new = [moved EXCEPT ![i] = w]
        BY <2>2, <3>2
      <4> HIDE DEF new, w
      <4> QED BY <1>1, <2>6, <3>1, <4>1, ExceptSeq
    <3>3. CASE i \notin replaced
      <4>1. new = moved
        BY <2>2, <3>3
      <4>2. moved[i] = w
        BY <2>4, <2>6, <3>1, <3>3
      <4> HIDE DEF new, w
      <4> QED BY <2>6, <4>1, <4>2
    <3> QED BY <3>2, <3>3
  <2> DEFINE Was(j) == IF j = i THEN from ELSE IF j > i /\ j <= from THEN j - 1 ELSE j
  <2> HIDE DEF new, w
  <2>8. ASSUME NEW j \in 1..Len(acc)
        PROVE  /\ Was(j) \in 1..Len(acc)
               /\ new[j].key = acc[Was(j)].key
               /\ j # i => new[j] = acc[Was(j)]
               /\ j < i => Was(j) = j
               /\ j > i => Was(j) \in i..Len(acc) /\ Was(j) # from
    BY <1>1, <2>1, <2>3, <2>6, <2>7
  <2>9. ASSUME NEW j \in 1..Len(acc), NEW k \in 1..Len(acc), Was(j) = Was(k)
        PROVE  j = k
    BY <1>1, <2>1, <2>3, <2>9
  <2> HIDE DEF Was
  <2>10. \A j \in 1..i : new[j] = wanted[j]
    <3>1. ASSUME NEW j \in 1..i PROVE new[j] = wanted[j]
      <4>1. j \in 1..Len(acc)
        BY <1>1, <2>1, <2>5
      <4>2. CASE j = i
        BY <2>7, <4>1, <4>2 DEF w
      <4>3. CASE j # i
        <5>1. j \in 1..(i - 1) /\ j < i
          BY <1>1, <4>3
        <5> QED BY <1>2, <2>8, <4>1, <4>3, <5>1
      <4> QED BY <4>2, <4>3
    <3> QED BY <3>1
  <2>11. DistinctKeys(new)
    <3>1. ASSUME NEW j \in 1..Len(acc), NEW k \in 1..Len(acc), new[j].key = new[k].key
          PROVE  j = k
      <4>1. /\ Was(j) \in 1..Len(acc) /\ new[j].key = acc[Was(j)].key
            /\ Was(k) \in 1..Len(acc) /\ new[k].key = acc[Was(k)].key
        BY <2>8
      <4>2. acc[Was(j)].key = acc[Was(k)].key
        BY <3>1, <4>1
      <4>3. Was(j) = Was(k)
        BY <1>2, <4>1, <4>2
      <4> QED BY <2>9, <4>3
    <3> QED BY <2>7, <3>1 DEF DistinctKeys
  <2>12. ASSUME NEW j \in (i + 1)..Len(new)
         PROVE  \E k \in (i + 1)..Len(wanted) :
                   new[j].key = wanted[k].key /\ (k \notin replaced => new[j] = wanted[k])
    <3>1. j \in 1..Len(acc) /\ j > i /\ j # i
      BY <1>1, <2>7
    <3>2. Was(j) \in i..Len(acc) /\ Was(j) # from /\ new[j] = acc[Was(j)]
      BY <2>8, <3>1
    <3>3. PICK k \in i..Len(wanted) :
             acc[Was(j)].key = wanted[k].key /\ (k \notin replaced => acc[Was(j)] = wanted[k])
      BY <1>2, <3>2
    <3>4. k # i
      <4>1. Was(j) \in 1..Len(acc)
        BY <2>8, <3>1
      <4> QED BY <1>2, <2>1, <3>2, <3>3, <4>1 DEF w
    <3>5. k \in (i + 1)..Len(wanted)
      BY <1>1, <3>4
    <3> QED BY <3>2, <3>3, <3>5
  <2>13. Len(new) >= i
    BY <1>1, <2>1, <2>3, <2>7
  <2>14. Staged(new, wanted, replaced, i)
    BY <2>10, <2>11, <2>12, <2>13 DEF Staged
  <2> QED BY <2>7, <2>14 DEF new
<1> QED BY <1>4, <1>5

(* However the rows were before, and however many publications were        *)
(* skipped: where what is not replaced is right, the rows become wanted,   *)
(* in its order (NotificationPresentationModel.cpp:246).                   *)
LEMMA ReconcileYieldsWanted ==
    ASSUME NEW R, NEW old \in Seq(R), NEW wanted \in Seq(R), NEW replaced,
           DistinctKeys(old), DistinctKeys(wanted),
           \A m \in 1..Len(old), k \in 1..Len(wanted) :
              old[m].key = wanted[k].key /\ k \notin replaced => old[m] = wanted[k]
    PROVE  Reconcile(old, wanted, replaced) = wanted
<1> DEFINE N == Len(wanted)
           Rest == RemoveGone(old, wanted)
           Rec(g) == g = [i \in 0..N |-> IF i = 0 THEN Rest
                                         ELSE PlaceRow(g[i - 1], wanted, replaced, i)]
           T(g) == {i \in 0..N : g[i] \in Seq(R) /\ Staged(g[i], wanted, replaced, i)}
<1>1. N \in Nat /\ Len(old) \in Nat /\ DOMAIN old = 1..Len(old)
  OBVIOUS
<1>2. Rest \in Seq(R) /\ Staged(Rest, wanted, replaced, 0)
  <2> DEFINE keep == {i \in DOMAIN old : HasKey(wanted, old[i].key)}
  <2>1. PICK f : Embeds(Rest, old, f) /\ \A i \in 1..Len(Rest) : f[i] \in keep
    BY KeptIsEmbedded DEF RemoveGone
  <2>2. Rest \in Seq(R)
    BY KeptIsEmbedded DEF RemoveGone
  <2> HIDE DEF Rest
  <2>3. Len(Rest) \in Nat
    BY <2>2
  <2>4. ASSUME NEW j \in 1..Len(Rest)
        PROVE  f[j] \in 1..Len(old) /\ Rest[j] = old[f[j]] /\ HasKey(wanted, Rest[j].key)
    BY <2>1 DEF Embeds
  <2>5. DistinctKeys(Rest)
    <3>1. ASSUME NEW i \in 1..Len(Rest), NEW j \in 1..Len(Rest), Rest[i].key = Rest[j].key
          PROVE  i = j
      <4>1. f[i] = f[j]
        BY <2>4, <3>1, SMTT(30) DEF DistinctKeys
      <4>2. (i < j => f[i] < f[j]) /\ (j < i => f[j] < f[i])
        BY <2>1 DEF Embeds
      <4>3. f[i] \in Nat /\ f[j] \in Nat
        BY <2>4
      <4> QED BY <2>3, <4>1, <4>2, <4>3
    <3> QED BY <3>1 DEF DistinctKeys
  <2>6. ASSUME NEW j \in 1..Len(Rest)
        PROVE  \E k \in 1..N :
                  Rest[j].key = wanted[k].key /\ (k \notin replaced => Rest[j] = wanted[k])
    <3>1. PICK k \in 1..N : wanted[k].key = Rest[j].key
      <4>1. DOMAIN wanted = 1..N
        OBVIOUS
      <4> QED BY <2>4, <4>1 DEF HasKey
    <3>2. f[j] \in 1..Len(old) /\ Rest[j] = old[f[j]]
      BY <2>4
    <3>3. k \notin replaced => Rest[j] = wanted[k]
      BY <3>1, <3>2
    <3> QED BY <3>1, <3>3
  <2> QED BY <2>2, <2>3, <2>5, <2>6 DEF Staged
<1> HIDE DEF Rest
<1>3. PICK g : Rec(g) /\ Reconcile(old, wanted, replaced) = g[N]
  <2> DEFINE Turn(i, acc) == IF Staged(acc, wanted, replaced, i - 1)
                             THEN PlaceRow(acc, wanted, replaced, i) ELSE acc
             step == [x \in (1..N) \X Seq(R) |-> Turn(x[1], x[2])]
  <2>1. ASSUME NEW i \in 1..N, NEW acc \in Seq(R) PROVE Turn(i, acc) \in Seq(R)
    BY PlaceRowStages
  <2> HIDE DEF Turn
  <2>2. step \in Steps(N, Seq(R))
    BY <2>1 DEF Steps
  <2>3. PICK f \in [0..N -> Seq(R)] : Obeys(f, N, Rest, step)
    <3> HIDE DEF step, N
    <3> QED BY <1>1, <1>2, <2>2, Recursion, Zenon
  <2>4. ASSUME NEW i \in 1..N PROVE f[i] = Turn(i, f[i - 1])
    <3>1. f[i - 1] \in Seq(R)
      <4> HIDE DEF step
      <4>1. f \in [0..N -> Seq(R)] /\ i - 1 \in 0..N
        BY <1>1, <2>3
      <4> QED BY <4>1
    <3>2. <<i, f[i - 1]>> \in (1..N) \X Seq(R)
      BY <3>1
    <3> QED BY <2>3, <3>2 DEF Obeys
  <2>5. \A i \in 0..N : i \in T(f)
    <3> DEFINE U == T(f)
    <3>1. 0 \in U
      BY <1>1, <1>2, <2>3 DEF Obeys
    <3>2. ASSUME NEW i \in 1..N, i - 1 \in U PROVE i \in U
      <4>1. f[i - 1] \in Seq(R) /\ Staged(f[i - 1], wanted, replaced, i - 1)
        BY <3>2
      <4>2. f[i] = PlaceRow(f[i - 1], wanted, replaced, i)
        BY <2>4, <4>1 DEF Turn
      <4>3. f[i] \in Seq(R) /\ Staged(f[i], wanted, replaced, i)
        BY <4>1, <4>2, PlaceRowStages
      <4> QED BY <1>1, <4>3
    <3> HIDE DEF U
    <3>3. \A i \in 1..N : i - 1 \in U => i \in U
      BY <3>2
    <3>4. \A i \in 0..N : i \in U
      BY <1>1, <3>1, <3>3, UpTo, Zenon
    <3> QED BY <3>4 DEF U
  <2>6. ASSUME NEW i \in 0..N
        PROVE  f[i] = IF i = 0 THEN Rest ELSE PlaceRow(f[i - 1], wanted, replaced, i)
    <3>1. CASE i = 0
      BY <2>3, <3>1 DEF Obeys
    <3>2. CASE i # 0
      <4>1. i \in 1..N /\ i - 1 \in 0..N
        BY <1>1, <3>2
      <4>2. Staged(f[i - 1], wanted, replaced, i - 1)
        BY <2>5, <4>1
      <4> QED BY <2>4, <3>2, <4>1, <4>2 DEF Turn
    <3> QED BY <3>1, <3>2
  <2>7. Rec(f)
    <3> HIDE DEF N
    <3> QED BY <2>3, <2>6
  <2> QED BY <2>7, Zenon DEF Reconcile, Rest
<1>4. \A i \in 1..N : g[i] = PlaceRow(g[i - 1], wanted, replaced, i)
  BY <1>1, <1>3
<1>5. g[0] = Rest
  BY <1>1, <1>3
<1> HIDE DEF Rec
<1>6. \A i \in 0..N : i \in T(g)
  <2> DEFINE U == T(g)
  <2>1. 0 \in U
    BY <1>1, <1>2, <1>5
  <2>2. ASSUME NEW i \in 1..N, i - 1 \in U PROVE i \in U
    <3>1. g[i - 1] \in Seq(R) /\ Staged(g[i - 1], wanted, replaced, i - 1)
      BY <2>2
    <3>2. g[i] \in Seq(R) /\ Staged(g[i], wanted, replaced, i)
      BY <1>4, <3>1, PlaceRowStages
    <3> QED BY <1>1, <3>2
  <2> HIDE DEF U
  <2>3. \A i \in 1..N : i - 1 \in U => i \in U
    BY <2>2
  <2>4. \A i \in 0..N : i \in U
    BY <1>1, <2>1, <2>3, UpTo, Zenon
  <2> QED BY <2>4 DEF U
<1>7. g[N] \in Seq(R) /\ Staged(g[N], wanted, replaced, N)
  BY <1>1, <1>6
<1>8. Len(g[N]) = N
  <2>1. Len(g[N]) \in Nat
    BY <1>7
  <2>2. SUFFICES ASSUME N + 1 <= Len(g[N]) PROVE FALSE
    BY <1>1, <1>7, <2>1 DEF Staged
  <2>3. N + 1 \in (N + 1)..Len(g[N])
    BY <1>1, <2>1, <2>2
  <2>4. PICK k \in (N + 1)..N : TRUE
    BY <1>7, <2>3 DEF Staged
  <2> QED BY <1>1, <2>4
<1>9. \A i \in 1..N : g[N][i] = wanted[i]
  BY <1>7 DEF Staged
<1>10. g[N] = wanted
  BY <1>7, <1>8, <1>9, SeqEqual
<1> QED BY <1>3, <1>10

-----------------------------------------------------------------------------
(* The cards.                                                              *)

Cards == [id : Nat, content : STRING, visual : Visuals, actions : ActionLists,
          dismissible : BOOLEAN, born : Nat, generation : Nat, first : Nat, updated : Nat,
          expires : Nat \cup {None}]
Snapshots == [generation : Nat, cards : Seq(Cards)]

(* Every card says how many bytes its images have.                         *)
LEMMA CardsHaveBytes ==
    ASSUME NEW cards \in Seq(Cards)
    PROVE  /\ Len(cards) \in Nat
           /\ \A i \in 1..Len(cards) : cards[i] \in Cards /\ cards[i].visual.bytes \in Nat
<1>1. ASSUME NEW c \in Cards PROVE c.visual.bytes \in Nat
  BY DEF Cards, Visuals
<1>2. Len(cards) \in Nat /\ \A i \in 1..Len(cards) : cards[i] \in Cards
  OBVIOUS
<1> QED BY <1>1, <1>2

(* The bytes of the images are added up card by card                       *)
(* (NotificationModel.cpp:519).                                            *)
LEMMA BytesAddUp ==
    ASSUME NEW cards \in Seq(Cards)
    PROVE  /\ \A i \in 0..Len(cards) : ImageBytes(cards)[i] \in Nat
           /\ ImageBytes(cards)[0] = 0
           /\ \A i \in 1..Len(cards) :
                 ImageBytes(cards)[i] = ImageBytes(cards)[i - 1] + cards[i].visual.bytes
<1> DEFINE N == Len(cards)
           Rec(g) == g = [i \in 0..N |-> IF i = 0 THEN 0 ELSE g[i - 1] + cards[i].visual.bytes]
           step == [x \in (1..N) \X Nat |-> x[2] + cards[x[1]].visual.bytes]
           B == ImageBytes(cards)
<1>1. N \in Nat /\ \A i \in 1..N : cards[i].visual.bytes \in Nat
  BY CardsHaveBytes
<1>2. Rec(B)
  <2>1. step \in Steps(N, Nat) /\ 0 \in Nat
    BY <1>1 DEF Steps
  <2>2. PICK f \in [0..N -> Nat] : Obeys(f, N, 0, step)
    <3> HIDE DEF step, N
    <3> QED BY <1>1, <2>1, Recursion, Zenon
  <2>3. ASSUME NEW i \in 1..N PROVE f[i] = f[i - 1] + cards[i].visual.bytes
    <3>1. f[i - 1] \in Nat
      <4> HIDE DEF step
      <4>1. i - 1 \in 0..N
        BY <1>1
      <4> HIDE DEF N
      <4> QED BY <2>2, <4>1
    <3>2. <<i, f[i - 1]>> \in (1..N) \X Nat
      BY <3>1
    <3> QED BY <2>2, <3>2 DEF Obeys
  <2>4. ASSUME NEW i \in 0..N
        PROVE  f[i] = IF i = 0 THEN 0 ELSE f[i - 1] + cards[i].visual.bytes
    <3>1. i = 0 \/ i \in 1..N
      BY <1>1
    <3> HIDE DEF step, N
    <3> QED BY <2>2, <2>3, <3>1 DEF Obeys
  <2>5. Rec(f)
    <3> HIDE DEF step, N
    <3> QED BY <2>2, <2>4
  <2> HIDE DEF step
  <2> QED BY <2>5, Zenon DEF ImageBytes
<1> HIDE DEF B, N, step
<1>3. B[0] = 0 /\ \A i \in 1..N : B[i] = B[i - 1] + cards[i].visual.bytes
  <2>1. \A i \in 1..N : i \in 0..N /\ i # 0
    BY <1>1
  <2>2. 0 \in 0..N
    BY <1>1
  <2>3. B = [i \in 0..N |-> IF i = 0 THEN 0 ELSE B[i - 1] + cards[i].visual.bytes]
    BY <1>2
  <2> HIDE DEF Rec
  <2> QED BY <2>1, <2>2, <2>3
<1> HIDE DEF Rec
<1>4. \A i \in 0..N : B[i] \in Nat
  <2> DEFINE T == {i \in 0..N : B[i] \in Nat}
  <2>1. 0 \in T
    BY <1>1, <1>3
  <2>2. \A i \in 1..N : i - 1 \in T => i \in T
    BY <1>1, <1>3
  <2> HIDE DEF T
  <2>3. \A i \in 0..N : i \in T
    BY <1>1, <2>1, <2>2, UpTo, Zenon
  <2> QED BY <2>3 DEF T
<1> QED BY <1>3, <1>4 DEF B, N

(* What is added to both sides keeps them in order.                        *)
LEMMA AddedToBoth ==
    ASSUME NEW a \in Nat, NEW b \in Nat, NEW c \in Nat, NEW x \in Nat, a <= b, b <= c
    PROVE  a + x <= c + x
OBVIOUS

(* Fewer cards have fewer bytes: what is left after a dismissal or a       *)
(* timeout still fits (NotificationModel.cpp:568, 603, which do not look). *)
LEMMA FewerBytes ==
    ASSUME NEW s \in Seq(Cards), NEW t \in Seq(Cards), NEW f, Embeds(t, s, f)
    PROVE  Len(t) <= Len(s) /\ ImageBytes(t)[Len(t)] <= ImageBytes(s)[Len(s)]
<1> DEFINE N == Len(s)
           M == Len(t)
           B == ImageBytes(s)
           C == ImageBytes(t)
<1>1. N \in Nat /\ M \in Nat
  OBVIOUS
<1>2. /\ \A i \in 0..N : B[i] \in Nat
      /\ B[0] = 0
      /\ \A i \in 1..N : B[i] = B[i - 1] + s[i].visual.bytes
  BY BytesAddUp
<1>3. /\ \A i \in 0..M : C[i] \in Nat
      /\ C[0] = 0
      /\ \A i \in 1..M : C[i] = C[i - 1] + t[i].visual.bytes
  BY BytesAddUp
<1>4. /\ \A i \in 1..M : f[i] \in 1..N /\ t[i] = s[f[i]]
      /\ \A i, j \in 1..M : i < j => f[i] < f[j]
  BY DEF Embeds
<1>5. \A i \in 1..N : s[i].visual.bytes \in Nat
  BY CardsHaveBytes
<1> HIDE DEF N, M, B, C
<1>6. ASSUME NEW a \in 0..N PROVE \A b \in 0..N : a <= b => B[a] <= B[b]
  <2> DEFINE T == {b \in 0..N : a <= b => B[a] <= B[b]}
  <2>1. 0 \in T
    BY <1>1, <1>2
  <2>2. ASSUME NEW b \in 1..N, b - 1 \in T PROVE b \in T
    <3>1. b - 1 \in 0..N /\ b \in 0..N /\ a \in Nat /\ b \in Nat
      BY <1>1
    <3>2. B[b - 1] <= B[b]
      BY <1>2, <1>5, <3>1, SMTT(30)
    <3>3. CASE a <= b - 1
      BY <1>2, <2>2, <3>1, <3>2, <3>3
    <3>4. CASE ~ (a <= b - 1)
      <4>1. a <= b => a = b
        BY <3>1, <3>4
      <4> QED BY <1>2, <3>1, <4>1
    <3> QED BY <3>3, <3>4
  <2> HIDE DEF T
  <2>3. \A b \in 1..N : b - 1 \in T => b \in T
    BY <2>2
  <2>4. \A b \in 0..N : b \in T
    BY <1>1, <2>1, <2>3, UpTo, Zenon
  <2> QED BY <2>4 DEF T
<1> DEFINE F(j) == IF j = 0 THEN 0 ELSE f[j]
           T == {j \in 0..M : j <= F(j) /\ F(j) \in 0..N /\ C[j] <= B[F(j)]}
<1>7. 0 \in T
  BY <1>1, <1>2, <1>3
<1>8. ASSUME NEW j \in 1..M, j - 1 \in T PROVE j \in T
  <2>1. /\ f[j] \in 1..N /\ t[j] = s[f[j]] /\ F(j) = f[j] /\ j \in Nat /\ j # 0
        /\ F(j - 1) \in 0..N /\ C[j - 1] <= B[F(j - 1)] /\ j - 1 <= F(j - 1)
    BY <1>1, <1>4, <1>8
  <2>2. F(j - 1) <= f[j] - 1
    <3>1. CASE j = 1
      BY <1>1, <2>1, <3>1
    <3>2. CASE j # 1
      <4>1. j - 1 \in 1..M /\ j - 1 < j /\ F(j - 1) = f[j - 1]
        BY <1>1, <3>2
      <4> HIDE DEF F
      <4> QED BY <1>4, <2>1, <4>1
    <3> QED BY <3>1, <3>2
  <2> HIDE DEF F
  <2>3. f[j] - 1 \in 0..N /\ f[j] \in 0..N /\ j - 1 \in 0..M /\ j \in 0..M
    BY <1>1, <2>1
  <2>4. B[F(j - 1)] <= B[f[j] - 1]
    BY <1>6, <2>1, <2>2, <2>3
  <2>5. B[f[j]] = B[f[j] - 1] + t[j].visual.bytes /\ C[j] = C[j - 1] + t[j].visual.bytes
    BY <1>2, <1>3, <2>1
  <2>6. /\ B[f[j]] \in Nat /\ B[f[j] - 1] \in Nat /\ B[F(j - 1)] \in Nat
        /\ C[j - 1] \in Nat /\ t[j].visual.bytes \in Nat
    BY <1>2, <1>3, <1>5, <2>1, <2>3
  <2>7. C[j] <= B[f[j]]
    BY <2>1, <2>4, <2>5, <2>6, AddedToBoth, Zenon
  <2>8. j <= f[j]
    BY <1>1, <2>1, <2>2
  <2> QED BY <2>1, <2>3, <2>7, <2>8
<1>9. M \in T
  <2> HIDE DEF T
  <2>1. \A j \in 1..M : j - 1 \in T => j \in T
    BY <1>8
  <2>2. \A j \in 0..M : j \in T
    BY <1>1, <1>7, <2>1, UpTo, Zenon
  <2> QED BY <1>1, <2>2
<1>10. M <= F(M) /\ F(M) \in 0..N /\ C[M] <= B[F(M)]
  BY <1>9
<1>11. B[F(M)] <= B[N] /\ B[F(M)] \in Nat /\ B[N] \in Nat /\ C[M] \in Nat
  <2> HIDE DEF F
  <2>1. N \in 0..N /\ F(M) <= N /\ M \in 0..M
    BY <1>1, <1>10
  <2> QED BY <1>2, <1>3, <1>6, <1>10, <2>1
<1> HIDE DEF F
<1> QED BY <1>1, <1>10, <1>11 DEF N, M, B, C

-----------------------------------------------------------------------------
(* The inductive invariant.                                                *)

Published == captured \cup {model.current, shown}

(* n was given before next was to be given, or next says that all are.     *)
Before(n, next) == next = 0 \/ n < next

(* What the model makes of a card.                                         *)
SoundCard(c, generation, now) ==
    /\ c.id # 0 /\ c.generation <= generation
    /\ c.first <= c.updated /\ c.updated <= now
    /\ c.expires # None => c.expires > c.updated /\ c.expires <= c.updated + MaxTimeout
    /\ ValidVisual(c.visual) /\ ValidActions(c.actions)

WellFormed(s, now) ==
    /\ Len(s.cards) <= MaxCards
    /\ \A i, j \in 1..Len(s.cards) : s.cards[i].id = s.cards[j].id => i = j
    /\ \A i \in 1..Len(s.cards) : SoundCard(s.cards[i], s.generation, now)
    /\ ImagesFit(s.cards)

(* d is what became of c: the same notification, and with another content  *)
(* only if the generation is a later one.                                  *)
Follows(c, d) ==
    c.id = d.id =>
        /\ c.born = d.born /\ c.generation <= d.generation
        /\ c.generation = d.generation => c = d

Consistent(s, t) ==
    s.generation <= t.generation =>
        \A i \in 1..Len(s.cards), j \in 1..Len(t.cards) : Follows(s.cards[i], t.cards[j])

TypeInv ==
    /\ clock \in Nat
    /\ model \in [current : Snapshots, nextId : Nat, nextGeneration : Nat]
    /\ captured \subseteq Snapshots
    /\ shown \in Snapshots

HistoryInv ==
    /\ \A s \in Published : WellFormed(s, clock)
    /\ \A s, t \in Published : Consistent(s, t)
    /\ \A s \in Published : s.generation <= model.current.generation
    /\ Before(model.current.generation, model.nextGeneration)
    /\ \A s \in Published : \A i \in 1..Len(s.cards) : Before(s.cards[i].id, model.nextId)

IInv == TypeInv /\ HistoryInv /\ RowsShowSnapshot

(* An empty model, and nothing shown.                                      *)
LEMMA InitIInv == Init => IInv
<1> SUFFICES ASSUME Init PROVE IInv
  OBVIOUS
<1> USE DEF Init, NoSnapshot
<1>1. /\ NoSnapshot \in Snapshots /\ Len(NoSnapshot.cards) = 0 /\ NoSnapshot.cards \in Seq(Cards)
      /\ NoSnapshot.generation = 0
  BY DEF Snapshots
<1>2. TypeInv
  BY <1>1 DEF TypeInv
<1>3. \A s \in Published : s = NoSnapshot
  BY DEF Published
<1>4. WellFormed(NoSnapshot, clock)
  <2>1. ImageBytes(<<>>)[0] = 0
    BY <1>1, BytesAddUp
  <2>2. ImagesFit(NoSnapshot.cards)
    BY <1>1, <2>1, NotificationsAssumption DEF ImagesFit
  <2>3. Len(NoSnapshot.cards) <= MaxCards
    BY <1>1, NotificationsAssumption
  <2> HIDE DEF NoSnapshot
  <2> QED BY <1>1, <2>2, <2>3 DEF WellFormed
<1>5. Consistent(NoSnapshot, NoSnapshot)
  <2> HIDE DEF NoSnapshot
  <2> QED BY <1>1 DEF Consistent
<1>6. model.current = NoSnapshot /\ Before(model.current.generation, model.nextGeneration)
  BY DEF Before
<1>7. HistoryInv
  <2> HIDE DEF NoSnapshot, Init
  <2> QED BY <1>1, <1>3, <1>4, <1>5, <1>6 DEF HistoryInv
<1>8. RowsShowSnapshot
  BY <1>1 DEF RowsShowSnapshot, WantedRows
<1> QED BY <1>2, <1>7, <1>8 DEF IInv

(* Where a card of the next publication comes from: it is one of those     *)
(* that are published, a replacement of one, or a new one                  *)
(* (NotificationModel.cpp:471-516).                                        *)
Origin(d) ==
    \/ \E k \in 1..Len(model.current.cards) : model.current.cards[k] = d
    \/ /\ d.generation = model.nextGeneration
       /\ \E k \in 1..Len(model.current.cards) :
             model.current.cards[k].id = d.id /\ model.current.cards[k].born = d.born
    \/ d.generation = model.nextGeneration /\ d.id = model.nextId /\ model.nextId # 0

(* What was published before is consistent with such a publication,        *)
(* whoever still holds it.                                                 *)
LEMMA OriginsAreConsistent ==
    ASSUME IInv, model.nextGeneration # 0, NEW s \in Published,
           NEW d, Origin(d), NEW i \in 1..Len(s.cards)
    PROVE  Follows(s.cards[i], d)
<1> DEFINE c == s.cards[i]
           now == model.current.cards
<1>1. /\ s \in Snapshots /\ model.current \in Published /\ model.current \in Snapshots
      /\ model.nextGeneration \in Nat /\ model.nextId \in Nat
  BY DEF IInv, TypeInv, Published
<1>2. c \in Cards /\ \A k \in 1..Len(now) : now[k] \in Cards
  <2>1. s.cards \in Seq(Cards) /\ now \in Seq(Cards)
    BY <1>1 DEF Snapshots
  <2> QED BY <2>1, CardsHaveBytes
<1>3. /\ s.generation \in Nat /\ model.current.generation \in Nat
      /\ s.generation <= model.current.generation
      /\ model.current.generation < model.nextGeneration
  BY <1>1 DEF IInv, HistoryInv, Before, Snapshots
<1>4. /\ c.generation \in Nat /\ c.generation <= s.generation
      /\ c.id \in Nat /\ Before(c.id, model.nextId)
  BY <1>2 DEF IInv, HistoryInv, WellFormed, SoundCard, Cards
<1>5. \A k \in 1..Len(now) : Follows(c, now[k])
  BY <1>1, <1>3 DEF IInv, HistoryInv, Consistent
<1> HIDE DEF c, now
<1>6. CASE \E k \in 1..Len(now) : now[k] = d
  BY <1>5, <1>6 DEF c
<1>7. CASE /\ d.generation = model.nextGeneration
           /\ \E k \in 1..Len(now) : now[k].id = d.id /\ now[k].born = d.born
  <2>1. c.generation < d.generation
    BY <1>1, <1>3, <1>4, <1>7
  <2>2. c.id = d.id => c.born = d.born
    BY <1>5, <1>7 DEF Follows
  <2> QED BY <1>1, <1>4, <1>7, <2>1, <2>2 DEF Follows, c
<1>8. CASE d.generation = model.nextGeneration /\ d.id = model.nextId /\ model.nextId # 0
  BY <1>1, <1>4, <1>8 DEF Follows, Before, c
<1> QED BY <1>6, <1>7, <1>8 DEF Origin, now

(* One publication.                                                        *)
LEMMA PublicationKeepsIInv ==
    ASSUME IInv, NEW new \in Snapshots, NEW id \in Nat,
           model.nextGeneration # 0, new.generation = model.nextGeneration,
           WellFormed(new, clock),
           \A n \in Nat : Before(n, model.nextId) => Before(n, id),
           \A i \in 1..Len(new.cards) : Before(new.cards[i].id, id) /\ Origin(new.cards[i]),
           model' = [current |-> new, nextId |-> id,
                     nextGeneration |-> IncrementIdentifier(model.nextGeneration)],
           captured' = captured \cup {new}, UNCHANGED <<clock, shown, rows>>
    PROVE  IInv'
<1> DEFINE g == model.nextGeneration
<1>1. /\ g \in Nat /\ model.current.generation < g
      /\ \A s \in Published : s \in Snapshots /\ s.generation \in Nat /\ s.generation < g
  BY DEF IInv, TypeInv, HistoryInv, Published, Before, Snapshots
<1>2. TypeInv'
  <2>1. IncrementIdentifier(g) \in Nat
    BY <1>1 DEF IncrementIdentifier
  <2> HIDE DEF g
  <2> QED BY <2>1 DEF g, IInv, TypeInv
<1>3. model'.current = new /\ model'.nextId = id /\ model'.nextGeneration = IncrementIdentifier(g)
  OBVIOUS
<1>4. \A s \in Published' : s = new \/ s \in Published
  BY <1>3 DEF Published
<1>5. \A s \in Published' : WellFormed(s, clock)
  BY <1>4 DEF IInv, HistoryInv
<1>6. ASSUME NEW s \in Published', NEW t \in Published' PROVE Consistent(s, t)
  <2>1. CASE s \in Published /\ t \in Published
    BY <2>1 DEF IInv, HistoryInv
  <2>2. CASE s \in Published /\ t = new
    BY <2>2, OriginsAreConsistent DEF Consistent
  <2>3. CASE s = new /\ t \in Published
    <3>1. ~ (s.generation <= t.generation)
      BY <1>1, <2>3
    <3> QED BY <3>1 DEF Consistent
  <2>4. CASE s = new /\ t = new
    <3>1. new.cards \in Seq(Cards)
      BY DEF Snapshots
    <3>2. \A i \in 1..Len(new.cards) : new.cards[i].generation \in Nat
      BY <3>1, CardsHaveBytes DEF Cards
    <3>3. \A i, j \in 1..Len(new.cards) : new.cards[i].id = new.cards[j].id => i = j
      BY DEF WellFormed
    <3> QED BY <2>4, <3>2, <3>3 DEF Consistent, Follows
  <2> QED BY <1>4, <2>1, <2>2, <2>3, <2>4
<1>7. \A s \in Published' : s.generation <= new.generation
  BY <1>1, <1>4
<1>8. Before(new.generation, IncrementIdentifier(g))
  BY <1>1 DEF Before, IncrementIdentifier
<1>9. ASSUME NEW s \in Published', NEW i \in 1..Len(s.cards) PROVE Before(s.cards[i].id, id)
  <2>1. CASE s = new
    BY <2>1
  <2>2. CASE s \in Published
    <3>1. s.cards \in Seq(Cards)
      BY <1>1, <2>2 DEF Snapshots
    <3>2. s.cards[i].id \in Nat
      BY <3>1, CardsHaveBytes DEF Cards
    <3> QED BY <2>2, <3>2 DEF IInv, HistoryInv
  <2> QED BY <1>4, <2>1, <2>2
<1>10. HistoryInv'
  <2>1. clock' = clock
    OBVIOUS
  <2> HIDE DEF g
  <2> QED BY <1>3, <1>5, <1>6, <1>7, <1>8, <1>9, <2>1 DEF HistoryInv
<1>11. RowsShowSnapshot'
  BY DEF IInv, RowsShowSnapshot
<1> QED BY <1>2, <1>10, <1>11 DEF IInv

(* What the publication is made of while the invariant holds.              *)
LEMMA CurrentCards ==
    ASSUME IInv
    PROVE  /\ model = [current |-> model.current, nextId |-> model.nextId,
                       nextGeneration |-> model.nextGeneration]
           /\ model.current.cards \in Seq(Cards)
           /\ DOMAIN model.current.cards = 1..Len(model.current.cards)
           /\ model.current.generation \in Nat
           /\ model.nextId \in Nat /\ model.nextGeneration \in Nat
           /\ model.nextGeneration # 0 => model.current.generation < model.nextGeneration
           /\ WellFormed(model.current, clock)
           /\ \A i \in 1..Len(model.current.cards) : Before(model.current.cards[i].id, model.nextId)
           /\ clock \in Nat
<1>1. /\ model \in [current : Snapshots, nextId : Nat, nextGeneration : Nat]
      /\ model.current \in Published /\ clock \in Nat
  BY DEF IInv, TypeInv, Published
<1>2. model.current.cards \in Seq(Cards) /\ model.current.generation \in Nat
  BY <1>1 DEF Snapshots
<1>3. /\ WellFormed(model.current, clock)
      /\ \A i \in 1..Len(model.current.cards) : Before(model.current.cards[i].id, model.nextId)
      /\ model.nextGeneration # 0 => model.current.generation < model.nextGeneration
  BY <1>1 DEF IInv, HistoryInv, Before
<1> QED BY <1>1, <1>2, <1>3

(* What is left of the cards when some go can be published.                *)
LEMMA FewerCardsAreSound ==
    ASSUME IInv, model.nextGeneration # 0, NEW t \in Seq(Cards), NEW f,
           Embeds(t, model.current.cards, f), Publish(t)
    PROVE  IInv'
<1> DEFINE cards == model.current.cards
           new == [generation |-> model.nextGeneration, cards |-> t]
<1>1. /\ cards \in Seq(Cards) /\ Len(t) \in Nat /\ Len(cards) \in Nat
      /\ model.current.generation \in Nat /\ model.nextId \in Nat /\ model.nextGeneration \in Nat
      /\ model.current.generation < model.nextGeneration
      /\ WellFormed(model.current, clock)
      /\ \A i \in 1..Len(cards) : Before(cards[i].id, model.nextId)
  BY CurrentCards, CardsHaveBytes
<1> HIDE DEF cards
<1>2. /\ new \in Snapshots /\ new.generation = model.nextGeneration /\ new.cards = t
  BY <1>1 DEF Snapshots
<1>3. /\ \A i \in 1..Len(t) : f[i] \in 1..Len(cards) /\ t[i] = cards[f[i]]
      /\ \A i, j \in 1..Len(t) : i < j => f[i] < f[j]
  BY DEF Embeds, cards
<1>4. WellFormed(new, clock)
  <2>1. Len(t) <= Len(cards) /\ ImageBytes(t)[Len(t)] <= ImageBytes(cards)[Len(cards)]
    BY <1>1, FewerBytes DEF cards
  <2>2. ImageBytes(t)[Len(t)] \in Nat /\ ImageBytes(cards)[Len(cards)] \in Nat
    BY <1>1, BytesAddUp
  <2>3. ImagesFit(t)
    BY <1>1, <2>1, <2>2, NotificationsAssumption, SMTT(30) DEF ImagesFit, WellFormed, cards
  <2>4. Len(t) <= MaxCards
    BY <1>1, <2>1, NotificationsAssumption DEF WellFormed, cards
  <2>5. ASSUME NEW i \in 1..Len(t), NEW j \in 1..Len(t), t[i].id = t[j].id PROVE i = j
    <3>1. \A a, b \in 1..Len(cards) : cards[a].id = cards[b].id => a = b
      BY <1>1 DEF WellFormed, cards
    <3>3. /\ f[i] \in 1..Len(cards) /\ t[i] = cards[f[i]]
          /\ f[j] \in 1..Len(cards) /\ t[j] = cards[f[j]]
      BY <1>3
    <3>4. f[i] = f[j]
      BY <2>5, <3>1, <3>3
    <3>2. f[i] \in Nat /\ f[j] \in Nat /\ i \in Nat /\ j \in Nat
      BY <1>3
    <3> QED BY <1>3, <3>2, <3>4
  <2>6. ASSUME NEW i \in 1..Len(t) PROVE SoundCard(t[i], model.nextGeneration, clock)
    <3>1. SoundCard(t[i], model.current.generation, clock)
      BY <1>1, <1>3 DEF WellFormed, cards
    <3>2. t[i].generation \in Nat
      BY CardsHaveBytes DEF Cards
    <3> QED BY <1>1, <3>1, <3>2 DEF SoundCard
  <2> HIDE DEF new
  <2> QED BY <1>2, <2>3, <2>4, <2>5, <2>6 DEF WellFormed
<1>5. \A i \in 1..Len(t) : Before(t[i].id, model.nextId) /\ Origin(t[i])
  BY <1>1, <1>3 DEF Origin, cards
<1>6. /\ model' = [current |-> new, nextId |-> model.nextId,
                   nextGeneration |-> IncrementIdentifier(model.nextGeneration)]
      /\ captured' = captured \cup {new} /\ UNCHANGED <<clock, shown, rows>>
  <2>1. /\ model' = [model EXCEPT !.current = new, !.nextGeneration = IncrementIdentifier(@)]
        /\ captured' = captured \cup {new} /\ UNCHANGED <<clock, shown, rows>>
    BY DEF Publish
  <2>2. model = [current |-> model.current, nextId |-> model.nextId,
                 nextGeneration |-> model.nextGeneration]
    BY CurrentCards
  <2> HIDE DEF new
  <2> QED BY <2>1, <2>2
<1> HIDE DEF new
<1> QED BY <1>1, <1>2, <1>4, <1>5, <1>6, PublicationKeepsIInv

(* A card that is dismissed goes if it is the one that was meant           *)
(* (NotificationModel.cpp:542).                                            *)
LEMMA DismissKeepsIInv ==
    ASSUME IInv, NEW id, NEW generation, Dismiss(id, generation) PROVE IInv'
<1>1. PICK i \in Index(model.current.cards, id) : Publish(RemoveAt(model.current.cards, i))
  BY DEF Dismiss
<1>2. model.current.cards \in Seq(Cards) /\ i \in 1..Len(model.current.cards)
  BY CurrentCards DEF Index
<1> DEFINE t == RemoveAt(model.current.cards, i)
<1>3. PICK f : t \in Seq(Cards) /\ Embeds(t, model.current.cards, f)
  BY <1>2, RemovedIsEmbedded
<1>4. Publish(t) /\ model.nextGeneration # 0
  BY <1>1 DEF Publish
<1> HIDE DEF t
<1> QED BY <1>3, <1>4, FewerCardsAreSound

(* So do the cards whose time has come (NotificationModel.cpp:581).        *)
LEMMA AdvanceTimeoutsKeepsIInv == ASSUME IInv, AdvanceTimeouts PROVE IInv'
<1> DEFINE cards == model.current.cards
           keep == {i \in DOMAIN cards : cards[i].expires = None \/ cards[i].expires > clock}
           t == Kept(cards, keep)
<1>1. cards \in Seq(Cards)
  BY CurrentCards
<1>2. Publish(t) /\ model.nextGeneration # 0
  BY DEF AdvanceTimeouts, Publish
<1>3. PICK f : t \in Seq(Cards) /\ Embeds(t, cards, f)
  <2> HIDE DEF cards, keep
  <2> QED BY <1>1, KeptIsEmbedded
<1> HIDE DEF t, keep
<1> QED BY <1>2, <1>3, FewerCardsAreSound

(* A deadline is after its start, and within what is allowed               *)
(* (NotificationModel.cpp:268).                                            *)
LEMMA ExpiryIsAllowed ==
    ASSUME NEW timeout \in Timeouts, NEW now \in Nat, ExpiryFor(timeout, now) # Refused
    PROVE  /\ ExpiryFor(timeout, now) \in Nat \cup {None}
           /\ ExpiryFor(timeout, now) # None =>
                 ExpiryFor(timeout, now) > now /\ ExpiryFor(timeout, now) <= now + MaxTimeout
<1> DEFINE duration == IF timeout.kind = "default" THEN DefaultTimeout ELSE timeout.duration
           E == ExpiryFor(timeout, now)
<1>1. /\ timeout.duration \in Nat /\ DefaultTimeout \in Nat \ {0}
      /\ MaxTimeout \in Nat /\ DefaultTimeout <= MaxTimeout
  BY NotificationsAssumption DEF Timeouts
<1>2. timeout.kind \in {"default", "never", "explicit"}
  BY DEF Timeouts
<1>3. CASE timeout.kind = "never"
  BY <1>3 DEF ExpiryFor
<1>4. CASE timeout.kind # "never"
  <2>1. ~ (timeout.kind = "explicit" /\ timeout.duration \notin 1..MaxTimeout)
    BY <1>4 DEF ExpiryFor
  <2>2. duration \in 1..MaxTimeout
    BY <1>1, <1>2, <1>4, <2>1
  <2>3. E = now + duration
    <3> HIDE DEF E
    <3>1. E = IF now > LastTime - duration THEN Refused ELSE now + duration
      BY <1>4, <2>1 DEF ExpiryFor, E
    <3> QED BY <3>1 DEF E
  <2> HIDE DEF E, duration
  <2>4. E \in Nat /\ E > now /\ E <= now + MaxTimeout
    BY <1>1, <2>2, <2>3
  <2> QED BY <2>4 DEF E
<1> QED BY <1>3, <1>4

(* What the model makes of an input that it accepts.                       *)
LEMMA CardsAreMade ==
    ASSUME NEW input \in Inputs, ValidateInput(input), clock \in Nat,
           NEW id \in Nat, id # 0, NEW born \in Nat, NEW generation \in Nat,
           NEW first \in Nat, first <= clock,
           ExpiryFor(input.timeout, clock) # Refused,
           NEW c, c = CardOf(input, id, born, generation, first, ExpiryFor(input.timeout, clock))
    PROVE  /\ c \in Cards /\ c.id = id /\ c.born = born /\ c.generation = generation
           /\ SoundCard(c, generation, clock)
<1> DEFINE E == ExpiryFor(input.timeout, clock)
<1>1. /\ input.content \in STRING /\ input.visual \in Visuals /\ input.actions \in ActionLists
      /\ input.dismissible \in BOOLEAN /\ input.timeout \in Timeouts
  BY InputsAssumption DEF Input
<1>2. E \in Nat \cup {None} /\ (E # None => E > clock /\ E <= clock + MaxTimeout)
  BY <1>1, ExpiryIsAllowed
<1> HIDE DEF E
<1>3. c = [id |-> id, content |-> input.content, visual |-> input.visual,
           actions |-> input.actions, dismissible |-> input.dismissible, born |-> born,
           generation |-> generation, first |-> first, updated |-> clock, expires |-> E]
  BY DEF CardOf, E
<1>4. c \in Cards
  BY <1>1, <1>2, <1>3 DEF Cards
<1>5. /\ c.id = id /\ c.born = born /\ c.generation = generation /\ c.first = first
      /\ c.updated = clock /\ c.expires = E /\ c.visual = input.visual /\ c.actions = input.actions
  BY <1>3
<1>6. SoundCard(c, generation, clock)
  BY <1>2, <1>5 DEF SoundCard, ValidateInput
<1> QED BY <1>4, <1>5, <1>6

(* A replacement keeps its identifier and its place, and is of the         *)
(* generation that is published (NotificationModel.cpp:471).               *)
LEMMA ReplaceKeepsIInv ==
    ASSUME IInv, NEW input \in Inputs, ValidateInput(input),
           NEW i \in DOMAIN model.current.cards, Replace(input, i)
    PROVE  IInv'
<1> DEFINE cards == model.current.cards
           old == cards[i]
           g == model.nextGeneration
           c == CardOf(input, old.id, old.born, g, old.first, ExpiryFor(input.timeout, clock))
           t == [cards EXCEPT ![i] = c]
           new == [generation |-> g, cards |-> t]
<1>1. /\ ExpiryFor(input.timeout, clock) # Refused /\ ImagesFit(t) /\ Publish(t) /\ g # 0
  BY DEF Replace, Publish
<1>2. /\ cards \in Seq(Cards) /\ Len(cards) \in Nat /\ i \in 1..Len(cards)
      /\ model.current.generation \in Nat /\ model.nextId \in Nat /\ g \in Nat
      /\ model.current.generation < g /\ clock \in Nat
      /\ \A j \in 1..Len(cards) : Before(cards[j].id, model.nextId)
  BY <1>1, CurrentCards, CardsHaveBytes
<1>3. /\ Len(cards) <= MaxCards
      /\ \A j, k \in 1..Len(cards) : cards[j].id = cards[k].id => j = k
      /\ \A j \in 1..Len(cards) : SoundCard(cards[j], model.current.generation, clock)
  BY CurrentCards DEF WellFormed
<1>4. /\ old \in Cards /\ old.id \in Nat /\ old.id # 0 /\ old.born \in Nat /\ old.first \in Nat
      /\ old.first <= clock
  <2>1. old \in Cards
    BY <1>2
  <2> HIDE DEF old
  <2>2. old.id \in Nat /\ old.born \in Nat /\ old.first \in Nat /\ old.updated \in Nat
    BY <2>1 DEF Cards
  <2>3. SoundCard(old, model.current.generation, clock)
    BY <1>2, <1>3 DEF old
  <2> QED BY <1>2, <2>1, <2>2, <2>3 DEF SoundCard
<1> HIDE DEF cards, old, g
<1>5. /\ c \in Cards /\ c.id = old.id /\ c.born = old.born /\ c.generation = g
      /\ SoundCard(c, g, clock)
  <2>1. c = CardOf(input, old.id, old.born, g, old.first, ExpiryFor(input.timeout, clock))
    OBVIOUS
  <2>2. ExpiryFor(input.timeout, clock) # Refused /\ clock \in Nat /\ g \in Nat
    BY <1>1, <1>2
  <2> HIDE DEF c
  <2> QED BY <1>4, <2>1, <2>2, CardsAreMade
<1> HIDE DEF c
<1>6. /\ t \in Seq(Cards) /\ Len(t) = Len(cards)
      /\ \A j \in 1..Len(cards) : t[j] = IF j = i THEN c ELSE cards[j]
  BY <1>2, <1>5, ExceptSeq
<1> HIDE DEF t
<1>7. new \in Snapshots /\ new.generation = g /\ new.cards = t
  BY <1>2, <1>6 DEF Snapshots
<1>8. WellFormed(new, clock)
  <2>1. ASSUME NEW j \in 1..Len(t), NEW k \in 1..Len(t), t[j].id = t[k].id PROVE j = k
    <3>1. cards[j].id = t[j].id /\ cards[k].id = t[k].id
      BY <1>5, <1>6 DEF old
    <3>2. j \in 1..Len(cards) /\ k \in 1..Len(cards)
      BY <1>6
    <3> QED BY <1>3, <2>1, <3>1, <3>2
  <2>2. ASSUME NEW j \in 1..Len(t) PROVE SoundCard(t[j], g, clock)
    <3>1. CASE j = i
      BY <1>5, <1>6, <3>1
    <3>2. CASE j # i
      <4>1. t[j] = cards[j] /\ cards[j] \in Cards
        BY <1>2, <1>6, <3>2
      <4>2. SoundCard(cards[j], model.current.generation, clock) /\ cards[j].generation \in Nat
        BY <1>3, <1>6, <4>1 DEF Cards
      <4> QED BY <1>2, <4>1, <4>2 DEF SoundCard
    <3> QED BY <3>1, <3>2
  <2>3. ImagesFit(t) /\ Len(t) <= MaxCards
    BY <1>1, <1>3, <1>6 DEF t
  <2> HIDE DEF new
  <2> QED BY <1>7, <2>1, <2>2, <2>3 DEF WellFormed
<1>9. ASSUME NEW j \in 1..Len(t) PROVE Before(t[j].id, model.nextId) /\ Origin(t[j])
  <2>1. CASE j = i
    <3>1. t[j] = c /\ c.id = cards[i].id /\ c.born = cards[i].born
      BY <1>5, <1>6, <2>1 DEF old
    <3>2. Origin(c)
      BY <1>2, <1>5, <3>1 DEF Origin, g, cards
    <3> QED BY <1>2, <3>1, <3>2
  <2>2. CASE j # i
    <3>1. t[j] = cards[j] /\ j \in 1..Len(cards)
      BY <1>6, <2>2
    <3> QED BY <1>2, <3>1 DEF Origin, cards
  <2> QED BY <2>1, <2>2
<1>10. /\ model' = [current |-> new, nextId |-> model.nextId,
                    nextGeneration |-> IncrementIdentifier(model.nextGeneration)]
       /\ captured' = captured \cup {new} /\ UNCHANGED <<clock, shown, rows>>
  <2>1. /\ model' = [model EXCEPT !.current = new, !.nextGeneration = IncrementIdentifier(@)]
        /\ captured' = captured \cup {new} /\ UNCHANGED <<clock, shown, rows>>
    BY <1>1 DEF Publish, g
  <2>2. model = [current |-> model.current, nextId |-> model.nextId,
                 nextGeneration |-> model.nextGeneration]
    BY CurrentCards
  <2> HIDE DEF new
  <2> QED BY <2>1, <2>2
<1> HIDE DEF new
<1> QED BY <1>1, <1>2, <1>7, <1>8, <1>9, <1>10, PublicationKeepsIInv DEF g

(* A new card has an identifier that nothing had before                    *)
(* (NotificationModel.cpp:499).                                            *)
LEMMA AddKeepsIInv ==
    ASSUME IInv, NEW input \in Inputs, ValidateInput(input), Add(input) PROVE IInv'
<1> DEFINE cards == model.current.cards
           g == model.nextGeneration
           id == model.nextId
           c == CardOf(input, id, g, g, clock, ExpiryFor(input.timeout, clock))
           t == Append(cards, c)
           new == [generation |-> g, cards |-> t]
<1>1. /\ ExpiryFor(input.timeout, clock) # Refused /\ g # 0 /\ Len(cards) < MaxCards /\ id # 0
      /\ ImagesFit(t)
      /\ model' = [current |-> new, nextId |-> IncrementIdentifier(model.nextId),
                   nextGeneration |-> IncrementIdentifier(model.nextGeneration)]
      /\ captured' = captured \cup {new} /\ UNCHANGED <<clock, shown, rows>>
  BY DEF Add
<1>2. /\ cards \in Seq(Cards) /\ Len(cards) \in Nat
      /\ model.current.generation \in Nat /\ id \in Nat /\ g \in Nat
      /\ model.current.generation < g /\ clock \in Nat
      /\ \A j \in 1..Len(cards) : Before(cards[j].id, id) /\ cards[j] \in Cards
  BY <1>1, CurrentCards, CardsHaveBytes
<1>3. /\ \A j, k \in 1..Len(cards) : cards[j].id = cards[k].id => j = k
      /\ \A j \in 1..Len(cards) : SoundCard(cards[j], model.current.generation, clock)
  BY CurrentCards DEF WellFormed
<1> HIDE DEF cards, g, id
<1>5. c \in Cards /\ c.id = id /\ c.generation = g /\ SoundCard(c, g, clock)
  BY <1>1, <1>2, CardsAreMade
<1> HIDE DEF c
<1>6. /\ t \in Seq(Cards) /\ Len(t) = Len(cards) + 1
      /\ \A j \in 1..Len(cards) : t[j] = cards[j]
      /\ t[Len(cards) + 1] = c
  BY <1>2, <1>5, AppendProperties
<1> HIDE DEF t
<1>7. new \in Snapshots /\ new.generation = g /\ new.cards = t
  BY <1>2, <1>6 DEF Snapshots
<1>4. ASSUME NEW j \in 1..Len(t)
      PROVE  (j \in 1..Len(cards) /\ t[j] = cards[j]) \/ (j = Len(cards) + 1 /\ t[j] = c)
  BY <1>2, <1>6
<1>8. WellFormed(new, clock)
  <2>1. ASSUME NEW j \in 1..Len(t), NEW k \in 1..Len(t), t[j].id = t[k].id PROVE j = k
    <3>1. \A n \in 1..Len(cards) : cards[n].id # c.id
      <4>1. \A n \in 1..Len(cards) : cards[n].id \in Nat
        BY <1>2 DEF Cards
      <4> QED BY <1>1, <1>2, <1>5, <4>1 DEF Before
    <3> QED BY <1>3, <1>4, <2>1, <3>1
  <2>2. ASSUME NEW j \in 1..Len(t) PROVE SoundCard(t[j], g, clock)
    <3>1. ASSUME j \in 1..Len(cards), t[j] = cards[j] PROVE SoundCard(t[j], g, clock)
      <4>1. SoundCard(cards[j], model.current.generation, clock) /\ cards[j].generation \in Nat
        BY <1>2, <1>3, <3>1 DEF Cards
      <4> QED BY <1>2, <3>1, <4>1 DEF SoundCard
    <3> QED BY <1>4, <1>5, <3>1
  <2>3. ImagesFit(t) /\ Len(t) <= MaxCards
    BY <1>1, <1>2, <1>6, NotificationsAssumption DEF t
  <2> HIDE DEF new
  <2> QED BY <1>7, <2>1, <2>2, <2>3 DEF WellFormed
<1>9. \A n \in Nat : Before(n, id) => Before(n, IncrementIdentifier(id))
  BY <1>1, <1>2 DEF Before, IncrementIdentifier
<1>10. ASSUME NEW j \in 1..Len(t)
       PROVE  Before(t[j].id, IncrementIdentifier(id)) /\ Origin(t[j])
  <2>1. ASSUME j \in 1..Len(cards), t[j] = cards[j]
        PROVE  Before(t[j].id, IncrementIdentifier(id)) /\ Origin(t[j])
    <3>1. cards[j].id \in Nat /\ Before(cards[j].id, id)
      BY <1>2, <2>1 DEF Cards
    <3> QED BY <1>9, <2>1, <3>1 DEF Origin, cards
  <2>2. ASSUME t[j] = c
        PROVE  Before(t[j].id, IncrementIdentifier(id)) /\ Origin(t[j])
    <3>1. Before(id, IncrementIdentifier(id))
      BY <1>2 DEF Before, IncrementIdentifier
    <3> QED BY <1>1, <1>5, <2>2, <3>1 DEF Origin, g, id
  <2> QED BY <1>4, <2>1, <2>2
<1>11. IncrementIdentifier(id) \in Nat
  BY <1>2 DEF IncrementIdentifier
<1> HIDE DEF new
<1> QED BY <1>1, <1>7, <1>8, <1>9, <1>10, <1>11, PublicationKeepsIInv DEF g, id

-----------------------------------------------------------------------------
(* The presentation.                                                       *)

Rows == [key : Nat, generation : Nat, content : STRING, born : Nat, actions : ActionLists,
         dismissible : BOOLEAN]

CardRow(c) == [key |-> c.id, generation |-> c.generation, content |-> c.content, born |-> c.born,
              actions |-> c.actions, dismissible |-> c.dismissible]

(* Row by row, s is what the rows show.                                    *)
Shows(r, s) ==
    /\ r \in Seq(Rows) /\ Len(r) = Len(s.cards) /\ DOMAIN r = 1..Len(s.cards)
    /\ DOMAIN s.cards = 1..Len(s.cards)
    /\ \A i \in 1..Len(s.cards) :
          /\ s.cards[i] \in Cards /\ r[i] = CardRow(s.cards[i])
          /\ r[i].key = s.cards[i].id /\ r[i].generation = s.cards[i].generation
          /\ r[i].content = s.cards[i].content /\ r[i].born = s.cards[i].born

(* One row for each card, in their order.                                  *)
LEMMA WantedRowsAre == ASSUME NEW s \in Snapshots PROVE Shows(WantedRows(s), s)
<1>1. s.cards \in Seq(Cards) /\ DOMAIN s.cards = 1..Len(s.cards) /\ Len(s.cards) \in Nat
  BY DEF Snapshots
<1>2. \A i \in 1..Len(s.cards) : s.cards[i] \in Cards
  BY <1>1
<1>3. ASSUME NEW c \in Cards PROVE CardRow(c) \in Rows
  BY DEF Cards, Rows, CardRow
<1>4. WantedRows(s) = [i \in 1..Len(s.cards) |-> CardRow(s.cards[i])]
  BY <1>1 DEF WantedRows, CardRow
<1>5. \A i \in 1..Len(s.cards) : CardRow(s.cards[i]) \in Rows
  BY <1>2, <1>3
<1>6. WantedRows(s) \in [1..Len(s.cards) -> Rows]
  BY <1>4, <1>5
<1>7. WantedRows(s) \in Seq(Rows) /\ Len(WantedRows(s)) = Len(s.cards)
  BY <1>1, <1>6
<1>8. \A i \in 1..Len(s.cards) : WantedRows(s)[i] = CardRow(s.cards[i])
  BY <1>4
<1>9. \A i \in 1..Len(s.cards) :
         /\ WantedRows(s)[i].key = s.cards[i].id
         /\ WantedRows(s)[i].generation = s.cards[i].generation
         /\ WantedRows(s)[i].content = s.cards[i].content
         /\ WantedRows(s)[i].born = s.cards[i].born
  <2>1. ASSUME NEW c
        PROVE  /\ CardRow(c).key = c.id /\ CardRow(c).generation = c.generation
               /\ CardRow(c).content = c.content /\ CardRow(c).born = c.born
    BY DEF CardRow
  <2> QED BY <1>8, <2>1
<1> QED BY <1>1, <1>2, <1>6, <1>7, <1>8, <1>9 DEF Shows

(* What is looked up in the rows is looked up in the cards shown.          *)
LEMMA RowsAreLookedUp ==
    ASSUME IInv, NEW key, HasKey(rows, key)
    PROVE  /\ RowOf(rows, key) \in 1..Len(shown.cards)
           /\ shown.cards[RowOf(rows, key)].id = key
           /\ shown.cards[RowOf(rows, key)] \in Cards
           /\ rows[RowOf(rows, key)].generation = shown.cards[RowOf(rows, key)].generation
<1>1. rows = WantedRows(shown) /\ shown \in Snapshots
  BY DEF IInv, RowsShowSnapshot, TypeInv
<1>2. RowOf(rows, key) \in DOMAIN rows /\ rows[RowOf(rows, key)].key = key
  BY DEF HasKey, RowOf
<1> QED BY <1>1, <1>2, WantedRowsAre DEF Shows

(* A snapshot that is accepted replaces the rows by its own                *)
(* (NotificationPresentationModel.cpp:168).                                *)
LEMMA AcceptedIsShown ==
    ASSUME IInv, NEW s \in Snapshots, Accepts(s)
    PROVE  Reconcile(rows, WantedRows(s), Replaced(WantedRows(s))) = WantedRows(s)
<1> DEFINE wanted == WantedRows(s)
           replaced == Replaced(wanted)
<1>1. /\ rows = WantedRows(shown) /\ shown \in Snapshots /\ WellFormed(shown, clock)
  BY DEF IInv, RowsShowSnapshot, TypeInv, HistoryInv, Published
<1>2. Shows(rows, shown)
  BY <1>1, WantedRowsAre
<1>3. Shows(wanted, s)
  BY WantedRowsAre
<1>4. \A i, j \in 1..Len(shown.cards) : shown.cards[i].id = shown.cards[j].id => i = j
  BY <1>1 DEF WellFormed
<1>5. DistinctKeys(rows)
  BY <1>2, <1>4 DEF DistinctKeys, Shows
<1>6. DistinctKeys(wanted)
  <2>1. \A i, j \in 1..Len(s.cards) : s.cards[i].id = s.cards[j].id => i = j
    BY <1>3 DEF Accepts, ValidateNotificationSnapshot, Shows
  <2> HIDE DEF wanted
  <2> QED BY <1>3, <2>1 DEF DistinctKeys, Shows
<1> HIDE DEF wanted
<1>7. ASSUME NEW m \in 1..Len(rows), NEW k \in 1..Len(wanted),
             rows[m].key = wanted[k].key, k \notin replaced
      PROVE  rows[m] = wanted[k]
  <2> DEFINE r == RowOf(rows, wanted[k].key)
  <2>1. HasKey(rows, wanted[k].key)
    BY <1>2, <1>7 DEF HasKey, Shows
  <2>2. /\ r \in 1..Len(shown.cards) /\ shown.cards[r].id = wanted[k].key
        /\ shown.cards[r] \in Cards /\ rows[r].generation = shown.cards[r].generation
    BY <2>1, RowsAreLookedUp
  <2>3. ~ (wanted[k].generation > rows[r].generation)
    BY <1>3, <1>7, <2>1 DEF Replaced, Shows
  <2>4. Agrees(s, k)
    BY <1>3 DEF Accepts, Shows
  <2>5. /\ wanted[k].generation >= rows[r].generation
        /\ wanted[k].generation = rows[r].generation =>
              \E j \in Index(shown.cards, s.cards[k].id) : shown.cards[j] = s.cards[k]
    BY <2>1, <2>4 DEF Agrees, wanted
  <2> HIDE DEF r
  <2>6. wanted[k].generation \in Nat /\ rows[r].generation \in Nat
    <3>1. k \in 1..Len(s.cards)
      BY <1>3 DEF Shows
    <3>2. s.cards[k].generation \in Nat /\ shown.cards[r].generation \in Nat
      BY <1>3, <2>2, <3>1 DEF Cards, Shows
    <3> QED BY <1>3, <2>2, <3>1, <3>2 DEF Shows
  <2>7. PICK j \in Index(shown.cards, s.cards[k].id) : shown.cards[j] = s.cards[k]
    BY <2>3, <2>5, <2>6
  <2>8. j \in 1..Len(shown.cards) /\ shown.cards[j].id = s.cards[k].id
    <3>1. DOMAIN shown.cards = 1..Len(shown.cards)
      BY <1>1, WantedRowsAre DEF Shows
    <3> QED BY <2>7, <3>1 DEF Index
  <2>9. m = j
    <3>1. rows[m].key = shown.cards[m].id /\ m \in 1..Len(shown.cards)
      BY <1>2 DEF Shows
    <3>2. wanted[k].key = s.cards[k].id
      BY <1>3 DEF Shows
    <3> QED BY <1>4, <1>7, <2>8, <3>1, <3>2
  <2> QED BY <1>2, <1>3, <2>7, <2>8, <2>9 DEF Shows
<1> HIDE DEF replaced
<1>8. Reconcile(rows, wanted, replaced) = wanted
  BY <1>2, <1>3, <1>5, <1>6, <1>7, ReconcileYieldsWanted DEF Shows
<1> QED BY <1>8 DEF wanted, replaced

(* The presentation takes any snapshot that was captured, late or early.   *)
LEMMA ApplySnapshotKeepsIInv ==
    ASSUME IInv, NEW s \in captured, ApplySnapshot(s) PROVE IInv'
<1>1. /\ captured' = captured \ {s} /\ clock' = clock /\ model' = model
      /\ s \in Snapshots /\ s \in Published /\ shown \in Published
  BY DEF ApplySnapshot, IInv, TypeInv, Published
<1>2. (rows' = WantedRows(s) /\ shown' = s) \/ (rows' = rows /\ shown' = shown)
  BY <1>1, AcceptedIsShown DEF ApplySnapshot
<1>3. shown' \in Published /\ RowsShowSnapshot'
  BY <1>1, <1>2 DEF IInv, RowsShowSnapshot
<1>4. Published' \subseteq Published
  BY <1>1, <1>3 DEF Published
<1>5. TypeInv'
  BY <1>1, <1>2 DEF IInv, TypeInv
<1>6. HistoryInv'
  <2>1. Published' \subseteq Published /\ clock' = clock /\ model' = model
    BY <1>1, <1>4
  <2>2. HistoryInv
    BY DEF IInv
  <2>3. /\ \A t \in Published' : WellFormed(t, clock)
        /\ \A t, u \in Published' : Consistent(t, u)
        /\ \A t \in Published' : t.generation <= model.current.generation
        /\ \A t \in Published' : \A i \in 1..Len(t.cards) : Before(t.cards[i].id, model.nextId)
    BY <2>1, <2>2 DEF HistoryInv
  <2>4. Before(model.current.generation, model.nextGeneration)
    BY <2>2 DEF HistoryInv
  <2> QED BY <2>1, <2>3, <2>4 DEF HistoryInv
<1> QED BY <1>3, <1>5, <1>6 DEF IInv

(* Nothing changes by the time that passes.                                *)
LEMMA TickKeepsIInv == ASSUME IInv, Tick PROVE IInv'
<1>1. /\ clock \in Nat /\ clock' = clock + 1 /\ Published' = Published /\ model' = model
      /\ UNCHANGED <<captured, shown, rows>>
  BY DEF Tick, IInv, TypeInv, Published
<1>2. TypeInv'
  BY <1>1 DEF IInv, TypeInv
<1>3. ASSUME NEW s \in Published PROVE WellFormed(s, clock')
  <2>1. s \in Snapshots /\ s.cards \in Seq(Cards)
    BY DEF IInv, TypeInv, Published, Snapshots
  <2>2. ASSUME NEW i \in 1..Len(s.cards) PROVE SoundCard(s.cards[i], s.generation, clock')
    <3>1. SoundCard(s.cards[i], s.generation, clock)
      BY DEF IInv, HistoryInv, WellFormed
    <3>2. s.cards[i].updated \in Nat
      BY <2>1, CardsHaveBytes DEF Cards
    <3> QED BY <1>1, <3>1, <3>2 DEF SoundCard
  <2> QED BY <2>2 DEF IInv, HistoryInv, WellFormed
<1>4. HistoryInv'
  BY <1>1, <1>3 DEF IInv, HistoryInv
<1>5. RowsShowSnapshot'
  BY <1>1 DEF IInv, RowsShowSnapshot
<1> QED BY <1>2, <1>4, <1>5 DEF IInv

-----------------------------------------------------------------------------
(* Every reachable state satisfies the inductive invariant.                *)
THEOREM InductiveInvariant == Spec => []IInv
<1>1. Init => IInv
  BY InitIInv
<1>2. IInv /\ [Next]_vars => IInv'
  <2> SUFFICES ASSUME IInv, [Next]_vars PROVE IInv'
    OBVIOUS
  <2>1. ASSUME NEW input \in Inputs, Upsert(input) PROVE IInv'
    <3>1. ValidateInput(input)
      BY <2>1 DEF Upsert
    <3>2. CASE Add(input)
      BY <3>1, <3>2, AddKeepsIInv
    <3>3. ASSUME NEW i \in DOMAIN model.current.cards, Replace(input, i) PROVE IInv'
      BY <3>1, <3>3, ReplaceKeepsIInv
    <3> QED BY <2>1, <3>2, <3>3 DEF Upsert
  <2>2. CASE AdvanceTimeouts
    BY <2>2, AdvanceTimeoutsKeepsIInv
  <2>3. ASSUME NEW s \in captured, ApplySnapshot(s) PROVE IInv'
    BY <2>3, ApplySnapshotKeepsIInv
  <2>4. ASSUME NEW i \in DOMAIN rows, RequestDismissal(i) \/ RequestActivation(i) PROVE IInv'
    <3>1. Dismiss(rows[i].key, rows[i].generation)
      BY <2>4 DEF RequestDismissal, RequestActivation, Activate
    <3> QED BY <3>1, DismissKeepsIInv
  <2>5. CASE Tick
    BY <2>5, TickKeepsIInv
  <2>6. CASE UNCHANGED vars
    BY <2>6 DEF vars, IInv, TypeInv, HistoryInv, Published, RowsShowSnapshot
  <2> QED BY <2>1, <2>2, <2>3, <2>4, <2>5, <2>6 DEF Next
<1> QED BY <1>1, <1>2, PTL DEF Spec

(* The rows are those of the snapshot that was applied last, in its order, *)
(* whatever was shown before and however many publications were skipped    *)
(* (NotificationPresentationModel.cpp:246-287).                            *)
THEOREM RowsFollowSnapshots == Spec => []RowsShowSnapshot
<1>1. IInv => RowsShowSnapshot
  BY DEF IInv
<1> QED BY <1>1, InductiveInvariant, PTL

(* Whatever row the user acts on, and however late the intent arrives, a   *)
(* card that the model finds by the identifier and the generation of the   *)
(* intent is what the user saw (NotificationModel.cpp:563, 637).           *)
THEOREM IntentsAreHonest == Spec => []IntentsConcernWhatWasSeen
<1>1. IInv => IntentsConcernWhatWasSeen
  <2> SUFFICES ASSUME IInv, NEW i \in DOMAIN rows, NEW j \in DOMAIN model.current.cards
               PROVE  Same(rows[i], model.current.cards[j])
    BY DEF IntentsConcernWhatWasSeen
  <2>1. /\ rows = WantedRows(shown) /\ shown \in Snapshots
        /\ shown \in Published /\ model.current \in Published
        /\ shown.generation <= model.current.generation
    BY DEF IInv, RowsShowSnapshot, TypeInv, HistoryInv, Published
  <2>2. Shows(rows, shown) /\ i \in 1..Len(shown.cards) /\ j \in 1..Len(model.current.cards)
    BY <2>1, WantedRowsAre, CurrentCards DEF Shows
  <2>3. Follows(shown.cards[i], model.current.cards[j])
    BY <2>1, <2>2 DEF IInv, HistoryInv, Consistent
  <2> QED BY <2>2, <2>3 DEF Shows, Follows, Same
<1> QED BY <1>1, InductiveInvariant, PTL

(* What the model publishes passes the validation on the other side, but   *)
(* for the deadlines at the end of the clock, and agrees with whatever is  *)
(* shown (NotificationModel.cpp:317-411,                                   *)
(* NotificationPresentationModel.cpp:188-236).                             *)
THEOREM NewerIsAccepted == Spec => []PublicationsAreAccepted
<1>1. IInv => PublicationsAreAccepted
  <2> SUFFICES ASSUME IInv, NEW s \in captured, s.generation > shown.generation
               PROVE  Accepts(s) <=> \A i \in DOMAIN s.cards : CouldRunLongest(s.cards[i])
    BY DEF PublicationsAreAccepted
  <2>1. /\ s \in Snapshots /\ shown \in Snapshots /\ s \in Published /\ shown \in Published
        /\ WellFormed(s, clock) /\ Consistent(shown, s)
    BY DEF IInv, TypeInv, HistoryInv, Published
  <2>2. Shows(WantedRows(s), s)
    BY <2>1, WantedRowsAre
  <2>3. ASSUME NEW i \in DOMAIN s.cards
        PROVE  ValidatePublishedCard(s.cards[i], s.generation) <=> CouldRunLongest(s.cards[i])
    <3>1. SoundCard(s.cards[i], s.generation, clock)
      BY <2>1, <2>2 DEF WellFormed, Shows
    <3> QED BY <3>1 DEF SoundCard, ValidatePublishedCard, CouldRunLongest
  <2>4. ValidateNotificationSnapshot(s) <=> \A i \in DOMAIN s.cards : CouldRunLongest(s.cards[i])
    BY <2>1, <2>2, <2>3 DEF ValidateNotificationSnapshot, WellFormed, Shows
  <2>5. ASSUME NEW i \in DOMAIN s.cards PROVE Agrees(s, i)
    <3> DEFINE wanted == WantedRows(s)
               r == RowOf(rows, wanted[i].key)
    <3>1. SUFFICES ASSUME HasKey(rows, wanted[i].key)
                   PROVE  /\ wanted[i].generation >= rows[r].generation
                          /\ wanted[i].generation = rows[r].generation =>
                                \E j \in Index(shown.cards, s.cards[i].id) :
                                    shown.cards[j] = s.cards[i]
      BY DEF Agrees
    <3>2. /\ r \in 1..Len(shown.cards) /\ shown.cards[r].id = wanted[i].key
          /\ shown.cards[r] \in Cards /\ rows[r].generation = shown.cards[r].generation
      BY <3>1, RowsAreLookedUp
    <3>3. /\ i \in 1..Len(s.cards) /\ s.cards[i] \in Cards
          /\ wanted[i].key = s.cards[i].id /\ wanted[i].generation = s.cards[i].generation
      BY <2>2 DEF Shows
    <3> HIDE DEF wanted, r
    <3>4. Follows(shown.cards[r], s.cards[i])
      <4>1. shown.generation <= s.generation
        BY <2>1 DEF Snapshots
      <4> QED BY <2>1, <3>2, <3>3, <4>1 DEF Consistent
    <3>5. r \in Index(shown.cards, s.cards[i].id)
      <4>1. DOMAIN shown.cards = 1..Len(shown.cards)
        BY <2>1, WantedRowsAre DEF Shows
      <4> QED BY <3>2, <3>3, <4>1 DEF Index
    <3>6. shown.cards[r].generation \in Nat /\ s.cards[i].generation \in Nat
      BY <3>2, <3>3 DEF Cards
    <3> QED BY <3>2, <3>3, <3>4, <3>5, <3>6 DEF Follows
  <2> QED BY <2>4, <2>5 DEF Accepts
<1> QED BY <1>1, InductiveInvariant, PTL

-----------------------------------------------------------------------------
(* Sequences of anything.                                                  *)

IsSequence(s) == Len(s) \in Nat /\ s = [n \in 1..Len(s) |-> s[n]]

(* What has a range is one.                                                *)
LEMMA SequencesAre ==
    ASSUME NEW R, NEW s \in Seq(R)
    PROVE  IsSequence(s) /\ DOMAIN s = 1..Len(s) /\ \A n \in 1..Len(s) : s[n] \in R
<1>1. Len(s) \in Nat /\ DOMAIN s = 1..Len(s) /\ \A n \in 1..Len(s) : s[n] \in R
  OBVIOUS
<1> QED BY <1>1 DEF IsSequence

(* And the other way round.                                                *)
LEMMA HasRange ==
    ASSUME NEW s, IsSequence(s)
    PROVE  s \in Seq(ToSet(s)) /\ DOMAIN s = 1..Len(s)
<1>1. s = [n \in 1..Len(s) |-> s[n]] /\ Len(s) \in Nat
  BY DEF IsSequence
<1>2. DOMAIN s = 1..Len(s)
  BY <1>1
<1>3. \A n \in 1..Len(s) : s[n] \in ToSet(s)
  BY <1>2 DEF ToSet
<1>4. s \in [1..Len(s) -> ToSet(s)]
  BY <1>1, <1>3
<1> QED BY <1>1, <1>2, <1>4, SeqDef

(* An element behind the others.                                           *)
LEMMA Appended ==
    ASSUME NEW s, IsSequence(s), NEW e
    PROVE  /\ IsSequence(Append(s, e)) /\ Len(Append(s, e)) = Len(s) + 1
           /\ DOMAIN Append(s, e) = 1..(Len(s) + 1)
           /\ Append(s, e)[Len(s) + 1] = e
           /\ \A n \in 1..Len(s) : Append(s, e)[n] = s[n]
<1> DEFINE R == ToSet(s) \cup {e}
           t == Append(s, e)
<1>1. s \in Seq(R) /\ e \in R /\ Len(s) \in Nat
  BY HasRange DEF IsSequence
<1> HIDE DEF R
<1>2. /\ t \in Seq(R) /\ Len(t) = Len(s) + 1 /\ t[Len(s) + 1] = e
      /\ \A n \in 1..Len(s) : t[n] = s[n]
  BY <1>1, AppendProperties
<1> HIDE DEF t
<1>3. IsSequence(t) /\ DOMAIN t = 1..Len(t)
  BY <1>2, SequencesAre
<1> QED BY <1>2, <1>3 DEF t

(* The first element and the others.                                       *)
LEMMA Tailed ==
    ASSUME NEW s, IsSequence(s), s # <<>>
    PROVE  /\ IsSequence(Tail(s)) /\ Len(Tail(s)) = Len(s) - 1
           /\ DOMAIN Tail(s) = 1..(Len(s) - 1) /\ 1 \in DOMAIN s /\ Head(s) = s[1]
           /\ \A n \in 1..(Len(s) - 1) : n + 1 \in DOMAIN s /\ Tail(s)[n] = s[n + 1]
<1> DEFINE R == ToSet(s)
           t == Tail(s)
<1>1. s \in Seq(R) /\ Len(s) \in Nat /\ DOMAIN s = 1..Len(s)
  BY HasRange DEF IsSequence
<1> HIDE DEF R
<1>2. /\ t \in Seq(R) /\ Len(t) = Len(s) - 1 /\ Len(s) # 0 /\ Head(s) = s[1]
      /\ \A n \in 1..(Len(s) - 1) : t[n] = s[n + 1]
  BY <1>1
<1> HIDE DEF t
<1>3. IsSequence(t) /\ DOMAIN t = 1..Len(t)
  BY <1>2, SequencesAre
<1>4. 1 \in 1..Len(s) /\ \A n \in 1..(Len(s) - 1) : n + 1 \in 1..Len(s)
  BY <1>1, <1>2
<1> QED BY <1>1, <1>2, <1>3, <1>4 DEF t

LEMMA HeadOrTail ==
    ASSUME NEW s, IsSequence(s), s # <<>>
    PROVE  /\ IsSequence(Tail(s))
           /\ \A x \in ToSet(s) : x = Head(s) \/ x \in ToSet(Tail(s))
<1> DEFINE t == Tail(s)
<1>1. /\ IsSequence(t) /\ DOMAIN t = 1..(Len(s) - 1) /\ Head(s) = s[1]
      /\ \A n \in 1..(Len(s) - 1) : t[n] = s[n + 1]
  BY Tailed
<1>2. DOMAIN s = 1..Len(s) /\ Len(s) \in Nat
  BY HasRange DEF IsSequence
<1> HIDE DEF t
<1>3. ASSUME NEW n \in DOMAIN s PROVE s[n] = Head(s) \/ s[n] \in ToSet(t)
  <2>1. CASE n = 1
    BY <1>1, <2>1
  <2>2. CASE n # 1
    <3>1. n - 1 \in 1..(Len(s) - 1) /\ (n - 1) + 1 = n
      BY <1>2, <2>2
    <3>2. t[n - 1] = s[n] /\ n - 1 \in DOMAIN t
      BY <1>1, <3>1
    <3> QED BY <3>2 DEF ToSet
  <2> QED BY <2>1, <2>2
<1>4. \A x \in ToSet(s) : x = Head(s) \/ x \in ToSet(t)
  BY <1>3 DEF ToSet
<1> QED BY <1>1, <1>4 DEF t

(* The empty one.                                                          *)
LEMMA EmptySequence == IsSequence(<<>>) /\ Len(<<>>) = 0 /\ DOMAIN <<>> = {} /\ ToSet(<<>>) = {}
<1>1. <<>> \in Seq({}) /\ Len(<<>>) = 0
  OBVIOUS
<1>2. IsSequence(<<>>) /\ DOMAIN <<>> = 1..Len(<<>>)
  BY <1>1, SequencesAre
<1>3. DOMAIN <<>> = {}
  BY <1>1, <1>2
<1> QED BY <1>1, <1>2, <1>3 DEF ToSet

(* Which elements are kept.                                                *)
LEMMA KeptElements ==
    ASSUME NEW s, IsSequence(s), NEW keep, keep \subseteq DOMAIN s
    PROVE  /\ IsSequence(Kept(s, keep))
           /\ ToSet(Kept(s, keep)) = {s[i] : i \in keep}
<1> DEFINE t == Kept(s, keep)
           R == ToSet(s)
<1>1. s \in Seq(R) /\ DOMAIN s = 1..Len(s)
  BY HasRange
<1> HIDE DEF R
<1>2. t \in Seq(R)
  BY <1>1, KeptIsEmbedded
<1>3. PICK f : /\ Embeds(t, s, f) /\ \A i \in 1..Len(t) : f[i] \in keep
               /\ \A i \in 1..Len(s) : i \in keep => \E j \in 1..Len(t) : f[j] = i
  BY <1>1, KeptIsEmbedded
<1> HIDE DEF t
<1>4. IsSequence(t) /\ DOMAIN t = 1..Len(t)
  BY <1>2, SequencesAre
<1>5. \A j \in 1..Len(t) : t[j] = s[f[j]] /\ f[j] \in keep
  BY <1>3 DEF Embeds
<1>6. ASSUME NEW i \in keep PROVE \E j \in 1..Len(t) : t[j] = s[i]
  <2>1. i \in 1..Len(s)
    BY <1>1
  <2>2. PICK j \in 1..Len(t) : f[j] = i
    BY <1>3, <2>1
  <2> QED BY <1>5, <2>2
<1>7. ToSet(t) = {s[i] : i \in keep}
  BY <1>4, <1>5, <1>6 DEF ToSet
<1> QED BY <1>4, <1>7 DEF t

-----------------------------------------------------------------------------
(* The rows of the launcher.                                               *)

(* What the substitutions leave: keys stay distinct, and a row is what it  *)
(* was or what is wanted at its place.                                     *)
PartlySubstituted(acc, old, wanted) ==
    /\ Len(acc) = Len(old) /\ DistinctKeys(acc)
    /\ \A m \in 1..Len(old) :
           acc[m] = old[m] \/ (m \in 1..Len(wanted) /\ acc[m] = wanted[m])

(* One substitution (LauncherPresentationModel.cpp:298).                   *)
LEMMA SubstituteOne ==
    ASSUME NEW R, NEW acc \in Seq(R), NEW old \in Seq(R), NEW wanted \in Seq(R),
           NEW n \in 1..Len(wanted)
    PROVE  /\ SubstituteRow(acc, wanted, n) \in Seq(R)
           /\ PartlySubstituted(acc, old, wanted)
                  => PartlySubstituted(SubstituteRow(acc, wanted, n), old, wanted)
<1> DEFINE t == SubstituteRow(acc, wanted, n)
           Taken == n \in DOMAIN acc /\ ~HasKey(wanted, acc[n].key) /\ ~HasKey(acc, wanted[n].key)
<1>1. /\ Len(acc) \in Nat /\ DOMAIN acc = 1..Len(acc) /\ \A m \in 1..Len(acc) : acc[m] \in R
      /\ Len(wanted) \in Nat /\ wanted[n] \in R /\ Len(old) \in Nat
  OBVIOUS
<1>2. CASE ~Taken
  <2>1. t = acc
    BY <1>2 DEF SubstituteRow
  <2> QED BY <2>1
<1>3. CASE Taken
  <2>1. t = [acc EXCEPT ![n] = wanted[n]]
    BY <1>3 DEF SubstituteRow
  <2>2. \A m \in 1..Len(acc) : acc[m].key # wanted[n].key
    BY <1>1, <1>3 DEF HasKey
  <2>3. n \in 1..Len(acc)
    BY <1>1, <1>3
  <2> HIDE DEF t, Taken
  <2>4. t \in [1..Len(acc) -> R]
    BY <1>1, <2>1, <2>3
  <2>5. t \in Seq(R) /\ Len(t) = Len(acc)
    BY <1>1, <2>4
  <2>6. /\ t[n] = wanted[n]
        /\ \A m \in 1..Len(acc) : m # n => t[m] = acc[m]
    BY <1>1, <2>1, <2>3
  <2>7. ASSUME PartlySubstituted(acc, old, wanted)
        PROVE  PartlySubstituted(t, old, wanted)
    <3>1. \A i, j \in 1..Len(acc) : acc[i].key = acc[j].key => i = j
      BY <2>7 DEF PartlySubstituted, DistinctKeys
    <3>2. ASSUME NEW i \in 1..Len(acc), NEW j \in 1..Len(acc), t[i].key = t[j].key
          PROVE  i = j
      <4>1. CASE i = n
        <5>1. t[i].key = wanted[n].key
          BY <2>6, <4>1
        <5>2. j # n => t[j].key # wanted[n].key
          BY <2>2, <2>6
        <5> QED BY <3>2, <4>1, <5>1, <5>2
      <4>2. CASE j = n
        <5>1. t[j].key = wanted[n].key
          BY <2>6, <4>2
        <5>2. i # n => t[i].key # wanted[n].key
          BY <2>2, <2>6
        <5> QED BY <3>2, <4>2, <5>1, <5>2
      <4>3. CASE i # n /\ j # n
        BY <2>6, <3>1, <3>2, <4>3
      <4> QED BY <4>1, <4>2, <4>3
    <3>3. DistinctKeys(t)
      BY <2>5, <3>2 DEF DistinctKeys
    <3>4. Len(acc) = Len(old)
      BY <2>7 DEF PartlySubstituted
    <3>5. ASSUME NEW m \in 1..Len(old)
          PROVE  t[m] = old[m] \/ (m \in 1..Len(wanted) /\ t[m] = wanted[m])
      <4>1. m # n => t[m] = acc[m]
        BY <2>6, <3>4
      <4> QED BY <2>6, <2>7, <4>1 DEF PartlySubstituted
    <3> QED BY <2>5, <3>3, <3>4, <3>5 DEF PartlySubstituted
  <2> QED BY <2>5, <2>7 DEF t
<1> QED BY <1>2, <1>3

(* All substitutions (LauncherPresentationModel.cpp:297).                  *)
LEMMA Substituted ==
    ASSUME NEW R, NEW old \in Seq(R), NEW wanted \in Seq(R), DistinctKeys(old)
    PROVE  /\ SubstituteRows(old, wanted) \in Seq(R)
           /\ PartlySubstituted(SubstituteRows(old, wanted), old, wanted)
<1> DEFINE N == Len(wanted)
           Rec(g) == g = [n \in 0..N |-> IF n = 0 THEN old ELSE SubstituteRow(g[n - 1], wanted, n)]
           step == [x \in (1..N) \X Seq(R) |-> SubstituteRow(x[2], wanted, x[1])]
           T(g) == {n \in 0..N : g[n] \in Seq(R) /\ PartlySubstituted(g[n], old, wanted)}
<1>1. N \in Nat
  OBVIOUS
<1>2. PICK g : Rec(g) /\ SubstituteRows(old, wanted) = g[N]
  <2>1. step \in Steps(N, Seq(R))
    <3>1. ASSUME NEW x \in (1..N) \X Seq(R) PROVE SubstituteRow(x[2], wanted, x[1]) \in Seq(R)
      <4>1. x[1] \in 1..N /\ x[2] \in Seq(R)
        OBVIOUS
      <4> QED BY <4>1, SubstituteOne
    <3> QED BY <3>1 DEF Steps
  <2>2. PICK f \in [0..N -> Seq(R)] : Obeys(f, N, old, step)
    <3> HIDE DEF step, N
    <3> QED BY <1>1, <2>1, Recursion, Zenon
  <2>3. ASSUME NEW n \in 1..N PROVE f[n] = SubstituteRow(f[n - 1], wanted, n)
    <3>1. f[n - 1] \in Seq(R)
      <4> HIDE DEF step
      <4>1. f \in [0..N -> Seq(R)] /\ n - 1 \in 0..N
        BY <1>1, <2>2
      <4> QED BY <4>1
    <3>2. <<n, f[n - 1]>> \in (1..N) \X Seq(R)
      BY <3>1
    <3> QED BY <2>2, <3>2 DEF Obeys
  <2>4. ASSUME NEW n \in 0..N
        PROVE  f[n] = IF n = 0 THEN old ELSE SubstituteRow(f[n - 1], wanted, n)
    <3>1. n = 0 \/ n \in 1..N
      BY <1>1
    <3> HIDE DEF step, N
    <3> QED BY <2>2, <2>3, <3>1 DEF Obeys
  <2>5. Rec(f)
    <3> HIDE DEF step, N
    <3> QED BY <2>2, <2>4
  <2> QED BY <2>5, Zenon DEF SubstituteRows
<1> HIDE DEF step
<1>3. g[0] = old /\ \A n \in 1..N : g[n] = SubstituteRow(g[n - 1], wanted, n)
  <2>1. 0 \in 0..N /\ \A n \in 1..N : n \in 0..N /\ n # 0
    BY <1>1
  <2> HIDE DEF N
  <2> QED BY <1>2, <2>1
<1> HIDE DEF Rec
<1>4. \A n \in 0..N : n \in T(g)
  <2> DEFINE U == T(g)
  <2>1. 0 \in U
    <3>1. PartlySubstituted(old, old, wanted)
      BY DEF PartlySubstituted
    <3> QED BY <1>1, <1>3, <3>1
  <2>2. ASSUME NEW n \in 1..N, n - 1 \in U PROVE n \in U
    <3>1. g[n - 1] \in Seq(R) /\ PartlySubstituted(g[n - 1], old, wanted)
      BY <2>2
    <3>2. /\ SubstituteRow(g[n - 1], wanted, n) \in Seq(R)
          /\ PartlySubstituted(SubstituteRow(g[n - 1], wanted, n), old, wanted)
      BY <3>1, SubstituteOne
    <3>3. g[n] = SubstituteRow(g[n - 1], wanted, n) /\ n \in 0..N
      BY <1>1, <1>3
    <3> QED BY <3>2, <3>3
  <2> HIDE DEF U
  <2>3. \A n \in 1..N : n - 1 \in U => n \in U
    BY <2>2
  <2>4. \A n \in 0..N : n \in U
    BY <1>1, <2>1, <2>3, UpTo, Zenon
  <2> QED BY <2>4 DEF U
<1>5. g[N] \in Seq(R) /\ PartlySubstituted(g[N], old, wanted)
  BY <1>1, <1>4
<1> QED BY <1>2, <1>5

(* The rows become wanted, whatever they were                              *)
(* (LauncherPresentationModel.cpp:268-362).                                *)
LEMMA SearchRowsBecomeWanted ==
    ASSUME NEW old, IsSequence(old), NEW wanted, IsSequence(wanted),
           DistinctKeys(old), DistinctKeys(wanted)
    PROVE  Reconcile(SubstituteRows(old, wanted), wanted, ReplacedRows(old, wanted)) = wanted
<1> DEFINE R == ToSet(old) \cup ToSet(wanted)
           t == SubstituteRows(old, wanted)
           replaced == ReplacedRows(old, wanted)
<1>1. old \in Seq(ToSet(old)) /\ wanted \in Seq(ToSet(wanted))
  BY HasRange
<1>2. old \in Seq(R) /\ wanted \in Seq(R)
  BY <1>1
<1> HIDE DEF R
<1>3. t \in Seq(R) /\ PartlySubstituted(t, old, wanted)
  BY <1>2, Substituted
<1> HIDE DEF t
<1>4. Len(t) = Len(old) /\ DistinctKeys(t)
  BY <1>3 DEF PartlySubstituted
<1>5. ASSUME NEW m \in 1..Len(t), NEW k \in 1..Len(wanted),
             t[m].key = wanted[k].key, k \notin replaced
      PROVE  t[m] = wanted[k]
  <2>1. wanted[k] \in ToSet(old)
    BY <1>2, <1>5 DEF ReplacedRows
  <2>2. PICK i \in 1..Len(old) : old[i] = wanted[k]
    BY <1>2, <2>1 DEF ToSet
  <2>3. CASE t[m] = old[m]
    <3>1. old[m].key = old[i].key
      BY <1>5, <2>2, <2>3
    <3>2. m = i
      BY <1>4, <3>1 DEF DistinctKeys
    <3> QED BY <2>2, <2>3, <3>2
  <2>4. CASE m \in 1..Len(wanted) /\ t[m] = wanted[m]
    <3>1. wanted[m].key = wanted[k].key
      BY <1>5, <2>4
    <3>2. m = k
      BY <2>4, <3>1 DEF DistinctKeys
    <3> QED BY <2>4, <3>2
  <2> QED BY <1>3, <1>4, <2>3, <2>4 DEF PartlySubstituted
<1> HIDE DEF replaced
<1>6. Reconcile(t, wanted, replaced) = wanted
  BY <1>2, <1>3, <1>4, <1>5, ReconcileYieldsWanted
<1> QED BY <1>6 DEF t, replaced

-----------------------------------------------------------------------------
(* Paths.                                                                  *)

(* The directories on the way to a file.                                   *)
LEMMA FirstParts ==
    ASSUME NEW R, NEW p \in Seq(R)
    PROVE  /\ SubSeq(p, 1, Len(p)) = p /\ SubSeq(p, 1, 0) = <<>>
           /\ \A n \in 0..Len(p) :
                  /\ SubSeq(p, 1, n) \in Seq(R) /\ Len(SubSeq(p, 1, n)) = n
                  /\ \A m \in 0..n : SubSeq(SubSeq(p, 1, n), 1, m) = SubSeq(p, 1, m)
<1>1. Len(p) \in Nat /\ \A i \in 1..Len(p) : p[i] \in R
  OBVIOUS
<1>2. ASSUME NEW q \in Seq(R), NEW n \in 0..Len(q)
      PROVE  /\ SubSeq(q, 1, n) \in Seq(R) /\ Len(SubSeq(q, 1, n)) = n
             /\ \A i \in 1..n : SubSeq(q, 1, n)[i] = q[i]
  <2>1. n \in Int /\ Len(q) \in Nat /\ n <= Len(q) /\ \A i \in 1..n : q[i] \in R
    OBVIOUS
  <2> DEFINE t == SubSeq(q, 1, n)
  <2>2. /\ t \in Seq(R) /\ Len(t) = IF 1 <= n THEN n - 1 + 1 ELSE 0
        /\ \A i \in 1..(n - 1 + 1) : t[i] = q[1 + i - 1]
    BY <2>1, SubSeqProperties
  <2> HIDE DEF t
  <2>3. Len(t) = n
    BY <2>1, <2>2
  <2>4. \A i \in 1..n : t[i] = q[i]
    BY <2>1, <2>2
  <2> QED BY <2>2, <2>3, <2>4 DEF t
<1>3. SubSeq(p, 1, Len(p)) = p
  <2>1. Len(p) \in 0..Len(p)
    BY <1>1
  <2> DEFINE t == SubSeq(p, 1, Len(p))
  <2>2. t \in Seq(R) /\ Len(t) = Len(p) /\ \A i \in 1..Len(p) : t[i] = p[i]
    BY <1>2, <2>1
  <2> HIDE DEF t
  <2>3. t = p
    BY <2>2, SeqEqual
  <2> QED BY <2>3 DEF t
<1>4. SubSeq(p, 1, 0) = <<>>
  <2>1. 0 \in 0..Len(p)
    BY <1>1
  <2> DEFINE t == SubSeq(p, 1, 0)
  <2>2. t \in Seq(R) /\ Len(t) = 0
    BY <1>2, <2>1
  <2> HIDE DEF t
  <2>3. t = <<>>
    BY <2>2
  <2> QED BY <2>3 DEF t
<1>5. ASSUME NEW n \in 0..Len(p), NEW m \in 0..n
      PROVE  SubSeq(SubSeq(p, 1, n), 1, m) = SubSeq(p, 1, m)
  <2> DEFINE q == SubSeq(p, 1, n)
             t == SubSeq(q, 1, m)
             u == SubSeq(p, 1, m)
  <2>1. q \in Seq(R) /\ Len(q) = n /\ \A i \in 1..n : q[i] = p[i]
    BY <1>2
  <2>2. n \in Nat /\ m \in Nat /\ m \in 0..Len(p) /\ m \in 0..n /\ \A i \in 1..m : i \in 1..n
    BY <1>1
  <2> HIDE DEF q
  <2>3. t \in Seq(R) /\ Len(t) = m /\ \A i \in 1..m : t[i] = q[i]
    BY <1>2, <2>1, <2>2
  <2>4. u \in Seq(R) /\ Len(u) = m /\ \A i \in 1..m : u[i] = p[i]
    BY <1>2, <2>2
  <2> HIDE DEF t, u
  <2>5. t = u
    BY <2>1, <2>2, <2>3, <2>4, SeqEqual
  <2> QED BY <2>5 DEF t, u, q
<1> QED BY <1>2, <1>3, <1>4, <1>5

(* A path is one in the order of all paths.                                *)
LEMMA PathsAre ==
    /\ IsSequence(PathOrder)
    /\ \A p \in Paths : p \in Seq(Seq(STRING)) /\ Len(p) \in Nat \ {0}
<1> DEFINE R == Seq(Seq(STRING)) \ { <<>> }
<1>1. PathOrder \in Seq(R)
  BY DiscoveryAssumption
<1>2. IsSequence(PathOrder) /\ DOMAIN PathOrder = 1..Len(PathOrder)
      /\ \A n \in 1..Len(PathOrder) : PathOrder[n] \in R
  <2> HIDE DEF R
  <2> QED BY <1>1, SequencesAre
<1>3. ASSUME NEW p \in Paths PROVE p \in R
  BY <1>2 DEF Paths, ToSet
<1>4. ASSUME NEW p \in R PROVE Len(p) \in Nat \ {0}
  OBVIOUS
<1> QED BY <1>2, <1>3, <1>4

(* What Sorted yields has the paths that it was given.                     *)
LEMMA SortedHas ==
    ASSUME NEW paths
    PROVE  IsSequence(Sorted(paths)) /\ ToSet(Sorted(paths)) = paths \cap Paths
<1> DEFINE keep == {n \in DOMAIN PathOrder : PathOrder[n] \in paths}
<1>1. /\ IsSequence(Kept(PathOrder, keep))
      /\ ToSet(Kept(PathOrder, keep)) = {PathOrder[n] : n \in keep}
  <2>1. keep \subseteq DOMAIN PathOrder
    OBVIOUS
  <2> HIDE DEF keep
  <2> QED BY <2>1, PathsAre, KeptElements
<1>2. {PathOrder[n] : n \in keep} = paths \cap Paths
  BY DEF Paths, ToSet
<1> QED BY <1>1, <1>2 DEF Sorted

-----------------------------------------------------------------------------
(* Discovery.                                                              *)

SteadyFiles == [root \in 1..Len(disk) |-> {p \in Paths : Steady(root, p)}]

ScanFields ==
    {"phase", "root", "pending", "active", "iterating", "listed", "unexamined", "candidates",
     "queue", "nodes", "directories", "stop", "claimed", "entries", "visible", "cursor",
     "eligible", "error"}
IsScan(s) == s = [f \in ScanFields |-> s[f]]

ScanTyped(s, roots) ==
    /\ IsScan(s) /\ s.root \in 1..roots
    /\ s.phase \in {"none", "startRoot", "scanRoot", "process", "catalog"}
    /\ IsSequence(s.unexamined) /\ IsSequence(s.queue)
    /\ IsSequence(s.entries) /\ IsSequence(s.visible) /\ IsSequence(s.eligible)
    /\ s.phase = "none" => s.entries = <<>> /\ s.root = 1

(* The identifiers of the files of a root.                                 *)
Identifier(p) == DeriveDesktopFileId(p).value
Identified(p) == Ok(DeriveDesktopFileId(p))

(* The scan has the file, or a directory on the way to it.                 *)
OnTheWay(s, p, n) ==
    \/ SubSeq(p, 1, n) \in s.pending
    \/ /\ s.active = Present(SubSeq(p, 1, n))
       /\ s.iterating \/ SubSeq(p, 1, n + 1) \in ToSet(s.unexamined)
WillBeFound(s, p) == p \in s.candidates \/ \E n \in 0..(Len(p) - 1) : OnTheWay(s, p, n)
WillBeClaimed(s, p) == p \in ToSet(s.queue) \/ (Identified(p) => Identifier(p) \in s.claimed)

(* Unless this is the last root, no file of it is overlooked.              *)
NoneOverlooked(s, steady) ==
    ~s.stop => \A p \in steady[s.root] :
        /\ s.phase = "scanRoot" => WillBeFound(s, p)
        /\ s.phase = "process" => WillBeClaimed(s, p)

(* What the earlier roots have is claimed.                                 *)
EarlierClaimed(s, steady) ==
    \A root \in 1..(s.root - 1) : \A p \in steady[root] : Identified(p) => Identifier(p) \in s.claimed

Unshadowed(s, steady) ==
    \A i \in 1..Len(s.entries) :
        /\ s.entries[i].root \in 1..s.root
        /\ \A root \in 1..(s.entries[i].root - 1) : \A p \in steady[root] :
               Identified(p) => Identifier(p) # s.entries[i].id

Discovers(s, steady, roots) ==
    /\ ScanTyped(s, roots) /\ NoneOverlooked(s, steady)
    /\ EarlierClaimed(s, steady) /\ Unshadowed(s, steady)

DiskTyped ==
    /\ Len(disk) \in Nat \ {0}
    /\ disk = [root \in 1..Len(disk) |-> [p \in Locations |-> disk[root][p]]]

DiscoveryInv == DiskTyped /\ Discovers(scan, SteadyFiles, Len(disk))

(* The directories on the way to a steady file are there.                  *)
LEMMA SteadyIsReached ==
    ASSUME NEW root, NEW p \in Paths, Steady(root, p)
    PROVE  /\ Kind(root, p) = "file" /\ disk[root][ <<>> ].kind \in DirectoryKinds
           /\ \A n \in 0..(Len(p) - 1) :
                  /\ SubSeq(p, 1, n) \in Locations
                  /\ Kind(root, SubSeq(p, 1, n)) \in DirectoryKinds \ {"unsearchable"}
<1>1. p \in Seq(Seq(STRING)) /\ Len(p) \in Nat \ {0}
  BY PathsAre
<1>2. /\ Kind(root, p) = "file"
      /\ \A n \in 0..(Len(p) - 1) : disk[root][SubSeq(p, 1, n)].kind # "unsearchable"
  BY DEF Steady
<1>3. \A n \in 0..(Len(p) - 1) : disk[root][SubSeq(p, 1, n)].kind \in DirectoryKinds
  <2> DEFINE Reached == \A n \in 0..(Len(p) - 1) : disk[root][SubSeq(p, 1, n)].kind \in DirectoryKinds
             there == disk[root][p].kind
  <2>1. Kind(root, p) = IF Reached THEN there ELSE "absent"
    BY Zenon DEF Kind
  <2> HIDE DEF Reached, there
  <2>2. Reached
    BY <1>2, <2>1
  <2> QED BY <2>2 DEF Reached
<1>4. ASSUME NEW n \in 0..(Len(p) - 1)
      PROVE  Kind(root, SubSeq(p, 1, n)) = disk[root][SubSeq(p, 1, n)].kind
  <2>1. n \in 0..Len(p) /\ n \in Nat /\ n <= Len(p) - 1
    BY <1>1
  <2>2. /\ Len(SubSeq(p, 1, n)) = n
        /\ \A m \in 0..n : SubSeq(SubSeq(p, 1, n), 1, m) = SubSeq(p, 1, m)
    BY <1>1, <2>1, FirstParts
  <2>3. \A m \in 0..(n - 1) : m \in 0..n /\ m \in 0..(Len(p) - 1)
    BY <1>1, <2>1
  <2>4. \A m \in 0..(Len(SubSeq(p, 1, n)) - 1) :
            disk[root][SubSeq(SubSeq(p, 1, n), 1, m)].kind \in DirectoryKinds
    BY <1>3, <2>2, <2>3
  <2> QED BY <2>4, Zenon DEF Kind
<1>5. 0 \in 0..(Len(p) - 1) /\ SubSeq(p, 1, 0) = <<>>
  BY <1>1, FirstParts
<1>6. \A n \in 0..(Len(p) - 1) : SubSeq(p, 1, n) \in Locations
  <2>1. \A n \in 0..(Len(p) - 1) : n \in 0..Len(p)
    BY <1>1
  <2> QED BY <2>1, DiscoveryAssumption
<1> QED BY <1>2, <1>3, <1>4, <1>5, <1>6

(* The next one on the way is a path, in the one before.                   *)
LEMMA NextOnTheWay ==
    ASSUME NEW p \in Paths, NEW n \in 0..(Len(p) - 1)
    PROVE  /\ SubSeq(p, 1, n + 1) \in Paths
           /\ Front(SubSeq(p, 1, n + 1)) = SubSeq(p, 1, n)
           /\ n + 1 = Len(p) => SubSeq(p, 1, n + 1) = p
           /\ n + 1 # Len(p) => n + 1 \in 0..(Len(p) - 1)
<1> DEFINE q == SubSeq(p, 1, n + 1)
<1>1. p \in Seq(Seq(STRING)) /\ Len(p) \in Nat \ {0}
  BY PathsAre
<1>2. n \in Nat /\ n + 1 \in 0..Len(p) /\ n \in 0..(n + 1) /\ (n + 1) - 1 = n
  BY <1>1
<1>3. /\ Len(q) = n + 1 /\ SubSeq(q, 1, n) = SubSeq(p, 1, n)
      /\ SubSeq(p, 1, Len(p)) = p
  BY <1>1, <1>2, FirstParts
<1>4. q \in Locations
  BY <1>2, DiscoveryAssumption
<1>5. q # <<>>
  <2>1. Len(<<>>) = 0 /\ n + 1 # 0
    BY <1>2
  <2> HIDE DEF q
  <2> QED BY <1>3, <2>1
<1>6. Front(q) = SubSeq(p, 1, n)
  BY <1>2, <1>3 DEF Front
<1>7. n + 1 # Len(p) => n + 1 \in 0..(Len(p) - 1)
  BY <1>1, <1>2
<1> HIDE DEF q
<1> QED BY <1>3, <1>4, <1>5, <1>6, <1>7 DEF Locations, q

(* The fields of a scan.                                                   *)
LEMMA ScanNames ==
    /\ "phase" \in ScanFields /\ "root" \in ScanFields /\ "claimed" \in ScanFields
    /\ "entries" \in ScanFields /\ "unexamined" \in ScanFields /\ "queue" \in ScanFields
    /\ "eligible" \in ScanFields /\ "candidates" \in ScanFields /\ "pending" \in ScanFields
    /\ "active" \in ScanFields /\ "iterating" \in ScanFields /\ "stop" \in ScanFields
    /\ "listed" \in ScanFields /\ "visible" \in ScanFields
BY DEF ScanFields

(* A step that claims nothing and stays in its root.                       *)
LEMMA StaysInRoot ==
    ASSUME NEW s, NEW steady, NEW roots, Discovers(s, steady, roots), NEW t,
           ScanTyped(t, roots), NoneOverlooked(t, steady),
           t.root = s.root, t.claimed = s.claimed, t.entries = s.entries
    PROVE  Discovers(t, steady, roots)
BY DEF Discovers, EarlierClaimed, Unshadowed

(* The discovery ends.                                                     *)
LEMMA FinishDiscovers ==
    ASSUME NEW s, NEW steady, NEW roots, Discovers(s, steady, roots)
    PROVE  Discovers(Finish(s), steady, roots)
<1> DEFINE t == Finish(s)
<1>1. ScanTyped(s, roots)
  BY DEF Discovers
<1>2. /\ IsScan(t) /\ t.phase = "catalog" /\ t.root = s.root /\ t.claimed = s.claimed
      /\ t.entries = s.entries /\ t.unexamined = s.unexamined /\ t.queue = s.queue
      /\ t.eligible = s.eligible /\ t.visible = s.visible
  BY <1>1, ScanNames DEF ScanTyped, IsScan, Finish
<1> HIDE DEF t
<1>3. ScanTyped(t, roots) /\ NoneOverlooked(t, steady)
  BY <1>1, <1>2 DEF ScanTyped, NoneOverlooked
<1>4. Discovers(t, steady, roots)
  BY <1>2, <1>3, StaysInRoot
<1> QED BY <1>4 DEF t

(* It stops after a root of which not everything was seen.                 *)
LEMMA TruncatedDiscovers ==
    ASSUME NEW s, NEW steady, NEW roots, Discovers(s, steady, roots)
    PROVE  Discovers(MarkTruncated(s), steady, roots)
<1> DEFINE t == MarkTruncated(s)
<1>1. ScanTyped(s, roots)
  BY DEF Discovers
<1>2. /\ IsScan(t) /\ t.phase = s.phase /\ t.root = s.root /\ t.claimed = s.claimed
      /\ t.entries = s.entries /\ t.unexamined = s.unexamined /\ t.queue = s.queue
      /\ t.eligible = s.eligible /\ t.visible = s.visible /\ t.stop = TRUE
  <2>1. IsScan(s) /\ t = [s EXCEPT !.stop = TRUE]
    BY <1>1 DEF ScanTyped, MarkTruncated
  <2> HIDE DEF t
  <2> QED BY <2>1, ScanNames DEF IsScan
<1> HIDE DEF t
<1>3. ScanTyped(t, roots) /\ NoneOverlooked(t, steady)
  BY <1>1, <1>2 DEF ScanTyped, NoneOverlooked
<1>4. Discovers(t, steady, roots)
  BY <1>2, <1>3, StaysInRoot
<1> QED BY <1>4 DEF t

(* A root that is dropped is the last one.                                 *)
LEMMA DropRootDiscovers ==
    ASSUME NEW s, NEW steady, NEW roots, Discovers(s, steady, roots)
    PROVE  Discovers(DropRoot(s), steady, roots)
<1> DEFINE t == DropRoot(s)
<1>1. ScanTyped(s, roots)
  BY DEF Discovers
<1>2. /\ IsScan(t) /\ t.phase = "process" /\ t.root = s.root /\ t.claimed = s.claimed
      /\ t.entries = s.entries /\ t.unexamined = <<>> /\ t.queue = <<>>
      /\ t.eligible = s.eligible /\ t.visible = s.visible /\ t.stop = TRUE
  <2> DEFINE u == MarkTruncated(s)
  <2>1. IsScan(s) /\ u = [s EXCEPT !.stop = TRUE]
    BY <1>1 DEF ScanTyped, MarkTruncated
  <2>2. t = [u EXCEPT !.phase = "process", !.pending = {}, !.active = Absent,
                      !.iterating = FALSE, !.listed = {}, !.unexamined = <<>>,
                      !.candidates = {}, !.queue = <<>>]
    BY Zenon DEF DropRoot
  <2> HIDE DEF t, u
  <2>3. /\ IsScan(u) /\ u.root = s.root /\ u.claimed = s.claimed
        /\ u.entries = s.entries
        /\ u.eligible = s.eligible /\ u.visible = s.visible /\ u.stop = TRUE
    BY <2>1, ScanNames DEF IsScan
  <2>4. /\ IsScan(t) /\ t.phase = "process" /\ t.root = u.root /\ t.claimed = u.claimed
        /\ t.entries = u.entries /\ t.unexamined = <<>> /\ t.queue = <<>>
        /\ t.eligible = u.eligible /\ t.visible = u.visible /\ t.stop = u.stop
    BY <2>2, <2>3, ScanNames DEF IsScan
  <2> QED BY <2>3, <2>4, Zenon
<1> HIDE DEF t
<1>3. ScanTyped(t, roots) /\ NoneOverlooked(t, steady)
  BY <1>1, <1>2, EmptySequence DEF ScanTyped, NoneOverlooked
<1>4. Discovers(t, steady, roots)
  BY <1>2, <1>3, StaysInRoot
<1> QED BY <1>4 DEF t

(* The next root, when the files of this one are claimed.                  *)
LEMMA AdvanceRootDiscovers ==
    ASSUME NEW s, NEW steady, Discovers(s, steady, Len(disk)), Len(disk) \in Nat,
           \A p \in steady[s.root] : Identified(p) => Identifier(p) \in s.claimed
    PROVE  Discovers(AdvanceRoot(s), steady, Len(disk))
<1> DEFINE N == Len(disk)
           t == AdvanceRoot(s)
<1>1. ScanTyped(s, N) /\ EarlierClaimed(s, steady) /\ Unshadowed(s, steady)
  BY DEF Discovers
<1>2. CASE s.root = N
  BY <1>2, FinishDiscovers DEF AdvanceRoot
<1>3. CASE s.root # N
  <2>1. /\ IsScan(t) /\ t.phase = "startRoot" /\ t.root = s.root + 1 /\ t.claimed = s.claimed
        /\ t.entries = s.entries /\ t.unexamined = <<>> /\ t.queue = <<>>
        /\ t.eligible = <<>> /\ t.visible = s.visible /\ t.stop = FALSE
    BY <1>3, ScanNames DEF AdvanceRoot, ScanOf, IsScan, ScanFields
  <2>2. s.root \in Nat /\ s.root + 1 \in 1..N /\ N \in Nat
    BY <1>1, <1>3 DEF ScanTyped
  <2> HIDE DEF t, N
  <2>3. ScanTyped(t, N)
    BY <1>1, <2>1, <2>2, EmptySequence DEF ScanTyped
  <2>4. NoneOverlooked(t, steady)
    BY <2>1 DEF NoneOverlooked
  <2>5. EarlierClaimed(t, steady)
    <3>1. ASSUME NEW root \in 1..s.root, NEW p \in steady[root], Identified(p)
          PROVE  Identifier(p) \in s.claimed
      <4>1. CASE root = s.root
        BY <3>1, <4>1
      <4>2. CASE root # s.root
        <5>1. root \in 1..(s.root - 1)
          BY <2>2, <4>2
        <5> QED BY <1>1, <3>1, <5>1 DEF EarlierClaimed
      <4> QED BY <4>1, <4>2
    <3>2. (s.root + 1) - 1 = s.root
      BY <2>2
    <3> QED BY <2>1, <3>1, <3>2 DEF EarlierClaimed
  <2>6. Unshadowed(t, steady)
    <3>1. 1..s.root \subseteq 1..(s.root + 1)
      BY <2>2
    <3> QED BY <1>1, <2>1, <3>1 DEF Unshadowed
  <2>7. Discovers(t, steady, N)
    BY <2>3, <2>4, <2>5, <2>6 DEF Discovers
  <2> QED BY <2>7 DEF t, N
<1> QED BY <1>2, <1>3

(* The files that stay are on the disk.                                    *)
LEMMA SteadyFilesAre ==
    ASSUME NEW s, ScanTyped(s, Len(disk)), NEW p
    PROVE  p \in SteadyFiles[s.root] <=> p \in Paths /\ Steady(s.root, p)
<1>1. s.root \in 1..Len(disk)
  BY DEF ScanTyped
<1> QED BY <1>1 DEF SteadyFiles

LEMMA StartRootDiscovers ==
    ASSUME DiscoveryInv, StartRoot
    PROVE  Discovers(scan', SteadyFiles, Len(disk))
<1> DEFINE N == Len(disk)
           steady == SteadyFiles
           root == Kind(scan.root, <<>>)
<1>1. Discovers(scan, steady, N) /\ N \in Nat /\ ScanTyped(scan, N) /\ scan.phase = "startRoot"
  BY DEF DiscoveryInv, DiskTyped, Discovers, StartRoot, InPhase
<1>2. ASSUME NEW p \in steady[scan.root]
      PROVE  root \in DirectoryKinds /\ 0 \in 0..(Len(p) - 1) /\ SubSeq(p, 1, 0) = <<>>
  <2>1. p \in Paths /\ Steady(scan.root, p)
    BY <1>1, SteadyFilesAre
  <2>2. 0 \in 0..(Len(p) - 1) /\ SubSeq(p, 1, 0) = <<>>
    BY <2>1, PathsAre, FirstParts
  <2>3. Kind(scan.root, SubSeq(p, 1, 0)) \in DirectoryKinds
    BY <2>1, <2>2, SteadyIsReached
  <2> QED BY <2>2, <2>3
<1>3. \/ root = "absent" /\ scan' = AdvanceRoot(scan)
      \/ scan' = [scan EXCEPT !.phase = "scanRoot", !.pending = { <<>> }, !.directories = 1]
      \/ scan' = Finish(MarkTruncated(scan))
  <2> DEFINE scanned == [scan EXCEPT !.phase = "scanRoot", !.pending = { <<>> }, !.directories = 1]
             advanced == AdvanceRoot(scan)
             finished == Finish(MarkTruncated(scan))
  <2>1. scan' = CASE root = "absent" -> advanced
                  [] root \in DirectoryKinds -> scanned
                  [] OTHER -> finished
    BY Zenon DEF StartRoot
  <2>2. "absent" \notin DirectoryKinds
    BY DEF DirectoryKinds
  <2> HIDE DEF root, scanned, advanced, finished
  <2>3. (root = "absent" /\ scan' = advanced) \/ scan' = scanned \/ scan' = finished
    BY <2>1, <2>2
  <2> QED BY <2>3 DEF root, scanned, advanced, finished
<1>4. CASE root = "absent" /\ scan' = AdvanceRoot(scan)
  <2>1. "absent" \notin DirectoryKinds
    BY DEF DirectoryKinds
  <2>2. \A p \in steady[scan.root] : Identified(p) => Identifier(p) \in scan.claimed
    BY <1>2, <1>4, <2>1
  <2> HIDE DEF steady
  <2>3. Discovers(AdvanceRoot(scan), steady, Len(disk))
    BY <1>1, <2>2, AdvanceRootDiscovers
  <2> QED BY <1>4, <2>3 DEF steady
<1>5. CASE scan' = [scan EXCEPT !.phase = "scanRoot", !.pending = { <<>> }, !.directories = 1]
  <2> DEFINE t == scan'
  <2>1. /\ IsScan(t) /\ t.phase = "scanRoot" /\ t.root = scan.root /\ t.pending = { <<>> }
        /\ t.claimed = scan.claimed /\ t.entries = scan.entries
        /\ t.unexamined = scan.unexamined /\ t.queue = scan.queue
        /\ t.eligible = scan.eligible /\ t.visible = scan.visible
    BY <1>1, <1>5, ScanNames DEF ScanTyped, IsScan
  <2> HIDE DEF t, N, steady, root
  <2>2. ScanTyped(t, N)
    BY <1>1, <2>1 DEF ScanTyped
  <2>3. NoneOverlooked(t, steady)
    <3>1. ASSUME NEW p \in steady[scan.root] PROVE WillBeFound(t, p)
      BY <1>2, <2>1 DEF WillBeFound, OnTheWay
    <3> QED BY <2>1, <3>1 DEF NoneOverlooked
  <2>4. Discovers(t, steady, N)
    BY <1>1, <2>1, <2>2, <2>3, StaysInRoot
  <2> QED BY <2>4 DEF t, N, steady
<1>6. CASE scan' = Finish(MarkTruncated(scan))
  <2> HIDE DEF steady, N
  <2>1. Discovers(MarkTruncated(scan), steady, N)
    BY <1>1, TruncatedDiscovers
  <2>2. Discovers(Finish(MarkTruncated(scan)), steady, N)
    BY <2>1, FinishDiscovers
  <2> QED BY <1>6, <2>2 DEF steady, N
<1> QED BY <1>3, <1>4, <1>5, <1>6

(* What the scan is at when it looks for a directory.                      *)
LEMMA EndScanDiscovers ==
    ASSUME DiscoveryInv, EndScan
    PROVE  Discovers(scan', SteadyFiles, Len(disk))
<1> DEFINE N == Len(disk)
           steady == SteadyFiles
           t == scan'
<1>1. /\ Discovers(scan, steady, N) /\ ScanTyped(scan, N) /\ scan.phase = "scanRoot"
      /\ NoneOverlooked(scan, steady)
  BY DEF DiscoveryInv, Discovers, EndScan, Scanning, InPhase
<1>2. scan.active = Absent /\ scan.pending = {} /\ scan.iterating = FALSE
  BY DEF EndScan, Scanning
<1>3. /\ IsScan(t) /\ t.phase = "process" /\ t.root = scan.root
      /\ t.queue = Sorted(scan.candidates) /\ t.stop = scan.stop
      /\ t.claimed = scan.claimed /\ t.entries = scan.entries
      /\ t.unexamined = scan.unexamined /\ t.eligible = scan.eligible /\ t.visible = scan.visible
  BY <1>1, ScanNames DEF ScanTyped, IsScan, EndScan
<1>4. IsSequence(t.queue) /\ ToSet(t.queue) = scan.candidates \cap Paths
  BY <1>3, SortedHas
<1>5. \A p \in steady[scan.root] : p \in Paths
  BY <1>1, SteadyFilesAre
<1> HIDE DEF t, N, steady
<1>6. ScanTyped(t, N)
  BY <1>1, <1>3, <1>4 DEF ScanTyped
<1>7. NoneOverlooked(t, steady)
  <2>1. ASSUME NEW p \in steady[scan.root], ~scan.stop PROVE WillBeClaimed(t, p)
    <3>1. WillBeFound(scan, p)
      BY <1>1, <2>1 DEF NoneOverlooked
    <3>2. \A n \in 0..(Len(p) - 1) : ~OnTheWay(scan, p, n)
      BY <1>2 DEF OnTheWay, Absent, Present
    <3>3. p \in scan.candidates /\ p \in Paths
      BY <1>5, <2>1, <3>1, <3>2 DEF WillBeFound
    <3> QED BY <1>4, <3>3 DEF WillBeClaimed
  <2> QED BY <1>3, <2>1 DEF NoneOverlooked
<1>8. Discovers(t, steady, N)
  BY <1>1, <1>3, <1>6, <1>7, StaysInRoot
<1> QED BY <1>8 DEF t, N, steady

LEMMA OpenDirectoryDiscovers ==
    ASSUME DiscoveryInv, OpenDirectory
    PROVE  Discovers(scan', SteadyFiles, Len(disk))
<1> DEFINE N == Len(disk)
           steady == SteadyFiles
           t == scan'
           next == Smallest(scan.pending)
<1>1. /\ Discovers(scan, steady, N) /\ ScanTyped(scan, N) /\ scan.phase = "scanRoot"
      /\ NoneOverlooked(scan, steady) /\ scan.active = Absent
  BY DEF DiscoveryInv, Discovers, OpenDirectory, Scanning, InPhase
<1>2. \/ scan' = [scan EXCEPT !.pending = @ \ {next}, !.active = Present(next),
                              !.iterating = TRUE, !.listed = {}]
      \/ scan' = DropRoot(scan)
  BY Zenon DEF OpenDirectory
<1>3. CASE scan' = [scan EXCEPT !.pending = @ \ {next}, !.active = Present(next),
                                !.iterating = TRUE, !.listed = {}]
  <2>1. /\ IsScan(t) /\ t.phase = "scanRoot" /\ t.root = scan.root
        /\ t.pending = scan.pending \ {next} /\ t.active = Present(next) /\ t.iterating = TRUE
        /\ t.candidates = scan.candidates /\ t.stop = scan.stop
        /\ t.claimed = scan.claimed /\ t.entries = scan.entries
        /\ t.unexamined = scan.unexamined /\ t.queue = scan.queue
        /\ t.eligible = scan.eligible /\ t.visible = scan.visible
    BY <1>1, <1>3, ScanNames DEF ScanTyped, IsScan
  <2> HIDE DEF t, N, steady, next
  <2>2. ScanTyped(t, N)
    BY <1>1, <2>1 DEF ScanTyped
  <2>3. ASSUME NEW p \in steady[scan.root], ~scan.stop PROVE WillBeFound(t, p)
    <3>1. WillBeFound(scan, p)
      BY <1>1, <2>3 DEF NoneOverlooked
    <3>2. ASSUME NEW n \in 0..(Len(p) - 1), OnTheWay(scan, p, n) PROVE OnTheWay(t, p, n)
      <4>1. SubSeq(p, 1, n) \in scan.pending
        BY <1>1, <3>2 DEF OnTheWay, Absent, Present
      <4> QED BY <2>1, <4>1 DEF OnTheWay
    <3> QED BY <2>1, <3>1, <3>2 DEF WillBeFound
  <2>4. NoneOverlooked(t, steady)
    BY <2>1, <2>3 DEF NoneOverlooked
  <2>5. Discovers(t, steady, N)
    BY <1>1, <2>1, <2>2, <2>4, StaysInRoot
  <2> QED BY <2>5 DEF t, N, steady
<1>4. CASE scan' = DropRoot(scan)
  <2> HIDE DEF N, steady
  <2>1. Discovers(DropRoot(scan), steady, N)
    BY <1>1, DropRootDiscovers
  <2> QED BY <1>4, <2>1 DEF N, steady
<1> QED BY <1>2, <1>3, <1>4

LEMMA ReadDirectoryEntryDiscovers ==
    ASSUME DiscoveryInv, ReadDirectoryEntry
    PROVE  Discovers(scan', SteadyFiles, Len(disk))
<1> DEFINE N == Len(disk)
           steady == SteadyFiles
           t == scan'
<1>1. Discovers(scan, steady, N) /\ ScanTyped(scan, N) /\ NoneOverlooked(scan, steady)
  BY DEF DiscoveryInv, Discovers
<1>2. \/ scan' = DropRoot(scan)
      \/ \E p \in Unlisted : scan' = [scan EXCEPT !.listed = @ \cup {p}, !.nodes = @ + 1]
  BY Zenon DEF ReadDirectoryEntry
<1>3. ASSUME NEW q, scan' = [scan EXCEPT !.listed = @ \cup {q}, !.nodes = @ + 1]
      PROVE  Discovers(t, steady, N)
  <2>1. /\ IsScan(t) /\ t.phase = scan.phase /\ t.root = scan.root
        /\ t.pending = scan.pending /\ t.active = scan.active /\ t.iterating = scan.iterating
        /\ t.candidates = scan.candidates /\ t.stop = scan.stop
        /\ t.claimed = scan.claimed /\ t.entries = scan.entries
        /\ t.unexamined = scan.unexamined /\ t.queue = scan.queue
        /\ t.eligible = scan.eligible /\ t.visible = scan.visible
    BY <1>1, <1>3, ScanNames DEF ScanTyped, IsScan
  <2> HIDE DEF t, N, steady
  <2>2. ScanTyped(t, N)
    BY <1>1, <2>1 DEF ScanTyped
  <2>3. NoneOverlooked(t, steady)
    BY <1>1, <2>1 DEF NoneOverlooked, WillBeFound, WillBeClaimed, OnTheWay
  <2> QED BY <1>1, <2>1, <2>2, <2>3, StaysInRoot
<1>4. CASE scan' = DropRoot(scan)
  <2> HIDE DEF N, steady
  <2>1. Discovers(DropRoot(scan), steady, N)
    BY <1>1, DropRootDiscovers
  <2> QED BY <1>4, <2>1 DEF N, steady
<1> QED BY <1>2, <1>3, <1>4

(* What is on the way to a file that stays is listed with its directory.   *)
LEMMA EndOfDirectoryDiscovers ==
    ASSUME DiscoveryInv, EndOfDirectory
    PROVE  Discovers(scan', SteadyFiles, Len(disk))
<1> DEFINE N == Len(disk)
           steady == SteadyFiles
           t == scan'
<1>1. /\ Discovers(scan, steady, N) /\ ScanTyped(scan, N) /\ scan.phase = "scanRoot"
      /\ NoneOverlooked(scan, steady)
  BY DEF DiscoveryInv, Discovers, EndOfDirectory, Scanning, InPhase
<1>2. Children(scan.root, scan.active[1]) \subseteq scan.listed
  BY DEF EndOfDirectory, Unlisted
<1>3. /\ IsScan(t) /\ t.phase = "scanRoot" /\ t.root = scan.root
      /\ t.pending = scan.pending /\ t.active = scan.active
      /\ t.candidates = scan.candidates /\ t.stop = scan.stop
      /\ t.claimed = scan.claimed /\ t.entries = scan.entries
      /\ t.unexamined = Sorted(scan.listed) /\ t.queue = scan.queue
      /\ t.eligible = scan.eligible /\ t.visible = scan.visible
  BY <1>1, ScanNames DEF ScanTyped, IsScan, EndOfDirectory
<1>4. IsSequence(t.unexamined) /\ ToSet(t.unexamined) = scan.listed \cap Paths
  BY <1>3, SortedHas
<1>5. ASSUME NEW p \in steady[scan.root], NEW n \in 0..(Len(p) - 1),
             scan.active = Present(SubSeq(p, 1, n))
      PROVE  SubSeq(p, 1, n + 1) \in ToSet(t.unexamined)
  <2> DEFINE q == SubSeq(p, 1, n + 1)
  <2>1. p \in Paths /\ Steady(scan.root, p)
    BY <1>1, SteadyFilesAre
  <2>2. scan.active[1] = SubSeq(p, 1, n)
    BY <1>5 DEF Present
  <2>3. /\ q \in Paths /\ Front(q) = SubSeq(p, 1, n)
        /\ n + 1 = Len(p) => q = p
        /\ n + 1 # Len(p) => n + 1 \in 0..(Len(p) - 1)
    BY <2>1, NextOnTheWay
  <2>4. /\ Kind(scan.root, p) = "file"
        /\ n + 1 \in 0..(Len(p) - 1) => Kind(scan.root, q) \in DirectoryKinds
    BY <2>1, SteadyIsReached
  <2> HIDE DEF q
  <2>5. Kind(scan.root, q) # "absent"
    BY <2>3, <2>4 DEF DirectoryKinds
  <2>6. q \in Children(scan.root, scan.active[1])
    BY <2>2, <2>3, <2>5 DEF Children
  <2>7. q \in scan.listed \cap Paths
    BY <1>2, <2>3, <2>6
  <2> QED BY <1>4, <2>7 DEF q
<1> HIDE DEF t, N, steady
<1>6. ScanTyped(t, N)
  BY <1>1, <1>3, <1>4 DEF ScanTyped
<1>7. ASSUME NEW p \in steady[scan.root], ~scan.stop PROVE WillBeFound(t, p)
  <2>1. WillBeFound(scan, p)
    BY <1>1, <1>7 DEF NoneOverlooked
  <2>2. ASSUME NEW n \in 0..(Len(p) - 1), OnTheWay(scan, p, n) PROVE OnTheWay(t, p, n)
    <3>1. CASE SubSeq(p, 1, n) \in scan.pending
      BY <1>3, <3>1 DEF OnTheWay
    <3>2. CASE scan.active = Present(SubSeq(p, 1, n))
      <4>1. SubSeq(p, 1, n + 1) \in ToSet(t.unexamined)
        BY <1>5, <3>2
      <4> QED BY <1>3, <3>2, <4>1 DEF OnTheWay
    <3> QED BY <2>2, <3>1, <3>2 DEF OnTheWay
  <2> QED BY <1>3, <2>1, <2>2 DEF WillBeFound
<1>8. NoneOverlooked(t, steady)
  BY <1>3, <1>7 DEF NoneOverlooked
<1>9. Discovers(t, steady, N)
  BY <1>1, <1>3, <1>6, <1>8, StaysInRoot
<1> QED BY <1>9 DEF t, N, steady

(* A file or a directory that is looked at is taken, unless the scan of    *)
(* the root is cut off.                                                    *)
WithInspected(s, q) == [InspectEntry(s, q) EXCEPT !.unexamined = Tail(@)]
AsInspected(t, s, q) ==
    /\ IsScan(t) /\ t.phase = s.phase /\ t.root = s.root /\ t.active = s.active
    /\ t.unexamined = Tail(s.unexamined) /\ t.queue = s.queue
    /\ t.claimed = s.claimed /\ t.entries = s.entries
    /\ t.eligible = s.eligible /\ t.visible = s.visible
    /\ \/ t.stop = TRUE
       \/ /\ t.stop = s.stop
          /\ s.pending \subseteq t.pending /\ s.candidates \subseteq t.candidates
          /\ Kind(s.root, s.active[1]) # "unsearchable" =>
                 /\ Kind(s.root, q) \in DirectoryKinds => q \in t.pending
                 /\ Kind(s.root, q) = "file" => q \in t.candidates
LEMMA Inspected ==
    ASSUME NEW s, IsScan(s), NEW q, NEW t, t = WithInspected(s, q)
    PROVE  AsInspected(t, s, q)
<1> DEFINE u == InspectEntry(s, q)
           kind == Kind(s.root, q)
           searchable == Kind(s.root, s.active[1]) # "unsearchable"
           found == ToSet(SubSeq(Sorted(s.candidates \cup {q}), 1, Limits.candidates))
<1>1. "file" \notin DirectoryKinds
  BY DEF DirectoryKinds
<1>2. /\ IsScan(u) /\ u.phase = s.phase /\ u.root = s.root /\ u.active = s.active
      /\ u.unexamined = s.unexamined /\ u.queue = s.queue
      /\ u.claimed = s.claimed /\ u.entries = s.entries
      /\ u.eligible = s.eligible /\ u.visible = s.visible
      /\ \/ u.stop = TRUE
         \/ /\ u.stop = s.stop
            /\ s.pending \subseteq u.pending /\ s.candidates \subseteq u.candidates
            /\ searchable =>
                   /\ kind \in DirectoryKinds => q \in u.pending
                   /\ kind = "file" => q \in u.candidates
  <2>1. \/ u = s /\ (~searchable \/ kind \notin DirectoryKinds \cup {"file"})
        \/ u = [s EXCEPT !.stop = TRUE]
        \/ u = [s EXCEPT !.pending = @ \cup {q}, !.directories = @ + 1] /\ kind # "file"
        \/ u = [s EXCEPT !.candidates = @ \cup {q}] /\ kind = "file"
        \/ u = [[s EXCEPT !.stop = TRUE] EXCEPT !.candidates = found]
    <3> DEFINE deep == Len(q) >= Limits.depth \/ s.directories >= Limits.directories
               room == Cardinality(s.candidates) < Limits.candidates
               more == [s EXCEPT !.pending = @ \cup {q}, !.directories = @ + 1]
               kept == [s EXCEPT !.candidates = @ \cup {q}]
               cut == [s EXCEPT !.stop = TRUE]
               last == [[s EXCEPT !.stop = TRUE] EXCEPT
                            !.candidates = ToSet(SubSeq(Sorted(@ \cup {q}), 1, Limits.candidates))]
    <3>1. u = IF ~searchable THEN s
              ELSE IF kind \in DirectoryKinds THEN IF deep THEN cut ELSE more
              ELSE IF kind = "file" THEN IF room THEN kept ELSE last
              ELSE s
      BY DEF InspectEntry, KeepLexicallySmallest, MarkTruncated
    <3>2. last = [[s EXCEPT !.stop = TRUE] EXCEPT !.candidates = found]
      <4> DEFINE v == [s EXCEPT !.stop = TRUE]
      <4>1. v.candidates = s.candidates
        BY ScanNames DEF IsScan
      <4> HIDE DEF v
      <4>2. [v EXCEPT !.candidates = ToSet(SubSeq(Sorted(@ \cup {q}), 1, Limits.candidates))]
                = [v EXCEPT !.candidates = found]
        BY <4>1
      <4> QED BY <4>2 DEF v
    <3> HIDE DEF u, kind, searchable, found, deep, room, more, kept, cut, last
    <3>3. \/ u = s /\ (~searchable \/ kind \notin DirectoryKinds \cup {"file"})
          \/ u = cut
          \/ u = more /\ kind # "file"
          \/ u = kept /\ kind = "file"
          \/ u = last
      BY <1>1, <3>1
    <3> QED BY <3>2, <3>3 DEF more, kept, cut, last
  <2> HIDE DEF u, kind, searchable, found
  <2>2. CASE u = s /\ (~searchable \/ kind \notin DirectoryKinds \cup {"file"})
    BY <2>2
  <2>3. CASE u = [s EXCEPT !.stop = TRUE]
    BY <2>3, ScanNames DEF IsScan
  <2>4. CASE u = [s EXCEPT !.pending = @ \cup {q}, !.directories = @ + 1] /\ kind # "file"
    BY <2>4, ScanNames DEF IsScan
  <2>5. CASE u = [s EXCEPT !.candidates = @ \cup {q}] /\ kind = "file"
    BY <1>1, <2>5, ScanNames DEF IsScan
  <2>6. CASE u = [[s EXCEPT !.stop = TRUE] EXCEPT !.candidates = found]
    BY <2>6, ScanNames DEF IsScan
  <2> QED BY <2>1, <2>2, <2>3, <2>4, <2>5, <2>6
<1>3. t = [u EXCEPT !.unexamined = Tail(@)]
  BY DEF WithInspected
<1> HIDE DEF u, kind, searchable
<1>4. /\ IsScan(t) /\ t.phase = u.phase /\ t.root = u.root /\ t.active = u.active
      /\ t.unexamined = Tail(u.unexamined) /\ t.queue = u.queue
      /\ t.claimed = u.claimed /\ t.entries = u.entries
      /\ t.eligible = u.eligible /\ t.visible = u.visible
      /\ t.stop = u.stop /\ t.pending = u.pending /\ t.candidates = u.candidates
  BY <1>2, <1>3, ScanNames DEF IsScan
<1> QED BY <1>2, <1>4 DEF kind, searchable, AsInspected

LEMMA InspectDirectoryEntryDiscovers ==
    ASSUME DiscoveryInv, InspectDirectoryEntry
    PROVE  Discovers(scan', SteadyFiles, Len(disk))
<1> DEFINE N == Len(disk)
           steady == SteadyFiles
           t == scan'
           q == Head(scan.unexamined)
<1>1. /\ Discovers(scan, steady, N) /\ ScanTyped(scan, N) /\ scan.phase = "scanRoot"
      /\ NoneOverlooked(scan, steady) /\ IsSequence(scan.unexamined) /\ IsScan(scan)
  BY DEF DiscoveryInv, Discovers, ScanTyped, InspectDirectoryEntry, Scanning, InPhase
<1>2. scan.iterating = FALSE
  BY DEF InspectDirectoryEntry, Scanning
<1>3. CASE scan.unexamined = <<>>
  <2>1. scan' = [scan EXCEPT !.active = Absent]
    BY <1>3 DEF InspectDirectoryEntry
  <2>2. /\ IsScan(t) /\ t.phase = "scanRoot" /\ t.root = scan.root
        /\ t.pending = scan.pending /\ t.candidates = scan.candidates /\ t.stop = scan.stop
        /\ t.claimed = scan.claimed /\ t.entries = scan.entries
        /\ t.unexamined = scan.unexamined /\ t.queue = scan.queue
        /\ t.eligible = scan.eligible /\ t.visible = scan.visible
    BY <1>1, <2>1, ScanNames DEF IsScan
  <2>3. ToSet(scan.unexamined) = {}
    BY <1>3, EmptySequence
  <2> HIDE DEF t, N, steady
  <2>4. ScanTyped(t, N)
    BY <1>1, <2>2 DEF ScanTyped
  <2>5. ASSUME NEW p \in steady[scan.root], ~scan.stop PROVE WillBeFound(t, p)
    <3>1. WillBeFound(scan, p)
      BY <1>1, <2>5 DEF NoneOverlooked
    <3>2. ASSUME NEW n \in 0..(Len(p) - 1), OnTheWay(scan, p, n) PROVE OnTheWay(t, p, n)
      <4>1. SubSeq(p, 1, n) \in scan.pending
        BY <1>2, <2>3, <3>2 DEF OnTheWay
      <4> QED BY <2>2, <4>1 DEF OnTheWay
    <3> QED BY <2>2, <3>1, <3>2 DEF WillBeFound
  <2>6. NoneOverlooked(t, steady)
    BY <2>2, <2>5 DEF NoneOverlooked
  <2>7. Discovers(t, steady, N)
    BY <1>1, <2>2, <2>4, <2>6, StaysInRoot
  <2> QED BY <2>7 DEF t, N, steady
<1>4. CASE scan.unexamined # <<>>
  <2>1. t = WithInspected(scan, q)
    BY <1>4, Zenon DEF InspectDirectoryEntry, WithInspected
  <2> HIDE DEF t, q
  <2>2. /\ IsScan(t) /\ t.phase = scan.phase /\ t.root = scan.root /\ t.active = scan.active
        /\ t.unexamined = Tail(scan.unexamined) /\ t.queue = scan.queue
        /\ t.claimed = scan.claimed /\ t.entries = scan.entries
        /\ t.eligible = scan.eligible /\ t.visible = scan.visible
        /\ \/ t.stop = TRUE
           \/ /\ t.stop = scan.stop
              /\ scan.pending \subseteq t.pending /\ scan.candidates \subseteq t.candidates
              /\ Kind(scan.root, scan.active[1]) # "unsearchable" =>
                     /\ Kind(scan.root, q) \in DirectoryKinds => q \in t.pending
                     /\ Kind(scan.root, q) = "file" => q \in t.candidates
    <3>1. AsInspected(t, scan, q)
      BY <1>1, <2>1, Inspected
    <3> QED BY <3>1 DEF AsInspected
  <2>3. /\ IsSequence(t.unexamined)
        /\ \A x \in ToSet(scan.unexamined) : x = q \/ x \in ToSet(t.unexamined)
    BY <1>1, <1>4, <2>2, HeadOrTail DEF q
  <2>4. ASSUME NEW p \in steady[scan.root], NEW n \in 0..(Len(p) - 1),
               scan.active = Present(SubSeq(p, 1, n)), q = SubSeq(p, 1, n + 1)
        PROVE  /\ Kind(scan.root, scan.active[1]) # "unsearchable"
               /\ \/ q = p /\ Kind(scan.root, q) = "file"
                  \/ n + 1 \in 0..(Len(p) - 1) /\ Kind(scan.root, q) \in DirectoryKinds
    <3>1. p \in Paths /\ Steady(scan.root, p)
      BY <1>1, SteadyFilesAre
    <3>2. scan.active[1] = SubSeq(p, 1, n)
      BY <2>4 DEF Present
    <3>3. n + 1 = Len(p) => q = p
      BY <2>4, <3>1, NextOnTheWay
    <3>4. n + 1 # Len(p) => n + 1 \in 0..(Len(p) - 1)
      BY <3>1, NextOnTheWay
    <3>5. /\ Kind(scan.root, p) = "file"
          /\ Kind(scan.root, SubSeq(p, 1, n)) # "unsearchable"
          /\ n + 1 \in 0..(Len(p) - 1) => Kind(scan.root, SubSeq(p, 1, n + 1)) \in DirectoryKinds
      BY <3>1, SteadyIsReached
    <3> QED BY <2>4, <3>2, <3>3, <3>4, <3>5
  <2> HIDE DEF N, steady
  <2>5. ScanTyped(t, N)
    BY <1>1, <2>2, <2>3 DEF ScanTyped
  <2>6. ASSUME NEW p \in steady[scan.root], ~t.stop PROVE WillBeFound(t, p)
    <3>1. WillBeFound(scan, p)
      BY <1>1, <2>2, <2>6 DEF NoneOverlooked
    <3>2. ASSUME NEW n \in 0..(Len(p) - 1), OnTheWay(scan, p, n) PROVE WillBeFound(t, p)
      <4>1. CASE SubSeq(p, 1, n) \in scan.pending
        <5>1. OnTheWay(t, p, n)
          BY <2>2, <2>6, <4>1 DEF OnTheWay
        <5> QED BY <5>1 DEF WillBeFound
      <4>2. CASE scan.active = Present(SubSeq(p, 1, n)) /\ SubSeq(p, 1, n + 1) \in ToSet(scan.unexamined)
        <5>1. CASE SubSeq(p, 1, n + 1) \in ToSet(t.unexamined)
          <6>1. OnTheWay(t, p, n)
            BY <2>2, <4>2, <5>1 DEF OnTheWay
          <6> QED BY <6>1 DEF WillBeFound
        <5>2. CASE SubSeq(p, 1, n + 1) = q
          <6>1. CASE q = p /\ Kind(scan.root, q) = "file"
            <7>1. p \in t.candidates
              BY <2>2, <2>4, <2>6, <4>2, <5>2, <6>1
            <7> QED BY <7>1 DEF WillBeFound
          <6>2. CASE n + 1 \in 0..(Len(p) - 1) /\ Kind(scan.root, q) \in DirectoryKinds
            <7>1. SubSeq(p, 1, n + 1) \in t.pending
              BY <2>2, <2>4, <2>6, <4>2, <5>2, <6>2
            <7>2. OnTheWay(t, p, n + 1)
              BY <7>1 DEF OnTheWay
            <7> QED BY <6>2, <7>2 DEF WillBeFound
          <6> QED BY <2>4, <4>2, <5>2, <6>1, <6>2
        <5> QED BY <2>3, <4>2, <5>1, <5>2
      <4> QED BY <1>2, <3>2, <4>1, <4>2 DEF OnTheWay
    <3>3. CASE p \in scan.candidates
      BY <2>2, <2>6, <3>3 DEF WillBeFound
    <3> QED BY <3>1, <3>2, <3>3 DEF WillBeFound
  <2>7. NoneOverlooked(t, steady)
    BY <1>1, <2>2, <2>6 DEF NoneOverlooked
  <2>8. Discovers(t, steady, N)
    BY <1>1, <2>2, <2>5, <2>7, StaysInRoot
  <2> QED BY <2>8 DEF t, N, steady
<1> QED BY <1>3, <1>4

(* What claiming a candidate changes (DesktopEntryDiscovery.cpp:365-428).  *)
AsClaimed(t, s, q) ==
    /\ IsScan(t) /\ t.phase \in {s.phase, "catalog"} /\ t.root = s.root
    /\ t.unexamined = s.unexamined /\ t.queue = Tail(s.queue) /\ t.eligible = s.eligible
    /\ IsSequence(s.visible) => IsSequence(t.visible)
    /\ t.stop = s.stop \/ t.stop = TRUE
    /\ s.claimed \subseteq t.claimed
    /\ Identified(q) => Identifier(q) \in t.claimed
    /\ \/ t.entries = s.entries
       \/ /\ Identifier(q) \notin s.claimed
          /\ \E e : /\ t.entries = Append(s.entries, e)
                    /\ e.id = Identifier(q) /\ e.root = s.root
LEMMA Claimed ==
    ASSUME NEW s, IsScan(s), NEW q, NEW t,
           t = ClaimCandidate([s EXCEPT !.queue = Tail(@)], q)
    PROVE  AsClaimed(t, s, q)
<1> DEFINE u == [s EXCEPT !.queue = Tail(@)]
           id == DeriveDesktopFileId(q)
           entry == ParseDesktopEntry(disk[u.root][q].document)
           claim == [u EXCEPT !.claimed = @ \cup {id.value}]
           at == Len(u.entries) + 1
           e == [id |-> id.value, entry |-> entry.value, root |-> u.root, path |-> q]
           allVisible == IF IsVisible(entry.value) THEN Append(u.visible, at) ELSE u.visible
           full == Finish(MarkTruncated(claim))
           taken == [claim EXCEPT !.entries = Append(@, e), !.visible = allVisible]
<1>1. /\ IsScan(u) /\ u.phase = s.phase /\ u.root = s.root /\ u.unexamined = s.unexamined
      /\ u.queue = Tail(s.queue)
      /\ u.eligible = s.eligible /\ u.visible = s.visible /\ u.stop = s.stop
      /\ u.claimed = s.claimed /\ u.entries = s.entries
  BY ScanNames DEF IsScan
<1>2. \/ t = u /\ (Ok(id) => id.value \in u.claimed)
      \/ id.value \notin u.claimed /\ (t = claim \/ t = full \/ t = taken)
  <2>1. [claim EXCEPT !.entries = Append(@, e),
                      !.visible = IF IsVisible(entry.value) THEN Append(@, at) ELSE @] = taken
    <3>1. claim.visible = u.visible
      BY <1>1 DEF IsScan, ScanFields
    <3> HIDE DEF claim, u, entry, e, at
    <3> QED BY <3>1
  <2> DEFINE tall == Kind(u.root, q) # "file" \/ ~Ok(entry)
             no == ~Ok(id) \/ id.value \in u.claimed
             room == Len(u.entries) >= Limits.entries
             far == <<u.root, q>> \in RejectedLocations
             have == [claim EXCEPT !.entries = Append(@, e),
                                   !.visible = IF IsVisible(entry.value) THEN Append(@, at) ELSE @]
  <2>2. t = IF no THEN u ELSE IF tall THEN claim ELSE IF room THEN full
                 ELSE IF far THEN claim ELSE have
    BY Zenon DEF ClaimCandidate
  <2>3. no <=> (Ok(id) => id.value \in u.claimed)
    OBVIOUS
  <2>4. ~no => id.value \notin u.claimed
    OBVIOUS
  <2> HIDE DEF u, id, claim, full, taken, tall, no, room, far, have
  <2>5. (no /\ t = u) \/ (~no /\ (t = claim \/ t = full \/ t = have))
    BY <2>2
  <2> QED BY <2>1, <2>3, <2>4, <2>5 DEF have
<1>9. IsSequence(s.visible) => IsSequence(allVisible)
  <2>1. u.visible = s.visible
    BY <1>1
  <2>2. IsSequence(s.visible) => IsSequence(Append(s.visible, at))
    BY Appended
  <2> HIDE DEF u, entry, at
  <2> QED BY <2>1, <2>2
<1> HIDE DEF u, entry, allVisible, at
<1>3. /\ IsScan(claim) /\ claim.phase = s.phase /\ claim.root = s.root
      /\ claim.unexamined = s.unexamined
      /\ claim.queue = Tail(s.queue)
      /\ claim.eligible = s.eligible /\ claim.visible = s.visible /\ claim.stop = s.stop
      /\ claim.claimed = s.claimed \cup {id.value} /\ claim.entries = s.entries
  <2> HIDE DEF id
  <2> QED BY <1>1, ScanNames DEF IsScan
<1>4. id.value = Identifier(q) /\ (Ok(id) <=> Identified(q))
  BY DEF Identifier, Identified
<1> HIDE DEF id, claim
<1>5. CASE t = u /\ (Ok(id) => id.value \in u.claimed)
  BY <1>1, <1>4, <1>5 DEF AsClaimed
<1>6. CASE id.value \notin u.claimed /\ t = claim
  BY <1>1, <1>3, <1>4, <1>6 DEF AsClaimed
<1>7. CASE id.value \notin u.claimed /\ t = full
  <2> DEFINE cut == [claim EXCEPT !.stop = TRUE]
  <2>1. /\ IsScan(cut) /\ cut.root = s.root
        /\ cut.unexamined = s.unexamined
        /\ cut.queue = Tail(s.queue)
        /\ cut.eligible = s.eligible /\ cut.visible = s.visible /\ cut.stop = TRUE
        /\ cut.claimed = s.claimed \cup {id.value} /\ cut.entries = s.entries
    BY <1>3, ScanNames DEF IsScan
  <2>2. full = [cut EXCEPT !.phase = "catalog"]
    BY Zenon DEF Finish, MarkTruncated
  <2> HIDE DEF cut, full
  <2>3. /\ IsScan(full) /\ full.phase = "catalog" /\ full.root = s.root
        /\ full.unexamined = s.unexamined
        /\ full.queue = Tail(s.queue)
        /\ full.eligible = s.eligible /\ full.visible = s.visible /\ full.stop = TRUE
        /\ full.claimed = s.claimed \cup {id.value} /\ full.entries = s.entries
    BY <2>1, <2>2, ScanNames DEF IsScan
  <2> QED BY <1>4, <1>7, <2>3 DEF AsClaimed
<1>8. CASE id.value \notin u.claimed /\ t = taken
  <2>1. e.id = id.value /\ e.root = s.root
    BY <1>1
  <2> HIDE DEF e
  <2>2. /\ IsScan(taken) /\ taken.phase = s.phase /\ taken.root = s.root
        /\ taken.unexamined = s.unexamined
        /\ taken.queue = Tail(s.queue) /\ taken.eligible = s.eligible /\ taken.stop = s.stop
        /\ taken.visible = allVisible
        /\ taken.claimed = s.claimed \cup {id.value} /\ taken.entries = Append(s.entries, e)
    BY <1>3, ScanNames DEF IsScan, ScanFields
  <2> HIDE DEF taken
  <2> QED BY <1>1, <1>4, <1>8, <1>9, <2>1, <2>2 DEF AsClaimed
<1> QED BY <1>2, <1>5, <1>6, <1>7, <1>8

LEMMA ProcessCandidateDiscovers ==
    ASSUME DiscoveryInv, ProcessCandidate
    PROVE  Discovers(scan', SteadyFiles, Len(disk))
<1> DEFINE N == Len(disk)
           steady == SteadyFiles
           t == scan'
           q == Head(scan.queue)
<1>1. /\ Discovers(scan, steady, N) /\ ScanTyped(scan, N) /\ scan.phase = "process"
      /\ NoneOverlooked(scan, steady) /\ EarlierClaimed(scan, steady) /\ Unshadowed(scan, steady)
      /\ IsSequence(scan.queue) /\ IsScan(scan) /\ N \in Nat
  BY DEF DiscoveryInv, DiskTyped, Discovers, ScanTyped, ProcessCandidate, InPhase
<1>2. CASE scan.queue = <<>>
  <2>1. scan' = IF scan.stop THEN Finish(scan) ELSE AdvanceRoot(scan)
    BY <1>2 DEF ProcessCandidate, EndCandidates
  <2>2. CASE scan.stop
    <3> HIDE DEF N, steady
    <3>1. Discovers(Finish(scan), steady, N)
      BY <1>1, FinishDiscovers
    <3> QED BY <2>1, <2>2, <3>1 DEF N, steady
  <2>3. CASE ~scan.stop
    <3>1. ToSet(scan.queue) = {}
      BY <1>2, EmptySequence
    <3>2. \A p \in steady[scan.root] : Identified(p) => Identifier(p) \in scan.claimed
      BY <1>1, <2>3, <3>1 DEF NoneOverlooked, WillBeClaimed
    <3> HIDE DEF steady
    <3>3. Discovers(AdvanceRoot(scan), steady, Len(disk))
      BY <1>1, <3>2, AdvanceRootDiscovers
    <3> QED BY <2>1, <2>3, <3>3 DEF steady
  <2> QED BY <2>2, <2>3
<1>3. CASE scan.queue # <<>>
  <2>1. t = ClaimCandidate([scan EXCEPT !.queue = Tail(@)], q)
    BY <1>3, Zenon DEF ProcessCandidate
  <2> HIDE DEF t, q
  <2>2. AsClaimed(t, scan, q)
    BY <1>1, <2>1, Claimed
  <2>3. /\ IsSequence(t.queue)
        /\ \A x \in ToSet(scan.queue) : x = q \/ x \in ToSet(t.queue)
    <3>1. t.queue = Tail(scan.queue)
      BY <2>2 DEF AsClaimed
    <3> QED BY <1>1, <1>3, <3>1, HeadOrTail DEF q
  <2> HIDE DEF N, steady
  <2>4. IsSequence(t.entries)
    <3>1. IsSequence(scan.entries)
      BY <1>1 DEF ScanTyped
    <3>2. \A e : IsSequence(Append(scan.entries, e))
      BY <3>1, Appended
    <3> QED BY <2>2, <3>1, <3>2 DEF AsClaimed
  <2>5. ScanTyped(t, N)
    BY <1>1, <2>2, <2>3, <2>4 DEF ScanTyped, AsClaimed
  <2>6. ASSUME NEW p \in steady[scan.root], ~t.stop PROVE WillBeClaimed(t, p)
    <3>1. WillBeClaimed(scan, p)
      BY <1>1, <2>2, <2>6 DEF NoneOverlooked, AsClaimed
    <3> QED BY <2>2, <2>3, <3>1 DEF WillBeClaimed, AsClaimed
  <2>7. NoneOverlooked(t, steady)
    BY <1>1, <2>2, <2>6 DEF NoneOverlooked, AsClaimed
  <2>8. EarlierClaimed(t, steady)
    BY <1>1, <2>2 DEF EarlierClaimed, AsClaimed
  <2>9. Unshadowed(t, steady)
    <3>1. CASE t.entries = scan.entries
      BY <1>1, <2>2, <3>1 DEF Unshadowed, AsClaimed
    <3>2. CASE t.entries # scan.entries
      <4>1. t.root = scan.root /\ Identifier(q) \notin scan.claimed
        BY <2>2, <3>2 DEF AsClaimed
      <4>2. PICK e : /\ t.entries = Append(scan.entries, e)
                     /\ e.id = Identifier(q) /\ e.root = scan.root
        BY <2>2, <3>2 DEF AsClaimed
      <4> DEFINE L == Len(scan.entries)
      <4>3. /\ L \in Nat /\ Len(t.entries) = L + 1 /\ t.entries[L + 1] = e
            /\ \A n \in 1..L : t.entries[n] = scan.entries[n]
        BY <1>1, <4>2, Appended DEF ScanTyped, IsSequence
      <4> HIDE DEF L
      <4>4. scan.root \in 1..scan.root
        BY <1>1 DEF ScanTyped
      <4>5. ASSUME NEW i \in 1..(L + 1)
            PROVE  /\ t.entries[i].root \in 1..t.root
                   /\ \A root \in 1..(t.entries[i].root - 1) : \A p \in steady[root] :
                          Identified(p) => Identifier(p) # t.entries[i].id
        <5>1. CASE i = L + 1
          <6>1. t.entries[i] = e
            BY <4>3, <5>1
          <6>2. \A root \in 1..(scan.root - 1) : \A p \in steady[root] :
                    Identified(p) => Identifier(p) # Identifier(q)
            BY <1>1, <4>1 DEF EarlierClaimed
          <6> QED BY <4>1, <4>2, <4>4, <6>1, <6>2
        <5>2. CASE i # L + 1
          <6>1. i \in 1..L
            BY <4>3, <5>2
          <6>2. t.entries[i] = scan.entries[i]
            BY <4>3, <6>1
          <6> QED BY <1>1, <4>1, <6>1, <6>2 DEF Unshadowed, L
        <5> QED BY <5>1, <5>2
      <4> QED BY <4>3, <4>5 DEF Unshadowed
    <3> QED BY <3>1, <3>2
  <2>10. Discovers(t, steady, N)
    BY <2>5, <2>7, <2>8, <2>9 DEF Discovers
  <2> QED BY <2>10 DEF t, N, steady
<1> QED BY <1>2, <1>3

LEMMA DecideEligibilityDiscovers ==
    ASSUME DiscoveryInv, DecideEligibility
    PROVE  Discovers(scan', SteadyFiles, Len(disk))
<1> DEFINE N == Len(disk)
           steady == SteadyFiles
           t == scan'
           index_ == scan.visible[scan.cursor]
           decision == EvaluateDesktopTryExec(programs, scan.entries[index_].entry.tryExec)
           more == IF decision.value THEN Append(scan.eligible, index_) ELSE scan.eligible
<1>1. /\ Discovers(scan, steady, N) /\ ScanTyped(scan, N) /\ scan.phase = "catalog"
      /\ IsSequence(scan.eligible) /\ IsScan(scan)
  BY DEF DiscoveryInv, Discovers, ScanTyped, DecideEligibility, InPhase
<1>2. \/ t = [scan EXCEPT !.error = decision.error]
      \/ t = [scan EXCEPT !.cursor = @ + 1, !.eligible = more]
  <2> DEFINE u == [scan EXCEPT !.cursor = @ + 1,
                       !.eligible = IF decision.value THEN Append(@, index_) ELSE @]
  <2>1. t = [scan EXCEPT !.error = decision.error] \/ t = u
    BY Zenon DEF DecideEligibility
  <2>2. u = [scan EXCEPT !.cursor = @ + 1, !.eligible = more]
    <3> HIDE DEF decision, index_
    <3> QED OBVIOUS
  <2> QED BY <2>1, <2>2
<1>3. IsSequence(more)
  <2>1. IsSequence(Append(scan.eligible, index_))
    BY <1>1, Appended
  <2> HIDE DEF decision, index_
  <2> QED BY <1>1, <2>1
<1> HIDE DEF decision, more
<1>4. /\ IsScan(t) /\ t.phase = "catalog" /\ t.root = scan.root
      /\ t.claimed = scan.claimed /\ t.entries = scan.entries
      /\ t.unexamined = scan.unexamined /\ t.queue = scan.queue
      /\ IsSequence(t.eligible) /\ t.visible = scan.visible
  <2>1. CASE t = [scan EXCEPT !.error = decision.error]
    BY <1>1, <2>1, ScanNames DEF IsScan, ScanFields
  <2>2. CASE t = [scan EXCEPT !.cursor = @ + 1, !.eligible = more]
    BY <1>1, <1>3, <2>2, ScanNames DEF IsScan, ScanFields
  <2> QED BY <1>2, <2>1, <2>2
<1> HIDE DEF t, N, steady
<1>5. ScanTyped(t, N) /\ NoneOverlooked(t, steady)
  BY <1>1, <1>4 DEF ScanTyped, NoneOverlooked
<1>6. Discovers(t, steady, N)
  BY <1>1, <1>4, <1>5, StaysInRoot
<1> QED BY <1>6 DEF t, N, steady

(* A step of the discovery.                                                *)
LEMMA PullStepDiscovers ==
    ASSUME DiscoveryInv, PullStep, UNCHANGED <<diskVars, touched>>
    PROVE  DiscoveryInv'
<1>1. disk' = disk /\ touched' = touched
  BY DEF diskVars
<1>2. Discovers(scan', SteadyFiles, Len(disk))
  BY StartRootDiscovers, EndScanDiscovers, OpenDirectoryDiscovers, ReadDirectoryEntryDiscovers,
     EndOfDirectoryDiscovers, InspectDirectoryEntryDiscovers, ProcessCandidateDiscovers,
     DecideEligibilityDiscovers DEF PullStep
<1>3. SteadyFiles' = SteadyFiles /\ Len(disk)' = Len(disk) /\ DiskTyped' = DiskTyped
  BY <1>1 DEF SteadyFiles, Steady, Kind, DiskTyped
<1>4. Discovers(scan, SteadyFiles, Len(disk))' = Discovers(scan', SteadyFiles', Len(disk'))
  BY DEF Discovers, ScanTyped, IsScan, NoneOverlooked, EarlierClaimed, Unshadowed,
         WillBeFound, WillBeClaimed, OnTheWay, Identifier, Identified
<1> QED BY <1>2, <1>3, <1>4 DEF DiscoveryInv

(* A scan that has found nothing overlooks nothing.                        *)
LEMMA StartDiscovers ==
    ASSUME NEW steady, NEW roots \in Nat \ {0}, NEW s, s \in {NewScan, NoScan}
    PROVE  Discovers(s, steady, roots)
<1>1. /\ IsScan(s) /\ s.phase \in {"startRoot", "none"} /\ s.root = 1
      /\ s.unexamined = <<>> /\ s.queue = <<>> /\ s.entries = <<>>
      /\ s.eligible = <<>> /\ s.visible = <<>>
  <2>1. /\ IsScan(NewScan) /\ NewScan.phase = "startRoot" /\ NewScan.root = 1
        /\ NewScan.unexamined = <<>> /\ NewScan.queue = <<>>
        /\ NewScan.entries = <<>> /\ NewScan.eligible = <<>> /\ NewScan.visible = <<>>
    BY DEF NewScan, ScanOf, IsScan, ScanFields
  <2>2. NoScan = [NewScan EXCEPT !.phase = "none"]
    BY DEF NoScan
  <2> DEFINE t == NoScan
             u == NewScan
  <2> HIDE DEF t, u
  <2>3. /\ IsScan(t) /\ t.phase = "none" /\ t.root = 1
        /\ t.unexamined = <<>> /\ t.queue = <<>> /\ t.entries = <<>>
        /\ t.eligible = <<>> /\ t.visible = <<>>
    BY <2>1, <2>2, ScanNames DEF IsScan, t
  <2> QED BY <2>1, <2>3 DEF t
<1>2. ScanTyped(s, roots)
  BY <1>1, EmptySequence DEF ScanTyped
<1>3. NoneOverlooked(s, steady) /\ EarlierClaimed(s, steady)
  BY <1>1 DEF NoneOverlooked, EarlierClaimed
<1>4. Unshadowed(s, steady)
  BY <1>1, EmptySequence DEF Unshadowed
<1> QED BY <1>2, <1>3, <1>4 DEF Discovers

(* Fewer files that stay.                                                  *)
LEMMA FewerSteady ==
    ASSUME NEW s, NEW steady, NEW fewer, NEW roots \in Nat, Discovers(s, steady, roots),
           \A root \in 1..roots : fewer[root] \subseteq steady[root]
    PROVE  Discovers(s, fewer, roots)
<1>1. /\ ScanTyped(s, roots) /\ NoneOverlooked(s, steady)
      /\ EarlierClaimed(s, steady) /\ Unshadowed(s, steady)
  BY DEF Discovers
<1>2. /\ s.root \in 1..roots /\ \A root \in 1..(s.root - 1) : root \in 1..roots
  BY <1>1 DEF ScanTyped
<1>3. NoneOverlooked(s, fewer)
  BY <1>1, <1>2 DEF NoneOverlooked
<1>4. EarlierClaimed(s, fewer)
  BY <1>1, <1>2 DEF EarlierClaimed
<1>5. Unshadowed(s, fewer)
  <2>1. ASSUME NEW i \in 1..Len(s.entries)
        PROVE  /\ s.entries[i].root \in 1..s.root
               /\ \A root \in 1..(s.entries[i].root - 1) : \A p \in fewer[root] :
                      Identified(p) => Identifier(p) # s.entries[i].id
    <3>1. s.entries[i].root \in 1..s.root
      BY <1>1 DEF Unshadowed
    <3>2. \A root \in 1..(s.entries[i].root - 1) : root \in 1..roots
      BY <1>2, <3>1
    <3> QED BY <1>1, <3>1, <3>2 DEF Unshadowed
  <2> QED BY <2>1 DEF Unshadowed
<1> QED BY <1>1, <1>3, <1>4, <1>5 DEF Discovers

(* Others change files, but not those that stay.                           *)
LEMMA ChangeFileDiscovers ==
    ASSUME DiscoveryInv, ChangeFile, scan' = scan
    PROVE  DiscoveryInv'
<1> DEFINE N == Len(disk)
           fewer == SteadyFiles'
<1>1. /\ Discovers(scan, SteadyFiles, N) /\ N \in Nat \ {0} /\ DiskTyped
      /\ disk = [root \in 1..N |-> [p \in Locations |-> disk[root][p]]]
  BY DEF DiscoveryInv, DiskTyped
<1>2. PICK change \in DiskChanges :
          /\ disk' = [disk EXCEPT ![change[1]][change[2]] = change[3]]
          /\ touched' = IF InPhase("none") THEN {} ELSE touched \cup {<<change[1], change[2]>>}
  BY Zenon DEF ChangeFile
<1>3. \A root \in 1..N : disk'[root] = [p \in Locations |-> disk'[root][p]]
  <2> DEFINE r == change[1]
             x == change[2]
             y == change[3]
  <2>1. disk' = [disk EXCEPT ![r] = [disk[r] EXCEPT ![x] = y]]
    BY <1>2
  <2> HIDE DEF r, x, y
  <2>2. \A root \in 1..N : disk'[root] = IF root = r THEN [disk[r] EXCEPT ![x] = y] ELSE disk[root]
    BY <1>1, <2>1
  <2>3. \A root \in 1..N : disk[root] = [p \in Locations |-> disk[root][p]]
    BY <1>1
  <2> QED BY <2>2, <2>3
<1>4. Len(disk') = N /\ disk' = [root \in 1..N |-> disk'[root]]
  <2> DEFINE r == change[1]
             x == change[2]
             y == change[3]
  <2>1. disk' = [disk EXCEPT ![r] = [disk[r] EXCEPT ![x] = y]]
    BY <1>2
  <2> HIDE DEF r, x, y
  <2>2. DOMAIN disk' = 1..N /\ disk' = [root \in 1..N |-> disk'[root]]
    BY <1>1, <2>1
  <2>3. disk' \in Seq({disk'[root] : root \in 1..N})
    BY <1>1, <2>2
  <2> QED BY <1>1, <2>2, <2>3
<1>5. DiskTyped'
  <2>1. disk' = [root \in 1..N |-> [p \in Locations |-> disk'[root][p]]]
    <3> HIDE DEF N
    <3> QED BY <1>3, <1>4
  <2> QED BY <1>1, <1>4, <2>1 DEF DiskTyped, Locations
<1>6. ASSUME InPhase("none") PROVE Discovers(scan, fewer, N)
  <2>1. /\ ScanTyped(scan, N) /\ scan.phase = "none"
        /\ scan.root = 1 /\ scan.entries = <<>>
    BY <1>1, <1>6 DEF Discovers, ScanTyped, InPhase
  <2> HIDE DEF fewer, N
  <2>2. NoneOverlooked(scan, fewer) /\ EarlierClaimed(scan, fewer)
    BY <2>1 DEF NoneOverlooked, EarlierClaimed
  <2>3. Unshadowed(scan, fewer)
    BY <2>1, EmptySequence DEF Unshadowed
  <2> QED BY <2>1, <2>2, <2>3 DEF Discovers
<1>7. ASSUME ~InPhase("none") PROVE Discovers(scan, fewer, N)
  <2>1. touched' = touched \cup {<<change[1], change[2]>>}
    BY <1>2, <1>7
  <2>2. ASSUME NEW root \in 1..N, NEW p \in Paths, Steady(root, p)'
        PROVE  Steady(root, p)
    <3>1. p \in Seq(Seq(STRING)) /\ Len(p) \in Nat \ {0} /\ SubSeq(p, 1, Len(p)) = p
      BY PathsAre, FirstParts
    <3>2. ASSUME NEW n \in 0..Len(p)
          PROVE  /\ disk'[root][SubSeq(p, 1, n)] = disk[root][SubSeq(p, 1, n)]
                 /\ <<root, SubSeq(p, 1, n)>> \notin touched
      <4> DEFINE q == SubSeq(p, 1, n)
                 r == change[1]
                 x == change[2]
                 y == change[3]
      <4>1. <<root, q>> \notin touched'
        BY <2>2 DEF Steady
      <4>2. q \in Locations
        BY DiscoveryAssumption
      <4> HIDE DEF q, r, x, y
      <4>3. <<root, q>> \notin touched /\ (root # r \/ q # x)
        BY <2>1, <4>1 DEF r, x
      <4>4. disk' = [disk EXCEPT ![r] = [disk[r] EXCEPT ![x] = y]]
        BY <1>2 DEF r, x, y
      <4>5. disk'[root] = IF root = r THEN [disk[r] EXCEPT ![x] = y] ELSE disk[root]
        BY <1>1, <4>4
      <4>6. DOMAIN disk[root] = Locations
        BY <1>1
      <4>7. disk'[root][q] = disk[root][q]
        BY <4>2, <4>3, <4>5, <4>6
      <4> QED BY <4>3, <4>7 DEF q
    <3>3. \A n \in 0..(Len(p) - 1) : n \in 0..Len(p)
      BY <3>1
    <3>4. Len(p) \in 0..Len(p)
      BY <3>1
    <3>5. disk'[root][p] = disk[root][p]
      BY <3>1, <3>2, <3>4
    <3>6. Kind(root, p)' = Kind(root, p)
      BY <3>2, <3>3, <3>5 DEF Kind
    <3> QED BY <2>2, <3>2, <3>3, <3>6 DEF Steady
  <2>3. \A root \in 1..N : fewer[root] \subseteq SteadyFiles[root]
    <3>1. fewer = [root \in 1..N |-> {p \in Paths : Steady(root, p)'}]
      BY <1>4 DEF SteadyFiles, Paths
    <3> HIDE DEF fewer, N
    <3>2. SteadyFiles = [root \in 1..N |-> {p \in Paths : Steady(root, p)}]
      BY DEF SteadyFiles, N
    <3> QED BY <2>2, <3>1, <3>2
  <2> HIDE DEF fewer, N
  <2> QED BY <1>1, <2>3, FewerSteady
<1>8. Discovers(scan', fewer, Len(disk'))
  BY <1>4, <1>6, <1>7
<1>9. Discovers(scan, SteadyFiles, Len(disk))' = Discovers(scan', SteadyFiles', Len(disk'))
  BY DEF Discovers, ScanTyped, IsScan, NoneOverlooked, EarlierClaimed, Unshadowed,
         WillBeFound, WillBeClaimed, OnTheWay, Identifier, Identified
<1> QED BY <1>5, <1>8, <1>9 DEF DiscoveryInv

-----------------------------------------------------------------------------
(* The launcher: what is in order in every state.                          *)

CatalogTyped(c) == IsSequence(c.visible) /\ IsSequence(c.eligible)

(* Of a job or of its completion: it is the last refresh, the last query.  *)
LastRefresh(x, g) == x.kind = "refresh" /\ x.generation = g
LastSearch(x, g, r) == x.kind = "search" /\ x.catalogGeneration = g /\ x.requestGeneration = r

JobTyped(job, g) ==
    \/ job.kind = "refresh" /\ job.generation \in 0..g
    \/ job.kind = "search" /\ CatalogTyped(job.catalog)

CompletionTyped(c, g) ==
    /\ c.kind = "refresh" =>
           /\ c.generation \in 0..g
           /\ Ok(c.result) => CatalogTyped(c.result.value) /\ c.result.value.generation = c.generation
    /\ c.kind = "search" /\ Ok(c.result) =>
           /\ IsSequence(c.result.value.results)
           /\ c.result.value.requestGeneration = c.requestGeneration

(* A job may wait, run, and have posted its completion.                    *)
Pending(ix) == ix.pending # Absent
InProgress(ix) == ix.running # Absent
PostedRefresh(po, g) == \E n \in 1..Len(po) : LastRefresh(po[n], g)
PostedSearch(po, g, r) == \E n \in 1..Len(po) : LastSearch(po[n], g, r)

RefreshDue(ix, po, g) ==
    \/ Pending(ix) /\ LastRefresh(ix.pending[1], g)
    \/ InProgress(ix) /\ LastRefresh(ix.running[1], g)
    \/ PostedRefresh(po, g)
SearchDue(ix, po, g, r) ==
    \/ Pending(ix) /\ LastSearch(ix.pending[1], g, r)
    \/ InProgress(ix) /\ LastSearch(ix.running[1], g, r)
    \/ PostedSearch(po, g, r)

(* The last refresh is in one place only.                                  *)
PostedOnce(po, g) ==
    \A m, n \in 1..Len(po) : LastRefresh(po[m], g) /\ LastRefresh(po[n], g) => m = n
DueOnce(ix, po, g) ==
    /\ Pending(ix) /\ LastRefresh(ix.pending[1], g) =>
           /\ ~(InProgress(ix) /\ LastRefresh(ix.running[1], g))
           /\ ~PostedRefresh(po, g)
    /\ InProgress(ix) /\ LastRefresh(ix.running[1], g) => ~PostedRefresh(po, g)
    /\ PostedOnce(po, g)

ControllerTyped(c) ==
    /\ c = [catalogGeneration |-> c.catalogGeneration, requestGeneration |-> c.requestGeneration,
            query |-> c.query, catalog |-> c.catalog]
    /\ c.catalogGeneration \in Nat /\ c.requestGeneration \in Nat
    /\ c.catalog # Absent =>
           /\ c.catalog = Present(c.catalog[1])
           /\ CatalogTyped(c.catalog[1]) /\ c.catalog[1].generation = c.catalogGeneration

IndexTyped(ix, g) ==
    /\ ix = [pending |-> ix.pending, running |-> ix.running, cancelled |-> ix.cancelled]
    /\ Pending(ix) => JobTyped(ix.pending[1], g)
    /\ InProgress(ix) => JobTyped(ix.running[1], g)
PostedTyped(po, g) == IsSequence(po) /\ \A n \in 1..Len(po) : CompletionTyped(po[n], g)

(* The rows are those of a valid catalog's valid results.                  *)
Shown(v) ==
    /\ v = [catalog |-> v.catalog, search |-> v.search, rows |-> v.rows]
    /\ v.search = Absent => v = NoView
    /\ v.search # Absent =>
           /\ v.catalog = Present(v.catalog[1]) /\ v.search = Present(v.search[1])
           /\ CatalogTyped(v.catalog[1]) /\ ValidateCatalog(v.catalog[1])
           /\ IsSequence(v.search[1].results) /\ ValidateSearch(v.catalog[1], v.search[1])
           /\ v.rows = ResultRows(v.catalog[1], v.search[1])

(* A view of the last refresh is one of the controller's catalog, or shows *)
(* that the refresh has failed.                                            *)
ViewFits(v, c, due) ==
    v.search # Absent =>
        /\ v.search[1].catalogGeneration \in 0..c.catalogGeneration
        /\ v.search[1].requestGeneration \in 0..c.requestGeneration
        /\ v.search[1].catalogGeneration = c.catalogGeneration =>
               /\ ~due
               /\ c.catalog # Absent => v.catalog = c.catalog

(* Nothing that the user waits for is lost.                                *)
ViewShowsError(v, c) ==
    /\ v.search # Absent /\ v.search[1].catalogGeneration = c.catalogGeneration
    /\ v.search[1].state = "error"
ViewAnswers(v, c) ==
    /\ v.search # Absent /\ v.search[1].catalogGeneration = c.catalogGeneration
    /\ v.search[1].requestGeneration = c.requestGeneration
NothingIsLost(v, c, ix, po) ==
    c.catalogGeneration > 0 =>
        /\ c.catalog = Absent =>
               RefreshDue(ix, po, c.catalogGeneration) \/ ViewShowsError(v, c)
        /\ c.catalog # Absent =>
               \/ ~ValidateCatalog(c.catalog[1])
               \/ SearchDue(ix, po, c.catalogGeneration, c.requestGeneration)
               \/ ViewAnswers(v, c)

InOrder(c, ix, po, v) ==
    /\ ControllerTyped(c) /\ IndexTyped(ix, c.catalogGeneration)
    /\ PostedTyped(po, c.catalogGeneration) /\ DueOnce(ix, po, c.catalogGeneration)
    /\ c.catalog # Absent => ~RefreshDue(ix, po, c.catalogGeneration)
    /\ Shown(v) /\ ViewFits(v, c, RefreshDue(ix, po, c.catalogGeneration))

HonestLaunch(l) ==
    /\ l = [pending |-> l.pending, running |-> l.running, processing |-> l.processing]
    /\ \A job \in ToSet(l.pending) \cup ToSet(l.running) : job.entry = job.shown

LauncherInv ==
    /\ DiscoveryInv /\ InOrder(controller, index, posted, view)
    /\ ~stopping => NothingIsLost(view, controller, index, posted)
    /\ HonestLaunch(launch)

-----------------------------------------------------------------------------
(* The search and the view.                                                *)

(* The results are a sequence.                                             *)
LEMMA ResultsAre ==
    ASSUME NEW c, CatalogTyped(c), NEW query
    PROVE  IsSequence(Results(c, query))
<1> DEFINE matching == Matching(c, query)
           K == IF Cardinality(matching) < ResultLimit THEN Cardinality(matching) ELSE ResultLimit
           Better(i) == {j \in matching : KeyLess(SortKey(c.entries[j], query),
                                                  SortKey(c.entries[i], query))}
           Best(n) == CHOOSE i \in matching : Cardinality(Better(i)) = n - 1
           r == [n \in 1..K |-> Best(n)]
<1>1. Cardinality(matching) \in Nat
  <2>1. IsFiniteSet(ToSet(c.eligible))
    <3>1. c.eligible \in Seq(ToSet(c.eligible)) /\ DOMAIN c.eligible = 1..Len(c.eligible)
          /\ Len(c.eligible) \in Nat
      BY HasRange DEF CatalogTyped, IsSequence
    <3>2. IsFiniteSet(1..Len(c.eligible))
      BY <3>1, FS_Interval
    <3>3. c.eligible \in Surjection(1..Len(c.eligible), ToSet(c.eligible))
      BY <3>1 DEF Surjection, ToSet
    <3> QED BY <3>2, <3>3, FS_Surjection
  <2>2. matching \subseteq ToSet(c.eligible)
    BY DEF Matching
  <2> HIDE DEF matching
  <2> QED BY <2>1, <2>2, FS_Subset, FS_CardinalityType
<1>2. K \in Nat
  <2> DEFINE card == Cardinality(matching)
  <2> HIDE DEF card
  <2> QED BY <1>1, LauncherAssumption DEF card
<1>3. Results(c, query) = r
  BY Zenon DEF Results
<1> HIDE DEF K, Best
<1>4. r \in Seq({Best(n) : n \in 1..K})
  BY <1>2
<1>5. IsSequence(r)
  <2> HIDE DEF r
  <2> QED BY <1>4, SequencesAre
<1> QED BY <1>3, <1>5

(* The rows of valid results are distinct.                                 *)
LEMMA RowsAre ==
    ASSUME NEW c, CatalogTyped(c), ValidateCatalog(c),
           NEW s, IsSequence(s.results), ValidateSearch(c, s)
    PROVE  IsSequence(ResultRows(c, s)) /\ DistinctKeys(ResultRows(c, s))
           /\ \A i, j \in ToSet(s.results) :
                  /\ i \in DOMAIN c.entries
                  /\ c.entries[i].id = c.entries[j].id => i = j
<1> DEFINE results == s.results
           newRows == ResultRows(c, s)
<1>1. DOMAIN results = 1..Len(results) /\ Len(results) \in Nat
  BY HasRange DEF IsSequence
<1>2. /\ ToSet(results) \subseteq ToSet(c.eligible)
      /\ \A m, n \in DOMAIN results : results[m] = results[n] => m = n
  BY Zenon DEF ValidateSearch, IsInjective
<1>3. CatalogIsConsistent(c)
  BY DEF ValidateCatalog
<1>4. ToSet(c.eligible) \subseteq DOMAIN c.entries
  <2> DEFINE keep == {n \in DOMAIN c.visible : c.visible[n] \in ToSet(c.eligible)}
  <2>1. c.eligible = Kept(c.visible, keep)
    BY <1>3 DEF CatalogIsConsistent
  <2>2. \A n \in DOMAIN c.visible : c.visible[n] \in DOMAIN c.entries
    BY <1>3 DEF CatalogIsConsistent
  <2>3. keep \subseteq DOMAIN c.visible
    OBVIOUS
  <2> HIDE DEF keep
  <2>4. ToSet(Kept(c.visible, keep)) = {c.visible[n] : n \in keep}
    BY <2>3, KeptElements DEF CatalogTyped
  <2> QED BY <2>1, <2>2, <2>3, <2>4
<1>5. \A i, j \in DOMAIN c.entries : c.entries[i].id = c.entries[j].id => i = j
  BY <1>3 DEF CatalogIsConsistent
<1>6. newRows = [n \in 1..Len(results) |-> ResultRow(c.entries[results[n]])]
  BY <1>1 DEF ResultRows
<1> HIDE DEF results, newRows
<1>7. newRows \in Seq({newRows[n] : n \in 1..Len(results)}) /\ Len(newRows) = Len(results)
  BY <1>1, <1>6
<1>8. IsSequence(newRows)
  BY <1>7, SequencesAre
<1>9. \A n \in 1..Len(results) : results[n] \in DOMAIN c.entries
  BY <1>1, <1>2, <1>4 DEF ToSet
<1>10. \A n \in 1..Len(results) : newRows[n].key = c.entries[results[n]].id
  BY <1>6 DEF ResultRow
<1>11. DistinctKeys(newRows)
  <2>1. ASSUME NEW m \in 1..Len(results), NEW n \in 1..Len(results), newRows[m].key = newRows[n].key
        PROVE  m = n
    <3>1. results[m] = results[n]
      BY <1>5, <1>9, <1>10, <2>1
    <3> QED BY <1>1, <1>2, <3>1 DEF results
  <2> QED BY <1>7, <2>1 DEF DistinctKeys
<1>12. \A i \in ToSet(results) : i \in DOMAIN c.entries
  BY <1>2, <1>4
<1> QED BY <1>5, <1>8, <1>11, <1>12 DEF results, newRows

(* What an accepted snapshot makes of the view                             *)
(* (LauncherPresentationModel.cpp:229-380).                                *)
LEMMA Applied ==
    ASSUME NEW v, Shown(v), NEW c, CatalogTyped(c), NEW s, IsSequence(s.results),
           AcceptsSearch(v, c, s)
    PROVE  /\ Shown(ApplySearch(v, c, s))
           /\ ApplySearch(v, c, s).catalog = Present(c)
           /\ ApplySearch(v, c, s).search = Present(s)
<1> DEFINE wanted == ResultRows(c, s)
           newRows == Reconcile(SubstituteRows(v.rows, wanted), wanted, ReplacedRows(v.rows, wanted))
           t == ApplySearch(v, c, s)
<1>1. ValidateCatalog(c) /\ ValidateSearch(c, s)
  BY DEF AcceptsSearch
<1>2. IsSequence(wanted) /\ DistinctKeys(wanted)
  BY <1>1, RowsAre
<1>3. IsSequence(v.rows) /\ DistinctKeys(v.rows)
  <2>1. CASE v.search = Absent
    BY <2>1, EmptySequence DEF Shown, NoView, DistinctKeys
  <2>2. CASE v.search # Absent
    BY <2>2, RowsAre DEF Shown
  <2> QED BY <2>1, <2>2
<1>4. t = [catalog |-> Present(c), search |-> Present(s), rows |-> newRows]
  BY Zenon DEF ApplySearch
<1> HIDE DEF wanted, t
<1>5. newRows = wanted
  BY <1>2, <1>3, SearchRowsBecomeWanted
<1> HIDE DEF newRows
<1>6. /\ t.catalog = Present(c) /\ t.search = Present(s) /\ t.rows = wanted
      /\ t = [catalog |-> t.catalog, search |-> t.search, rows |-> t.rows]
      /\ t.search # Absent /\ t.catalog[1] = c /\ t.search[1] = s
  BY <1>4, <1>5 DEF Present, Absent
<1>7. Shown(t)
  BY <1>1, <1>6 DEF Shown, wanted
<1> QED BY <1>6, <1>7 DEF t

(* A catalog of nothing can be shown, and so can an error.                 *)
LEMMA ErrorsAre ==
    ASSUME NEW g, NEW r
    PROVE  /\ CatalogTyped(RefreshErrorCatalog(g)) /\ ValidateCatalog(RefreshErrorCatalog(g))
           /\ RefreshErrorCatalog(g).generation = g
           /\ \A c : c.generation = g => ValidateSearch(c, ErrorSnapshot(g, r))
           /\ IsSequence(ErrorSnapshot(g, r).results)
           /\ ErrorSnapshot(g, r).catalogGeneration = g /\ ErrorSnapshot(g, r).requestGeneration = r
           /\ ErrorSnapshot(g, r).state = "error"
<1> DEFINE c == RefreshErrorCatalog(g)
           s == ErrorSnapshot(g, r)
           e == NoScan
<1>1. NoScan.entries = <<>> /\ NoScan.visible = <<>> /\ NoScan.eligible = <<>>
  <2>1. /\ IsScan(NewScan) /\ NewScan.entries = <<>>
        /\ NewScan.visible = <<>> /\ NewScan.eligible = <<>>
    BY DEF NewScan, ScanOf, IsScan, ScanFields
  <2>2. NoScan = [NewScan EXCEPT !.phase = "none"]
    BY DEF NoScan
  <2> DEFINE t == NoScan
             u == NewScan
  <2> HIDE DEF t, u
  <2>3. t.entries = <<>> /\ t.visible = <<>> /\ t.eligible = <<>>
    BY <2>1, <2>2, ScanNames DEF IsScan, t
  <2> QED BY <2>3 DEF t
<1>2. c.generation = g /\ c.entries = <<>> /\ c.visible = <<>> /\ c.eligible = <<>>
  <2> HIDE DEF e
  <2>1. c = [generation |-> g, entries |-> e.entries, visible |-> e.visible, eligible |-> e.eligible]
    BY DEF RefreshErrorCatalog, Catalog, e
  <2> HIDE DEF c
  <2> QED BY <1>1, <2>1 DEF e
<1>3. /\ s.catalogGeneration = g /\ s.requestGeneration = r /\ s.state = "error"
      /\ s.results = <<>> /\ s.truncated = FALSE
  BY DEF ErrorSnapshot
<1> HIDE DEF c, s
<1>4. CatalogTyped(c)
  BY <1>2, EmptySequence DEF CatalogTyped
<1>5. CatalogIsConsistent(c)
  <2> DEFINE keep == {n \in DOMAIN c.visible : c.visible[n] \in ToSet(c.eligible)}
             k == Kept(<<>>, {})
  <2>1. keep = {}
    BY <1>2, EmptySequence
  <2>2. k = <<>>
    <3>1. IsSequence(k) /\ ToSet(k) = {}
      <4>1. IsSequence(k) /\ ToSet(k) = { <<>>[i] : i \in {}}
        BY EmptySequence, KeptElements
      <4> QED BY <4>1
    <3> HIDE DEF k
    <3>2. k \in Seq({})
      BY <3>1, HasRange
    <3> QED BY <3>2
  <2>3. c.eligible = Kept(c.visible, keep)
    BY <1>2, <2>1, <2>2
  <2>4. DOMAIN c.entries = {} /\ DOMAIN c.visible = {}
    BY <1>2, EmptySequence
  <2> QED BY <2>3, <2>4 DEF CatalogIsConsistent, IsInjective
<1>6. ValidateCatalog(c)
  BY <1>2, <1>5, EmptySequence DEF ValidateCatalog
<1>7. ASSUME NEW d, d.generation = g PROVE ValidateSearch(d, s)
  <2>1. ToSet(s.results) = {} /\ IsInjective(s.results)
    BY <1>3, EmptySequence DEF IsInjective
  <2> QED BY <1>3, <1>7, <2>1 DEF ValidateSearch
<1> QED BY <1>2, <1>3, <1>4, <1>6, <1>7, EmptySequence DEF c, s

-----------------------------------------------------------------------------
(* The completions in the owner's event loop.                              *)

(* One is posted behind the others.                                        *)
LEMMA PostAppended ==
    ASSUME NEW po, NEW g, PostedTyped(po, g), NEW c, CompletionTyped(c, g)
    PROVE  /\ PostedTyped(Append(po, c), g)
           /\ PostedRefresh(Append(po, c), g) <=> PostedRefresh(po, g) \/ LastRefresh(c, g)
           /\ \A r : PostedSearch(Append(po, c), g, r) <=>
                         PostedSearch(po, g, r) \/ LastSearch(c, g, r)
           /\ PostedOnce(po, g) /\ (LastRefresh(c, g) => ~PostedRefresh(po, g))
                  => PostedOnce(Append(po, c), g)
<1> DEFINE t == Append(po, c)
           L == Len(po)
<1>1. /\ IsSequence(t) /\ Len(t) = L + 1 /\ t[L + 1] = c /\ L \in Nat
      /\ \A n \in 1..L : t[n] = po[n]
  BY Appended DEF PostedTyped, IsSequence
<1>2. \A n \in 1..L : CompletionTyped(po[n], g)
  BY DEF PostedTyped
<1> HIDE DEF t, L
<1>3. L + 1 \in 1..(L + 1) /\ \A n \in 1..(L + 1) : n = L + 1 \/ n \in 1..L
  BY <1>1
<1>4. \A n \in 1..L : n \in 1..(L + 1) /\ n # L + 1
  BY <1>1
<1>5. PostedTyped(t, g)
  BY <1>1, <1>2, <1>3 DEF PostedTyped
<1>6. PostedRefresh(t, g) <=> PostedRefresh(po, g) \/ LastRefresh(c, g)
  BY <1>1, <1>3, <1>4 DEF PostedRefresh, L
<1>7. \A r : PostedSearch(t, g, r) <=> PostedSearch(po, g, r) \/ LastSearch(c, g, r)
  BY <1>1, <1>3, <1>4 DEF PostedSearch, L
<1>8. ASSUME PostedOnce(po, g), LastRefresh(c, g) => ~PostedRefresh(po, g)
      PROVE  PostedOnce(t, g)
  <2>1. ASSUME NEW m \in 1..(L + 1), NEW n \in 1..(L + 1),
               LastRefresh(t[m], g), LastRefresh(t[n], g)
        PROVE  m = n
    <3>1. CASE m \in 1..L /\ n \in 1..L
      BY <1>1, <1>8, <2>1, <3>1 DEF PostedOnce, L
    <3>2. CASE m = L + 1 /\ n \in 1..L
      BY <1>1, <1>8, <2>1, <3>2 DEF PostedRefresh, L
    <3>3. CASE n = L + 1 /\ m \in 1..L
      BY <1>1, <1>8, <2>1, <3>3 DEF PostedRefresh, L
    <3> QED BY <1>3, <3>1, <3>2, <3>3
  <2> QED BY <1>1, <2>1 DEF PostedOnce
<1> QED BY <1>5, <1>6, <1>7, <1>8 DEF t

(* The first one is handled.                                               *)
LEMMA PostTaken ==
    ASSUME NEW po, NEW g, PostedTyped(po, g), po # <<>>
    PROVE  /\ PostedTyped(Tail(po), g) /\ CompletionTyped(Head(po), g)
           /\ PostedRefresh(po, g) <=> PostedRefresh(Tail(po), g) \/ LastRefresh(Head(po), g)
           /\ \A r : PostedSearch(po, g, r) <=>
                         PostedSearch(Tail(po), g, r) \/ LastSearch(Head(po), g, r)
           /\ PostedOnce(po, g) =>
                  /\ PostedOnce(Tail(po), g)
                  /\ LastRefresh(Head(po), g) => ~PostedRefresh(Tail(po), g)
<1> DEFINE t == Tail(po)
           c == Head(po)
           L == Len(po)
<1>1. /\ IsSequence(t) /\ Len(t) = L - 1 /\ c = po[1] /\ 1 \in 1..L /\ L \in Nat
      /\ \A n \in 1..(L - 1) : n + 1 \in 1..L /\ t[n] = po[n + 1]
  BY Tailed, HasRange DEF PostedTyped, IsSequence
<1>2. \A n \in 1..L : CompletionTyped(po[n], g)
  BY DEF PostedTyped
<1> HIDE DEF t, c, L
<1>3. \A n \in 1..L : n = 1 \/ (n - 1 \in 1..(L - 1) /\ t[n - 1] = po[n])
  <2>1. \A n \in 1..L : n = 1 \/ (n - 1 \in 1..(L - 1) /\ (n - 1) + 1 = n)
    BY <1>1
  <2> QED BY <1>1, <2>1
<1>4. PostedTyped(t, g) /\ CompletionTyped(c, g)
  BY <1>1, <1>2 DEF PostedTyped
<1>5. PostedRefresh(po, g) <=> PostedRefresh(t, g) \/ LastRefresh(c, g)
  BY <1>1, <1>3 DEF PostedRefresh, L
<1>6. \A r : PostedSearch(po, g, r) <=> PostedSearch(t, g, r) \/ LastSearch(c, g, r)
  BY <1>1, <1>3 DEF PostedSearch, L
<1>7. ASSUME PostedOnce(po, g)
      PROVE  PostedOnce(t, g) /\ (LastRefresh(c, g) => ~PostedRefresh(t, g))
  <2>1. \A m, n \in 1..L : LastRefresh(po[m], g) /\ LastRefresh(po[n], g) => m = n
    BY <1>7 DEF PostedOnce, L
  <2>2. ASSUME NEW m \in 1..(L - 1), NEW n \in 1..(L - 1),
               LastRefresh(t[m], g), LastRefresh(t[n], g)
        PROVE  m = n
    <3>1. m + 1 = n + 1
      BY <1>1, <2>1, <2>2
    <3> QED BY <1>1, <3>1
  <2>3. ASSUME LastRefresh(c, g), NEW n \in 1..(L - 1), LastRefresh(t[n], g) PROVE FALSE
    <3>1. n + 1 = 1
      BY <1>1, <2>1, <2>3
    <3> QED BY <1>1, <3>1
  <2> QED BY <1>1, <2>2, <2>3 DEF PostedOnce, PostedRefresh
<1> QED BY <1>4, <1>5, <1>6, <1>7 DEF t, c

(* A newer refresh finds none of its own.                                  *)
LEMMA NewerRefresh ==
    ASSUME NEW g \in Nat, NEW po, PostedTyped(po, g), NEW ix, IndexTyped(ix, g)
    PROVE  /\ PostedTyped(po, g + 1) /\ IndexTyped(ix, g + 1)
           /\ ~PostedRefresh(po, g + 1) /\ PostedOnce(po, g + 1)
           /\ InProgress(ix) => ~LastRefresh(ix.running[1], g + 1)
<1>1. \A n \in 0..g : n \in 0..(g + 1) /\ n # g + 1
  OBVIOUS
<1>2. \A n \in 1..Len(po) : CompletionTyped(po[n], g)
  BY DEF PostedTyped
<1>3. \A n \in 1..Len(po) : CompletionTyped(po[n], g + 1) /\ ~LastRefresh(po[n], g + 1)
  BY <1>1, <1>2 DEF CompletionTyped, LastRefresh
<1>4. IndexTyped(ix, g + 1)
  BY <1>1 DEF IndexTyped, JobTyped
<1>5. InProgress(ix) => ~LastRefresh(ix.running[1], g + 1)
  BY <1>1 DEF IndexTyped, JobTyped, LastRefresh
<1> QED BY <1>3, <1>4, <1>5 DEF PostedTyped, PostedRefresh, PostedOnce

-----------------------------------------------------------------------------
(* The workers' steps.                                                     *)

(* Where jobs and completions move, and none is new.                       *)
LEMMA NoneIsNew ==
    ASSUME NEW co, NEW ix, NEW po, NEW v, InOrder(co, ix, po, v), NEW jx, NEW qo,
           IndexTyped(jx, co.catalogGeneration), PostedTyped(qo, co.catalogGeneration),
           DueOnce(jx, qo, co.catalogGeneration),
           RefreshDue(jx, qo, co.catalogGeneration) => RefreshDue(ix, po, co.catalogGeneration)
    PROVE  InOrder(co, jx, qo, v)
<1>1. ViewFits(v, co, RefreshDue(jx, qo, co.catalogGeneration))
  BY DEF InOrder, ViewFits
<1> QED BY <1>1 DEF InOrder

(* And none is lost.                                                       *)
LEMMA NoneIsLost ==
    ASSUME NEW co, NEW ix, NEW po, NEW v, NothingIsLost(v, co, ix, po), NEW jx, NEW qo,
           RefreshDue(ix, po, co.catalogGeneration) => RefreshDue(jx, qo, co.catalogGeneration),
           SearchDue(ix, po, co.catalogGeneration, co.requestGeneration)
               => SearchDue(jx, qo, co.catalogGeneration, co.requestGeneration)
    PROVE  NothingIsLost(v, co, jx, qo)
BY DEF NothingIsLost

(* A job is taken (LauncherController.cpp:169).                            *)
LEMMA Taken ==
    ASSUME NEW co, NEW ix, NEW po, NEW v, InOrder(co, ix, po, v),
           Pending(ix), ~InProgress(ix), NEW jx,
           jx = [pending |-> Absent, running |-> ix.pending, cancelled |-> FALSE]
    PROVE  InOrder(co, jx, po, v) /\ (NothingIsLost(v, co, ix, po) => NothingIsLost(v, co, jx, po))
<1> DEFINE g == co.catalogGeneration
<1>1. IndexTyped(ix, g) /\ PostedTyped(po, g) /\ DueOnce(ix, po, g)
  BY DEF InOrder
<1>2. /\ jx.pending = Absent /\ jx.running = ix.pending
      /\ jx = [pending |-> jx.pending, running |-> jx.running, cancelled |-> jx.cancelled]
  OBVIOUS
<1>3. ~Pending(jx) /\ InProgress(jx)
  BY <1>2 DEF Pending, InProgress
<1> HIDE DEF g
<1>4. IndexTyped(jx, g)
  BY <1>1, <1>2, <1>3 DEF IndexTyped
<1>5. DueOnce(jx, po, g)
  BY <1>1, <1>2, <1>3 DEF DueOnce
<1>6. RefreshDue(jx, po, g) <=> RefreshDue(ix, po, g)
  BY <1>2, <1>3 DEF RefreshDue
<1>7. \A r : SearchDue(jx, po, g, r) <=> SearchDue(ix, po, g, r)
  BY <1>2, <1>3 DEF SearchDue
<1>8. InOrder(co, jx, po, v)
  BY <1>1, <1>4, <1>5, <1>6, NoneIsNew DEF g
<1>9. NothingIsLost(v, co, ix, po) => NothingIsLost(v, co, jx, po)
  BY <1>6, <1>7, NoneIsLost DEF g
<1> QED BY <1>8, <1>9

(* A completion stands for its job (LauncherController.cpp:203-238).       *)
LEMMA Completed ==
    ASSUME NEW co, NEW ix, NEW po, NEW v, InOrder(co, ix, po, v), InProgress(ix), NEW c,
           CompletionTyped(c, co.catalogGeneration),
           LastRefresh(c, co.catalogGeneration) <=> LastRefresh(ix.running[1], co.catalogGeneration),
           LastSearch(c, co.catalogGeneration, co.requestGeneration)
               <=> LastSearch(ix.running[1], co.catalogGeneration, co.requestGeneration),
           NEW jx, jx = [ix EXCEPT !.running = Absent, !.cancelled = FALSE]
    PROVE  /\ InOrder(co, jx, Append(po, c), v)
           /\ NothingIsLost(v, co, ix, po) => NothingIsLost(v, co, jx, Append(po, c))
<1> DEFINE g == co.catalogGeneration
           r == co.requestGeneration
           qo == Append(po, c)
<1>1. IndexTyped(ix, g) /\ PostedTyped(po, g) /\ DueOnce(ix, po, g)
  BY DEF InOrder
<1>2. /\ jx.pending = ix.pending /\ jx.running = Absent
      /\ jx = [pending |-> jx.pending, running |-> jx.running, cancelled |-> jx.cancelled]
  BY <1>1 DEF IndexTyped
<1>3. (Pending(jx) <=> Pending(ix)) /\ ~InProgress(jx)
  BY <1>2 DEF Pending, InProgress
<1>4. /\ LastRefresh(c, g) <=> LastRefresh(ix.running[1], g)
      /\ LastSearch(c, g, r) <=> LastSearch(ix.running[1], g, r)
  OBVIOUS
<1>5. /\ PostedTyped(qo, g)
      /\ PostedRefresh(qo, g) <=> PostedRefresh(po, g) \/ LastRefresh(c, g)
      /\ PostedSearch(qo, g, r) <=> PostedSearch(po, g, r) \/ LastSearch(c, g, r)
      /\ PostedOnce(po, g) /\ (LastRefresh(c, g) => ~PostedRefresh(po, g)) => PostedOnce(qo, g)
  BY <1>1, PostAppended
<1> HIDE DEF g, r, qo
<1>6. IndexTyped(jx, g)
  BY <1>1, <1>2, <1>3 DEF IndexTyped
<1>7. DueOnce(jx, qo, g)
  BY <1>1, <1>2, <1>3, <1>4, <1>5 DEF DueOnce
<1>8. RefreshDue(jx, qo, g) <=> RefreshDue(ix, po, g)
  BY <1>2, <1>3, <1>4, <1>5 DEF RefreshDue
<1>9. SearchDue(jx, qo, g, r) <=> SearchDue(ix, po, g, r)
  BY <1>2, <1>3, <1>4, <1>5 DEF SearchDue
<1>10. InOrder(co, jx, qo, v)
  BY <1>5, <1>6, <1>7, <1>8, NoneIsNew DEF g
<1>11. NothingIsLost(v, co, ix, po) => NothingIsLost(v, co, jx, qo)
  BY <1>8, <1>9, NoneIsLost DEF g, r
<1> QED BY <1>10, <1>11 DEF qo

(* A completion that is of neither the last refresh nor the last search.   *)
LEMMA LaunchPosted ==
    ASSUME NEW co, NEW ix, NEW po, NEW v, InOrder(co, ix, po, v), NEW c, c.kind = "launch"
    PROVE  /\ InOrder(co, ix, Append(po, c), v)
           /\ NothingIsLost(v, co, ix, po) => NothingIsLost(v, co, ix, Append(po, c))
<1> DEFINE g == co.catalogGeneration
           r == co.requestGeneration
           qo == Append(po, c)
<1>1. IndexTyped(ix, g) /\ PostedTyped(po, g) /\ DueOnce(ix, po, g)
  BY DEF InOrder
<1>2. CompletionTyped(c, g) /\ ~LastRefresh(c, g) /\ ~LastSearch(c, g, r)
  BY DEF CompletionTyped, LastRefresh, LastSearch
<1>3. /\ PostedTyped(qo, g)
      /\ PostedRefresh(qo, g) <=> PostedRefresh(po, g) \/ LastRefresh(c, g)
      /\ PostedSearch(qo, g, r) <=> PostedSearch(po, g, r) \/ LastSearch(c, g, r)
      /\ PostedOnce(po, g) /\ (LastRefresh(c, g) => ~PostedRefresh(po, g)) => PostedOnce(qo, g)
  BY <1>1, <1>2, PostAppended
<1> HIDE DEF g, r, qo
<1>4. DueOnce(ix, qo, g)
  BY <1>1, <1>2, <1>3 DEF DueOnce
<1>5. /\ RefreshDue(ix, qo, g) <=> RefreshDue(ix, po, g)
      /\ SearchDue(ix, qo, g, r) <=> SearchDue(ix, po, g, r)
  BY <1>2, <1>3 DEF RefreshDue, SearchDue
<1>6. InOrder(co, ix, qo, v)
  BY <1>1, <1>3, <1>4, <1>5, NoneIsNew DEF g
<1>7. NothingIsLost(v, co, ix, po) => NothingIsLost(v, co, ix, qo)
  BY <1>5, NoneIsLost DEF g, r
<1> QED BY <1>6, <1>7 DEF qo

(* A completion that nothing is made of.                                   *)
LEMMA Dropped ==
    ASSUME NEW co, NEW ix, NEW po, NEW v, InOrder(co, ix, po, v), po # <<>>,
           ~LastRefresh(Head(po), co.catalogGeneration)
    PROVE  /\ InOrder(co, ix, Tail(po), v)
           /\ RefreshDue(ix, Tail(po), co.catalogGeneration)
                  <=> RefreshDue(ix, po, co.catalogGeneration)
           /\ /\ NothingIsLost(v, co, ix, po)
              /\ \/ co.catalog = Absent
                 \/ ~LastSearch(Head(po), co.catalogGeneration, co.requestGeneration)
                 \/ ViewAnswers(v, co)
              => NothingIsLost(v, co, ix, Tail(po))
<1> DEFINE g == co.catalogGeneration
           r == co.requestGeneration
           qo == Tail(po)
           c == Head(po)
<1>1. IndexTyped(ix, g) /\ PostedTyped(po, g) /\ DueOnce(ix, po, g) /\ ~LastRefresh(c, g)
  BY DEF InOrder
<1>2. /\ PostedTyped(qo, g)
      /\ PostedRefresh(po, g) <=> PostedRefresh(qo, g) \/ LastRefresh(c, g)
      /\ PostedSearch(po, g, r) <=> PostedSearch(qo, g, r) \/ LastSearch(c, g, r)
      /\ PostedOnce(po, g) => PostedOnce(qo, g)
  BY <1>1, PostTaken
<1> HIDE DEF g, r, qo, c
<1>3. DueOnce(ix, qo, g)
  BY <1>1, <1>2 DEF DueOnce
<1>4. /\ RefreshDue(ix, qo, g) <=> RefreshDue(ix, po, g)
      /\ SearchDue(ix, po, g, r) => SearchDue(ix, qo, g, r) \/ LastSearch(c, g, r)
  BY <1>1, <1>2 DEF RefreshDue, SearchDue
<1>5. InOrder(co, ix, qo, v)
  BY <1>1, <1>2, <1>3, <1>4, NoneIsNew DEF g
<1>6. ASSUME NothingIsLost(v, co, ix, po),
             co.catalog = Absent \/ ~LastSearch(c, g, r) \/ ViewAnswers(v, co)
      PROVE  NothingIsLost(v, co, ix, qo)
  BY <1>4, <1>6 DEF NothingIsLost, g, r
<1> QED BY <1>4, <1>5, <1>6 DEF qo, c, g, r

-----------------------------------------------------------------------------
(* The owner's steps.                                                      *)

Submitted(ix, job) ==
    [ix EXCEPT !.pending = Present(job), !.cancelled = (ix.running # Absent)]

LEMMA SubmittedIndex ==
    ASSUME NEW ix, NEW g, IndexTyped(ix, g), NEW job, JobTyped(job, g)
    PROVE  /\ IndexTyped(Submitted(ix, job), g)
           /\ Pending(Submitted(ix, job)) /\ Submitted(ix, job).pending[1] = job
           /\ Submitted(ix, job).running = ix.running
<1> DEFINE jx == Submitted(ix, job)
<1>1. jx = [ix EXCEPT !.pending = Present(job), !.cancelled = (ix.running # Absent)]
  BY DEF Submitted
<1> HIDE DEF jx
<1>2. /\ jx.pending = Present(job) /\ jx.running = ix.running
      /\ jx = [pending |-> jx.pending, running |-> jx.running, cancelled |-> jx.cancelled]
  BY <1>1 DEF IndexTyped
<1>3. jx.pending # Absent /\ jx.pending[1] = job
  BY <1>2 DEF Present, Absent
<1>4. IndexTyped(jx, g)
  BY <1>2, <1>3 DEF IndexTyped, Pending, InProgress
<1> QED BY <1>2, <1>3, <1>4 DEF Pending, jx

(* A refresh replaces whatever waits (LauncherController.cpp:382-410).     *)
LEMMA RefreshKeepsOrder ==
    ASSUME NEW co, NEW ix, NEW po, NEW v, InOrder(co, ix, po, v), NEW d, d = StartRefresh(co)
    PROVE  LET jx == Submitted(ix, RefreshJob(co.catalogGeneration + 1))
           IN  InOrder(d, jx, po, v) /\ NothingIsLost(v, d, jx, po)
<1> DEFINE g == co.catalogGeneration
           job == RefreshJob(g + 1)
           jx == Submitted(ix, job)
<1>1. /\ ControllerTyped(co) /\ IndexTyped(ix, g) /\ PostedTyped(po, g) /\ g \in Nat
      /\ Shown(v) /\ ViewFits(v, co, RefreshDue(ix, po, g))
  BY DEF InOrder, ControllerTyped
<1>2. /\ d.catalogGeneration = g + 1 /\ d.requestGeneration = co.requestGeneration
      /\ d.catalog = Absent
      /\ d = [catalogGeneration |-> d.catalogGeneration, requestGeneration |-> d.requestGeneration,
              query |-> d.query, catalog |-> d.catalog]
  BY <1>1 DEF ControllerTyped, StartRefresh
<1>3. job.kind = "refresh" /\ job.generation = g + 1
  BY DEF RefreshJob
<1> HIDE DEF g, job
<1>4. LastRefresh(job, g + 1) /\ JobTyped(job, g + 1) /\ g + 1 \in Nat
  BY <1>1, <1>3 DEF LastRefresh, JobTyped
<1>5. /\ PostedTyped(po, g + 1) /\ IndexTyped(ix, g + 1)
      /\ ~PostedRefresh(po, g + 1) /\ PostedOnce(po, g + 1)
      /\ InProgress(ix) => ~LastRefresh(ix.running[1], g + 1)
  BY <1>1, NewerRefresh
<1>6. /\ IndexTyped(jx, g + 1) /\ Pending(jx) /\ jx.pending[1] = job /\ jx.running = ix.running
  BY <1>4, <1>5, SubmittedIndex
<1> HIDE DEF jx
<1>7. DueOnce(jx, po, g + 1) /\ RefreshDue(jx, po, g + 1)
  BY <1>4, <1>5, <1>6 DEF DueOnce, RefreshDue, InProgress
<1>8. ControllerTyped(d)
  BY <1>1, <1>2, <1>4 DEF ControllerTyped
<1>9. ViewFits(v, d, RefreshDue(jx, po, g + 1))
  <2> DEFINE k == v.search[1].catalogGeneration
             m == v.search[1].requestGeneration
  <2>1. v.search # Absent => k \in 0..g /\ m \in 0..co.requestGeneration
    BY <1>1 DEF ViewFits, g
  <2> HIDE DEF k, m
  <2>2. v.search # Absent => k \in 0..(g + 1) /\ k # g + 1
    BY <1>1, <2>1
  <2> QED BY <1>2, <2>1, <2>2 DEF ViewFits, k, m
<1>10. InOrder(d, jx, po, v)
  BY <1>1, <1>2, <1>5, <1>6, <1>7, <1>8, <1>9 DEF InOrder
<1>11. NothingIsLost(v, d, jx, po)
  BY <1>2, <1>7 DEF NothingIsLost
<1> QED BY <1>10, <1>11 DEF jx, job, g

(* Of a search job for what the controller has.                            *)
LEMMA SearchJobIs ==
    ASSUME NEW c, ControllerTyped(c), c.catalog # Absent
    PROVE  /\ JobTyped(SearchJob(c), c.catalogGeneration)
           /\ LastSearch(SearchJob(c), c.catalogGeneration, c.requestGeneration)
           /\ ~LastRefresh(SearchJob(c), c.catalogGeneration)
BY DEF ControllerTyped, SearchJob, JobTyped, LastSearch, LastRefresh

(* A search waits, while no refresh is due.                                *)
LEMMA SearchSubmitted ==
    ASSUME NEW c, ControllerTyped(c), c.catalog # Absent, NEW ix, NEW po, NEW v,
           IndexTyped(ix, c.catalogGeneration), PostedTyped(po, c.catalogGeneration),
           DueOnce(ix, po, c.catalogGeneration), Shown(v),
           ~(InProgress(ix) /\ LastRefresh(ix.running[1], c.catalogGeneration)),
           ~PostedRefresh(po, c.catalogGeneration), ViewFits(v, c, FALSE)
    PROVE  /\ InOrder(c, Submitted(ix, SearchJob(c)), po, v)
           /\ NothingIsLost(v, c, Submitted(ix, SearchJob(c)), po)
<1> DEFINE g == c.catalogGeneration
           job == SearchJob(c)
           jx == Submitted(ix, job)
<1>1. JobTyped(job, g) /\ LastSearch(job, g, c.requestGeneration) /\ ~LastRefresh(job, g)
  BY SearchJobIs
<1> HIDE DEF job
<1>2. IndexTyped(jx, g) /\ Pending(jx) /\ jx.pending[1] = job /\ jx.running = ix.running
  BY <1>1, SubmittedIndex
<1> HIDE DEF jx, g
<1>3. InProgress(jx) <=> InProgress(ix)
  BY <1>2 DEF InProgress
<1>4. /\ ~(InProgress(jx) /\ LastRefresh(jx.running[1], g))
      /\ ~PostedRefresh(po, g) /\ PostedOnce(po, g)
  BY <1>2, <1>3 DEF DueOnce, g
<1>5. DueOnce(jx, po, g) /\ ~RefreshDue(jx, po, g)
  BY <1>1, <1>2, <1>4 DEF DueOnce, RefreshDue
<1>6. SearchDue(jx, po, g, c.requestGeneration)
  BY <1>1, <1>2 DEF SearchDue
<1>7. ViewFits(v, c, RefreshDue(jx, po, g))
  BY <1>5 DEF ViewFits
<1>8. InOrder(c, jx, po, v)
  BY <1>2, <1>5, <1>7 DEF InOrder, g
<1>9. NothingIsLost(v, c, jx, po)
  BY <1>6 DEF NothingIsLost, g
<1> QED BY <1>8, <1>9 DEF jx, job

(* Another query (LauncherController.cpp:412-440).                         *)
Asked(co, q, d) == d = [co EXCEPT !.query = q, !.requestGeneration = @ + 1]
Searched(co, ix, d, jx) ==
    jx = IF co.catalog # Absent THEN Submitted(ix, SearchJob(d)) ELSE ix

LEMMA QueryKeepsOrder ==
    ASSUME NEW co, NEW ix, NEW po, NEW v, InOrder(co, ix, po, v), NEW q, NEW d, Asked(co, q, d),
           NEW jx, Searched(co, ix, d, jx)
    PROVE  InOrder(d, jx, po, v) /\ (NothingIsLost(v, co, ix, po) => NothingIsLost(v, d, jx, po))
<1> DEFINE g == co.catalogGeneration
<1>1. /\ ControllerTyped(co) /\ IndexTyped(ix, g) /\ PostedTyped(po, g) /\ DueOnce(ix, po, g)
      /\ Shown(v) /\ ViewFits(v, co, RefreshDue(ix, po, g))
      /\ co.catalog # Absent => ~RefreshDue(ix, po, g)
  BY DEF InOrder
<1>2. /\ d.catalogGeneration = g /\ d.requestGeneration = co.requestGeneration + 1
      /\ d.catalog = co.catalog
      /\ d = [catalogGeneration |-> d.catalogGeneration, requestGeneration |-> d.requestGeneration,
              query |-> d.query, catalog |-> d.catalog]
  BY <1>1 DEF ControllerTyped, Asked
<1> HIDE DEF g
<1>3. ControllerTyped(d)
  BY <1>1, <1>2 DEF ControllerTyped, g
<1>4. ViewFits(v, d, RefreshDue(ix, po, g))
  <2> DEFINE m == v.search[1].requestGeneration
  <2>1. co.requestGeneration \in Nat /\ (v.search # Absent => m \in 0..co.requestGeneration)
    BY <1>1 DEF ViewFits, ControllerTyped
  <2> HIDE DEF m
  <2>2. v.search # Absent => m \in 0..(co.requestGeneration + 1)
    BY <2>1
  <2> QED BY <1>1, <1>2, <2>2 DEF ViewFits, m, g
<1>5. CASE co.catalog # Absent
  <2>1. jx = Submitted(ix, SearchJob(d))
    BY <1>5 DEF Searched
  <2>2. ~RefreshDue(ix, po, g)
    BY <1>1, <1>5
  <2>3. /\ ~(InProgress(ix) /\ LastRefresh(ix.running[1], g))
        /\ ~PostedRefresh(po, g)
    BY <2>2 DEF RefreshDue
  <2>4. ViewFits(v, d, FALSE)
    BY <1>4, <2>2 DEF ViewFits
  <2>5. /\ IndexTyped(ix, d.catalogGeneration) /\ PostedTyped(po, d.catalogGeneration)
        /\ DueOnce(ix, po, d.catalogGeneration) /\ d.catalog # Absent
        /\ ~(InProgress(ix) /\ LastRefresh(ix.running[1], d.catalogGeneration))
        /\ ~PostedRefresh(po, d.catalogGeneration)
    BY <1>1, <1>2, <1>5, <2>3
  <2>6. Shown(v)
    BY <1>1
  <2>7. InOrder(d, jx, po, v) /\ NothingIsLost(v, d, jx, po)
    BY <1>3, <2>1, <2>4, <2>5, <2>6, SearchSubmitted
  <2> QED BY <2>7
<1>6. CASE co.catalog = Absent
  <2>1. jx = ix
    BY <1>6 DEF Searched
  <2>2. InOrder(d, ix, po, v)
    BY <1>1, <1>2, <1>3, <1>4, <1>6 DEF InOrder
  <2>3. NothingIsLost(v, co, ix, po) => NothingIsLost(v, d, ix, po)
    BY <1>2, <1>6 DEF NothingIsLost, ViewShowsError, g
  <2> QED BY <2>1, <2>2, <2>3
<1> QED BY <1>5, <1>6

(* The last refresh has ended: it was due, and is no more                  *)
(* (LauncherController.cpp:150-200).                                       *)
LEMMA LastRefreshEnds ==
    ASSUME NEW co, NEW ix, NEW po, NEW v, InOrder(co, ix, po, v), po # <<>>,
           LastRefresh(Head(po), co.catalogGeneration)
    PROVE  /\ PostedTyped(Tail(po), co.catalogGeneration)
           /\ CompletionTyped(Head(po), co.catalogGeneration)
           /\ DueOnce(ix, Tail(po), co.catalogGeneration)
           /\ ~RefreshDue(ix, Tail(po), co.catalogGeneration)
           /\ co.catalog = Absent
           /\ v.search # Absent => v.search[1].catalogGeneration # co.catalogGeneration
<1> DEFINE g == co.catalogGeneration
           qo == Tail(po)
           c == Head(po)
<1>1. IndexTyped(ix, g) /\ PostedTyped(po, g) /\ DueOnce(ix, po, g) /\ LastRefresh(c, g)
  BY DEF InOrder
<1>2. /\ PostedTyped(qo, g) /\ CompletionTyped(c, g)
      /\ PostedRefresh(po, g) <=> PostedRefresh(qo, g) \/ LastRefresh(c, g)
      /\ PostedOnce(po, g) =>
             PostedOnce(qo, g) /\ (LastRefresh(c, g) => ~PostedRefresh(qo, g))
  BY <1>1, PostTaken
<1> HIDE DEF g, qo, c
<1>3. RefreshDue(ix, po, g)
  BY <1>1, <1>2 DEF RefreshDue
<1>4. DueOnce(ix, qo, g) /\ ~RefreshDue(ix, qo, g)
  BY <1>1, <1>2 DEF DueOnce, RefreshDue
<1>5. co.catalog = Absent
  BY <1>3 DEF InOrder, g
<1>6. v.search # Absent => v.search[1].catalogGeneration # g
  BY <1>3 DEF InOrder, ViewFits, g
<1> QED BY <1>2, <1>4, <1>5, <1>6 DEF g, qo, c

(* What is newer than the view and valid is accepted.                      *)
LEMMA RefreshFails ==
    ASSUME NEW co, NEW ix, NEW po, NEW v, InOrder(co, ix, po, v), po # <<>>,
           LastRefresh(Head(po), co.catalogGeneration),
           NEW w, w = ApplySearch(v, RefreshErrorCatalog(co.catalogGeneration),
                                  ErrorSnapshot(co.catalogGeneration, co.requestGeneration))
    PROVE  InOrder(co, ix, Tail(po), w) /\ NothingIsLost(w, co, ix, Tail(po))
<1> DEFINE g == co.catalogGeneration
           r == co.requestGeneration
           c == RefreshErrorCatalog(g)
           s == ErrorSnapshot(g, r)
           qo == Tail(po)
<1>1. /\ ControllerTyped(co) /\ IndexTyped(ix, g) /\ g \in Nat /\ r \in Nat
      /\ Shown(v) /\ ViewFits(v, co, RefreshDue(ix, po, g))
  BY DEF InOrder, ControllerTyped
<1>2. /\ PostedTyped(qo, g) /\ DueOnce(ix, qo, g) /\ ~RefreshDue(ix, qo, g) /\ co.catalog = Absent
      /\ v.search # Absent => v.search[1].catalogGeneration # g
  BY LastRefreshEnds
<1>3. /\ CatalogTyped(c) /\ ValidateCatalog(c) /\ c.generation = g
      /\ \A d : d.generation = g => ValidateSearch(d, s)
      /\ IsSequence(s.results)
      /\ s.catalogGeneration = g /\ s.requestGeneration = r /\ s.state = "error"
  BY ErrorsAre
<1> HIDE DEF c, s, qo, g, r
<1>4. AcceptsSearch(v, c, s)
  <2>1. ValidateCatalog(c) /\ ValidateSearch(c, s)
    BY <1>3
  <2>2. v.search = Absent \/ Newer(s, v.search[1])
    <3> DEFINE k == v.search[1].catalogGeneration
    <3>1. v.search # Absent => k \in 0..g /\ k # g
      BY <1>1, <1>2 DEF ViewFits, g
    <3> HIDE DEF k
    <3>2. v.search # Absent => g > k
      BY <1>1, <3>1
    <3> QED BY <1>3, <3>2 DEF Newer, k
  <2> QED BY <2>1, <2>2 DEF AcceptsSearch
<1>5. w = ApplySearch(v, c, s)
  BY DEF c, s, g, r
<1>6. Shown(w) /\ w.catalog = Present(c) /\ w.search = Present(s)
  BY <1>1, <1>3, <1>4, <1>5, Applied
<1>7. w.search # Absent /\ w.search[1] = s
  BY <1>6 DEF Present, Absent
<1>8. ViewFits(w, co, RefreshDue(ix, qo, g))
  <2>1. g \in 0..g /\ r \in 0..r
    BY <1>1
  <2> QED BY <1>2, <1>3, <1>7, <2>1 DEF ViewFits, g, r
<1>9. InOrder(co, ix, qo, w)
  BY <1>1, <1>2, <1>6, <1>8 DEF InOrder, g
<1>10. NothingIsLost(w, co, ix, qo)
  BY <1>2, <1>3, <1>7 DEF NothingIsLost, ViewShowsError, g
<1> QED BY <1>9, <1>10 DEF qo

LEMMA RefreshSucceeds ==
    ASSUME NEW co, NEW ix, NEW po, NEW v, InOrder(co, ix, po, v), po # <<>>,
           LastRefresh(Head(po), co.catalogGeneration), Ok(Head(po).result),
           NEW d, d = [co EXCEPT !.catalog = Present(Head(po).result.value)]
    PROVE  /\ InOrder(d, Submitted(ix, SearchJob(d)), Tail(po), v)
           /\ NothingIsLost(v, d, Submitted(ix, SearchJob(d)), Tail(po))
<1> DEFINE g == co.catalogGeneration
           qo == Tail(po)
           c == Head(po)
           x == c.result.value
<1>1. /\ ControllerTyped(co) /\ IndexTyped(ix, g)
      /\ Shown(v) /\ ViewFits(v, co, RefreshDue(ix, po, g))
  BY DEF InOrder
<1>2. /\ PostedTyped(qo, g) /\ CompletionTyped(c, g) /\ DueOnce(ix, qo, g)
      /\ ~RefreshDue(ix, qo, g)
      /\ v.search # Absent => v.search[1].catalogGeneration # g
  BY LastRefreshEnds
<1>3. CatalogTyped(x) /\ x.generation = g
  BY <1>2 DEF CompletionTyped, LastRefresh
<1> HIDE DEF x, c, qo
<1>4. d = [co EXCEPT !.catalog = Present(x)]
  BY DEF x, c
<1>5. /\ d.catalogGeneration = g /\ d.requestGeneration = co.requestGeneration
      /\ d.catalog = Present(x)
      /\ d = [catalogGeneration |-> d.catalogGeneration, requestGeneration |-> d.requestGeneration,
              query |-> d.query, catalog |-> d.catalog]
  BY <1>1, <1>4 DEF ControllerTyped
<1>6. d.catalog # Absent /\ d.catalog[1] = x
  BY <1>5 DEF Present, Absent
<1> HIDE DEF g
<1>7. ControllerTyped(d)
  BY <1>1, <1>3, <1>5, <1>6 DEF ControllerTyped, g
<1>8. /\ ~(InProgress(ix) /\ LastRefresh(ix.running[1], g))
      /\ ~PostedRefresh(qo, g)
  BY <1>2 DEF RefreshDue
<1>9. ViewFits(v, d, FALSE)
  BY <1>1, <1>2, <1>5 DEF ViewFits, g
<1>10. /\ InOrder(d, Submitted(ix, SearchJob(d)), qo, v)
       /\ NothingIsLost(v, d, Submitted(ix, SearchJob(d)), qo)
  BY <1>1, <1>2, <1>5, <1>6, <1>7, <1>8, <1>9, SearchSubmitted
<1> QED BY <1>10 DEF qo

(* The results of the last query are shown, unless the catalog cannot be   *)
(* (LauncherController.cpp:418-446).                                       *)
LEMMA SearchEnds ==
    ASSUME NEW co, NEW ix, NEW po, NEW v, InOrder(co, ix, po, v), po # <<>>,
           ~LastRefresh(Head(po), co.catalogGeneration), co.catalog # Absent,
           NEW s, IsSequence(s.results), s.requestGeneration = co.requestGeneration,
           s = ErrorSnapshot(co.catalogGeneration, co.requestGeneration)
               \/ AcceptsSearch(v, co.catalog[1], s),
           NEW w, w = ApplySearch(v, co.catalog[1], s)
    PROVE  /\ InOrder(co, ix, Tail(po), w)
           /\ NothingIsLost(v, co, ix, po) => NothingIsLost(w, co, ix, Tail(po))
<1> DEFINE g == co.catalogGeneration
           r == co.requestGeneration
           c == co.catalog[1]
           qo == Tail(po)
<1>1. /\ ControllerTyped(co) /\ g \in Nat /\ r \in Nat /\ Shown(v)
      /\ CatalogTyped(c) /\ c.generation = g /\ co.catalog = Present(c)
      /\ ~RefreshDue(ix, po, g) /\ ViewFits(v, co, RefreshDue(ix, po, g))
  BY DEF InOrder, ControllerTyped
<1>2. /\ InOrder(co, ix, qo, v)
      /\ RefreshDue(ix, qo, g) <=> RefreshDue(ix, po, g)
      /\ NothingIsLost(v, co, ix, po) /\ ViewAnswers(v, co) => NothingIsLost(v, co, ix, qo)
  BY Dropped
<1> HIDE DEF c, qo, g, r
<1>3. CASE AcceptsSearch(v, c, s)
  <2>1. w = ApplySearch(v, c, s)
    BY DEF c
  <2>2. Shown(w) /\ w.catalog = Present(c) /\ w.search = Present(s)
    BY <1>1, <1>3, <2>1, Applied
  <2>3. w.search # Absent /\ w.search[1] = s
    BY <2>2 DEF Present, Absent
  <2>4. s.catalogGeneration = g
    BY <1>1, <1>3 DEF AcceptsSearch, ValidateSearch
  <2>5. s.requestGeneration = r
    BY DEF r
  <2>6. ViewFits(w, co, RefreshDue(ix, qo, g))
    <3>1. g \in 0..g /\ r \in 0..r
      BY <1>1
    <3> QED BY <1>1, <1>2, <2>2, <2>3, <2>4, <2>5, <3>1 DEF ViewFits, g, r
  <2>7. InOrder(co, ix, qo, w)
    BY <1>2, <2>2, <2>6 DEF InOrder, g
  <2>8. NothingIsLost(w, co, ix, qo)
    BY <2>3, <2>4, <2>5 DEF NothingIsLost, ViewAnswers, g, r
  <2> QED BY <2>7, <2>8 DEF qo
<1>4. CASE ~AcceptsSearch(v, c, s)
  <2>1. w = v
    BY <1>4, Zenon DEF ApplySearch, c
  <2>2. s = ErrorSnapshot(g, r)
    BY <1>4 DEF c, g, r
  <2>3. /\ s.catalogGeneration = g /\ s.requestGeneration = r /\ ValidateSearch(c, s)
    BY <1>1, <2>2, ErrorsAre
  <2>4. CASE ~ValidateCatalog(c)
    <3>1. NothingIsLost(v, co, ix, qo)
      BY <2>4 DEF NothingIsLost, c
    <3> QED BY <1>2, <2>1, <3>1 DEF qo
  <2>5. CASE ValidateCatalog(c)
    <3> DEFINE k == v.search[1].catalogGeneration
               m == v.search[1].requestGeneration
    <3>1. v.search # Absent /\ ~Newer(s, v.search[1])
      BY <1>4, <2>3, <2>5 DEF AcceptsSearch
    <3>2. k \in 0..g /\ m \in 0..r
      BY <1>1, <3>1 DEF ViewFits, g, r
    <3>3. ~(g > k) /\ ~(g = k /\ r > m)
      BY <2>3, <3>1 DEF Newer
    <3> HIDE DEF k, m
    <3>4. k = g /\ m = r
      BY <1>1, <3>2, <3>3
    <3>5. ViewAnswers(v, co)
      BY <3>1, <3>4 DEF ViewAnswers, k, m, g, r
    <3> QED BY <1>2, <2>1, <3>5 DEF qo
  <2> QED BY <2>4, <2>5
<1> QED BY <1>3, <1>4

-----------------------------------------------------------------------------
(* Every step.                                                             *)

Ordered == InOrder(controller, index, posted, view)
Remembered == ~stopping => NothingIsLost(view, controller, index, posted)

LEMMA TakeIndexJobKeepsOrder ==
    ASSUME Ordered, Remembered, TakeIndexJob PROVE Ordered' /\ Remembered'
<1>1. /\ Pending(index) /\ ~InProgress(index)
      /\ index' = [pending |-> Absent, running |-> index.pending, cancelled |-> FALSE]
      /\ controller' = controller /\ posted' = posted /\ view' = view /\ stopping' = stopping
  BY DEF TakeIndexJob, Pending, InProgress, ownerVars
<1>2. /\ InOrder(controller, index', posted, view)
      /\ NothingIsLost(view, controller, index, posted)
             => NothingIsLost(view, controller, index', posted)
  BY <1>1, Taken DEF Ordered
<1> QED BY <1>1, <1>2 DEF Ordered, Remembered

(* What the worker posts of its job.                                       *)
LEMMA CompleteKeepsOrder ==
    ASSUME Ordered, Remembered, InProgress(index), NEW c, Complete(c),
           CompletionTyped(c, controller.catalogGeneration),
           LastRefresh(c, controller.catalogGeneration)
               <=> LastRefresh(index.running[1], controller.catalogGeneration),
           LastSearch(c, controller.catalogGeneration, controller.requestGeneration)
               <=> LastSearch(index.running[1], controller.catalogGeneration,
                              controller.requestGeneration)
    PROVE  Ordered' /\ Remembered'
<1>1. /\ posted' = Append(posted, c)
      /\ index' = [index EXCEPT !.running = Absent, !.cancelled = FALSE]
      /\ controller' = controller /\ view' = view /\ stopping' = stopping
  BY DEF Complete
<1>2. /\ InOrder(controller, index', Append(posted, c), view)
      /\ NothingIsLost(view, controller, index, posted)
             => NothingIsLost(view, controller, index', Append(posted, c))
  BY <1>1, Completed DEF Ordered
<1> QED BY <1>1, <1>2 DEF Ordered, Remembered

LEMMA FinishRefreshKeepsOrder ==
    ASSUME DiscoveryInv, Ordered, Remembered, FinishRefresh PROVE Ordered' /\ Remembered'
<1> DEFINE job == index.running[1]
           g == job.generation
           found == Catalog(g, scan)
           result == IF scan.error = "none" THEN Success(found) ELSE Failure(scan.error)
           c == [kind |-> "refresh", generation |-> g, result |-> result]
<1>1. InProgress(index) /\ job.kind = "refresh" /\ Complete(c)
  BY DEF FinishRefresh, Running, InProgress
<1>2. g \in 0..controller.catalogGeneration
  BY <1>1 DEF Ordered, InOrder, IndexTyped, JobTyped
<1>3. CatalogTyped(found) /\ found.generation = g
  <2>1. IsSequence(scan.visible) /\ IsSequence(scan.eligible)
    BY DEF DiscoveryInv, Discovers, ScanTyped
  <2>2. found.visible = scan.visible /\ found.eligible = scan.eligible /\ found.generation = g
    BY DEF Catalog
  <2> HIDE DEF found
  <2> QED BY <2>1, <2>2 DEF CatalogTyped
<1> HIDE DEF found
<1>4. Ok(result) => result.value = found
  BY DEF Ok, Success, Failure
<1> HIDE DEF result
<1>5. c.kind = "refresh" /\ c.generation = g /\ c.result = result
  OBVIOUS
<1> HIDE DEF c, g, job
<1>6. CompletionTyped(c, controller.catalogGeneration)
  BY <1>2, <1>3, <1>4, <1>5 DEF CompletionTyped
<1>7. /\ \A h : LastRefresh(c, h) <=> LastRefresh(job, h)
      /\ \A h, r : ~LastSearch(c, h, r) /\ ~LastSearch(job, h, r)
  BY <1>1, <1>5 DEF LastRefresh, LastSearch, g
<1> QED BY <1>1, <1>6, <1>7, CompleteKeepsOrder DEF job

LEMMA FinishSearchKeepsOrder ==
    ASSUME Ordered, Remembered, FinishSearch PROVE Ordered' /\ Remembered'
<1> DEFINE job == index.running[1]
           results == Results(job.catalog, job.query)
           shot == SearchSnapshot(job.catalog, job.requestGeneration, job.query)
           c == [kind |-> "search", catalogGeneration |-> job.catalogGeneration,
                 requestGeneration |-> job.requestGeneration, result |-> Success(shot)]
<1>1. InProgress(index) /\ job.kind = "search" /\ Complete(c)
  BY DEF FinishSearch, Running, InProgress
<1>2. CatalogTyped(job.catalog)
  BY <1>1 DEF Ordered, InOrder, IndexTyped, JobTyped
<1>3. IsSequence(results)
  BY <1>2, ResultsAre
<1>4. shot.results = results /\ shot.requestGeneration = job.requestGeneration
  BY DEF SearchSnapshot
<1> HIDE DEF shot, results
<1>5. /\ c.kind = "search" /\ c.catalogGeneration = job.catalogGeneration
      /\ c.requestGeneration = job.requestGeneration /\ c.result.value = shot
  BY DEF Success
<1> HIDE DEF c, job
<1>6. CompletionTyped(c, controller.catalogGeneration)
  BY <1>3, <1>4, <1>5 DEF CompletionTyped
<1>7. /\ \A h : ~LastRefresh(c, h) /\ ~LastRefresh(job, h)
      /\ \A h, r : LastSearch(c, h, r) <=> LastSearch(job, h, r)
  BY <1>1, <1>5 DEF LastRefresh, LastSearch
<1> QED BY <1>1, <1>6, <1>7, CompleteKeepsOrder DEF job

LEMMA ObserveCancellationKeepsOrder ==
    ASSUME Ordered, Remembered, ObserveCancellation PROVE Ordered' /\ Remembered'
<1> DEFINE job == index.running[1]
           no == Failure("cancelled")
           refresh == [kind |-> "refresh", generation |-> job.generation, result |-> no]
           search == [kind |-> "search", catalogGeneration |-> job.catalogGeneration,
                      requestGeneration |-> job.requestGeneration, result |-> no]
           c == IF job.kind = "refresh" THEN refresh ELSE search
<1>1. InProgress(index) /\ Complete(c)
  BY Zenon DEF ObserveCancellation, InProgress
<1>2. /\ JobTyped(job, controller.catalogGeneration)
      /\ job.kind = "refresh" \/ job.kind = "search"
  BY <1>1 DEF Ordered, InOrder, IndexTyped, JobTyped
<1>3. ~Ok(no)
  BY DEF Ok, Failure
<1> HIDE DEF no, job
<1>4. CASE job.kind = "refresh"
  <2>1. c.kind = "refresh" /\ c.generation = job.generation /\ c.result = no
    BY <1>4
  <2>2. job.generation \in 0..controller.catalogGeneration
    BY <1>2, <1>4 DEF JobTyped
  <2> HIDE DEF c
  <2>3. CompletionTyped(c, controller.catalogGeneration)
    BY <1>3, <2>1, <2>2 DEF CompletionTyped
  <2>4. /\ \A h : LastRefresh(c, h) <=> LastRefresh(job, h)
        /\ \A h, r : ~LastSearch(c, h, r) /\ ~LastSearch(job, h, r)
    BY <1>4, <2>1 DEF LastRefresh, LastSearch
  <2> QED BY <1>1, <2>3, <2>4, CompleteKeepsOrder DEF job
<1>5. CASE job.kind = "search"
  <2>1. /\ c.kind = "search" /\ c.catalogGeneration = job.catalogGeneration
        /\ c.requestGeneration = job.requestGeneration /\ c.result = no
    BY <1>5
  <2> HIDE DEF c
  <2>2. CompletionTyped(c, controller.catalogGeneration)
    BY <1>3, <2>1 DEF CompletionTyped
  <2>3. /\ \A h : ~LastRefresh(c, h) /\ ~LastRefresh(job, h)
        /\ \A h, r : LastSearch(c, h, r) <=> LastSearch(job, h, r)
    BY <1>5, <2>1 DEF LastRefresh, LastSearch
  <2> QED BY <1>1, <2>2, <2>3, CompleteKeepsOrder DEF job
<1> QED BY <1>2, <1>4, <1>5

LEMMA RefreshStepKeepsOrder ==
    ASSUME Ordered, Refresh PROVE Ordered' /\ Remembered'
<1>1. /\ controller' = StartRefresh(controller)
      /\ index' = Submitted(index, RefreshJob(controller.catalogGeneration + 1))
      /\ posted' = posted /\ view' = view
  BY DEF Refresh, SubmitIndex, Submitted
<1>2. InOrder(controller', index', posted, view) /\ NothingIsLost(view, controller', index', posted)
  BY <1>1, RefreshKeepsOrder DEF Ordered
<1> QED BY <1>1, <1>2 DEF Ordered, Remembered

LEMMA SetSearchQueryKeepsOrder ==
    ASSUME Ordered, Remembered, SetSearchQuery PROVE Ordered' /\ Remembered'
<1> DEFINE d == controller'
           jx == index'
<1>1. PICK q : d = [controller EXCEPT !.query = q, !.requestGeneration = @ + 1]
  <2>1. \E text \in Queries :
            d = [controller EXCEPT !.query = ParseApplicationSearchQuery(text).value,
                                   !.requestGeneration = @ + 1]
    BY Zenon DEF SetSearchQuery
  <2> HIDE DEF d
  <2> QED BY <2>1, Zenon
<1>2. /\ jx = IF controller.catalog # Absent THEN Submitted(index, SearchJob(d)) ELSE index
      /\ posted' = posted /\ view' = view /\ stopping' = stopping
  BY DEF SetSearchQuery, SubmitIndex, Submitted
<1>3. InOrder(controller, index, posted, view)
  BY DEF Ordered
<1> HIDE DEF d, jx
<1>4. Asked(controller, q, d) /\ Searched(controller, index, d, jx)
  BY <1>1, <1>2 DEF Asked, Searched
<1>5. /\ InOrder(d, jx, posted, view)
      /\ NothingIsLost(view, controller, index, posted) => NothingIsLost(view, d, jx, posted)
  BY <1>3, <1>4, QueryKeepsOrder
<1> QED BY <1>2, <1>5 DEF Ordered, Remembered, d, jx

LEMMA HandleRefreshCompletionKeepsOrder ==
    ASSUME Ordered, Remembered, HandleRefreshCompletion PROVE Ordered' /\ Remembered'
<1> DEFINE c == Head(posted)
           g == controller.catalogGeneration
<1>1. /\ posted # <<>> /\ c.kind = "refresh" /\ ~stopping
      /\ posted' = Tail(posted) /\ stopping' = stopping
  BY DEF HandleRefreshCompletion, Delivers
<1>2. NothingIsLost(view, controller, index, posted)
  BY <1>1 DEF Remembered
<1>3. CASE c.generation # g
  <2>1. controller' = controller /\ view' = view /\ index' = index
    BY <1>3 DEF HandleRefreshCompletion
  <2>2. ~LastRefresh(c, g) /\ ~LastSearch(c, g, controller.requestGeneration)
    BY <1>1, <1>3 DEF LastRefresh, LastSearch
  <2>3. InOrder(controller, index, Tail(posted), view)
        /\ NothingIsLost(view, controller, index, Tail(posted))
    BY <1>1, <1>2, <2>2, Dropped DEF Ordered
  <2> QED BY <1>1, <2>1, <2>3 DEF Ordered, Remembered
<1>4. CASE c.generation = g /\ ~Ok(c.result)
  <2>1. /\ view' = ApplySearch(view, RefreshErrorCatalog(g), ErrorSnapshot(g, controller.requestGeneration))
        /\ controller' = controller /\ index' = index
    BY <1>4 DEF HandleRefreshCompletion, CurrentError
  <2>2. LastRefresh(c, g)
    BY <1>1, <1>4 DEF LastRefresh
  <2>3. InOrder(controller, index, Tail(posted), view')
        /\ NothingIsLost(view', controller, index, Tail(posted))
    BY <1>1, <2>1, <2>2, RefreshFails DEF Ordered
  <2> QED BY <1>1, <2>1, <2>3 DEF Ordered, Remembered
<1>5. CASE c.generation = g /\ Ok(c.result)
  <2>1. /\ controller' = [controller EXCEPT !.catalog = Present(c.result.value)]
        /\ index' = Submitted(index, SearchJob(controller')) /\ view' = view
    BY <1>5 DEF HandleRefreshCompletion, SubmitIndex, Submitted
  <2>2. LastRefresh(c, g)
    BY <1>1, <1>5 DEF LastRefresh
  <2>3. InOrder(controller', index', Tail(posted), view)
        /\ NothingIsLost(view, controller', index', Tail(posted))
    BY <1>1, <1>5, <2>1, <2>2, RefreshSucceeds DEF Ordered
  <2> QED BY <1>1, <2>1, <2>3 DEF Ordered, Remembered
<1> QED BY <1>3, <1>4, <1>5

LEMMA HandleSearchCompletionKeepsOrder ==
    ASSUME Ordered, Remembered, HandleSearchCompletion PROVE Ordered' /\ Remembered'
<1> DEFINE c == Head(posted)
           g == controller.catalogGeneration
           r == controller.requestGeneration
           catalog == controller.catalog[1]
           found == c.result.value
           Stale == c.catalogGeneration # g \/ c.requestGeneration # r \/ controller.catalog = Absent
           Taken_ == Ok(c.result) /\ AcceptsSearch(view, catalog, found)
<1>1. /\ posted # <<>> /\ c.kind = "search" /\ ~stopping
      /\ posted' = Tail(posted) /\ stopping' = stopping
      /\ controller' = controller /\ index' = index
  BY DEF HandleSearchCompletion, Delivers
<1>2. NothingIsLost(view, controller, index, posted)
  BY <1>1 DEF Remembered
<1>3. ~LastRefresh(c, g)
  BY <1>1 DEF LastRefresh
<1>4. view' = IF Stale THEN view
              ELSE IF Taken_ THEN ApplySearch(view, catalog, found)
              ELSE ApplySearch(view, catalog, ErrorSnapshot(g, r))
  BY Zenon DEF HandleSearchCompletion, CurrentError
<1>5. CASE Stale
  <2>1. view' = view
    BY <1>4, <1>5
  <2>2. controller.catalog = Absent \/ ~LastSearch(c, g, r)
    BY <1>5 DEF LastSearch
  <2>3. InOrder(controller, index, Tail(posted), view)
        /\ NothingIsLost(view, controller, index, Tail(posted))
    BY <1>1, <1>2, <1>3, <2>2, Dropped DEF Ordered
  <2> QED BY <1>1, <2>1, <2>3 DEF Ordered, Remembered
<1>6. CASE ~Stale /\ Taken_
  <2>1. view' = ApplySearch(view, catalog, found)
    BY <1>4, <1>6
  <2>2. IsSequence(found.results) /\ found.requestGeneration = r
    <3>1. CompletionTyped(c, g)
      BY <1>1, PostTaken DEF Ordered, InOrder
    <3> QED BY <1>1, <1>6, <3>1 DEF CompletionTyped
  <2>3. controller.catalog # Absent /\ AcceptsSearch(view, catalog, found)
    BY <1>6
  <2> HIDE DEF found
  <2>4. InOrder(controller, index, Tail(posted), view')
        /\ NothingIsLost(view', controller, index, Tail(posted))
    BY <1>1, <1>2, <1>3, <2>1, <2>2, <2>3, SearchEnds DEF Ordered
  <2> QED BY <1>1, <2>4 DEF Ordered, Remembered
<1>7. CASE ~Stale /\ ~Taken_
  <2> DEFINE s == ErrorSnapshot(g, r)
  <2>1. view' = ApplySearch(view, catalog, s)
    BY <1>4, <1>7
  <2>2. IsSequence(s.results) /\ s.requestGeneration = r
    BY ErrorsAre
  <2>3. controller.catalog # Absent
    BY <1>7
  <2>4. InOrder(controller, index, Tail(posted), view')
        /\ NothingIsLost(view', controller, index, Tail(posted))
    BY <1>1, <1>2, <1>3, <2>1, <2>2, <2>3, SearchEnds DEF Ordered
  <2> QED BY <1>1, <2>4 DEF Ordered, Remembered
<1> QED BY <1>5, <1>6, <1>7

LEMMA HandleLaunchCompletionKeepsOrder ==
    ASSUME Ordered, Remembered, HandleLaunchCompletion PROVE Ordered' /\ Remembered'
<1>1. /\ posted # <<>> /\ Head(posted).kind = "launch" /\ ~stopping
      /\ posted' = Tail(posted) /\ stopping' = stopping
      /\ controller' = controller /\ index' = index /\ view' = view
  BY DEF HandleLaunchCompletion, Delivers
<1>2. /\ ~LastRefresh(Head(posted), controller.catalogGeneration)
      /\ ~LastSearch(Head(posted), controller.catalogGeneration, controller.requestGeneration)
  BY <1>1 DEF LastRefresh, LastSearch
<1>3. InOrder(controller, index, Tail(posted), view)
      /\ NothingIsLost(view, controller, index, Tail(posted))
  BY <1>1, <1>2, Dropped DEF Ordered, Remembered
<1> QED BY <1>1, <1>3 DEF Ordered, Remembered

LEMMA StopKeepsOrder ==
    ASSUME Ordered, Stop PROVE Ordered' /\ Remembered'
<1> DEFINE g == controller.catalogGeneration
           jx == index'
<1>1. /\ jx = [index EXCEPT !.pending = Absent, !.cancelled = (index.running # Absent)]
      /\ controller' = controller /\ posted' = posted /\ view' = view /\ stopping'
  BY DEF Stop
<1>2. IndexTyped(index, g) /\ PostedTyped(posted, g) /\ DueOnce(index, posted, g)
  BY DEF Ordered, InOrder
<1> HIDE DEF jx, g
<1>3. /\ jx.pending = Absent /\ jx.running = index.running
      /\ jx = [pending |-> jx.pending, running |-> jx.running, cancelled |-> jx.cancelled]
  BY <1>1, <1>2 DEF IndexTyped
<1>4. ~Pending(jx) /\ (InProgress(jx) <=> InProgress(index))
  BY <1>3 DEF Pending, InProgress
<1>5. /\ IndexTyped(jx, g) /\ DueOnce(jx, posted, g)
      /\ RefreshDue(jx, posted, g) => RefreshDue(index, posted, g)
  BY <1>2, <1>3, <1>4 DEF IndexTyped, DueOnce, RefreshDue
<1>6. InOrder(controller, jx, posted, view)
  BY <1>2, <1>5, NoneIsNew DEF g, Ordered
<1> QED BY <1>1, <1>6 DEF Ordered, Remembered, jx

LEMMA FinishLaunchKeepsOrder ==
    ASSUME Ordered, Remembered, FinishLaunch PROVE Ordered' /\ Remembered'
<1>1. PICK c : c.kind = "launch" /\ posted' = Append(posted, c)
  <2>1. PICK b \in BOOLEAN : posted' = Append(posted, [kind |-> "launch", succeeded |-> b])
    BY DEF FinishLaunch
  <2>2. [kind |-> "launch", succeeded |-> b].kind = "launch"
    OBVIOUS
  <2> QED BY <2>1, <2>2
<1>2. controller' = controller /\ index' = index /\ view' = view /\ stopping' = stopping
  BY DEF FinishLaunch
<1>3. /\ InOrder(controller, index, posted', view)
      /\ NothingIsLost(view, controller, index, posted)
             => NothingIsLost(view, controller, index, posted')
  BY <1>1, LaunchPosted DEF Ordered
<1> QED BY <1>2, <1>3 DEF Ordered, Remembered

(* The entry that is launched is the one that was shown                    *)
(* (LauncherController.cpp:300-345, 456).                                  *)
LEMMA RequestLaunchIsHonest ==
    ASSUME Ordered, HonestLaunch(launch), RequestLaunch PROVE HonestLaunch(launch')
<1> DEFINE c == controller.catalog[1]
           results == view.search[1].results
<1>1. PICK n \in DOMAIN view.rows :
          /\ IntentIsCurrent(IntentFor(view.rows[n]))
          /\ \E i \in EntriesWithId(c, results, IntentFor(view.rows[n]).id) :
             \E j \in EntriesWithId(view.catalog[1], results, IntentFor(view.rows[n]).id) :
                 launch' = [launch EXCEPT !.pending =
                               Present([entry |-> c.entries[i],
                                        shown |-> view.catalog[1].entries[j]])]
  BY DEF RequestLaunch
<1> DEFINE intent == IntentFor(view.rows[n])
<1>2. PICK i \in EntriesWithId(c, results, intent.id),
           j \in EntriesWithId(view.catalog[1], results, intent.id) :
          launch' = [launch EXCEPT !.pending =
                        Present([entry |-> c.entries[i], shown |-> view.catalog[1].entries[j]])]
  BY <1>1
<1>3. /\ controller.catalog # Absent /\ view.search # Absent
      /\ view.catalog[1].generation = controller.catalogGeneration
  BY <1>1 DEF IntentIsCurrent, IntentFor
<1>4. Shown(view) /\ ViewFits(view, controller, RefreshDue(index, posted, controller.catalogGeneration))
  BY DEF Ordered, InOrder
<1>5. /\ CatalogTyped(view.catalog[1]) /\ ValidateCatalog(view.catalog[1])
      /\ IsSequence(view.search[1].results) /\ ValidateSearch(view.catalog[1], view.search[1])
  BY <1>3, <1>4 DEF Shown
<1>6. view.search[1].catalogGeneration = controller.catalogGeneration
  BY <1>3, <1>5 DEF ValidateSearch
<1>7. view.catalog[1] = c
  BY <1>3, <1>4, <1>6 DEF ViewFits
<1>8. \A a, b \in ToSet(results) : c.entries[a].id = c.entries[b].id => a = b
  BY <1>5, <1>7, RowsAre
<1>9. i = j
  <2>1. i \in ToSet(results) /\ j \in ToSet(results) /\ c.entries[i].id = c.entries[j].id
    BY <1>2, <1>7 DEF EntriesWithId
  <2> QED BY <1>8, <2>1
<1> DEFINE job == [entry |-> c.entries[i], shown |-> c.entries[i]]
           l == launch'
<1>10. l = [launch EXCEPT !.pending = Present(job)]
  BY <1>2, <1>7, <1>9
<1>11. job.entry = job.shown
  OBVIOUS
<1> HIDE DEF job, l
<1>12. /\ l.pending = Present(job) /\ l.running = launch.running
       /\ l = [pending |-> l.pending, running |-> l.running, processing |-> l.processing]
  BY <1>10 DEF HonestLaunch
<1>13. ToSet(Present(job)) = {job}
  BY DEF ToSet, Present
<1>14. HonestLaunch(l)
  BY <1>11, <1>12, <1>13 DEF HonestLaunch
<1> QED BY <1>14 DEF l

-----------------------------------------------------------------------------
(* The launcher: the invariant.                                            *)

(* What the discovery keeps while nobody touches the disk.                 *)
LEMMA ScanStays ==
    ASSUME DiscoveryInv, disk' = disk, touched' = touched, scan' = scan
    PROVE  DiscoveryInv'
<1>1. SteadyFiles' = SteadyFiles /\ Len(disk)' = Len(disk) /\ DiskTyped' = DiskTyped
  BY DEF SteadyFiles, Steady, Kind, DiskTyped
<1>2. Discovers(scan, SteadyFiles, Len(disk))' = Discovers(scan', SteadyFiles', Len(disk'))
  BY DEF Discovers, ScanTyped, IsScan, NoneOverlooked, EarlierClaimed, Unshadowed,
         WillBeFound, WillBeClaimed, OnTheWay, Identifier, Identified
<1> QED BY <1>1, <1>2 DEF DiscoveryInv

(* A scan begins, or ends and is forgotten.                                *)
LEMMA ScanRestarts ==
    ASSUME DiscoveryInv, disk' = disk, scan' \in {NewScan, NoScan}
    PROVE  DiscoveryInv'
<1>1. Len(disk)' = Len(disk) /\ DiskTyped' = DiskTyped /\ Len(disk) \in Nat \ {0}
  BY DEF DiskTyped, DiscoveryInv
<1>2. Discovers(scan, SteadyFiles, Len(disk))' = Discovers(scan', SteadyFiles', Len(disk'))
  BY DEF Discovers, ScanTyped, IsScan, NoneOverlooked, EarlierClaimed, Unshadowed,
         WillBeFound, WillBeClaimed, OnTheWay, Identifier, Identified
<1>3. Discovers(scan', SteadyFiles', Len(disk'))
  BY <1>1, StartDiscovers
<1> QED BY <1>1, <1>2, <1>3 DEF DiscoveryInv

LEMMA NextKeepsDiscovery ==
    ASSUME DiscoveryInv, LauncherNext PROVE DiscoveryInv'
<1>1. CASE TakeIndexJob
  BY <1>1, ScanStays, ScanRestarts DEF TakeIndexJob, diskVars
<1>2. CASE DiscoverOne
  BY <1>2, PullStepDiscovers DEF DiscoverOne, diskVars
<1>3. CASE FinishRefresh \/ ObserveCancellation
  BY <1>3, ScanRestarts DEF FinishRefresh, ObserveCancellation, Complete, diskVars
<1>4. CASE FinishSearch
  BY <1>4, ScanStays DEF FinishSearch, Complete, diskVars
<1>5. CASE OthersChangeFile
  BY <1>5, ChangeFileDiscovers DEF OthersChangeFile
<1>6. CASE TakeLaunch \/ FinishLaunch \/ ReadyForLaunch
  BY <1>6, ScanStays DEF TakeLaunch, FinishLaunch, ReadyForLaunch, discoveryVars
<1>7. CASE Refresh \/ SetSearchQuery \/ RequestLaunch \/ Stop
  BY <1>7, ScanStays DEF Refresh, SetSearchQuery, RequestLaunch, Stop, discoveryVars
<1>8. CASE HandleRefreshCompletion \/ HandleSearchCompletion \/ HandleLaunchCompletion
  BY <1>8, ScanStays
     DEF HandleRefreshCompletion, HandleSearchCompletion, HandleLaunchCompletion, discoveryVars
<1> QED BY <1>1, <1>2, <1>3, <1>4, <1>5, <1>6, <1>7, <1>8 DEF LauncherNext

LEMMA OthersKeepOrder ==
    ASSUME Ordered, Remembered, UNCHANGED <<ownerVars, index>>
    PROVE  Ordered' /\ Remembered'
BY DEF ownerVars, Ordered, Remembered

LEMMA NextKeepsOrder ==
    ASSUME DiscoveryInv, Ordered, Remembered, LauncherNext
    PROVE  Ordered' /\ Remembered'
<1>1. CASE UNCHANGED <<ownerVars, index>>
  BY <1>1, OthersKeepOrder
<1>2. CASE TakeIndexJob
  BY <1>2, TakeIndexJobKeepsOrder
<1>3. CASE FinishRefresh
  BY <1>3, FinishRefreshKeepsOrder
<1>4. CASE FinishSearch
  BY <1>4, FinishSearchKeepsOrder
<1>5. CASE ObserveCancellation
  BY <1>5, ObserveCancellationKeepsOrder
<1>6. CASE FinishLaunch
  BY <1>6, FinishLaunchKeepsOrder
<1>7. CASE Refresh
  BY <1>7, RefreshStepKeepsOrder
<1>8. CASE SetSearchQuery
  BY <1>8, SetSearchQueryKeepsOrder
<1>9. CASE HandleRefreshCompletion
  BY <1>9, HandleRefreshCompletionKeepsOrder
<1>10. CASE HandleSearchCompletion
  BY <1>10, HandleSearchCompletionKeepsOrder
<1>11. CASE HandleLaunchCompletion
  BY <1>11, HandleLaunchCompletionKeepsOrder
<1>12. CASE Stop
  BY <1>12, StopKeepsOrder
<1>13. CASE RequestLaunch
  BY <1>13 DEF RequestLaunch, Ordered, Remembered
<1>14. CASE DiscoverOne \/ TakeLaunch \/ ReadyForLaunch \/ OthersChangeFile
  BY <1>1, <1>14 DEF DiscoverOne, TakeLaunch, ReadyForLaunch, OthersChangeFile
<1> QED BY <1>2, <1>3, <1>4, <1>5, <1>6, <1>7, <1>8, <1>9, <1>10, <1>11, <1>12, <1>13, <1>14
        DEF LauncherNext

LEMMA NextIsHonest ==
    ASSUME Ordered, HonestLaunch(launch), LauncherNext PROVE HonestLaunch(launch')
<1> DEFINE l == launch'
<1>1. ToSet(Absent) = {}
  BY EmptySequence DEF Absent
<1>2. CASE launch' = launch
  BY <1>2
<1>3. CASE RequestLaunch
  BY <1>3, RequestLaunchIsHonest
<1>4. CASE TakeLaunch
  <2>1. l = [pending |-> Absent, running |-> launch.pending, processing |-> TRUE]
    BY <1>4 DEF TakeLaunch
  <2> HIDE DEF l
  <2>2. l.pending = Absent /\ l.running = launch.pending
        /\ l = [pending |-> l.pending, running |-> l.running, processing |-> l.processing]
    BY <2>1
  <2>3. HonestLaunch(l)
    BY <1>1, <2>2 DEF HonestLaunch
  <2> QED BY <2>3 DEF l
<1>5. CASE FinishLaunch
  <2>1. l = [launch EXCEPT !.running = Absent]
    BY <1>5 DEF FinishLaunch
  <2> HIDE DEF l
  <2>2. l.pending = launch.pending /\ l.running = Absent
        /\ l = [pending |-> l.pending, running |-> l.running, processing |-> l.processing]
    BY <2>1 DEF HonestLaunch
  <2>3. HonestLaunch(l)
    BY <1>1, <2>2 DEF HonestLaunch
  <2> QED BY <2>3 DEF l
<1>6. CASE ReadyForLaunch
  <2>1. l = [launch EXCEPT !.processing = FALSE]
    BY <1>6 DEF ReadyForLaunch
  <2> HIDE DEF l
  <2>2. l.pending = launch.pending /\ l.running = launch.running
        /\ l = [pending |-> l.pending, running |-> l.running, processing |-> l.processing]
    BY <2>1 DEF HonestLaunch
  <2>3. HonestLaunch(l)
    BY <2>2 DEF HonestLaunch
  <2> QED BY <2>3 DEF l
<1>7. CASE Stop
  <2>1. l = [launch EXCEPT !.pending = Absent]
    BY <1>7 DEF Stop
  <2> HIDE DEF l
  <2>2. l.pending = Absent /\ l.running = launch.running
        /\ l = [pending |-> l.pending, running |-> l.running, processing |-> l.processing]
    BY <2>1 DEF HonestLaunch
  <2>3. HonestLaunch(l)
    BY <1>1, <2>2 DEF HonestLaunch
  <2> QED BY <2>3 DEF l
<1>8. CASE TakeIndexJob \/ DiscoverOne \/ OthersChangeFile
  BY <1>2, <1>8 DEF TakeIndexJob, DiscoverOne, OthersChangeFile
<1>9. CASE FinishRefresh \/ FinishSearch \/ ObserveCancellation
  BY <1>2, <1>9, Zenon DEF FinishRefresh, FinishSearch, ObserveCancellation, Complete
<1>10. CASE Refresh \/ SetSearchQuery
  BY <1>2, <1>10 DEF Refresh, SetSearchQuery
<1>11. CASE HandleRefreshCompletion \/ HandleSearchCompletion \/ HandleLaunchCompletion
  BY <1>2, <1>11 DEF HandleRefreshCompletion, HandleSearchCompletion, HandleLaunchCompletion
<1> QED BY <1>3, <1>4, <1>5, <1>6, <1>7, <1>8, <1>9, <1>10, <1>11 DEF LauncherNext

LEMMA LauncherInitImpliesInv == ASSUME LauncherInit PROVE LauncherInv
<1>1. DiscoveryInv
  <2>1. DiskTyped
    BY DiscoveryAssumption DEF LauncherInit, DiskTyped
  <2>2. Discovers(scan, SteadyFiles, Len(disk))
    BY <2>1, StartDiscovers DEF LauncherInit, DiskTyped
  <2> QED BY <2>1, <2>2 DEF DiscoveryInv
<1>2. /\ controller = [catalogGeneration |-> 0, requestGeneration |-> 1, query |-> <<>>,
                       catalog |-> Absent]
      /\ index = [pending |-> Absent, running |-> Absent, cancelled |-> FALSE]
      /\ posted = <<>> /\ view = NoView
      /\ launch = [pending |-> Absent, running |-> Absent, processing |-> FALSE]
  BY DEF LauncherInit
<1>3. IsSequence(posted) /\ Len(posted) = 0
  BY <1>2, EmptySequence
<1>4. ControllerTyped(controller) /\ controller.catalogGeneration = 0
      /\ controller.catalog = Absent
  BY <1>2 DEF ControllerTyped
<1>5. ~Pending(index) /\ ~InProgress(index) /\ IndexTyped(index, 0)
  BY <1>2 DEF Pending, InProgress, IndexTyped
<1>6. PostedTyped(posted, 0) /\ DueOnce(index, posted, 0)
  BY <1>3, <1>5 DEF PostedTyped, DueOnce, PostedOnce
<1>7. Shown(view) /\ view.search = Absent
  BY <1>2 DEF Shown, NoView
<1>8. InOrder(controller, index, posted, view)
  BY <1>4, <1>5, <1>6, <1>7 DEF InOrder, ViewFits
<1>9. NothingIsLost(view, controller, index, posted)
  BY <1>4 DEF NothingIsLost
<1>10. HonestLaunch(launch)
  BY <1>2, EmptySequence DEF HonestLaunch, Absent
<1> QED BY <1>1, <1>8, <1>9, <1>10 DEF LauncherInv

(* The controller and its workers are in order after every step, and the   *)
(* scan has, or will have, claimed what is steady in the earlier roots.    *)
THEOREM LauncherInductiveInvariant == LauncherSpec => []LauncherInv
<1>1. ASSUME LauncherInv, [LauncherNext]_launcherVars PROVE LauncherInv'
  <2>1. /\ DiscoveryInv /\ Ordered /\ Remembered /\ HonestLaunch(launch)
    BY <1>1 DEF LauncherInv, Ordered, Remembered
  <2>2. CASE LauncherNext
    <3>1. DiscoveryInv' /\ Ordered' /\ Remembered' /\ HonestLaunch(launch')
      BY <2>1, <2>2, NextKeepsDiscovery, NextKeepsOrder, NextIsHonest
    <3> QED BY <3>1 DEF LauncherInv, Ordered, Remembered
  <2>3. CASE UNCHANGED launcherVars
    <3>1. /\ UNCHANGED <<ownerVars, index>> /\ launch' = launch
          /\ disk' = disk /\ touched' = touched /\ scan' = scan
      BY <2>3 DEF launcherVars, discoveryVars
    <3>2. DiscoveryInv' /\ Ordered' /\ Remembered' /\ HonestLaunch(launch')
      BY <2>1, <3>1, ScanStays, OthersKeepOrder
    <3> QED BY <3>2 DEF LauncherInv, Ordered, Remembered
  <2> QED BY <1>1, <2>2, <2>3
<1> QED BY <1>1, LauncherInitImpliesInv, PTL DEF LauncherSpec

(* An application is taken from the first root that has its identifier:    *)
(* none is shown from a later one because the file of an earlier root is   *)
(* broken, hidden or not reached (DesktopEntryDiscovery.cpp:285, 324, 365, *)
(* 379).                                                                   *)
THEOREM FirstRootWins == LauncherSpec => []ShadowingIsRespected
<1>1. LauncherInv => ShadowingIsRespected
  <2> SUFFICES ASSUME LauncherInv,
                      NEW i \in DOMAIN scan.entries,
                      NEW root \in 1..(scan.entries[i].root - 1),
                      NEW p \in Paths, Steady(root, p), Ok(DeriveDesktopFileId(p))
               PROVE  DeriveDesktopFileId(p).value # scan.entries[i].id
    BY DEF ShadowingIsRespected
  <2> DEFINE roots == Len(disk)
             steady == SteadyFiles
             e == scan.entries
  <2>1. /\ IsSequence(e) /\ Unshadowed(scan, steady) /\ roots \in Nat
        /\ scan.root \in 1..roots
    BY DEF LauncherInv, DiscoveryInv, DiskTyped, Discovers, ScanTyped
  <2>2. i \in 1..Len(e)
    BY <2>1, HasRange
  <2>3. e[i].root \in 1..scan.root /\ root \in 1..roots
    BY <2>1, <2>2 DEF Unshadowed
  <2>4. p \in steady[root]
    BY <2>3 DEF SteadyFiles
  <2> HIDE DEF steady
  <2> QED BY <2>1, <2>2, <2>4 DEF Unshadowed, Identified, Identifier
<1> QED BY <1>1, LauncherInductiveInvariant, PTL

(* The rows, edited one by one from those that were shown before, are the  *)
(* rows of the results (LauncherPresentationModel.cpp:268-362).            *)
THEOREM RowsAreTheResults == LauncherSpec => []RowsShowResults
<1>1. LauncherInv => RowsShowResults
  BY DEF LauncherInv, InOrder, Shown, RowsShowResults
<1> QED BY <1>1, LauncherInductiveInvariant, PTL

(* The entry that is executed is the one that the activated row stood for, *)
(* although the catalog and the results are replaced under it              *)
(* (LauncherController.cpp:456, LauncherPresentationModel.cpp:431).        *)
THEOREM LaunchesAreHonest == LauncherSpec => []LaunchesWhatWasShown
<1>1. LauncherInv => LaunchesWhatWasShown
  BY DEF LauncherInv, HonestLaunch, LaunchesWhatWasShown
<1> QED BY <1>1, LauncherInductiveInvariant, PTL

(* The view can show the controller's catalog.                             *)
Presentable == controller.catalog = Absent \/ ValidateCatalog(controller.catalog[1])

(* No replacement or cancellation of a job loses the request it stood for: *)
(* when nothing is waiting, running or posted, the user sees the answer to *)
(* the last query, or that the last refresh failed                         *)
(* (LauncherController.cpp:184, 393, 420).  A catalog that the view cannot *)
(* show has no answer.                                                     *)
THEOREM RequestsAreAnswered == LauncherSpec => [](Presentable => AnsweredWhenQuiet)
<1>1. LauncherInv => (Presentable => AnsweredWhenQuiet)
  <2> SUFFICES ASSUME LauncherInv, Presentable, Quiet
               PROVE  /\ view.search # Absent
                      /\ view.search[1].catalogGeneration = controller.catalogGeneration
                      /\ \/ view.search[1].requestGeneration = controller.requestGeneration
                         \/ controller.catalog = Absent /\ view.search[1].state = "error"
    BY DEF AnsweredWhenQuiet
  <2> DEFINE g == controller.catalogGeneration
             r == controller.requestGeneration
  <2>1. /\ ~Pending(index) /\ ~InProgress(index) /\ Len(posted) = 0 /\ g > 0
        /\ NothingIsLost(view, controller, index, posted)
    BY EmptySequence DEF LauncherInv, Quiet, Pending, InProgress
  <2>2. ~RefreshDue(index, posted, g) /\ ~SearchDue(index, posted, g, r)
    BY <2>1 DEF RefreshDue, SearchDue, PostedRefresh, PostedSearch
  <2> QED BY <2>1, <2>2 DEF NothingIsLost, ViewShowsError, ViewAnswers, Presentable
<1> QED BY <1>1, LauncherInductiveInvariant, PTL
=============================================================================
