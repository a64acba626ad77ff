-------------------------- MODULE TextWindowsProofs --------------------------
(***************************************************************************)
(* What the windows of chunker.go and the sections of summarizer.go are,   *)
(* for any text and any budget.                                            *)
(*                                                                         *)
(* The operators are recursive functions, that is, CHOOSE f : f = [...].   *)
(* So each proof has two halves: there is a function that solves the       *)
(* recursion (RecursionExists), hence the operator is one; and what every  *)
(* solution computes, by induction.  Induction is the choice of a least    *)
(* counterexample, which the well-founded order of Nat provides.           *)
(***************************************************************************)
EXTENDS TextWindows, SequencesExt, SequenceTheorems, WellFoundedInduction, TLAPS

-----------------------------------------------------------------------------
(* Induction and recursion *)

\* A set of numbers that is not empty has a least one.
LEMMA LeastElement ==
  ASSUME NEW S \in SUBSET Nat, S # {}
  PROVE  \E x \in S : \A y \in S : x <= y
<1>1. PICK x \in S : \A y \in S : <<y, x>> \notin OpToRel(<, Nat)
  BY NatLessThanWellFounded, WFMin, Zenon
<1>2. \A y \in S : ~(y < x)
  BY <1>1 DEF OpToRel
<1> QED
  BY <1>2

\* Induction for membership in a set.
LEMMA NatInduct ==
  ASSUME NEW S, 0 \in S, \A n \in Nat : n \in S => n + 1 \in S
  PROVE  \A n \in Nat : n \in S
<1> SUFFICES ASSUME Nat \ S # {}
             PROVE  FALSE
  OBVIOUS
<1>1. PICK x \in Nat \ S : \A y \in Nat \ S : x <= y
  BY LeastElement
<1>2. x # 0 /\ x - 1 \in Nat /\ x - 1 \notin Nat \ S
  BY <1>1
<1>3. x - 1 + 1 = x
  BY <1>1
<1> QED
  BY <1>1, <1>2, <1>3

\* From 1 up to N.
LEMMA UpInduct ==
  ASSUME NEW N \in Nat, NEW S, \A i \in 1..N : (i # 1 => i - 1 \in S) => i \in S
  PROVE  \A i \in 1..N : i \in S
<1> DEFINE T == {n \in Nat : n \in 1..N => n \in S}
<1>1. 0 \in T
  OBVIOUS
<1>2. ASSUME NEW n \in Nat, n \in T
      PROVE  n + 1 \in T
  <2>1. n + 1 \in 1..N => n + 1 \in S
    BY <1>2
  <2> QED
    BY <2>1
<1>3. \A n \in Nat : n \in T
  <2> HIDE DEF T
  <2> QED
    BY <1>1, <1>2, NatInduct
<1> QED
  BY <1>3

\* From N down to lo: what holds after i holds at i.
LEMMA DownInduct ==
  ASSUME NEW lo \in Nat, NEW N \in Nat, NEW S,
         \A i \in lo..N : (\A j \in i + 1..N : j \in S) => i \in S
  PROVE  \A i \in lo..N : i \in S
<1> DEFINE T == {n \in Nat : \A j \in lo..N : N - j <= n => j \in S}
<1>1. 0 \in T
  <2>1. ASSUME NEW j \in lo..N, N - j <= 0
        PROVE  j \in S
    <3>1. j + 1..N = {}
      BY <2>1
    <3> QED
      BY <3>1
  <2> QED
    BY <2>1
<1>2. ASSUME NEW n \in Nat, n \in T
      PROVE  n + 1 \in T
  <2>1. ASSUME NEW j \in lo..N, N - j <= n + 1
        PROVE  j \in S
    <3>1. \A k \in j + 1..N : k \in lo..N /\ N - k <= n
      BY <2>1
    <3> QED
      BY <1>2, <3>1
  <2> QED
    BY <2>1
<1>3. N \in T
  <2> HIDE DEF T
  <2> QED
    BY <1>1, <1>2, NatInduct
<1> QED
  BY <1>3

(***************************************************************************)
(* A recursion over D: d refers to next[d] if that has a lower rank.       *)
(***************************************************************************)
IsRecursion(D, V, N, rank, base, next, step) ==
  /\ N \in Nat /\ rank \in [D -> 0..N]
  /\ base \in [D -> V] /\ next \in [D -> D] /\ step \in [D -> [V -> V]]

Solution(f, D, V, rank, base, next, step) ==
  /\ f \in [D -> V]
  /\ \A d \in D :
       f[d] = IF rank[next[d]] < rank[d] THEN step[d][f[next[d]]] ELSE base[d]

\* A recursion that descends has a solution, built rank by rank.
LEMMA RecursionExists ==
  ASSUME NEW D, NEW V, NEW N, NEW rank, NEW base, NEW next, NEW step,
         IsRecursion(D, V, N, rank, base, next, step)
  PROVE  \E f : Solution(f, D, V, rank, base, next, step)
<1> USE DEF IsRecursion
<1> DEFINE Below(n) == {d \in D : rank[d] < n}
           Solves(f, n) == \A d \in Below(n) :
             f[d] = IF rank[next[d]] < rank[d] THEN step[d][f[next[d]]] ELSE base[d]
           S == {n \in Nat : \E f \in [Below(n) -> V] : Solves(f, n)}
<1>1. 0 \in S
  <2>1. Below(0) = {}
    OBVIOUS
  <2>2. [d \in Below(0) |-> d] \in [Below(0) -> V] /\ Solves([d \in Below(0) |-> d], 0)
    BY <2>1
  <2> QED
    BY <2>2
<1>2. ASSUME NEW n \in Nat, n \in S
      PROVE  n + 1 \in S
  <2>1. PICK f \in [Below(n) -> V] : Solves(f, n)
    BY <1>2
  <2> DEFINE g == [d \in Below(n + 1) |->
                     IF rank[d] < n THEN f[d]
                     ELSE IF rank[next[d]] < rank[d] THEN step[d][f[next[d]]] ELSE base[d]]
  <2>2. ASSUME NEW d \in Below(n + 1)
        PROVE  /\ g[d] \in V
               /\ g[d] = IF rank[next[d]] < rank[d] THEN step[d][g[next[d]]] ELSE base[d]
    <3>1. d \in D /\ rank[d] \in Nat /\ rank[d] <= n /\ next[d] \in D /\ rank[next[d]] \in Nat
      BY <2>2
    <3>2. rank[next[d]] < rank[d] => /\ next[d] \in Below(n) /\ next[d] \in Below(n + 1)
                                     /\ f[next[d]] \in V /\ g[next[d]] = f[next[d]]
                                     /\ step[d][f[next[d]]] \in V
      BY <3>1
    <3>3. CASE rank[d] < n
      <4>1. d \in Below(n)
        BY <3>1, <3>3
      <4>2. g[d] = f[d] /\ f[d] \in V
        BY <3>3, <4>1, <2>2
      <4> HIDE DEF g
      <4> QED
        BY <4>1, <4>2, <2>1, <3>2
    <3>4. CASE ~(rank[d] < n)
      <4>1. g[d] = IF rank[next[d]] < rank[d] THEN step[d][f[next[d]]] ELSE base[d]
        BY <2>2, <3>4
      <4> HIDE DEF g
      <4> QED
        BY <4>1, <3>1, <3>2
    <3> QED
      BY <3>3, <3>4
  <2>3. g \in [Below(n + 1) -> V] /\ Solves(g, n + 1)
    <3> HIDE DEF g
    <3>1. DOMAIN g = Below(n + 1) /\ g = [d \in DOMAIN g |-> g[d]]
      BY DEF g
    <3> QED
      BY <2>2, <3>1
  <2>4. n + 1 \in Nat
    OBVIOUS
  <2> HIDE DEF g, Below, Solves
  <2> QED
    BY <2>3, <2>4
<1>3. N + 1 \in S
  <2> HIDE DEF S
  <2> QED
    BY <1>1, <1>2, NatInduct
<1>4. Below(N + 1) = D
  OBVIOUS
<1> QED
  BY <1>3, <1>4 DEF Solution

-----------------------------------------------------------------------------
(* FlattenSeq *)

\* f[i] is the concatenation of the first i elements of s.
Flattens(f, s, T) ==
  /\ f \in [1..Len(s) -> Seq(T)]
  /\ FlattenSeq(s) = f[Len(s)]
  /\ f[1] = s[1]
  /\ \A i \in 1..Len(s) : i # 1 => f[i] = f[i - 1] \o s[i]

\* The fold of FlattenSeq is such a recursion.
LEMMA FlattenRecursion ==
  ASSUME NEW T, NEW s \in Seq(Seq(T)), s # <<>>
  PROVE  \E f : Flattens(f, s, T)
<1> DEFINE flatten[i \in 1..Len(s)] == IF i = 1 THEN s[i] ELSE flatten[i - 1] \o s[i]
           D == 1..Len(s)
           V == Seq(T)
           rank == [i \in D |-> i]
           base == [i \in D |-> s[i]]
           next == [i \in D |-> IF i = 1 THEN i ELSE i - 1]
           step == [i \in D |-> [v \in V |-> v \o s[i]]]
<1>1. Len(s) \in Nat \ {0} /\ \A i \in D : s[i] \in V
  OBVIOUS
<1>2. IsRecursion(D, V, Len(s), rank, base, next, step)
  <2>1. \A i \in D : [v \in V |-> v \o s[i]] \in [V -> V]
    BY <1>1
  <2> QED
    BY <1>1, <2>1 DEF IsRecursion
<1> HIDE DEF flatten, D, V, rank, base, next, step
<1>3. PICK f : Solution(f, D, V, rank, base, next, step)
  BY <1>2, RecursionExists
<1> USE DEF D, V
<1>4. \A i \in D : f[i] = IF i = 1 THEN s[i] ELSE f[i - 1] \o s[i]
  <2>1. ASSUME NEW i \in D, i # 1
        PROVE  f[i] = f[i - 1] \o s[i]
    <3>1. i - 1 \in D
      BY <1>1, <2>1
    <3>2. f[i - 1] \in V
      BY <1>3, <3>1 DEF Solution
    <3>3. next[i] = i - 1 /\ rank[i - 1] < rank[i]
      BY <2>1, <3>1 DEF next, rank
    <3>4. step[i][f[i - 1]] = f[i - 1] \o s[i]
      BY <3>2 DEF step
    <3> QED
      BY <1>3, <3>3, <3>4 DEF Solution
  <2>2. 1 \in D /\ f[1] = s[1]
    <3>1. 1 \in D /\ next[1] = 1 /\ rank[1] = 1
      BY <1>1 DEF next, rank
    <3> QED
      BY <1>3, <3>1 DEF base, Solution
  <2> QED
    BY <2>1, <2>2
<1>5. f = [i \in 1..Len(s) |-> IF i = 1 THEN s[i] ELSE f[i - 1] \o s[i]]
  BY <1>3, <1>4 DEF Solution
<1>6. flatten = [i \in 1..Len(s) |-> IF i = 1 THEN s[i] ELSE flatten[i - 1] \o s[i]]
  BY <1>5 DEF flatten
<1>7. FlattenSeq(s) = flatten[Len(s)]
  BY <1>1, Zenon DEF FlattenSeq, flatten
<1>8. \A i \in D : flatten[i] \in Seq(T)
  <2> DEFINE S == {i \in D : flatten[i] \in Seq(T)}
  <2>1. ASSUME NEW i \in D, i # 1 => i - 1 \in S
        PROVE  i \in S
    <3>1. i = 1 => flatten[i] = s[i]
      BY <1>6
    <3>2. i # 1 => flatten[i] = flatten[i - 1] \o s[i] /\ flatten[i - 1] \in Seq(T)
      BY <1>6, <2>1
    <3>3. s[i] \in Seq(T)
      BY <1>1
    <3>4. flatten[i] \in Seq(T)
      BY <3>1, <3>2, <3>3, ConcatProperties
    <3> QED
      BY <3>4
  <2> HIDE DEF S
  <2>2. \A i \in D : i \in S
    BY <1>1, <2>1, UpInduct
  <2> QED
    BY <2>2 DEF S
<1>9. 1 \in D /\ flatten[1] = s[1] /\ \A i \in D : i # 1 => flatten[i] = flatten[i - 1] \o s[i]
  <2>1. 1 \in D
    BY <1>1
  <2>2. flatten[1] = s[1]
    BY <1>6, <2>1
  <2>3. \A i \in D : i # 1 => flatten[i] = flatten[i - 1] \o s[i]
    BY <1>6
  <2> QED
    BY <2>1, <2>2, <2>3
<1>10. flatten \in [D -> Seq(T)]
  BY <1>6, <1>8
<1> QED
  BY <1>7, <1>9, <1>10 DEF Flattens

LEMMA FlattenType ==
  ASSUME NEW T, NEW s \in Seq(Seq(T))
  PROVE  FlattenSeq(s) \in Seq(T)
<1>1. CASE s = <<>>
  BY <1>1 DEF FlattenSeq
<1>2. CASE s # <<>>
  <2>1. Len(s) \in 1..Len(s)
    BY <1>2
  <2>2. PICK f : Flattens(f, s, T)
    BY <1>2, FlattenRecursion
  <2> QED
    BY <2>1, <2>2 DEF Flattens
<1> QED
  BY <1>1, <1>2

LEMMA FlattenOne ==
  ASSUME NEW T, NEW x \in Seq(T)
  PROVE  FlattenSeq(<<x>>) = x
<1>1. <<x>> \in Seq(Seq(T)) /\ <<x>> # <<>> /\ Len(<<x>>) = 1 /\ <<x>>[1] = x
  OBVIOUS
<1>2. PICK f : Flattens(f, <<x>>, T)
  BY <1>1, FlattenRecursion, Zenon
<1> QED
  BY <1>1, <1>2 DEF Flattens

\* The first element goes to the front.
LEMMA FlattenCons ==
  ASSUME NEW T, NEW x \in Seq(T), NEW s \in Seq(Seq(T))
  PROVE  FlattenSeq(<<x>> \o s) = x \o FlattenSeq(s)
<1>1. CASE s = <<>>
  <2>1. <<x>> \o s = <<x>> /\ FlattenSeq(s) = <<>> /\ x \o <<>> = x
    BY <1>1 DEF FlattenSeq
  <2> QED
    BY <2>1, FlattenOne
<1>2. CASE s # <<>>
  <2>0. ASSUME NEW a \in Seq(T), NEW b \in Seq(T), NEW c \in Seq(T)
        PROVE  (a \o b) \o c = a \o (b \o c)
    BY ConcatAssociative, SMTT(30)
  <2> DEFINE t == <<x>> \o s
             n == Len(s)
  <2>1. /\ t \in Seq(Seq(T)) /\ t # <<>>
        /\ n \in Nat \ {0} /\ Len(t) = n + 1
        /\ t[1] = x /\ \A i \in 1..n : t[i + 1] = s[i] /\ s[i] \in Seq(T)
    BY <1>2
  <2> HIDE DEF t
  <2>2. PICK f : Flattens(f, s, T)
    BY <1>2, FlattenRecursion
  <2>3. PICK g : Flattens(g, t, T)
    BY <2>1, FlattenRecursion, Zenon
  <2>4. /\ f[1] = s[1] /\ f[n] = FlattenSeq(s) /\ f \in [1..n -> Seq(T)]
        /\ \A i \in 1..n : i # 1 => f[i] = f[i - 1] \o s[i]
    BY <2>2 DEF Flattens
  <2>5. /\ g[1] = x /\ g[n + 1] = FlattenSeq(t)
        /\ \A i \in 1..n : g[i + 1] = g[i] \o s[i]
    <3>1. \A i \in 1..n : i + 1 \in 1..Len(t) /\ i + 1 # 1 /\ (i + 1) - 1 = i
      BY <2>1
    <3> QED
      BY <2>1, <2>3, <3>1 DEF Flattens
  <2> HIDE DEF n
  <2> DEFINE S == {i \in 1..n : g[i + 1] = x \o f[i]}
  <2>6. ASSUME NEW i \in 1..n, i # 1 => i - 1 \in S
        PROVE  i \in S
    <3>1. g[i + 1] = g[i] \o s[i]
      BY <2>5
    <3>2. CASE i = 1
      BY <2>4, <2>5, <3>1, <3>2
    <3>3. CASE i # 1
      <4>1. i - 1 \in 1..n /\ i - 1 + 1 = i /\ g[i] = x \o f[i - 1]
        BY <2>6, <3>3
      <4>2. f[i - 1] \in Seq(T) /\ s[i] \in Seq(T) /\ f[i] = f[i - 1] \o s[i]
        BY <2>1, <2>4, <3>3, <4>1
      <4>3. (x \o f[i - 1]) \o s[i] = x \o (f[i - 1] \o s[i])
        BY <2>0, <4>2, Zenon
      <4> QED
        BY <3>1, <4>1, <4>2, <4>3
    <3> QED
      BY <3>2, <3>3
  <2>7. n \in S
    <3> HIDE DEF S
    <3>1. \A i \in 1..n : i \in S
      BY <2>1, <2>6, UpInduct
    <3> QED
      BY <2>1, <3>1
  <2> QED
    BY <2>1, <2>4, <2>5, <2>7 DEF t
<1> QED
  BY <1>1, <1>2

-----------------------------------------------------------------------------
(* Windows *)

\* The end of the window that begins after sentence start.
End(start, n) == IF start + 3 > n THEN n ELSE start + 3

\* The loop of Chunk, unrolled once.
LEMMA WindowsRecursion ==
  ASSUME NEW n \in Nat \ {0}
  PROVE  \E from : /\ Windows(n) = from[0]
                  /\ \A start \in 0..n :
                       from[start] = IF start + 3 >= n
                                       THEN <<start + 1 .. n>>
                                       ELSE <<start + 1 .. start + 3>> \o from[start + 2]
<1> DEFINE from[start \in 0..n] ==
             LET end == IF start + chunkSize > n THEN n ELSE start + chunkSize
                 window == start + 1 .. end
             IN IF end = n THEN <<window>> ELSE <<window>> \o from[start + stride]
           D == 0..n
           V == Seq(SUBSET Nat)
           rank == [i \in D |-> n - i]
           base == [i \in D |-> <<i + 1 .. n>>]
           next == [i \in D |-> IF i + 3 >= n THEN i ELSE i + 2]
           step == [i \in D |-> [v \in V |-> <<i + 1 .. i + 3>> \o v]]
<1>1. IsRecursion(D, V, n, rank, base, next, step)
  <2>1. \A i \in D : i + 1 .. n \in SUBSET Nat /\ i + 1 .. i + 3 \in SUBSET Nat
    OBVIOUS
  <2>2. base \in [D -> V]
    BY <2>1
  <2>3. step \in [D -> [V -> V]]
    <3>1. \A i \in D : [v \in V |-> <<i + 1 .. i + 3>> \o v] \in [V -> V]
      BY <2>1
    <3> QED
      BY <3>1
  <2>4. rank \in [D -> 0..n] /\ next \in [D -> D]
    OBVIOUS
  <2> QED
    BY <2>2, <2>3, <2>4 DEF IsRecursion
<1>2. Windows(n) = from[0]
  BY Zenon DEF Windows
<1> HIDE DEF from, D, V, rank, base, next, step
<1>3. PICK f : Solution(f, D, V, rank, base, next, step)
  BY <1>1, RecursionExists
<1>4. ASSUME NEW i \in D
      PROVE  f[i] = IF i + 3 >= n THEN <<i + 1 .. n>> ELSE <<i + 1 .. i + 3>> \o f[i + 2]
  <2>1. CASE i + 3 >= n
    <3>1. next[i] = i /\ ~(rank[i] < rank[i]) /\ base[i] = <<i + 1 .. n>>
      BY <2>1 DEF next, rank, base, D
    <3> QED
      BY <1>3, <2>1, <3>1 DEF Solution
  <2>2. CASE ~(i + 3 >= n)
    <3>1. i + 2 \in D /\ next[i] = i + 2 /\ rank[i + 2] < rank[i]
      BY <2>2 DEF next, rank, D
    <3>2. f[i + 2] \in V
      BY <1>3, <3>1 DEF Solution
    <3>3. step[i][f[i + 2]] = <<i + 1 .. i + 3>> \o f[i + 2]
      BY <3>2 DEF step
    <3> QED
      BY <1>3, <2>2, <3>1, <3>3 DEF Solution
  <2> QED
    BY <2>1, <2>2
<1>5. ASSUME NEW g, NEW i \in 0..n
      PROVE  (LET end == IF i + chunkSize > n THEN n ELSE i + chunkSize
                  window == i + 1 .. end
              IN IF end = n THEN <<window>> ELSE <<window>> \o g[i + stride])
             = IF i + 3 >= n THEN <<i + 1 .. n>> ELSE <<i + 1 .. i + 3>> \o g[i + 2]
  BY DEF chunkSize, stride
<1>6. f = [start \in 0..n |->
             LET end == IF start + chunkSize > n THEN n ELSE start + chunkSize
                 window == start + 1 .. end
             IN IF end = n THEN <<window>> ELSE <<window>> \o f[start + stride]]
  BY <1>3, <1>4, <1>5 DEF Solution, D
<1>7. from = [start \in 0..n |->
                LET end == IF start + chunkSize > n THEN n ELSE start + chunkSize
                    window == start + 1 .. end
                IN IF end = n THEN <<window>> ELSE <<window>> \o from[start + stride]]
  BY <1>6, Zenon DEF from
<1>8. \A i \in 0..n :
        from[i] = IF i + 3 >= n THEN <<i + 1 .. n>> ELSE <<i + 1 .. i + 3>> \o from[i + 2]
  <2> TAKE i \in 0..n
  <2>1. from[i] = LET end == IF i + chunkSize > n THEN n ELSE i + chunkSize
                      window == i + 1 .. end
                  IN IF end = n THEN <<window>> ELSE <<window>> \o from[i + stride]
    BY <1>7, Zenon
  <2> QED
    BY <1>5, <2>1, Zenon
<1> QED
  BY <1>2, <1>8

\* v is the windows of n sentences from the one after start on.
WindowsFrom(v, start, n) ==
  /\ v \in Seq(SUBSET Nat) /\ v # <<>>
  /\ \A w \in 1..Len(v) :
       /\ v[w] = (start + 2 * w - 1) .. End(start + 2 * w - 2, n)
       /\ w < Len(v) <=> start + 2 * w + 1 < n

\* By induction from the last window back to the first.
LEMMA WindowsAre ==
  ASSUME NEW n \in Nat \ {0}
  PROVE  WindowsFrom(Windows(n), 0, n)
<1>1. PICK from :
        /\ Windows(n) = from[0]
        /\ \A start \in 0..n :
             from[start] = IF start + 3 >= n THEN <<start + 1 .. n>>
                           ELSE <<start + 1 .. start + 3>> \o from[start + 2]
  BY WindowsRecursion
<1> DEFINE S == {i \in 0..n : WindowsFrom(from[i], i, n)}
<1>2. ASSUME NEW i \in 0..n, \A j \in i + 1..n : j \in S
      PROVE  i \in S
  <2>1. CASE i + 3 >= n
    <3>1. from[i] = <<i + 1 .. n>>
      BY <1>1, <2>1
    <3>2. WindowsFrom(<<i + 1 .. n>>, i, n)
      BY <2>1 DEF WindowsFrom, End
    <3> QED
      BY <3>1, <3>2
  <2>2. CASE ~(i + 3 >= n)
    <3> DEFINE x == i + 1 .. i + 3
               v == from[i + 2]
    <3>1. from[i] = <<x>> \o v
      BY <1>1, <2>2
    <3>2. WindowsFrom(v, i + 2, n)
      BY <1>2, <2>2
    <3>3. x \in SUBSET Nat /\ x = i + 1 .. End(i, n)
      BY <2>2 DEF End
    <3> HIDE DEF x, v
    <3>4. v \in Seq(SUBSET Nat) /\ Len(v) \in Nat \ {0}
      BY <3>2 DEF WindowsFrom
    <3>5. /\ <<x>> \o v \in Seq(SUBSET Nat) /\ <<x>> \o v # <<>>
          /\ Len(<<x>> \o v) = Len(v) + 1
          /\ (<<x>> \o v)[1] = x
          /\ \A w \in 2..Len(v) + 1 : (<<x>> \o v)[w] = v[w - 1]
      BY <3>3, <3>4
    <3>6. ASSUME NEW w \in 1..Len(v) + 1
          PROVE  /\ (<<x>> \o v)[w] = (i + 2 * w - 1) .. End(i + 2 * w - 2, n)
                 /\ w < Len(v) + 1 <=> i + 2 * w + 1 < n
      <4>1. CASE w = 1
        <5>1. i + 2 * 1 - 1 = i + 1 /\ i + 2 * 1 - 2 = i /\ i + 2 * 1 + 1 = i + 3
          OBVIOUS
        <5> QED
          BY <2>2, <3>3, <3>4, <3>5, <4>1, <5>1
      <4>2. CASE w # 1
        <5>1. /\ w - 1 \in 1..Len(v) /\ w \in 2..Len(v) + 1
              /\ (i + 2) + 2 * (w - 1) - 1 = i + 2 * w - 1
              /\ (i + 2) + 2 * (w - 1) - 2 = i + 2 * w - 2
              /\ (i + 2) + 2 * (w - 1) + 1 = i + 2 * w + 1
              /\ w < Len(v) + 1 <=> w - 1 < Len(v)
          BY <3>4, <4>2
        <5>2. /\ v[w - 1] = ((i + 2) + 2 * (w - 1) - 1) .. End((i + 2) + 2 * (w - 1) - 2, n)
              /\ w - 1 < Len(v) <=> (i + 2) + 2 * (w - 1) + 1 < n
          BY <3>2, <5>1 DEF WindowsFrom
        <5> QED
          BY <3>5, <5>1, <5>2
      <4> QED
        BY <4>1, <4>2
    <3> QED
      BY <3>1, <3>5, <3>6 DEF WindowsFrom
  <2> QED
    BY <2>1, <2>2
<1>3. 0 \in S
  <2> HIDE DEF S
  <2>1. \A i \in 0..n : i \in S
    BY <1>2, DownInduct
  <2> QED
    BY <2>1
<1> QED
  BY <1>1, <1>3

-----------------------------------------------------------------------------
(* Sections *)

(***************************************************************************)
(* cutAtSentenceBoundary: the cut is within the budget and not at the      *)
(* start, and if it is not a sentence end there was none to be had.        *)
(***************************************************************************)
LEMMA CutFacts ==
  ASSUME NEW t \in Seq(Chars), NEW max \in Nat \ {0}, max < Len(t)
  PROVE  LET cut == CutAtSentenceBoundary(t, max) IN
           /\ cut \in 1..max
           /\ \/ t[cut] = "stop" /\ t[cut + 1] = "space"
              \/ \A i \in 1..cut - 1 : ~(t[i] = "stop" /\ t[i + 1] = "space")
<1> DEFINE limit == IF max > Len(t) THEN Len(t) ELSE max
           boundaries == {i \in 1..limit : t[i] = "stop" /\ i < Len(t) /\ t[i + 1] = "space"}
<1>1. CutAtSentenceBoundary(t, max) =
        IF boundaries = {} THEN limit
        ELSE CHOOSE i \in boundaries : \A j \in boundaries : j <= i
  BY Zenon DEF CutAtSentenceBoundary
<1>0. limit = max /\ Len(t) \in Nat
  OBVIOUS
<1> HIDE DEF limit
<1>2. CASE boundaries = {}
  <2>1. CutAtSentenceBoundary(t, max) = max
    BY <1>0, <1>1, <1>2
  <2>2. ASSUME NEW i \in 1..max - 1
        PROVE  ~(t[i] = "stop" /\ t[i + 1] = "space")
    <3>1. i \in 1..limit /\ i < Len(t)
      BY <1>0
    <3> QED
      BY <1>2, <3>1
  <2> QED
    BY <2>1, <2>2
<1>3. CASE boundaries # {}
  <2>1. \E i \in boundaries : \A j \in boundaries : j <= i
    <3> DEFINE S == {max - i : i \in boundaries}
    <3>1. S \in SUBSET Nat /\ S # {}
      BY <1>0, <1>3
    <3>2. PICK x \in S : \A y \in S : x <= y
      <4> HIDE DEF S
      <4> QED
        BY <3>1, LeastElement
    <3>3. PICK i \in boundaries : x = max - i
      OBVIOUS
    <3>4. ASSUME NEW j \in boundaries
          PROVE  j <= i
      <4>1. max - j \in S
        OBVIOUS
      <4>2. max - i <= max - j
        BY <3>2, <3>3, <4>1
      <4> QED
        BY <1>0, <4>2
    <3> QED
      BY <3>4
  <2>2. CutAtSentenceBoundary(t, max) \in boundaries
    <3> HIDE DEF boundaries
    <3> QED
      BY <1>1, <1>3, <2>1
  <2> QED
    BY <1>0, <2>2
<1> QED
  BY <1>2, <1>3

Rest(t, i) == SubSeq(t, i, Len(t))
Cut(t, i, m) == CutAtSentenceBoundary(Rest(t, i), m * 2)

\* The text from i on, as splitSections holds it in rest.
LEMMA RestFacts ==
  ASSUME NEW t \in Seq(Chars), NEW i \in 1..Len(t) + 1
  PROVE  /\ Rest(t, i) \in Seq(Chars) /\ Len(Rest(t, i)) = Len(t) + 1 - i
         /\ \A j \in 1..Len(t) + 1 - i : Rest(t, i)[j] = t[i + j - 1]
         /\ Rest(t, i) = <<>> <=> i = Len(t) + 1
<1>1. Len(t) \in Nat /\ \A j \in i..Len(t) : t[j] \in Chars
  OBVIOUS
<1>2. /\ SubSeq(t, i, Len(t)) \in Seq(Chars)
      /\ Len(SubSeq(t, i, Len(t))) = IF i <= Len(t) THEN Len(t) - i + 1 ELSE 0
      /\ \A j \in 1..Len(t) - i + 1 : SubSeq(t, i, Len(t))[j] = t[i + j - 1]
  BY <1>1, SubSeqProperties
<1>3. Rest(t, i) \in Seq(Chars) /\ Len(Rest(t, i)) = Len(t) + 1 - i
  BY <1>1, <1>2 DEF Rest
<1>4. Rest(t, i) = <<>> <=> Len(Rest(t, i)) = 0
  BY <1>3
<1>5. \A j \in 1..Len(t) + 1 - i : Rest(t, i)[j] = t[i + j - 1]
  BY <1>1, <1>2 DEF Rest
<1> QED
  BY <1>1, <1>3, <1>4, <1>5

\* The loop of splitSections, unrolled once; it advances, so it ends.
LEMMA SectionsRecursion ==
  ASSUME NEW t \in Seq(Chars), NEW m \in Nat \ {0}
  PROVE  \E from : /\ Sections(t, m) = from[1]
                  /\ \A i \in 1..Len(t) + 1 :
                       from[i] = IF Rest(t, i) = <<>> THEN <<>>
                                 ELSE IF Len(Rest(t, i)) <= m * 2 THEN <<Rest(t, i)>>
                                 ELSE <<SubSeq(Rest(t, i), 1, Cut(t, i, m))>> \o from[i + Cut(t, i, m)]
<1> DEFINE Body(g, i) ==
        LET rest == SubSeq(t, i, Len(t))
            cut == CutAtSentenceBoundary(rest, m * 2)
        IN IF rest = <<>> THEN <<>>
           ELSE IF Len(rest) <= m * 2 THEN <<rest>>
           ELSE <<SubSeq(rest, 1, cut)>> \o g[i + cut]
<1> DEFINE from[i \in 1..Len(t) + 1] == Body(from, i)
           D == 1..Len(t) + 1
           V == Seq(Seq(Chars))
           Ends(i) == Rest(t, i) = <<>> \/ Len(Rest(t, i)) <= m * 2
           rank == [i \in D |-> Len(t) + 1 - i]
           base == [i \in D |-> IF Rest(t, i) = <<>> THEN <<>> ELSE <<Rest(t, i)>>]
           next == [i \in D |-> IF Ends(i) THEN i ELSE i + Cut(t, i, m)]
           step == [i \in D |-> [v \in V |-> IF Ends(i) THEN v
                                            ELSE <<SubSeq(Rest(t, i), 1, Cut(t, i, m))>> \o v]]
<1>0. Len(t) \in Nat
  OBVIOUS
<1>1. ASSUME NEW i \in D, ~Ends(i)
      PROVE  /\ Cut(t, i, m) \in 1..m * 2 /\ i + Cut(t, i, m) \in D
             /\ SubSeq(Rest(t, i), 1, Cut(t, i, m)) \in Seq(Chars)
  <2>1. /\ Rest(t, i) \in Seq(Chars) /\ Len(Rest(t, i)) = Len(t) + 1 - i
        /\ m * 2 \in Nat \ {0} /\ m * 2 < Len(Rest(t, i))
    BY <1>0, <1>1, RestFacts
  <2>2. Cut(t, i, m) \in 1..m * 2
    BY <2>1, CutFacts DEF Cut
  <2> QED
    BY <1>0, <2>1, <2>2, SubSeqProperties
<1>2. IsRecursion(D, V, Len(t) + 1, rank, base, next, step)
  <2>1. base \in [D -> V]
    <3>1. ASSUME NEW i \in D
          PROVE  (IF Rest(t, i) = <<>> THEN <<>> ELSE <<Rest(t, i)>>) \in V
      BY RestFacts
    <3> QED
      BY <3>1
  <2>2. next \in [D -> D]
    BY <1>1
  <2>3. step \in [D -> [V -> V]]
    <3>1. ASSUME NEW i \in D
          PROVE  [v \in V |-> IF Ends(i) THEN v
                             ELSE <<SubSeq(Rest(t, i), 1, Cut(t, i, m))>> \o v] \in [V -> V]
      BY <1>1
    <3> QED
      BY <3>1
  <2>4. rank \in [D -> 0..Len(t) + 1] /\ Len(t) + 1 \in Nat
    BY <1>0
  <2> QED
    BY <2>1, <2>2, <2>3, <2>4 DEF IsRecursion
<1>3. Sections(t, m) = from[1]
  BY Zenon DEF Sections
<1> HIDE DEF from, D, V, rank, base, next, step, Ends
<1>4. PICK f : Solution(f, D, V, rank, base, next, step)
  BY <1>2, RecursionExists
<1>5. ASSUME NEW i \in D
      PROVE  f[i] = Body(f, i)
  <2>1. CASE Ends(i)
    <3>1. next[i] = i /\ ~(rank[i] < rank[i])
      BY <1>0, <2>1 DEF next, rank, D
    <3>2. f[i] = IF Rest(t, i) = <<>> THEN <<>> ELSE <<Rest(t, i)>>
      BY <1>4, <3>1 DEF Solution, base
    <3> QED
      BY <2>1, <3>2 DEF Ends, Rest
  <2>2. CASE ~Ends(i)
    <3>1. i + Cut(t, i, m) \in D /\ Cut(t, i, m) \in Nat \ {0}
      BY <1>1, <2>2
    <3>2. next[i] = i + Cut(t, i, m) /\ rank[i + Cut(t, i, m)] < rank[i]
      BY <1>0, <2>2, <3>1 DEF next, rank, D
    <3>3. f[i + Cut(t, i, m)] \in V
      BY <1>4, <3>1 DEF Solution
    <3>4. f[i] = <<SubSeq(Rest(t, i), 1, Cut(t, i, m))>> \o f[i + Cut(t, i, m)]
      BY <1>4, <2>2, <3>2, <3>3 DEF Solution, step
    <3> QED
      BY <2>2, <3>4 DEF Ends, Rest, Cut
  <2> QED
    BY <2>1, <2>2
<1>6. f = [i \in 1..Len(t) + 1 |-> Body(f, i)]
  BY <1>4, <1>5 DEF Solution, D
<1>7. from = [i \in 1..Len(t) + 1 |-> Body(from, i)]
  BY <1>6, Zenon DEF from
<1>8. ASSUME NEW i \in 1..Len(t) + 1
      PROVE  from[i] = IF Rest(t, i) = <<>> THEN <<>>
                       ELSE IF Len(Rest(t, i)) <= m * 2 THEN <<Rest(t, i)>>
                       ELSE <<SubSeq(Rest(t, i), 1, Cut(t, i, m))>> \o from[i + Cut(t, i, m)]
  <2>1. from[i] = Body(from, i)
    BY <1>7, Zenon
  <2> QED
    BY <2>1, Zenon DEF Rest, Cut
<1> QED
  BY <1>3, <1>8

\* What SectionsFit says of the sections v, with a budget of m tokens.
FitAt(v, s, m) ==
  /\ v[s] # <<>>
  /\ 2 * EstimateTokens(v[s]) <= m
  /\ s < Len(v) =>
       \/ Last(v[s]) = "stop" /\ Head(v[s + 1]) = "space"
       \/ \A i \in 1..Len(v[s]) - 1 : ~(v[s][i] = "stop" /\ v[s][i + 1] = "space")

Fit(v, m) == \A s \in DOMAIN v : FitAt(v, s, m)

\* v is the sections of the text t from position i on.
SectionsFrom(v, t, i, m) ==
  /\ v \in Seq(Seq(Chars))
  /\ FlattenSeq(v) = Rest(t, i)
  /\ i <= Len(t) => v # <<>> /\ Head(v[1]) = t[i]
  /\ Fit(v, m)

\* Half the budget in tokens, at four characters to a token.
LEMMA WithinBudget ==
  ASSUME NEW x \in Seq(Chars), NEW m \in Nat, Len(x) <= m * 2
  PROVE  2 * EstimateTokens(x) <= m
<1>1. \A n \in Nat : n <= m * 2 => 2 * (n \div 4) <= m
  OBVIOUS
<1> QED
  BY <1>1 DEF EstimateTokens

\* What is left fits a section.
LEMMA LastSection ==
  ASSUME NEW t \in Seq(Chars), NEW m \in Nat \ {0}, NEW i \in 1..Len(t),
         Len(Rest(t, i)) <= m * 2
  PROVE  SectionsFrom(<<Rest(t, i)>>, t, i, m)
<1> DEFINE r == Rest(t, i)
<1>1. r \in Seq(Chars) /\ Len(r) = Len(t) + 1 - i /\ r # <<>> /\ r[1] = t[i]
  BY RestFacts
<1>2. FlattenSeq(<<r>>) = r
  BY <1>1, FlattenOne
<1>3. 2 * EstimateTokens(r) <= m
  BY <1>1, WithinBudget
<1> HIDE DEF r
<1>4. /\ <<r>> \in Seq(Seq(Chars)) /\ <<r>> # <<>> /\ Len(<<r>>) = 1 /\ <<r>>[1] = r
      /\ DOMAIN <<r>> = {1} /\ Head(r) = r[1]
  BY <1>1
<1>5. Fit(<<r>>, m)
  BY <1>1, <1>3, <1>4 DEF Fit, FitAt
<1> QED
  BY <1>1, <1>2, <1>4, <1>5 DEF SectionsFrom, r

\* A section is cut off what is left.
LEMMA NextSection ==
  ASSUME NEW t \in Seq(Chars), NEW m \in Nat \ {0}, NEW i \in 1..Len(t),
         m * 2 < Len(Rest(t, i)),
         NEW v, SectionsFrom(v, t, i + Cut(t, i, m), m)
  PROVE  SectionsFrom(<<SubSeq(Rest(t, i), 1, Cut(t, i, m))>> \o v, t, i, m)
<1> DEFINE r == Rest(t, i)
           cut == Cut(t, i, m)
           x == SubSeq(r, 1, cut)
           w == <<x>> \o v
<1>1. /\ Len(t) \in Nat /\ r \in Seq(Chars) /\ Len(r) = Len(t) + 1 - i
      /\ \A j \in 1..Len(t) + 1 - i : r[j] = t[i + j - 1]
  BY RestFacts
<1>2. /\ cut \in 1..m * 2
      /\ \/ r[cut] = "stop" /\ r[cut + 1] = "space"
         \/ \A j \in 1..cut - 1 : ~(r[j] = "stop" /\ r[j + 1] = "space")
  BY <1>1, CutFacts DEF Cut
<1>3. /\ x \in Seq(Chars) /\ Len(x) = cut /\ x # <<>>
      /\ \A j \in 1..cut : x[j] = r[j]
  BY <1>1, <1>2
<1>4. /\ i + cut \in 1..Len(t)
      /\ v \in Seq(Seq(Chars)) /\ v # <<>> /\ Head(v[1]) = t[i + cut]
      /\ FlattenSeq(v) = Rest(t, i + cut) /\ Fit(v, m)
  BY <1>1, <1>2 DEF SectionsFrom
<1> HIDE DEF r, cut, x, w
<1>5. /\ w \in Seq(Seq(Chars)) /\ w # <<>> /\ Len(w) = Len(v) + 1 /\ w[1] = x
      /\ \A s \in 1..Len(v) : w[s + 1] = v[s]
      /\ Len(v) \in Nat \ {0}
  BY <1>3, <1>4 DEF w
<1>6. FlattenSeq(w) = r
  <2>1. FlattenSeq(w) = x \o Rest(t, i + cut)
    BY <1>3, <1>4, FlattenCons DEF w
  <2>2. x = SubSeq(t, i, i + cut - 1)
    <3> DEFINE y == SubSeq(t, i, i + cut - 1)
    <3>1. cut \in Nat \ {0} /\ \A j \in i..i + cut - 1 : t[j] \in Chars
      BY <1>1, <1>2, <1>4
    <3>2. y \in Seq(Chars) /\ Len(y) = cut /\ \A j \in 1..cut : y[j] = t[i + j - 1]
      BY <3>1, SubSeqProperties
    <3>3. \A j \in 1..cut : x[j] = t[i + j - 1]
      <4>1. \A j \in 1..cut : j \in 1..Len(t) + 1 - i
        BY <1>1, <1>2, <1>4
      <4> QED
        BY <1>1, <1>3, <4>1
    <3> HIDE DEF y
    <3>4. x = y
      BY <1>3, <3>2, <3>3, SeqEqual
    <3> QED
      BY <3>4 DEF y
  <2>3. SubSeq(t, i, i + cut - 1) \o SubSeq(t, i + cut, Len(t)) = SubSeq(t, i, Len(t))
    <3>1. /\ i \in 1..Len(t) + 1 /\ i + cut - 1 \in i - 1..Len(t)
          /\ Len(t) \in i + cut - 1..Len(t) /\ (i + cut - 1) + 1 = i + cut
      BY <1>1, <1>2, <1>4
    <3> QED
      BY <3>1, ConcatAdjacentSubSeq
  <2> QED
    BY <2>1, <2>2, <2>3 DEF Rest, r
<1>7. Head(w[1]) = t[i]
  <2>1. r[1] = t[i]
    BY <1>1
  <2>2. x[1] = r[1]
    BY <1>2, <1>3
  <2> QED
    BY <1>3, <1>5, <2>1, <2>2
<1>8. FitAt(w, 1, m)
  <2>1. 2 * EstimateTokens(x) <= m
    BY <1>2, <1>3, WithinBudget
  <2>2. Last(x) = r[cut] /\ Head(w[2]) = r[cut + 1]
    <3>1. w[2] = v[1]
      BY <1>5
    <3>2. r[cut + 1] = t[i + cut]
      BY <1>1, <1>2, <1>4
    <3> QED
      BY <1>2, <1>3, <1>4, <3>1, <3>2 DEF Last
  <2>3. CASE r[cut] = "stop" /\ r[cut + 1] = "space"
    BY <1>3, <1>5, <2>1, <2>2, <2>3 DEF FitAt
  <2>4. CASE \A j \in 1..cut - 1 : ~(r[j] = "stop" /\ r[j + 1] = "space")
    <3>1. \A j \in 1..Len(x) - 1 : ~(x[j] = "stop" /\ x[j + 1] = "space")
      BY <1>2, <1>3, <2>4
    <3> QED
      BY <1>3, <1>5, <2>1, <3>1 DEF FitAt
  <2> QED
    BY <1>2, <2>3, <2>4
<1>9. ASSUME NEW s \in 1..Len(v)
      PROVE  FitAt(w, s + 1, m)
  <2>1. FitAt(v, s, m)
    BY <1>4 DEF Fit
  <2>2. w[s + 1] = v[s] /\ (s + 1 < Len(w) => s < Len(v))
    BY <1>5
  <2>3. s + 1 < Len(w) => w[(s + 1) + 1] = v[s + 1]
    <3>1. s + 1 < Len(w) => s + 1 \in 1..Len(v)
      BY <1>5
    <3> QED
      BY <1>5, <3>1
  <2> QED
    BY <2>1, <2>2, <2>3 DEF FitAt
<1>10. Fit(w, m)
  <2>1. ASSUME NEW s \in DOMAIN w
        PROVE  s = 1 \/ \E k \in 1..Len(v) : s = k + 1
    <3>1. s = 1 \/ (s - 1 \in 1..Len(v) /\ s = (s - 1) + 1)
      BY <1>5
    <3> QED
      BY <3>1
  <2> QED
    BY <1>8, <1>9, <2>1 DEF Fit
<1> QED
  BY <1>5, <1>6, <1>7, <1>10 DEF SectionsFrom, w, x, r, cut

(***************************************************************************)
(* splitSections, for any text and budget: the sections are the text, cut  *)
(* up, and each of them fits.                                              *)
(***************************************************************************)
LEMMA SectionsAre ==
  ASSUME NEW t \in Seq(Chars), NEW m \in Nat \ {0}
  PROVE  SectionsFrom(Sections(t, m), t, 1, m)
<1>1. PICK from :
        /\ Sections(t, m) = from[1]
        /\ \A i \in 1..Len(t) + 1 :
             from[i] = IF Rest(t, i) = <<>> THEN <<>>
                       ELSE IF Len(Rest(t, i)) <= m * 2 THEN <<Rest(t, i)>>
                       ELSE <<SubSeq(Rest(t, i), 1, Cut(t, i, m))>> \o from[i + Cut(t, i, m)]
  BY SectionsRecursion
<1> DEFINE N == Len(t) + 1
           S == {i \in 1..N : SectionsFrom(from[i], t, i, m)}
<1>2. Len(t) \in Nat
  OBVIOUS
<1>3. ASSUME NEW i \in 1..N, \A j \in i + 1..N : j \in S
      PROVE  i \in S
  <2>1. Rest(t, i) \in Seq(Chars) /\ Len(Rest(t, i)) = Len(t) + 1 - i
    BY RestFacts
  <2>2. CASE i = N
    <3>1. Rest(t, i) = <<>> /\ from[i] = <<>>
      BY <1>1, <2>2, RestFacts
    <3>2. SectionsFrom(<<>>, t, i, m)
      BY <1>2, <2>2, <3>1 DEF SectionsFrom, Fit, FlattenSeq
    <3> QED
      BY <3>1, <3>2
  <2>3. CASE i # N /\ Len(Rest(t, i)) <= m * 2
    <3>1. i \in 1..Len(t)
      BY <1>2, <2>3
    <3>2. from[i] = <<Rest(t, i)>>
      BY <1>1, <1>2, <2>3, RestFacts
    <3> QED
      BY <2>3, <3>1, <3>2, LastSection
  <2>4. CASE i # N /\ m * 2 < Len(Rest(t, i))
    <3>1. i \in 1..Len(t)
      BY <1>2, <2>4
    <3>2. from[i] = <<SubSeq(Rest(t, i), 1, Cut(t, i, m))>> \o from[i + Cut(t, i, m)]
      <4>1. Rest(t, i) # <<>>
        BY <2>1, <2>4
      <4>2. ~(Len(Rest(t, i)) <= m * 2)
        BY <2>1, <2>4
      <4> QED
        BY <1>1, <4>1, <4>2
    <3>3. Cut(t, i, m) \in 1..m * 2
      BY <2>1, <2>4, CutFacts DEF Cut
    <3>4. i + Cut(t, i, m) \in i + 1..N
      BY <1>2, <2>1, <2>4, <3>3
    <3>5. SectionsFrom(from[i + Cut(t, i, m)], t, i + Cut(t, i, m), m)
      BY <1>3, <3>4
    <3> QED
      BY <2>4, <3>1, <3>2, <3>5, NextSection
  <2> QED
    BY <1>2, <2>1, <2>2, <2>3, <2>4
<1>4. 1 \in S
  <2>1. N \in Nat /\ 1 \in 1..N
    BY <1>2
  <2> HIDE DEF N, S
  <2>2. \A i \in 1..N : i \in S
    BY <1>3, <2>1, DownInduct
  <2> QED
    BY <2>1, <2>2
<1> QED
  BY <1>1, <1>4

-----------------------------------------------------------------------------
(* Sentences *)

WordsOf(t) == {k \in DOMAIN t : t[k] \notin Blank}

SentenceOf(t, i) ==
  {j \in 1..Len(t) : \A k \in 1..Len(t) : SplitsAfter(t, k) => (k < i <=> k < j)}

Starts(t) ==
  {i \in 1..Len(t) : /\ t[i] \notin Blank
                     /\ \A j \in SentenceOf(t, i) : j < i => t[j] \in Blank}

Piece(t, i) == {j \in SentenceOf(t, i) : t[j] \notin Blank}

Before(A, B) == \A k \in A, m \in B : k < m

\* The loop of splitSentences, unrolled once.
LEMMA SentencesRecursion ==
  ASSUME NEW t \in Seq(Chars)
  PROVE  \E nth : /\ Sentences(t) = nth[Len(t)]
                 /\ nth[0] = <<>>
                 /\ \A n \in 1..Len(t) :
                      nth[n] = IF n \in Starts(t) THEN Append(nth[n - 1], Piece(t, n))
                               ELSE nth[n - 1]
<1> DEFINE nth[n \in 0..Len(t)] ==
             IF n = 0 THEN <<>>
             ELSE IF n \in Starts(t) THEN Append(nth[n - 1], Piece(t, n))
             ELSE nth[n - 1]
           D == 0..Len(t)
           V == Seq(SUBSET Nat)
           rank == [n \in D |-> n]
           base == [n \in D |-> <<>>]
           next == [n \in D |-> IF n = 0 THEN n ELSE n - 1]
           step == [n \in D |-> [v \in V |-> IF n \in Starts(t) THEN Append(v, Piece(t, n)) ELSE v]]
<1>0. Len(t) \in Nat
  OBVIOUS
<1>1. IsRecursion(D, V, Len(t), rank, base, next, step)
  <2>1. ASSUME NEW n \in D
        PROVE  [v \in V |-> IF n \in Starts(t) THEN Append(v, Piece(t, n)) ELSE v] \in [V -> V]
    <3>1. Piece(t, n) \in SUBSET Nat
      BY DEF Piece, SentenceOf
    <3> QED
      BY <3>1
  <2>2. step \in [D -> [V -> V]]
    BY <2>1
  <2> QED
    BY <1>0, <2>2 DEF IsRecursion
<1>2. Sentences(t) = nth[Len(t)]
  BY Zenon DEF Sentences, Starts, Piece, SentenceOf
<1> HIDE DEF nth, D, V, rank, base, next, step
<1>3. PICK f : Solution(f, D, V, rank, base, next, step)
  BY <1>1, RecursionExists
<1>4. ASSUME NEW n \in D
      PROVE  f[n] = IF n = 0 THEN <<>>
                    ELSE IF n \in Starts(t) THEN Append(f[n - 1], Piece(t, n))
                    ELSE f[n - 1]
  <2>1. CASE n = 0
    <3>1. next[n] = n /\ rank[n] = n /\ base[n] = <<>>
      BY <2>1 DEF next, rank, base
    <3> QED
      BY <1>3, <2>1, <3>1 DEF Solution
  <2>2. CASE n # 0
    <3>1. n - 1 \in D /\ next[n] = n - 1 /\ rank[n - 1] < rank[n]
      BY <1>0, <2>2 DEF next, rank, D
    <3>2. f[n - 1] \in V
      BY <1>3, <3>1 DEF Solution
    <3>3. f[n] = step[n][f[n - 1]]
      BY <1>3, <3>1 DEF Solution
    <3> QED
      BY <2>2, <3>2, <3>3 DEF step
  <2> QED
    BY <2>1, <2>2
<1>5. f = [n \in 0..Len(t) |->
             IF n = 0 THEN <<>>
             ELSE IF n \in Starts(t) THEN Append(f[n - 1], Piece(t, n))
             ELSE f[n - 1]]
  BY <1>3, <1>4 DEF Solution, D
<1>6. nth = [n \in 0..Len(t) |->
               IF n = 0 THEN <<>>
               ELSE IF n \in Starts(t) THEN Append(nth[n - 1], Piece(t, n))
               ELSE nth[n - 1]]
  BY <1>5, Zenon DEF nth
<1>7. nth[0] = <<>>
  BY <1>0, <1>6
<1>8. \A n \in 1..Len(t) :
        nth[n] = IF n \in Starts(t) THEN Append(nth[n - 1], Piece(t, n)) ELSE nth[n - 1]
  <2> TAKE n \in 1..Len(t)
  <2>1. n \in 0..Len(t) /\ n # 0
    BY <1>0
  <2> QED
    BY <1>6, <2>1, Zenon
<1> QED
  BY <1>2, <1>7, <1>8

\* A piece is the same seen from each of its positions.
LEMMA SameSentence ==
  ASSUME NEW t \in Seq(Chars), NEW i \in 1..Len(t), NEW j \in SentenceOf(t, i)
  PROVE  SentenceOf(t, j) = SentenceOf(t, i)
<1>1. Len(t) \in Nat /\ j \in 1..Len(t)
  BY DEF SentenceOf
<1> QED
  BY <1>1 DEF SentenceOf

\* Between the starts of two pieces there is a split.
LEMMA PiecesOrdered ==
  ASSUME NEW t \in Seq(Chars), NEW i \in Starts(t), NEW j \in Starts(t), i < j
  PROVE  Before(Piece(t, i), Piece(t, j))
<1>1. Len(t) \in Nat /\ i \in 1..Len(t) /\ j \in 1..Len(t) /\ t[i] \notin Blank
  BY DEF Starts
<1>2. i \notin SentenceOf(t, j)
  BY <1>1 DEF Starts
<1>3. PICK k \in 1..Len(t) : SplitsAfter(t, k) /\ ~(k < j <=> k < i)
  BY <1>1, <1>2 DEF SentenceOf
<1>4. i <= k /\ k < j
  BY <1>1, <1>3
<1>5. ASSUME NEW a \in Piece(t, i), NEW b \in Piece(t, j)
      PROVE  a < b
  <2>1. a \in 1..Len(t) /\ b \in 1..Len(t) /\ (k < i <=> k < a) /\ (k < j <=> k < b)
    BY <1>3 DEF Piece, SentenceOf
  <2> QED
    BY <1>1, <1>4, <2>1
<1> QED
  BY <1>5 DEF Before

\* v is the sentences of t that start in its first n places.
SentencesUpTo(v, t, n) ==
  /\ v \in Seq(SUBSET Nat)
  /\ \A i \in DOMAIN v : \E s \in Starts(t) : s <= n /\ v[i] = Piece(t, s)
  /\ \A s \in Starts(t) : s <= n => \E i \in DOMAIN v : v[i] = Piece(t, s)
  /\ \A i, j \in DOMAIN v : i < j => Before(v[i], v[j])

\* The piece that starts at n comes next.
LEMMA NextSentence ==
  ASSUME NEW t \in Seq(Chars), NEW n \in Starts(t), NEW v, SentencesUpTo(v, t, n - 1)
  PROVE  SentencesUpTo(Append(v, Piece(t, n)), t, n)
<1> DEFINE w == Append(v, Piece(t, n))
<1>1. Starts(t) \subseteq Nat /\ n \in Nat
  BY DEF Starts
<1>2. Piece(t, n) \in SUBSET Nat
  BY DEF Piece, SentenceOf
<1>3. v \in Seq(SUBSET Nat)
  BY DEF SentencesUpTo
<1>4. /\ w \in Seq(SUBSET Nat) /\ Len(v) \in Nat
      /\ DOMAIN v = 1..Len(v) /\ DOMAIN w = 1..Len(v) + 1
      /\ \A i \in DOMAIN v : w[i] = v[i]
      /\ w[Len(v) + 1] = Piece(t, n)
  BY <1>2, <1>3
<1> HIDE DEF w
<1>5. \A i \in DOMAIN w : i \in DOMAIN v \/ i = Len(v) + 1
  BY <1>4
<1>6. ASSUME NEW i \in DOMAIN w
      PROVE  \E s \in Starts(t) : s <= n /\ w[i] = Piece(t, s)
  <2>1. CASE i \in DOMAIN v
    <3>1. PICK s \in Starts(t) : s <= n - 1 /\ v[i] = Piece(t, s)
      BY <2>1 DEF SentencesUpTo
    <3>2. s <= n /\ w[i] = Piece(t, s)
      BY <1>1, <1>4, <2>1, <3>1
    <3> QED
      BY <3>2
  <2>2. CASE i = Len(v) + 1
    BY <1>1, <1>4, <2>2
  <2> QED
    BY <1>5, <2>1, <2>2
<1>7. ASSUME NEW s \in Starts(t), s <= n
      PROVE  \E i \in DOMAIN w : w[i] = Piece(t, s)
  <2>1. CASE s = n
    <3>1. Len(v) + 1 \in DOMAIN w
      BY <1>4
    <3> QED
      BY <1>4, <2>1, <3>1
  <2>2. CASE s <= n - 1
    <3>1. PICK i \in DOMAIN v : v[i] = Piece(t, s)
      BY <2>2 DEF SentencesUpTo
    <3>2. i \in DOMAIN w
      BY <1>4
    <3> QED
      BY <1>4, <3>1, <3>2
  <2> QED
    BY <1>1, <1>7, <2>1, <2>2
<1>8. ASSUME NEW i \in DOMAIN w, NEW j \in DOMAIN w, i < j
      PROVE  Before(w[i], w[j])
  <2>1. i \in DOMAIN v
    BY <1>4, <1>8
  <2>2. CASE j \in DOMAIN v
    BY <1>4, <1>8, <2>1, <2>2 DEF SentencesUpTo
  <2>3. CASE j = Len(v) + 1
    <3>1. PICK s \in Starts(t) : s <= n - 1 /\ v[i] = Piece(t, s)
      BY <2>1 DEF SentencesUpTo
    <3>2. s < n
      BY <1>1, <3>1
    <3> QED
      BY <1>4, <2>1, <2>3, <3>1, <3>2, PiecesOrdered
  <2> QED
    BY <1>5, <2>2, <2>3
<1> QED
  BY <1>4, <1>6, <1>7, <1>8 DEF SentencesUpTo, w

\* Disjoint sets of positions that follow one another and have all words of t.
Partition(v, t) ==
  /\ v \in Seq(SUBSET Nat)
  /\ \A i \in DOMAIN v : v[i] # {}
  /\ \A i, j \in DOMAIN v : i < j => Before(v[i], v[j])
  /\ UNION Range(v) = WordsOf(t)

\* Every word starts a piece or follows a start, so none is left out.
LEMMA SentencesAre ==
  ASSUME NEW t \in Seq(Chars)
  PROVE  Partition(Sentences(t), t)
<1> DEFINE L == Len(t)
           v == Sentences(t)
<1>1. L \in Nat /\ DOMAIN t = 1..L
  OBVIOUS
<1>2. SentencesUpTo(v, t, L)
  <2>1. PICK nth : /\ v = nth[L] /\ nth[0] = <<>>
                   /\ \A n \in 1..L :
                        nth[n] = IF n \in Starts(t) THEN Append(nth[n - 1], Piece(t, n))
                                 ELSE nth[n - 1]
    BY SentencesRecursion
  <2> DEFINE S == {n \in 1..L : SentencesUpTo(nth[n], t, n)}
  <2>2. \A s \in Starts(t) : s \in Nat /\ 1 <= s
    BY DEF Starts
  <2>3. SentencesUpTo(<<>>, t, 0)
    BY <2>2 DEF SentencesUpTo
  <2>4. ASSUME NEW n \in 1..L, n # 1 => n - 1 \in S
        PROVE  n \in S
    <3>1. SentencesUpTo(nth[n - 1], t, n - 1)
      <4>1. CASE n = 1
        <5>1. n - 1 = 0
          BY <4>1
        <5> QED
          BY <2>1, <2>3, <5>1
      <4>2. CASE n # 1
        BY <2>4, <4>2
      <4> QED
        BY <4>1, <4>2
    <3>2. CASE n \in Starts(t)
      BY <2>1, <3>1, <3>2, NextSentence
    <3>3. CASE n \notin Starts(t)
      <4>1. nth[n] = nth[n - 1]
        BY <2>1, <3>3
      <4>2. \A s \in Starts(t) : s <= n <=> s <= n - 1
        BY <2>2, <3>3
      <4>3. SentencesUpTo(nth[n - 1], t, n)
        BY <3>1, <4>2 DEF SentencesUpTo
      <4> QED
        BY <4>1, <4>3
    <3> QED
      BY <3>2, <3>3
  <2>5. CASE L = 0
    <3>1. v = <<>>
      BY <2>1, <2>5
    <3> QED
      BY <2>3, <2>5, <3>1
  <2>6. CASE L # 0
    <3> HIDE DEF S, L
    <3>1. \A n \in 1..L : n \in S
      BY <1>1, <2>4, UpInduct
    <3>2. L \in S
      BY <1>1, <2>6, <3>1
    <3> QED
      BY <2>1, <3>2 DEF S
  <2> QED
    BY <2>5, <2>6
<1> HIDE DEF v
<1>3. ASSUME NEW s \in Starts(t)
      PROVE  s \in Piece(t, s) /\ Piece(t, s) \subseteq WordsOf(t)
  BY <1>1 DEF Starts, Piece, SentenceOf, WordsOf
<1>4. ASSUME NEW i \in DOMAIN v
      PROVE  v[i] # {} /\ v[i] \subseteq WordsOf(t)
  BY <1>2, <1>3 DEF SentencesUpTo
<1>5. ASSUME NEW k \in WordsOf(t)
      PROVE  \E i \in DOMAIN v : k \in v[i]
  <2>1. k \in 1..L /\ t[k] \notin Blank /\ k \in Piece(t, k)
    BY <1>1 DEF WordsOf, Piece, SentenceOf
  <2>2. Piece(t, k) \in SUBSET Nat
    BY DEF Piece, SentenceOf
  <2>3. PICK s \in Piece(t, k) : \A j \in Piece(t, k) : s <= j
    BY <2>1, <2>2, LeastElement
  <2>4. s \in SentenceOf(t, k) /\ s \in 1..L /\ t[s] \notin Blank
    BY DEF Piece, SentenceOf
  <2>5. SentenceOf(t, s) = SentenceOf(t, k)
    BY <2>1, <2>4, SameSentence
  <2>6. ASSUME NEW j \in SentenceOf(t, s), j < s
        PROVE  t[j] \in Blank
    <3>1. j \in Piece(t, k) => s <= j
      BY <2>3
    <3>2. j \in 1..L
      BY DEF SentenceOf
    <3> QED
      BY <1>1, <2>4, <2>5, <2>6, <3>1, <3>2 DEF Piece
  <2>7. s \in Starts(t)
    BY <2>4, <2>6 DEF Starts
  <2>8. PICK i \in DOMAIN v : v[i] = Piece(t, s)
    BY <1>1, <1>2, <2>4, <2>7 DEF SentencesUpTo
  <2>9. Piece(t, s) = Piece(t, k)
    BY <2>5 DEF Piece
  <2> QED
    BY <2>1, <2>8, <2>9
<1>6. UNION Range(v) = WordsOf(t)
  BY <1>4, <1>5 DEF Range
<1> QED
  BY <1>2, <1>4, <1>6 DEF Partition, SentencesUpTo, v

-----------------------------------------------------------------------------
(* Chunks *)

\* What ChunksCoverText says of the chunks c of the text t.
Covers(c, t) ==
  LET Shared(i, j) == c[i] \intersect c[j] IN
    /\ UNION Range(c) = WordsOf(t)
    /\ \A i, j \in DOMAIN c : i < j =>
         /\ IF j = i + 1 THEN Shared(i, j) \in Range(Sentences(t)) ELSE Shared(i, j) = {}
         /\ \A k \in c[i], m \in c[j] : k <= m \/ {k, m} \subseteq Shared(i, j)
         /\ ~(c[j] \subseteq c[i])

\* A window has two new sentences, or the last one, and one of the window before.
LEMMA WindowFacts ==
  ASSUME NEW n \in Nat \ {0}
  PROVE  LET W == Windows(n)
             L == Len(W)
         IN /\ L \in Nat \ {0} /\ DOMAIN W = 1..L
            /\ \A i \in 1..L : \A a \in W[i] : a \in 1..n /\ 2 * i - 1 <= a /\ a <= 2 * i + 1
            /\ \A s \in 1..n : \E i \in 1..L : s \in W[i]
            /\ \A i, j \in 1..L : i < j => /\ 2 * i + 1 \in W[i] /\ 2 * i + 1 \in W[i + 1]
                                         /\ 2 * j \in W[j]
<1> DEFINE W == Windows(n)
           L == Len(W)
<1>1. /\ L \in Nat \ {0} /\ DOMAIN W = 1..L
      /\ \A w \in 1..L : /\ W[w] = (2 * w - 1) .. End(2 * w - 2, n)
                         /\ w < L <=> 2 * w + 1 < n
  BY WindowsAre DEF WindowsFrom
<1> HIDE DEF W
<1>2. ASSUME NEW w \in 1..L
      PROVE  /\ 2 * w - 1 <= n
             /\ w # 1 => 2 * w <= n
             /\ w < L => End(2 * w - 2, n) = 2 * w + 1
             /\ w = L => End(2 * w - 2, n) = n
             /\ End(2 * w - 2, n) <= n /\ End(2 * w - 2, n) <= 2 * w + 1
             /\ End(2 * w - 2, n) = 2 * w + 1 \/ End(2 * w - 2, n) = n
  <2>1. w # 1 => 2 * w - 1 < n
    <3>1. w # 1 => w - 1 \in 1..L /\ w - 1 < L /\ 2 * (w - 1) + 1 = 2 * w - 1
      BY <1>1
    <3> QED
      BY <1>1, <3>1
  <2>2. w < L <=> 2 * w + 1 < n
    BY <1>1
  <2>3. w \in Nat /\ n \in Nat /\ L \in Nat /\ 1 <= w /\ w <= L /\ 1 <= n
    BY <1>1
  <2>4. End(2 * w - 2, n) = IF 2 * w + 1 > n THEN n ELSE 2 * w + 1
    BY <2>3 DEF End
  <2> HIDE DEF L
  <2> QED
    BY <2>1, <2>2, <2>3, <2>4
<1>3. ASSUME NEW i \in 1..L, NEW a \in W[i]
      PROVE  a \in 1..n /\ 2 * i - 1 <= a /\ a <= 2 * i + 1
  <2> DEFINE e == End(2 * i - 2, n)
  <2>1. a \in (2 * i - 1) .. e
    BY <1>1
  <2>2. i \in Nat /\ 1 <= i
    BY <1>1
  <2>3. e <= n /\ e <= 2 * i + 1
    BY <1>2
  <2>4. e \in Nat
    BY <2>2 DEF End
  <2> HIDE DEF e
  <2> QED
    BY <2>1, <2>2, <2>3, <2>4
<1>4. ASSUME NEW s \in 1..n
      PROVE  \E i \in 1..L : s \in W[i]
  <2>1. CASE 2 * L - 1 <= s
    <3>1. L \in 1..L
      BY <1>1
    <3>2. End(2 * L - 2, n) = n
      BY <1>2, <3>1
    <3>3. W[L] = (2 * L - 1) .. n
      BY <1>1, <3>1, <3>2
    <3> QED
      BY <2>1, <3>1, <3>3
  <2>2. CASE s < 2 * L - 1
    <3>1. PICK w \in 1..L : 2 * w - 1 <= s /\ s <= 2 * w /\ w < L
      <4>1. /\ (s + 1) \div 2 \in 1..L /\ 2 * ((s + 1) \div 2) - 1 <= s
            /\ s <= 2 * ((s + 1) \div 2) /\ (s + 1) \div 2 < L
        BY <1>1, <2>2
      <4> QED
        BY <4>1
    <3>2. W[w] = (2 * w - 1) .. (2 * w + 1)
      BY <1>1, <1>2, <3>1
    <3> QED
      BY <3>1, <3>2
  <2> QED
    BY <1>1, <2>1, <2>2
<1>5. ASSUME NEW i \in 1..L, NEW j \in 1..L, i < j
      PROVE  2 * i + 1 \in W[i] /\ 2 * i + 1 \in W[i + 1] /\ 2 * j \in W[j]
  <2>0. L \in Nat /\ i \in Nat /\ j \in Nat
    BY <1>1
  <2>1. i + 1 \in 1..L /\ i < L /\ i + 1 # 1 /\ j # 1 /\ 2 * (i + 1) - 1 = 2 * i + 1
    BY <1>5, <2>0
  <2>2. W[i] = (2 * i - 1) .. (2 * i + 1)
    BY <1>1, <1>2, <2>1
  <2>3. 2 * i + 1 \in W[i + 1]
    <3>1. W[i + 1] = (2 * i + 1) .. End(2 * (i + 1) - 2, n) /\ 2 * (i + 1) <= n
      BY <1>1, <1>2, <2>1
    <3>2. End(2 * (i + 1) - 2, n) = 2 * (i + 1) + 1 \/ End(2 * (i + 1) - 2, n) = n
      BY <1>2, <2>1
    <3> QED
      BY <1>1, <2>1, <3>1, <3>2
  <2>4. 2 * j \in W[j]
    <3> DEFINE e == End(2 * j - 2, n)
    <3>1. W[j] = (2 * j - 1) .. e
      BY <1>1
    <3>2. e \in Nat /\ 2 * j <= e /\ j \in Nat
      <4>1. e = 2 * j + 1 \/ e = n
        BY <1>2
      <4>2. 2 * j <= n
        BY <1>2, <2>1
      <4>3. j \in Nat
        BY <1>1
      <4> HIDE DEF e
      <4> QED
        BY <4>1, <4>2, <4>3
    <3> HIDE DEF e
    <3> QED
      BY <3>1, <3>2
  <2>5. 2 * i + 1 \in W[i]
    BY <2>0, <2>2
  <2> QED
    BY <2>3, <2>4, <2>5
<1> QED
  BY <1>1, <1>3, <1>4, <1>5 DEF W

(***************************************************************************)
(* Chunk, for any text: what the windows are to the sentences, the chunks  *)
(* are to the words, since the sentences partition these in order.         *)
(***************************************************************************)
LEMMA ChunksAre ==
  ASSUME NEW t \in Seq(Chars)
  PROVE  Chunk(t) \in Seq(SUBSET Nat) /\ Covers(Chunk(t), t)
<1> DEFINE v == Sentences(t)
           n == Len(v)
           W == Windows(n)
           c == [w \in DOMAIN W |-> UNION {v[s] : s \in W[w]}]
           L == Len(W)
<1>1. Chunk(t) = c
  BY Zenon DEF Chunk
<1>2. /\ v \in Seq(SUBSET Nat) /\ n \in Nat /\ DOMAIN v = 1..n
      /\ \A i \in 1..n : v[i] # {} /\ v[i] \subseteq Nat
      /\ \A i, j \in 1..n : i < j => Before(v[i], v[j])
      /\ UNION Range(v) = WordsOf(t)
  BY SentencesAre DEF Partition
<1>3. CASE n = 0
  <2>1. W = <<>>
    BY <1>3 DEF Windows
  <2>2. c = <<>> /\ DOMAIN c = {} /\ UNION Range(c) = {}
    BY <2>1 DEF Range
  <2>3. WordsOf(t) = {}
    BY <1>2, <1>3 DEF Range
  <2> HIDE DEF c
  <2> QED
    BY <1>1, <2>2, <2>3 DEF Covers
<1>4. CASE n # 0
  <2> HIDE DEF v, n
  <2>1. /\ L \in Nat \ {0} /\ DOMAIN W = 1..L
        /\ \A i \in 1..L : \A a \in W[i] : a \in 1..n /\ 2 * i - 1 <= a /\ a <= 2 * i + 1
        /\ \A s \in 1..n : \E i \in 1..L : s \in W[i]
        /\ \A i, j \in 1..L : i < j => /\ 2 * i + 1 \in W[i] /\ 2 * i + 1 \in W[i + 1]
                                     /\ 2 * j \in W[j]
    BY <1>2, <1>4, WindowFacts
  <2> HIDE DEF W
  <2>2. DOMAIN c = 1..L /\ \A i \in 1..L : c[i] = UNION {v[s] : s \in W[i]}
    BY <2>1
  <2> HIDE DEF L, c
  <2>3. \A i \in 1..L : c[i] \in SUBSET Nat
    BY <1>2, <2>1, <2>2
  <2>4. c \in Seq(SUBSET Nat)
    <3>1. c = [i \in 1..L |-> c[i]]
      BY <2>1 DEF c, L
    <3> QED
      BY <2>1, <2>3, <3>1
  <2>5. UNION Range(c) = WordsOf(t)
    <3>1. UNION Range(v) = UNION {v[s] : s \in 1..n}
      BY <1>2 DEF Range
    <3>2. UNION Range(c) = UNION {c[i] : i \in 1..L}
      BY <2>2 DEF Range
    <3>3. ASSUME NEW k \in WordsOf(t)
          PROVE  \E i \in 1..L : k \in c[i]
      <4>1. PICK s \in 1..n : k \in v[s]
        BY <1>2, <3>1
      <4>2. PICK i \in 1..L : s \in W[i]
        BY <2>1
      <4> QED
        BY <2>2, <4>1, <4>2
    <3>4. ASSUME NEW i \in 1..L, NEW k \in c[i]
          PROVE  k \in WordsOf(t)
      <4>1. PICK s \in W[i] : k \in v[s]
        BY <2>2
      <4>2. s \in 1..n
        BY <2>1
      <4> QED
        BY <1>2, <3>1, <4>1, <4>2
    <3> QED
      BY <3>2, <3>3, <3>4
  <2>6. ASSUME NEW i \in 1..L, NEW j \in 1..L, i < j
        PROVE  \A k \in c[i], m \in c[j] :
                 k < m \/ (j = i + 1 /\ k \in v[2 * i + 1] /\ m \in v[2 * i + 1])
    <3> TAKE k \in c[i], m \in c[j]
    <3>1. PICK a \in W[i] : k \in v[a]
      BY <2>2
    <3>2. PICK b \in W[j] : m \in v[b]
      BY <2>2
    <3>3. i \in Nat /\ j \in Nat
      <4>1. L \in Nat
        BY <2>1
      <4> QED
        BY <4>1
    <3>4. a \in 1..n /\ a <= 2 * i + 1
      BY <2>1
    <3>5. b \in 1..n /\ 2 * j - 1 <= b
      BY <2>1
    <3>6. n \in Nat
      BY <1>2
    <3>7. a < b \/ (a = b /\ j = i + 1 /\ a = 2 * i + 1)
      BY <2>6, <3>3, <3>4, <3>5, <3>6
    <3> QED
      BY <1>2, <3>1, <3>2, <3>4, <3>5, <3>7 DEF Before
  <2>7. ASSUME NEW i \in 1..L, NEW j \in 1..L, i < j
        PROVE  IF j = i + 1 THEN c[i] \intersect c[j] = v[2 * i + 1]
               ELSE c[i] \intersect c[j] = {}
    <3>1. ASSUME NEW k \in c[i] \intersect c[j]
          PROVE  j = i + 1 /\ k \in v[2 * i + 1]
      <4>1. k \in Nat /\ ~(k < k)
        BY <2>3
      <4> QED
        BY <2>6, <2>7, <4>1
    <3>2. j = i + 1 => v[2 * i + 1] \subseteq c[i] /\ v[2 * i + 1] \subseteq c[j]
      <4>1. 2 * i + 1 \in W[i] /\ (j = i + 1 => 2 * i + 1 \in W[j])
        BY <2>1, <2>7
      <4> QED
        BY <2>2, <4>1
    <3> QED
      BY <3>1, <3>2
  <2>8. ASSUME NEW i \in 1..L, NEW j \in 1..L, i < j
        PROVE  ~(c[j] \subseteq c[i])
    <3>1. i \in Nat /\ j \in Nat /\ 2 * j \in 1..n /\ v[2 * j] \subseteq c[j] /\ v[2 * j] # {}
      <4>0. L \in Nat
        BY <2>1
      <4>1. i \in Nat /\ j \in Nat
        BY <4>0
      <4>2. 2 * j \in W[j]
        BY <2>1, <2>8
      <4>3. 2 * j \in 1..n
        BY <2>1, <4>2
      <4>4. v[2 * j] \subseteq c[j]
        BY <2>2, <4>2
      <4>5. v[2 * j] # {}
        BY <1>2, <4>3
      <4> QED
        BY <4>1, <4>3, <4>4, <4>5
    <3>2. SUFFICES ASSUME c[j] \subseteq c[i]
                   PROVE  FALSE
      OBVIOUS
    <3>3. PICK k \in v[2 * j] : k \in c[i] /\ k \in c[j]
      BY <3>1, <3>2
    <3>4. PICK a \in W[i] : k \in v[a]
      BY <2>2, <3>3
    <3>5. a \in 1..n /\ a < 2 * j
      <4>1. a \in 1..n /\ a <= 2 * i + 1 /\ n \in Nat
        BY <1>2, <2>1
      <4> QED
        BY <2>8, <3>1, <4>1
    <3>6. k < k /\ k \in Nat
      BY <1>2, <3>1, <3>4, <3>5 DEF Before
    <3> QED
      BY <3>6
  <2>9. ASSUME NEW i \in 1..L, NEW j \in 1..L, i < j
        PROVE  /\ IF j = i + 1 THEN c[i] \intersect c[j] \in Range(v)
                  ELSE c[i] \intersect c[j] = {}
               /\ \A k \in c[i], m \in c[j] :
                    k <= m \/ {k, m} \subseteq c[i] \intersect c[j]
    <3>1. 2 * i + 1 \in 1..n
      <4>1. 2 * i + 1 \in W[i]
        BY <2>1, <2>9
      <4> QED
        BY <2>1, <4>1
    <3>2. v[2 * i + 1] \in Range(v)
      BY <1>2, <3>1 DEF Range
    <3>3. ASSUME NEW k \in c[i], NEW m \in c[j]
          PROVE  k <= m \/ {k, m} \subseteq c[i] \intersect c[j]
      <4>1. k \in Nat /\ m \in Nat
        BY <2>3
      <4> QED
        BY <2>6, <2>7, <2>9, <4>1
    <3> QED
      BY <2>7, <2>9, <3>2, <3>3
  <2>10. Covers(c, t)
    BY <2>2, <2>5, <2>8, <2>9 DEF Covers, v
  <2> QED
    BY <1>1, <2>4, <2>10
<1> QED
  BY <1>2, <1>3, <1>4
=============================================================================
