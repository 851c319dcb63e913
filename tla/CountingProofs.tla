--------------------------- MODULE CountingProofs ---------------------------
(***************************************************************************)
(* Facts about sorting, selecting, summing and going through a sequence.   *)
(* Induction is by the least element of a set, so that every fact is about *)
(* sets and functions and none about an operator.                          *)
(***************************************************************************)
EXTENDS Counting, FiniteSetTheorems, WellFoundedInduction, TLAPS

\* A set of numbers has a least one.
LEMMA Least ==
    ASSUME NEW S \in SUBSET Nat, S # {}
    PROVE  \E n \in S : \A m \in S : n <= m
<1> DEFINE R == OpToRel(<, Nat)
<1>1. IsWellFoundedOn(R, Nat)
    BY NatLessThanWellFounded
<1>2. \A m, n \in Nat : m < n => <<m, n>> \in R
    BY DEF OpToRel
<1> HIDE DEF R
<1>3. \E n \in S : \A m \in S : <<m, n>> \notin R
    BY <1>1, WFMin
<1>4. PICK n \in S : \A m \in S : <<m, n>> \notin R
    BY <1>3
<1>5. ASSUME NEW m \in S PROVE n <= m
    <2>1. m \in Nat /\ n \in Nat
        OBVIOUS
    <2>2. ~(m < n)
        BY <1>2, <1>4, <2>1
    <2> QED BY <2>1, <2>2
<1> QED BY <1>5

\* Induction: what holds of 0 and passes on to the next holds of every number.
LEMMA Induct ==
    ASSUME NEW S \in SUBSET Nat, 0 \in S, \A n \in S : n + 1 \in S
    PROVE  S = Nat
<1>1. SUFFICES ASSUME Nat \ S # {} PROVE FALSE
    OBVIOUS
<1>2. PICK n \in Nat \ S : \A m \in Nat \ S : n <= m
    BY <1>1, Least
<1>3. n - 1 \in Nat /\ n - 1 \notin Nat \ S
    BY <1>2
<1> QED BY <1>2, <1>3

\* A strict total order on a finite set, each member with those before it.
Ordered(before) ==
    /\ IsFiniteSet(DOMAIN before)
    /\ \A x \in DOMAIN before : before[x] \subseteq DOMAIN before \ {x}
    /\ \A x, y \in DOMAIN before : x # y => x \in before[y] \/ y \in before[x]
    /\ \A x, y \in DOMAIN before : x \in before[y] => before[x] \subseteq before[y]

\* How many come before a member tells it from all others, and every number
\* below the size of the set is taken.
LEMMA Ranks ==
    ASSUME NEW before, Ordered(before)
    PROVE  LET S == DOMAIN before
               rank == [x \in S |-> Cardinality(before[x])]
           IN /\ Cardinality(S) \in Nat
              /\ rank \in Bijection(S, 0 .. Cardinality(S) - 1)
<1> DEFINE S == DOMAIN before
           rank == [x \in S |-> Cardinality(before[x])]
           n == Cardinality(S)
<1>1. IsFiniteSet(S) /\ n \in Nat
  BY FS_CardinalityType DEF Ordered
<1>2. ASSUME NEW x \in S
      PROVE  IsFiniteSet(before[x]) /\ Cardinality(before[x]) \in 0 .. n - 1
  <2>1. before[x] \in SUBSET (S \ {x})  BY DEF Ordered
  <2>2. IsFiniteSet(S \ {x}) /\ Cardinality(S \ {x}) = n - 1
    BY <1>1, FS_RemoveElement
  <2> QED BY <2>1, <2>2, FS_Subset, FS_CardinalityType
<1>3. ASSUME NEW x \in S, NEW y \in S, x \in before[y]
      PROVE  Cardinality(before[x]) < Cardinality(before[y])
  <2>1. before[x] \in SUBSET before[y] /\ x \notin before[x]  BY <1>3 DEF Ordered
  <2> QED BY <1>2, <1>3, <2>1, FS_Subset
<1>4. \A x, y \in S : x # y => Cardinality(before[x]) # Cardinality(before[y])
  <2> SUFFICES ASSUME NEW x \in S, NEW y \in S, x # y
               PROVE  Cardinality(before[x]) # Cardinality(before[y])
    OBVIOUS
  <2>1. x \in before[y] \/ y \in before[x]  BY DEF Ordered
  <2> QED BY <1>2, <1>3, <2>1
<1>5. rank \in Injection(S, 0 .. n - 1)
  <2>1. \A x \in S : rank[x] = Cardinality(before[x])  OBVIOUS
  <2>2. rank \in [S -> 0 .. n - 1]  BY <1>2
  <2> HIDE DEF rank
  <2> QED BY <1>4, <2>1, <2>2 DEF Injection, IsInjective
<1>6. IsFiniteSet(0 .. n - 1) /\ Cardinality(0 .. n - 1) = n
  BY <1>1, FS_Interval
<1> HIDE DEF rank
<1>7. rank \in Surjection(S, 0 .. n - 1)
  BY <1>5, <1>6, FS_Injection
<1> QED BY <1>1, <1>5, <1>7 DEF Bijection, rank

\* The order lists every member once, and the k-th has k - 1 before it.
LEMMA InOrderFacts ==
    ASSUME NEW before, Ordered(before)
    PROVE  LET S == DOMAIN before IN
           /\ Cardinality(S) \in Nat
           /\ InOrder(before) \in Bijection(1 .. Cardinality(S), S)
           /\ \A k \in 1 .. Cardinality(S) : Cardinality(before[InOrder(before)[k]]) = k - 1
<1> DEFINE S == DOMAIN before
           n == Cardinality(S)
           rank == [x \in S |-> Cardinality(before[x])]
<1>1. n \in Nat /\ rank \in Bijection(S, 0 .. n - 1)
  BY Ranks
<1>2. \A x \in S : rank[x] = Cardinality(before[x])
  OBVIOUS
<1> HIDE DEF rank
<1>3. /\ \A x \in S : Cardinality(before[x]) \in 0 .. n - 1
      /\ \A x, y \in S : Cardinality(before[x]) = Cardinality(before[y]) => x = y
  BY <1>1, <1>2 DEF Bijection, Injection, IsInjective
<1>4. \A k \in 1 .. n : \E x \in S : Cardinality(before[x]) = k - 1
  BY <1>1, <1>2 DEF Bijection, Surjection
<1> DEFINE order == InOrder(before)
<1>5. order = [k \in 1 .. n |-> CHOOSE x \in S : Cardinality(before[x]) = k - 1]
  BY DEF InOrder
<1> HIDE DEF order
<1>6. \A k \in 1 .. n : order[k] \in S /\ Cardinality(before[order[k]]) = k - 1
  BY <1>4, <1>5
<1>7. order \in [1 .. n -> S]
  BY <1>5, <1>6
<1>8. \A k, m \in 1 .. n : order[k] = order[m] => k = m
  BY <1>1, <1>6
<1>9. \A x \in S : \E k \in 1 .. n : order[k] = x
  <2> TAKE x \in S
  <2>1. Cardinality(before[x]) + 1 \in 1 .. n  BY <1>1, <1>3
  <2>2. order[Cardinality(before[x]) + 1] = x  BY <1>1, <1>3, <1>6, <2>1
  <2> QED BY <2>1, <2>2
<1>10. order \in Bijection(1 .. n, S)
  BY <1>7, <1>8, <1>9 DEF Bijection, Injection, IsInjective, Surjection
<1> QED BY <1>1, <1>6, <1>10 DEF order

\* Whatever has the partial sums of a sequence ends in its total.
LEMMA TotalIs ==
    ASSUME NEW numbers \in Seq(Int), NEW s \in [0 .. Len(numbers) -> Int], s[0] = 0,
           \A k \in 1 .. Len(numbers) : s[k] = s[k - 1] + numbers[k]
    PROVE  Total(numbers) = s[Len(numbers)]
<1> DEFINE n == Len(numbers)
           Def(f) == f = [k \in 0 .. n |-> IF k = 0 THEN 0 ELSE f[k - 1] + numbers[k]]
           sum == CHOOSE f : Def(f)
<1>1. n \in Nat  OBVIOUS
<1>2. Def(s)  BY <1>1
<1>3. Def(sum)  BY <1>2
<1>4. Total(numbers) = sum[n]  BY DEF Total
<1> HIDE DEF sum
<1>5. sum[0] = 0 /\ \A k \in 1 .. n : sum[k] = sum[k - 1] + numbers[k]
  BY <1>1, <1>3
<1> DEFINE U == {m \in Nat : m <= n => sum[m] = s[m]}
<1>6. 0 \in U  BY <1>5
<1>7. ASSUME NEW m \in U PROVE m + 1 \in U
  <2>1. m + 1 <= n => m + 1 \in 1 .. n /\ m <= n  BY <1>1
  <2>2. m + 1 <= n => sum[m + 1] = sum[m] + numbers[m + 1] /\ s[m + 1] = s[m] + numbers[m + 1]
    BY <1>5, <2>1
  <2> QED BY <2>1, <2>2
<1>8. U = Nat
  <2> HIDE DEF U
  <2>1. U \in SUBSET Nat  BY DEF U
  <2> QED BY <1>6, <1>7, <2>1, Induct
<1> QED BY <1>1, <1>4, <1>8

\* A recursive function on 0 .. n, and that there is one.
Recurses(f, n, S, start, step) ==
    /\ f \in [0 .. n -> S] /\ f[0] = start
    /\ \A k \in 1 .. n : f[k] = step[k][f[k - 1]]

LEMMA Recursion ==
    ASSUME NEW S, NEW start \in S, NEW n \in Nat, NEW step \in [1 .. n -> [S -> S]]
    PROVE  \E f : Recurses(f, n, S, start, step)
<1> DEFINE U == {m \in Nat : m <= n => \E f : Recurses(f, m, S, start, step)}
<1>1. 0 \in U
  <2> DEFINE f == [k \in 0 .. 0 |-> start]
  <2>1. Recurses(f, 0, S, start, step)  BY DEF Recurses
  <2> QED BY <2>1
<1>2. ASSUME NEW m \in U PROVE m + 1 \in U
  <2> SUFFICES ASSUME m + 1 <= n PROVE \E f : Recurses(f, m + 1, S, start, step)
    OBVIOUS
  <2>1. m \in Nat /\ m <= n /\ m + 1 \in 1 .. n  OBVIOUS
  <2>2. PICK f : Recurses(f, m, S, start, step)  BY <2>1
  <2> DEFINE g == [k \in 0 .. m + 1 |-> IF k <= m THEN f[k] ELSE step[m + 1][f[m]]]
  <2>3. \A k \in 0 .. m : g[k] = f[k]  BY <2>1
  <2>4. g[m + 1] = step[m + 1][f[m]]  BY <2>1
  <2>5. f[m] \in S /\ step[m + 1] \in [S -> S]  BY <2>1, <2>2 DEF Recurses
  <2>6. g \in [0 .. m + 1 -> S]  BY <2>1, <2>2, <2>5 DEF Recurses
  <2> HIDE DEF g
  <2>7. ASSUME NEW k \in 1 .. m + 1 PROVE g[k] = step[k][g[k - 1]]
    <3>1. CASE k = m + 1
      <4>1. k - 1 = m /\ g[m] = f[m]  BY <2>1, <2>3, <3>1
      <4> QED BY <2>4, <3>1, <4>1
    <3>2. CASE k \in 1 .. m  BY <2>1, <2>2, <2>3, <3>2 DEF Recurses
    <3> QED BY <2>1, <3>1, <3>2
  <2>8. g[0] = start  BY <2>1, <2>2, <2>3 DEF Recurses
  <2> QED BY <2>6, <2>7, <2>8 DEF Recurses
<1>3. U = Nat
  <2> HIDE DEF U
  <2>1. U \in SUBSET Nat  BY DEF U
  <2> QED BY <1>1, <1>2, <2>1, Induct
<1> QED BY <1>3

\* A numbering of a finite set.
Numbers(at, S) ==
    /\ at \in [1 .. Cardinality(S) -> S]
    /\ \A k, m \in 1 .. Cardinality(S) : at[k] = at[m] => k = m
    /\ \A x \in S : \E k \in 1 .. Cardinality(S) : at[k] = x

\* What is chosen of a sequence is each of the chosen elements once.
LEMMA ChosenFacts ==
    ASSUME NEW T, NEW sequence \in Seq(T), NEW places \in SUBSET DOMAIN sequence
    PROVE  /\ IsFiniteSet(places) /\ Cardinality(places) \in Nat
           /\ \E at : /\ Numbers(at, places)
                     /\ Chosen(sequence, places)
                          = [k \in 1 .. Cardinality(places) |-> sequence[at[k]]]
<1> DEFINE n == Len(sequence)
           Def(f) == f = [k \in 0 .. n |->
                            IF k = 0 THEN <<>>
                            ELSE IF k \in places THEN Append(f[k - 1], sequence[k])
                            ELSE f[k - 1]]
           upTo == CHOOSE f : Def(f)
           step == [k \in 1 .. n |-> [s \in Seq(T) |->
                      IF k \in places THEN Append(s, sequence[k]) ELSE s]]
<1>1. n \in Nat /\ DOMAIN sequence = 1 .. n  OBVIOUS
<1>2. step \in [1 .. n -> [Seq(T) -> Seq(T)]]
  <2>1. ASSUME NEW k \in 1 .. n, NEW s \in Seq(T)
        PROVE  (IF k \in places THEN Append(s, sequence[k]) ELSE s) \in Seq(T)
    BY <1>1
  <2> QED BY <2>1
<1>3. PICK f \in [0 .. n -> Seq(T)] :
        f[0] = <<>> /\ \A k \in 1 .. n : f[k] = step[k][f[k - 1]]
  <2> DEFINE S == Seq(T)
             start == <<>>
  <2>1. start \in S  OBVIOUS
  <2>2. step \in [1 .. n -> [S -> S]] /\ n \in Nat  BY <1>1, <1>2
  <2> HIDE DEF step, n, S, start
  <2>3. PICK f : Recurses(f, n, S, start, step)
    BY <2>1, <2>2, Recursion
  <2> QED BY <2>3 DEF Recurses, S, start
<1>4. \A k \in 1 .. n : f[k] = IF k \in places THEN Append(f[k - 1], sequence[k]) ELSE f[k - 1]
  <2> TAKE k \in 1 .. n
  <2>1. k - 1 \in 0 .. n  BY <1>1
  <2>2. f[k - 1] \in Seq(T)  BY <2>1
  <2> QED BY <1>3, <2>2
<1>5. Def(f)
  <2>1. \A k \in 0 .. n : k = 0 \/ k \in 1 .. n  BY <1>1
  <2>2. \A k \in 0 .. n : f[k] = IF k = 0 THEN <<>>
                               ELSE IF k \in places THEN Append(f[k - 1], sequence[k])
                               ELSE f[k - 1]
    BY <1>3, <1>4, <2>1
  <2>3. f = [k \in 0 .. n |-> f[k]]  BY <1>3
  <2> HIDE DEF n
  <2> QED BY <2>2, <2>3
<1>6. Def(upTo)  BY <1>5
<1>7. Chosen(sequence, places) = upTo[n]  BY DEF Chosen
<1> HIDE DEF upTo
<1>8. /\ upTo[0] = <<>>
      /\ \A k \in 1 .. n :
           upTo[k] = IF k \in places THEN Append(upTo[k - 1], sequence[k]) ELSE upTo[k - 1]
  <2>1. 0 \in 0 .. n /\ \A k \in 1 .. n : k \in 0 .. n /\ k # 0  BY <1>1
  <2> HIDE DEF n
  <2> QED BY <1>6, <2>1
<1> DEFINE In(m) == places \cap (1 .. m)
           Done(m, at) == /\ IsFiniteSet(In(m)) /\ Numbers(at, In(m))
                          /\ upTo[m] = [k \in 1 .. Cardinality(In(m)) |-> sequence[at[k]]]
           U == {m \in Nat : m <= n => \E at : Done(m, at)}
<1> HIDE DEF Done
<1>9. 0 \in U
  <2>1. In(0) = {} /\ Cardinality(In(0)) = 0 /\ IsFiniteSet(In(0))  BY FS_EmptySet
  <2>2. Done(0, <<>>)  BY <1>8, <2>1 DEF Numbers, Done
  <2> QED BY <2>2
<1>10. ASSUME NEW m \in U PROVE m + 1 \in U
  <2> SUFFICES ASSUME m + 1 <= n PROVE \E at : Done(m + 1, at)
    OBVIOUS
  <2>1. m \in Nat /\ m <= n /\ m + 1 \in 1 .. n  OBVIOUS
  <2>2. PICK at : Done(m, at)  BY <2>1
  <2> DEFINE c == Cardinality(In(m))
  <2>3. c \in Nat /\ IsFiniteSet(In(m)) /\ Numbers(at, In(m))
        /\ upTo[m] = [k \in 1 .. c |-> sequence[at[k]]]
    BY <2>2, FS_CardinalityType DEF Done
  <2>4. CASE m + 1 \notin places
    <3>1. In(m + 1) = In(m)  BY <2>1, <2>4
    <3>2. upTo[m + 1] = upTo[m]  BY <1>8, <2>1, <2>4
    <3>3. Done(m + 1, at)
      <4> HIDE DEF In
      <4> QED BY <2>3, <3>1, <3>2 DEF Done
    <3> QED BY <3>3
  <2>5. CASE m + 1 \in places
    <3>1. In(m + 1) = In(m) \cup {m + 1} /\ m + 1 \notin In(m)  BY <2>1, <2>5
    <3>2. IsFiniteSet(In(m + 1)) /\ Cardinality(In(m + 1)) = c + 1
      <4> HIDE DEF In
      <4> QED BY <2>3, <3>1, FS_AddElement
    <3> HIDE DEF In
    <3> DEFINE next == [k \in 1 .. c + 1 |-> IF k <= c THEN at[k] ELSE m + 1]
    <3>3. /\ \A k \in 1 .. c : next[k] = at[k] /\ next[k] \in In(m)
          /\ next[c + 1] = m + 1 /\ DOMAIN next = 1 .. c + 1
      <4>1. \A k \in 1 .. c : at[k] \in In(m)  BY <2>3 DEF Numbers
      <4>2. \A k \in 1 .. c : k \in 1 .. c + 1 /\ k <= c  BY <2>3
      <4>3. c + 1 \in 1 .. c + 1 /\ ~(c + 1 <= c)  BY <2>3
      <4> HIDE DEF c
      <4> QED BY <4>1, <4>2, <4>3
    <3>4. next \in [1 .. c + 1 -> In(m + 1)]
      <4>1. \A k \in 1 .. c + 1 : k \in 1 .. c \/ k = c + 1  BY <2>3
      <4>2. \A k \in 1 .. c + 1 : next[k] \in In(m + 1)  BY <3>1, <3>3, <4>1
      <4> HIDE DEF c
      <4> QED BY <3>3, <4>2
    <3>5. \A k \in 1 .. c + 1 : k \in 1 .. c \/ k = c + 1  BY <2>3
    <3> HIDE DEF next
    <3>6. ASSUME NEW j \in 1 .. c + 1, NEW k \in 1 .. c + 1, next[j] = next[k] PROVE j = k
      BY <2>3, <3>1, <3>3, <3>5, <3>6 DEF Numbers
    <3>7. ASSUME NEW x \in In(m + 1) PROVE \E k \in 1 .. c + 1 : next[k] = x
      <4>1. CASE x = m + 1  BY <2>3, <3>3, <4>1
      <4>2. CASE x \in In(m)
        <5>1. PICK k \in 1 .. c : at[k] = x  BY <2>3, <4>2 DEF Numbers
        <5> QED BY <2>3, <3>3, <5>1
      <4> QED BY <3>1, <4>1, <4>2
    <3>8. Numbers(next, In(m + 1))  BY <3>2, <3>4, <3>6, <3>7 DEF Numbers
    <3>9. upTo[m + 1] = [k \in 1 .. c + 1 |-> sequence[next[k]]]
      <4>1. upTo[m + 1] = Append(upTo[m], sequence[m + 1])
        <5>1. (m + 1) - 1 = m  BY <2>1
        <5>2. upTo[m + 1] = Append(upTo[(m + 1) - 1], sequence[m + 1])
          BY <1>8, <2>1, <2>5
        <5> QED BY <5>1, <5>2
      <4>2. upTo[m] = [k \in 1 .. c |-> sequence[at[k]]]  BY <2>3
      <4>3. upTo[m] \in Seq(T) /\ Len(upTo[m]) = c
        <5>1. \A k \in 1 .. c : sequence[at[k]] \in T
          <6>1. \A k \in 1 .. c : at[k] \in In(m)  BY <2>3 DEF Numbers
          <6>2. \A i \in In(m) : sequence[i] \in T  BY <1>1 DEF In
          <6> QED BY <6>1, <6>2
        <5> QED BY <2>3, <4>2, <5>1
      <4>4. sequence[m + 1] \in T  BY <1>1, <2>1
      <4>5. /\ DOMAIN upTo[m + 1] = 1 .. c + 1
            /\ upTo[m + 1] = [k \in 1 .. c + 1 |-> upTo[m + 1][k]]
            /\ \A k \in 1 .. c : upTo[m + 1][k] = upTo[m][k]
            /\ upTo[m + 1][c + 1] = sequence[m + 1]
        BY <4>1, <4>3, <4>4
      <4>6. \A k \in 1 .. c + 1 : upTo[m + 1][k] = sequence[next[k]]
        <5>1. \A k \in 1 .. c : upTo[m][k] = sequence[at[k]]  BY <4>2
        <5> HIDE DEF c
        <5> QED BY <3>3, <3>5, <4>5, <5>1
      <4> QED BY <4>5, <4>6
    <3>10. Done(m + 1, next)  BY <3>2, <3>8, <3>9 DEF Done
    <3> QED BY <3>10
  <2> QED BY <2>4, <2>5
<1>11. U = Nat
  <2> HIDE DEF U
  <2>1. U \in SUBSET Nat  BY DEF U
  <2> QED BY <1>9, <1>10, <2>1, Induct
<1>12. PICK at : Done(n, at)  BY <1>1, <1>11
<1>13. In(n) = places  BY <1>1
<1>14. /\ IsFiniteSet(places) /\ Numbers(at, places)
       /\ upTo[n] = [k \in 1 .. Cardinality(places) |-> sequence[at[k]]]
  BY <1>12, <1>13 DEF Done
<1>15. Cardinality(places) \in Nat  BY <1>14, FS_CardinalityType
<1> QED BY <1>7, <1>14, <1>15

\* One more at the end.
LEMMA Appended ==
    ASSUME NEW S, NEW s \in Seq(S), NEW e \in S
    PROVE  /\ Append(s, e) \in Seq(S) /\ Len(Append(s, e)) = Len(s) + 1
           /\ DOMAIN Append(s, e) = 1 .. Len(s) + 1
           /\ \A i \in 1 .. Len(s) : Append(s, e)[i] = s[i]
           /\ Append(s, e)[Len(s) + 1] = e
OBVIOUS

\* One sequence after another.
LEMMA Joined ==
    ASSUME NEW S, NEW s \in Seq(S), NEW t \in Seq(S)
    PROVE  /\ s \o t \in Seq(S) /\ Len(s \o t) = Len(s) + Len(t)
           /\ DOMAIN (s \o t) = 1 .. Len(s) + Len(t)
           /\ \A i \in 1 .. Len(s) : (s \o t)[i] = s[i]
           /\ \A k \in 1 .. Len(t) : (s \o t)[Len(s) + k] = t[k]
           /\ \A i \in 1 .. Len(s) + Len(t) :
                i \in 1 .. Len(s) \/ \E k \in 1 .. Len(t) : i = Len(s) + k
<1>1. /\ s \o t \in Seq(S) /\ Len(s \o t) = Len(s) + Len(t)
      /\ DOMAIN (s \o t) = 1 .. Len(s) + Len(t)
      /\ \A i \in 1 .. Len(s) : (s \o t)[i] = s[i]
      /\ \A k \in 1 .. Len(t) : (s \o t)[Len(s) + k] = t[k]
  OBVIOUS
<1>2. ASSUME NEW i \in 1 .. Len(s) + Len(t), i \notin 1 .. Len(s)
      PROVE  \E k \in 1 .. Len(t) : i = Len(s) + k
  <2>1. i - Len(s) \in 1 .. Len(t) /\ i = Len(s) + (i - Len(s))
    BY <1>2
  <2> QED BY <2>1
<1> QED BY <1>1, <1>2
=============================================================================
