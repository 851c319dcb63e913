------------------------------ MODULE Counting ------------------------------
(***************************************************************************)
(* Sorting, selecting and summing, written so that they can be reasoned    *)
(* about: the operators of the community modules that do it take operators *)
(* as arguments, which the provers cannot instantiate.                     *)
(***************************************************************************)
EXTENDS Integers, Sequences, FiniteSets

\* The domain of `before' as a sequence, where before[x] is the set of those
\* that come before x: the k-th has k - 1 before it.
InOrder(before) ==
    [k \in 1 .. Cardinality(DOMAIN before) |->
        CHOOSE x \in DOMAIN before : Cardinality(before[x]) = k - 1]

\* What a sequence has at the given places, in the order it has it.
Chosen(sequence, places) ==
    LET upTo[k \in 0 .. Len(sequence)] ==
          IF k = 0 THEN <<>>
          ELSE IF k \in places THEN Append(upTo[k - 1], sequence[k]) ELSE upTo[k - 1]
    IN  upTo[Len(sequence)]

\* The sum of a sequence of numbers.
Total(numbers) ==
    LET sum[k \in 0 .. Len(numbers)] == IF k = 0 THEN 0 ELSE sum[k - 1] + numbers[k]
    IN  sum[Len(numbers)]
=============================================================================
