------------------------------- MODULE Lists -------------------------------
(***************************************************************************)
(* What the code does with Python's lists: comprehensions with a           *)
(* condition, slices, sorted() with a key, and sum().                      *)
(***************************************************************************)
EXTENDS Integers, Sequences, FiniteSets

\* The k-th of a set of indices, and the elements of a sequence at them.
Nth(S, k) == CHOOSE i \in S : Cardinality({j \in S : j <= i}) = k
At(s, S) == [k \in 1..Cardinality(S) |-> s[Nth(S, k)]]

\* s[:n]
First(s, n) == SubSeq(s, 1, IF n < Len(s) THEN n ELSE Len(s))

\* Keys are compared like Python's tuples; sorted() is stable.
Less(a, b) == \E i \in DOMAIN a : a[i] < b[i] /\ \A j \in 1..(i - 1) : a[j] = b[j]

Sorted(s, keys) ==
    LET place(i) == Cardinality({j \in DOMAIN s :
                      \/ Less(keys[j], keys[i])
                      \/ keys[j] = keys[i] /\ j <= i})
    IN  [n \in DOMAIN s |-> s[CHOOSE i \in DOMAIN s : place(i) = n]]

SumOf(s) ==
    LET sum[i \in 0..Len(s)] == IF i = 0 THEN 0 ELSE sum[i - 1] + s[i]
    IN  sum[Len(s)]
=============================================================================
