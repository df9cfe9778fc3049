-------------------------------- MODULE Periods -------------------------------
(***************************************************************************)
(* Period keys, and the numbers, sets and sequences of the analysis.       *)
(*                                                                         *)
(* A period key is an integer, 100 * year + part, ordered as the keys are  *)
(* as strings: "2024" (part 0) < "2024-03" (part 3) < "2024Q1" (part 21);  *)
(* parts from 50 on are named columns (a scenario, a total, a stub).       *)
(***************************************************************************)
EXTENDS Integers, Sequences, FiniteSets

Abs(n)     == IF n < 0 THEN -n ELSE n
Larger(a, b) == IF a < b THEN b ELSE a
Least(S)   == CHOOSE x \in S : \A y \in S : x <= y
Greatest(S) == CHOOSE x \in S : \A y \in S : y <= x

(* The members of a sequence, and a set of integers in order. *)
Members(s) == {s[i] : i \in DOMAIN s}
Ordered(S) == [i \in 1..Cardinality(S) |->
                 CHOOSE x \in S : Cardinality({y \in S : y < x}) = i - 1]

(* The elements of a sequence that are in a set, in order.  (SelectSeq     *)
(* with a set for its test: the proofs have facts about it.)               *)
Among(s, T) == LET at == Ordered({i \in DOMAIN s : s[i] \in T})
               IN  [n \in DOMAIN at |-> s[at[n]]]

(* Sums of a sequence: of its numbers, of F(s[i]). *)
SumOf(s) ==
  LET upTo[n \in 0..Len(s)] == IF n = 0 THEN 0 ELSE upTo[n - 1] + s[n]
  IN  upTo[Len(s)]
Total(s, F(_)) == SumOf([i \in DOMAIN s |-> F(s[i])])

Year(k)      == k \div 100
YearKey(y)   == 100 * y
IsYear(k)    == k % 100 = 0
IsMonth(k)   == k % 100 \in 1..12
IsQuarter(k) == k % 100 \in 21..24

Roles         == {"historical", "forecast", "stub", "scenario", "total"}
PeriodRoles   == {"historical", "forecast", "stub"}
=============================================================================
