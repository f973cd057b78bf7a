----------------------------- MODULE Accumulate -----------------------------
(***************************************************************************)
(* The sum of the first numbers of a list and the first of a list of texts *)
(* one behind the other, each as a recursive function of how many.         *)
(***************************************************************************)
EXTENDS Integers, Sequences

\* values[1] + ... + values[n].
SumTo(values, n) ==
  LET sum[k \in 0..n] == IF k = 0 THEN 0 ELSE sum[k - 1] + values[k]
  IN  sum[n]

\* parts[1] \o ... \o parts[n].
JoinTo(parts, n) ==
  LET joined[k \in 0..n] == IF k = 0 THEN <<>> ELSE joined[k - 1] \o parts[k]
  IN  joined[n]

SumOf(values) == SumTo(values, Len(values))
Joined(parts) == JoinTo(parts, Len(parts))
=============================================================================
