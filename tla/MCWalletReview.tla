--------------------------- MODULE MCWalletReview ---------------------------
(* Small instances of the wallet review for TLC.                                  *)
EXTENDS WalletReview

CONSTANTS MaxCount, Failing

\* What may fail: nothing, any formatter, or the hash in a recipient's address.
FallibleOf(type, n) ==
  CASE Failing = "nothing" -> {}
    [] Failing = "anything" -> 0..2 * n
    [] Failing = "recipients" -> IF type = "pair" THEN {2 * i : i \in 0..n - 1} ELSE {}

\* Every type, number of records and memo; only one recipient can be too long.
MCTransactions ==
  LET data == {<<"none", 0>>, <<"single", 1>>} \cup {<<"pair", n>> : n \in 1..MaxCount}
  IN  {[type |-> d[1], count |-> d[2], memo |-> m, wraps |-> w,
        fallible |-> FallibleOf(d[1], d[2])] :
         d \in data, m \in {"none", "short", "long"}, w \in BOOLEAN}
=============================================================================
