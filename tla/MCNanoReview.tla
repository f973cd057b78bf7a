---------------------------- MODULE MCNanoReview ----------------------------
(* Small instances of the Nano review for TLC.                                    *)
EXTENDS NanoReview

CONSTANTS Counts, MaxPages, FallibleItems

\* Every transaction with a number of records in Counts, with and without a memo,
\* whose items need up to MaxPages screens each and may fail if in FallibleItems.
MCTransactions ==
  UNION {[records : {n}, memo : {m}, fallible : {FallibleItems \cap 0..n},
          pages : [0..(IF m THEN n + 1 ELSE n) -> 1..MaxPages]] :
         n \in Counts, m \in BOOLEAN}
=============================================================================
