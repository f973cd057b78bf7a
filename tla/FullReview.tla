----------------------------- MODULE FullReview -----------------------------
(***************************************************************************)
(* What a review promises: pages are shown in an order of the user's, the  *)
(* review can be refused at any time, and it can be approved once every    *)
(* page has been shown.                                                    *)
(***************************************************************************)
VARIABLES
  everything,  (* all the pages there are to show *)
  seen,        (* the pages shown so far          *)
  decision     (* "none", "approved" or "rejected" *)

rvars == <<everything, seen, decision>>

RInit == seen = {} /\ decision = "none"

\* A screen shows at most one page that was not shown before.
Show ==
  /\ decision = "none"
  /\ \E page \in everything : seen' = seen \cup {page}
  /\ UNCHANGED <<everything, decision>>

Refuse ==
  /\ decision = "none"
  /\ decision' = "rejected"
  /\ UNCHANGED <<everything, seen>>

Agree ==
  /\ decision = "none" /\ seen = everything
  /\ decision' = "approved"
  /\ UNCHANGED <<everything, seen>>

RNext == Show \/ Refuse \/ Agree

RSpec == RInit /\ [][RNext]_rvars
=============================================================================
