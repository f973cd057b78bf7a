--------------------------- MODULE ApprovalService --------------------------
(***************************************************************************)
(* What the Solar app promises a host and its user, without sessions,      *)
(* chunks, screens or a context: a request is served at once, or put to the*)
(* user.  What is put to the user is a subject (sign this payload under    *)
(* this path, show this key or this address), and the one thing that can be*)
(* released when the user decides is that very subject.  A subject that is *)
(* guarded is never released otherwise.                                    *)
(***************************************************************************)
CONSTANTS
  SignSubjects,  (* what only the user can release                      *)
  KeySubjects,   (* what the host may ask for without the user          *)
  None

\* An answer that carries a status word and no secret.
Status == [kind |-> "status"]

VARIABLES
  asked,    (* the subject put to the user, or None                     *)
  guarded,  (* the last request asks for the user's approval            *)
  answer    (* what was released, Status, or None                       *)

avars == <<asked, guarded, answer>>

AInit == asked = None /\ guarded = FALSE /\ answer = None

Serve ==
  /\ asked = None /\ asked' = None
  /\ guarded' \in BOOLEAN
  /\ \/ answer' = Status
     \/ ~guarded' /\ answer' \in KeySubjects

Ask ==
  /\ asked = None
  /\ asked' \in SignSubjects \/ asked' \in KeySubjects
  /\ guarded' = TRUE
  /\ answer' = None

\* Approved, the subject is released unless that fails; refused, nothing is.
Decide ==
  /\ asked # None
  /\ answer' = asked \/ answer' = Status
  /\ asked' = None
  /\ UNCHANGED guarded

\* Quitting, or power loss.
Stop == asked' = None /\ guarded' = FALSE /\ answer' = None

ANext == Serve \/ Ask \/ Decide \/ Stop

ASpec == AInit /\ [][ANext]_avars
=============================================================================
