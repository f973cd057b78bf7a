----------------------------- MODULE NanoReview -----------------------------
(***************************************************************************)
(* The review of a transaction on a Nano (display_transaction_nano.c).  The*)
(* UX flow has one step that shows text, between two delimiters that are   *)
(* never seen: reaching one runs display_next_state, which fetches the next*)
(* item in the direction of the move and turns the flow back, or lets it   *)
(* pass.  A button press and the delimiters it runs through are one action.*)
(*                                                                         *)
(* Abstractions.  An item is its position: the asset's records from 0, then*)
(* the fee, then the memo if there is one.  Its text is that position, or  *)
(* None when nothing was fetched or a formatter failed.  How many screens  *)
(* the paging layout needs for an item belongs to the transaction.  The    *)
(* flow, its direction and the paging are the UX library's.  The offset is *)
(* not wrapped at 16 bits: TypeOK bounds it by the number of items.        *)
(***************************************************************************)
EXTENDS Integers

CONSTANTS
  Transactions,  (* what the deserialiser accepts, as the review sees it:    *)
                 (* how many records, is there a memo, screens of each item, *)
                 (* and the items whose formatter may fail                   *)
  None           (* an empty text                                            *)

LastItemOf(t) == IF t.memo THEN t.records + 1 ELSE t.records

ASSUME ReviewAssumption ==
  /\ \A t \in Transactions :
       /\ t.records \in Nat
       /\ t.memo \in BOOLEAN
       /\ t.pages \in [0..LastItemOf(t) -> Nat \ {0}]
       /\ t.fallible \subseteq 0..t.records
  /\ None \notin Int

VARIABLES
  tx,        (* the transaction under review                         *)
  step,      (* the step of the flow on the display                  *)
  state,     (* txreview_ctx.state: STATIC_STATE or DYNAMIC_STATE    *)
  offset,    (* txreview_ctx.offset                                  *)
  text,      (* the item in txreview_ctx.text, or None               *)
  page,      (* the screen of that item on the display               *)
  decision,  (* what the user decided                                *)
  \* History, read by the properties only.
  seen,      (* the screens shown so far                             *)
  failed     (* a formatter failed                                   *)

vars == <<tx, step, state, offset, text, page, decision, seen, failed>>

Records  == tx.records      \* asset_record_count
HasMemo  == tx.memo
Pages    == tx.pages
Fee      == Records
Memo     == Records + 1
LastItem == LastItemOf(tx)
Items    == 0..LastItem

-----------------------------------------------------------------------------
(* Fetching an item.  The memo is copied; the other texts are formatted,   *)
(* which may fail for some of them.                                        *)

Fetched(item) == item # None /\ UNCHANGED failed

Missing(item) ==
  \/ item = None /\ UNCHANGED failed
  \/ item \in tx.fallible /\ failed' = TRUE

\* handle_forward_navigation fetches the item at the offset.
\* Slips: a memo is fetched though there is none; it is never fetched.
NextItemWithMemo == IF offset <= Memo THEN offset ELSE None
NextItemButMemo == IF offset <= Fee THEN offset ELSE None

NextItem == IF offset <= Fee \/ (offset = Memo /\ HasMemo) THEN offset ELSE None

\* handle_backward_navigation leaves an offset and fetches the item there.
\* Slip: the offset is taken to be the one after the item on the display.
OffsetTwoBack == IF offset < 2 THEN 0 ELSE offset - 2

OffsetBack ==
  IF offset = 0 THEN 0
  ELSE IF offset - 1 = Memo /\ ~HasMemo THEN Fee
  ELSE offset - 1

PreviousItem == IF offset = 0 THEN None ELSE OffsetBack

\* The general step shows the fetched item, or an empty text.  Arriving from
\* the left the paging layout starts at the item's first screen, from the right
\* at its last.
Display(item, fromLeft) ==
  /\ step' = "general"
  /\ text' = item
  /\ page' = IF item = None \/ fromLeft THEN 1 ELSE Pages[item]
  /\ seen' = IF item = None THEN seen ELSE seen \cup {<<item, page'>>}

\* A step that shows no item.  display_next_state has cleared the text.
ShowStep(to) ==
  /\ step' = to
  /\ text' = None /\ page' = 1
  /\ UNCHANGED seen

-----------------------------------------------------------------------------
(* The delimiters.                                                         *)

\* handle_upper_delimiter in the static state: coming from the first step, or
\* back from an empty text.  The flow goes on to the general step even if
\* nothing was fetched.
\* Slip: the state is dynamic even if nothing was fetched.
EnterFromStartDynamic ==
  /\ state = "static" /\ state' = "dynamic"
  /\ \/ Fetched(NextItem) /\ offset' = offset + 1 /\ Display(NextItem, TRUE)
     \/ Missing(NextItem) /\ UNCHANGED offset /\ Display(None, TRUE)

EnterFromStart ==
  /\ state = "static"
  /\ \/ /\ Fetched(NextItem)
        /\ offset' = offset + 1 /\ state' = "dynamic"
        /\ Display(NextItem, TRUE)
     \/ /\ Missing(NextItem)
        /\ UNCHANGED <<offset, state>>
        /\ Display(None, TRUE)

\* handle_upper_delimiter in the dynamic state: one item back, or, when there
\* is none or it cannot be formatted, the first step.
Backward ==
  /\ state = "dynamic"
  /\ offset' = OffsetBack
  /\ \/ Fetched(PreviousItem) /\ UNCHANGED state /\ Display(PreviousItem, TRUE)
     \/ Missing(PreviousItem) /\ state' = "static" /\ ShowStep("review")

\* handle_lower_delimiter in the static state: back from the approval, or on
\* from an empty text.  The flow goes back to the general step in any case.
EnterFromEnd ==
  /\ state = "static"
  /\ offset' = OffsetBack
  /\ \/ Fetched(PreviousItem) /\ state' = "dynamic" /\ Display(PreviousItem, FALSE)
     \/ Missing(PreviousItem) /\ UNCHANGED state /\ Display(None, FALSE)

\* bnnn_paging_edgecase: the general step is shown again as if the flow came
\* from the left.
\* Slip: the flow goes one step back.
ShowAgainFromRight(item) == Display(item, FALSE)

ShowAgain(item) == Display(item, TRUE)

\* handle_lower_delimiter in the dynamic state: one item forward; past a fee
\* that cannot be formatted, with an empty text; or on to the approval, when
\* there is no item or a record cannot be formatted.
\* Slip: the offset stays.
ForwardInPlace ==
  /\ state = "dynamic"
  /\ \/ Fetched(NextItem) /\ UNCHANGED <<offset, state>> /\ ShowAgain(NextItem)
     \/ Missing(NextItem) /\ state' = "static" /\ UNCHANGED offset /\ ShowStep("approve")
ForwardTwice ==
  /\ state = "dynamic"
  /\ \/ Fetched(NextItem) /\ offset' = offset + 2 /\ UNCHANGED state /\ ShowAgain(NextItem)
     \/ Missing(NextItem) /\ state' = "static" /\ UNCHANGED offset /\ ShowStep("approve")

Forward ==
  LET pastFee == offset = Fee /\ HasMemo
  IN  /\ state = "dynamic"
      /\ \/ /\ Fetched(NextItem)
            /\ offset' = offset + 1 /\ UNCHANGED state
            /\ ShowAgain(NextItem)
         \/ /\ Missing(NextItem) /\ pastFee
            /\ offset' = offset + 1 /\ UNCHANGED state
            /\ ShowAgain(None)
         \/ /\ Missing(NextItem) /\ ~pastFee
            /\ state' = "static" /\ UNCHANGED offset
            /\ ShowStep("approve")

UpperDelimiter == EnterFromStart \/ Backward
LowerDelimiter == EnterFromEnd \/ Forward

-----------------------------------------------------------------------------
(* The buttons.                                                            *)

Undecided == decision = "none" /\ UNCHANGED <<tx, decision>>

\* How many screens the general step has.
PageCount == IF text = None THEN 1 ELSE Pages[text]

\* The paging layout moves inside an item before the flow leaves it.
TurnTo(p) ==
  /\ page' = p
  /\ seen' = seen \cup {<<text, p>>}
  /\ UNCHANGED <<step, state, offset, text, failed>>

\* A move between steps without a delimiter between them.
Move(from, to) ==
  /\ step = from
  /\ ShowStep(to)
  /\ UNCHANGED <<state, offset, failed>>

Right ==
  /\ Undecided
  /\ \/ step = "review" /\ UpperDelimiter
     \/ step = "general" /\ page < PageCount /\ TurnTo(page + 1)
     \/ step = "general" /\ page = PageCount /\ LowerDelimiter
     \/ Move("approve", "reject")

Left ==
  /\ Undecided
  /\ \/ step = "general" /\ page > 1 /\ TurnTo(page - 1)
     \/ step = "general" /\ page = 1 /\ UpperDelimiter
     \/ step = "approve" /\ LowerDelimiter
     \/ Move("reject", "approve")

\* Both buttons, on the last two steps: ui_validate.
Press ==
  /\ decision = "none"
  /\ \/ step = "approve" /\ decision' = "approved"
     \/ step = "reject" /\ decision' = "rejected"
  /\ UNCHANGED <<tx, step, state, offset, text, page, seen, failed>>

\* ui_display_transaction.
Init ==
  /\ tx \in Transactions
  /\ step = "review" /\ state = "static" /\ offset = 0
  /\ text = None /\ page = 1 /\ decision = "none"
  /\ seen = {} /\ failed = FALSE

Next == Right \/ Left \/ Press

Spec == Init /\ [][Next]_vars

\* The user goes on pressing the right button.
FairSpec == Spec /\ WF_vars(Right)
-----------------------------------------------------------------------------
(* Properties.                                                             *)

Everything == UNION {{item} \X (1..Pages[item]) : item \in Items}

\* The type of every variable.  The offset stays below what its 16 bits hold.
TypeOK ==
  /\ tx \in Transactions
  /\ step \in {"review", "general", "approve", "reject"}
  /\ state \in {"static", "dynamic"}
  /\ offset \in 0..LastItem + 1
  /\ text \in Items \cup {None}
  /\ page \in 1..PageCount
  /\ seen \subseteq Everything
  /\ decision \in {"none", "approved", "rejected"}
  /\ failed \in BOOLEAN

\* Where the next press leads is decided by the offset, whose meaning depends
\* on the direction the item was reached from: it is the item on the display,
\* or the one after it.  It is never an item further, a delimiter never leaves
\* an empty text on the display, and outside the items it is back at their
\* start or past their end, however the user went back and forth.
OffsetFollowsDisplay ==
  ~failed =>
    /\ step = "general" =>
         /\ state = "dynamic"
         /\ text \in Items
         /\ offset \in {text, text + 1}
    /\ step = "review" => state = "static" /\ offset = 0
    /\ step \in {"approve", "reject"} => state = "static" /\ offset = LastItem + 1

\* The approval is not offered before every screen of every record, of the fee
\* and of the memo was shown, unless a formatter failed.
OfferedAfterAll ==
  step \in {"approve", "reject"} /\ ~failed => seen = Everything

\* Whatever fails, the review ends only behind a first item that was shown whole:
\* as long as that one cannot be formatted the static state is not left, and the
\* transaction can be neither approved nor rejected.
FirstShown == \A p \in 1..Pages[0] : <<0, p>> \in seen
EndsBehindFirst == step \in {"approve", "reject"} => FirstShown

\* A press leads to the same item or to the one beside it, and the item on the
\* display is never passed over.
ToNeighbour ==
  step = "general" /\ step' = "general" => text' - text \in {-1, 0, 1}
StepsToNeighbours == [][~failed' => ToNeighbour]_vars

\* The promise is about the approval of a review in which no formatter failed.
Outcome == IF failed /\ decision = "approved" THEN "none" ELSE decision
Promise == INSTANCE FullReview WITH everything <- Everything, decision <- Outcome

\* The review can be rejected at its end, and it can be approved once every screen
\* has been shown, not before.
ImplementsFullReview == Promise!RSpec

\* Whatever the user did before, from some moment on pressing only right leads
\* past every item to the last step, unless a formatter fails: going round at a
\* delimiter never ends in a circle.
RightReachesEnd ==
  <>[][Right]_vars => <>(step = "reject" \/ decision # "none" \/ failed)

(* What the repository says and the code does otherwise.                    *)

\* display_transaction_nano.c, of the flow: "#n-2 screen: memo (if present)" and
\* "#n-1 screen: approve button".
MemoBeforeApproval ==
  step = "approve" /\ HasMemo => {Memo} \X (1..Pages[Memo]) \subseteq seen
=============================================================================
