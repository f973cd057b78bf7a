---------------------------- MODULE WalletReview ----------------------------
(***************************************************************************)
(* The review of a transaction on a Stax or Flex (review.c) and the record *)
(* tables it opens (modals.c).  Three pages are swiped: the intent, the    *)
(* fields, the signature.  A transaction of several payments or votes has  *)
(* one field for all of them; tapping it opens a table of bars, tapping a  *)
(* bar the details of that record.  A long memo opens in a modal too.      *)
(*                                                                         *)
(* Abstractions.  A text is the position of the item it was made from: the *)
(* parts of the asset's records from 0, then the fee, then the memo.       *)
(* Summary is the one field that stands for all records, and None a text   *)
(* that was not made.  Swiping, which fields and bars can be tapped, the   *)
(* dialog and the navigation bar are the UI library's.  Reading through a  *)
(* null pointer may do anything: layer = "undefined", where nothing more   *)
(* is said of the app.                                                     *)
(***************************************************************************)
EXTENDS Integers, Sequences

CONSTANTS
  Transactions,  (* type and number of the asset's records, length of the memo,*)
                 (* does, on a Flex, the recipient wrap to a third line, and   *)
                 (* the items whose formatter may fail                         *)
  Bars,          (* MODAL_PAGE_BAR_COUNT_MAX: bars on a table page             *)
  ByteMax,       (* UINT8_MAX                                                  *)
  Outcomes,      (* results a drawing call may have                            *)
  None, Summary

RecordTypes == {"none", "single", "pair"}

\* The deserialisers bound the number of records (127 payments, 53 votes).
ASSUME WalletAssumption ==
  /\ Bars \in Nat \ {0} /\ ByteMax \in Nat
  /\ \A t \in Transactions :
       /\ t.type \in RecordTypes /\ t.count \in Nat
       /\ 2 * t.count + 1 <= ByteMax
       /\ t.type = "none" => t.count = 0
       /\ t.type = "single" => t.count = 1
       /\ t.type = "pair" => t.count > 0
       /\ t.memo \in {"none", "short", "long"}
       /\ t.wraps \in BOOLEAN
       /\ t.fallible \subseteq Nat
  /\ Outcomes \subseteq BOOLEAN /\ TRUE \in Outcomes
  /\ None \notin Int /\ Summary \notin Int /\ None # Summary

VARIABLES
  tx,         (* G_ui_txreview_ctx: the transaction, or None when cleared     *)
  modalPage,  (* its current_modal_page                                       *)
  page,       (* the page of the review: 0 intent, 1 fields, 2 signature      *)
  layer,      (* what is on the display, over the page                        *)
  fields,     (* txinfo_pairs: the texts of page 1, each with or without icon *)
  slots,      (* modal_pairs                                                  *)
  rows,       (* the bars of the table on the display                         *)
  detail,     (* the details on the display                                   *)
  decision,   (* what ui_validate was told                                    *)
  \* History, read by the properties only.
  subject,    (* the transaction under review                                 *)
  tapped,     (* the record whose bar was tapped                              *)
  screens,    (* the contents page 1 was shown with                           *)
  failed      (* a formatter or a drawing call failed                         *)

modal == <<modalPage, slots, rows, detail, tapped>>
vars == <<tx, page, layer, fields, decision, subject, screens, failed, modal>>

Byte(n) == n % (ByteMax + 1)
Slots == 0..2 * Bars - 1
NoSlots == [s \in Slots |-> None]
NoDetail == [no |-> 0, items |-> <<>>]

-----------------------------------------------------------------------------
(* The items of a transaction.                                             *)

\* get_asset_bounds: how many parts the records have, in a byte.
Bounds(t) == Byte(IF t.type = "single" THEN t.count ELSE 2 * t.count)
FeeOf(t) == Bounds(t)
MemoOf(t) == Bounds(t) + 1

HasTable(t) == t.type = "pair" /\ t.count >= 2   \* ASSET_MODAL_THRESHOLD

\* A recipient of three lines over a memo, which it could push off the screen.
TooLong(t) == t.wraps /\ t.type = "pair" /\ ~HasTable(t) /\ t.memo # "none"

Field(item, icon) == [item |-> item, icon |-> icon]

\* The fields of page 1.  What the provider of a record's text returns is
\* dropped: a failed text is shown empty.  A failed fee is left out, and a memo
\* never fails.
AssetFields(t) ==
  LET text(i) == {Field(i, FALSE)} \cup
                   (IF i \in t.fallible THEN {Field(None, FALSE)} ELSE {})
  IN  IF HasTable(t) THEN {<<Field(Summary, TRUE)>>}
      ELSE CASE t.type = "none" -> {<<>>}
             [] t.type = "single" -> {<<f>> : f \in text(0)}
             [] t.type = "pair" -> text(0) \X text(1)

FeeField(t) ==
  {<<Field(FeeOf(t), FALSE)>>} \cup (IF FeeOf(t) \in t.fallible THEN {<<>>} ELSE {})

\* Slip: a short memo has no field.
LongMemoField(t) ==
  IF t.memo = "long" THEN <<Field(MemoOf(t), TRUE)>> ELSE <<>>

MemoField(t) ==
  IF t.memo = "none" THEN <<>> ELSE <<Field(MemoOf(t), t.memo = "long")>>

\* Slip: the fee takes the place of the last record.
InfoFieldsUnder(t) ==
  {SubSeq(asset, 1, Len(asset) - 1) \o fee \o MemoField(t) :
     asset \in AssetFields(t), fee \in FeeField(t)}

InfoFields(t) ==
  {asset \o fee \o MemoField(t) : asset \in AssetFields(t), fee \in FeeField(t)}

\* A formatter failed.
Faulty(t, shown) ==
  \/ \E i \in DOMAIN shown : shown[i].item = None
  \/ \A i \in DOMAIN shown : shown[i].item # FeeOf(t)

\* Page 1 as it should be: every item of the transaction, or their summary.
Complete(t) ==
  LET assets == IF HasTable(t) THEN <<Field(Summary, TRUE)>>
                ELSE [i \in 1..Bounds(t) |-> Field(i - 1, FALSE)]
      memo == IF t.memo = "none" THEN <<>> ELSE <<Field(MemoOf(t), t.memo = "long")>>
  IN  assets \o <<Field(FeeOf(t), FALSE)>> \o memo

-----------------------------------------------------------------------------
(* Errors: the context is cleared, ui_validate is told of a rejection and  *)
(* the error page is shown.  Whoever called may go on with the context.    *)

Fail(to) ==
  /\ tx' = None /\ modalPage' = 0
  /\ decision' = "rejected"
  /\ layer' = to
  /\ failed' = TRUE

\* handle_review_error, then the memo's length is read through tx_data.
ReviewError ==
  /\ Fail("undefined")
  /\ fields' = <<>>
  /\ UNCHANGED <<page, subject, screens, slots, rows, detail, tapped>>

\* handle_modal_error.
ModalError(to) ==
  /\ Fail(to)
  /\ slots' = NoSlots
  /\ UNCHANGED <<page, fields, subject, screens, rows, detail, tapped>>

-----------------------------------------------------------------------------
(* The pages of the review.                                                *)

\* review_content_provider.
ShowPage(p) ==
  /\ page' = p
  /\ IF p = 1
     THEN /\ fields' \in InfoFields(tx)
          /\ TooLong(tx) => fields'[1].item = None
          /\ screens' = screens \cup {fields'}
          /\ failed' = (failed \/ Faulty(tx, fields'))
     ELSE fields' = <<>> /\ UNCHANGED <<screens, failed>>
  /\ UNCHANGED <<tx, layer, decision, subject, modal>>

Swipe ==
  /\ layer = "page"
  /\ \E p \in 0..2 : p - page \in {-1, 1} /\ ShowPage(p)

SwipeToLongRecipient ==
  /\ layer = "page" /\ page # 1
  /\ TooLong(tx)
  /\ ReviewError

-----------------------------------------------------------------------------
(* The table.                                                              *)

\* get_bar_count_for_page and get_modal_page_count.
\* Slip: the last page is a full one.
FullBarCount(t, p) == IF t.count > p * Bars THEN Bars ELSE 0

BarCount(t, p) ==
  LET left == t.count - p * Bars
  IN  IF left <= 0 THEN 0 ELSE IF left > Bars THEN Bars ELSE left

PageCount(t) == (t.count + Bars - 1) \div Bars

\* The bars of page p: their numbers and the first part of their records.
\* Slips: the first bar has number 0; the records are counted, not their parts.
RowFromZero(p, i) ==
  [no |-> Byte(p * Bars) + i - 1, item |-> 2 * (Byte(p * Bars) + i - 1)]
RowOfPart(p, i) ==
  [no |-> Byte(p * Bars) + i, item |-> Byte(p * Bars) + 2 * (i - 1)]

Row(p, i) ==
  [no |-> Byte(p * Bars) + i, item |-> 2 * (Byte(p * Bars) + i - 1)]

\* The parts of the page's records go to the slots of their positions.
Filled(p, count) ==
  LET first == 2 * Byte(p * Bars)
      part(s) == first + ((s - first) % (2 * Bars))
  IN  [s \in Slots |-> IF part(s) < first + 2 * count THEN part(s) ELSE slots[s]]

\* display_modal_page.  A part that cannot be formatted is an error, and then
\* its missing text is read; a drawing call that fails is one as well.
DisplayTable(p) ==
  LET count == BarCount(tx, p)
      fits == 2 * (Byte(p * Bars) + count) - 1 <= ByteMax
      parts == {2 * Byte(p * Bars) + k : k \in 0..2 * count - 1}
  IN  \/ /\ count > 0 /\ fits
         /\ modalPage' = p
         /\ layer' = "table"
         /\ rows' = [i \in 1..count |-> Row(p, i)]
         /\ slots' = Filled(p, count)
         /\ detail' = NoDetail /\ tapped' = None
         /\ UNCHANGED <<tx, page, fields, decision, subject, screens, failed>>
      \/ parts \cap tx.fallible # {} /\ ModalError("undefined")
      \/ (count = 0 \/ ~fits \/ FALSE \in Outcomes) /\ ModalError("error")

\* display_modal: a tap on the summary, or on a long memo that is not the first
\* field.
TapSummary ==
  /\ layer = "page" /\ page = 1
  /\ fields # <<>> /\ fields[1].icon /\ tx.type = "pair"
  /\ DisplayTable(0)

TapMemo ==
  /\ layer = "page" /\ page = 1
  /\ \E i \in 2..Len(fields) : fields[i].icon
  /\ tx.memo = "long"
  /\ \/ /\ MemoOf(tx) <= ByteMax
        /\ layer' = "memo"
        /\ slots' = [slots EXCEPT ![MemoOf(tx) % (2 * Bars)] = MemoOf(tx)]
        /\ UNCHANGED <<tx, page, fields, decision, subject, screens, failed,
                       modalPage, rows, detail, tapped>>
     \/ FALSE \in Outcomes /\ ModalError("error")

Turn(from, to) ==
  /\ layer = from /\ layer' = to
  /\ UNCHANGED <<tx, page, fields, decision, subject, screens, failed, slots>>

DismissMemo == Turn("memo", "page") /\ UNCHANGED <<modalPage, rows, detail, tapped>>

\* The navigation bar.
\* Slip: the page is shown but not kept.
NavigateForgetting ==
  /\ layer = "table"
  /\ \E p \in 0..PageCount(tx) - 1 :
       /\ p - modalPage \in {-1, 1}
       /\ rows' = [i \in 1..BarCount(tx, p) |-> Row(p, i)]
       /\ slots' = Filled(p, BarCount(tx, p))
       /\ UNCHANGED <<modalPage, layer, detail, tapped, tx, page, fields,
                      decision, subject, screens, failed>>

Navigate ==
  /\ layer = "table"
  /\ \E p \in 0..PageCount(tx) - 1 : p - modalPage \in {-1, 1} /\ DisplayTable(p)

\* The exit key of the navigation bar, or the footer of a table of one page.
CloseTable ==
  /\ Turn("table", "page")
  /\ modalPage' = IF PageCount(tx) > 1 THEN 0 ELSE modalPage
  /\ rows' = <<>> /\ UNCHANGED <<detail, tapped>>

\* display_details_modal shows the two slots of the bar.
TapBar ==
  /\ layer = "table"
  /\ \E b \in DOMAIN rows :
       \/ /\ layer' = "details"
          /\ detail' = [no |-> Byte(modalPage * Bars) + b,
                        items |-> <<slots[2 * b - 2], slots[2 * b - 1]>>]
          /\ tapped' = rows[b]
          /\ UNCHANGED <<tx, page, fields, decision, subject, screens, failed,
                         modalPage, slots, rows>>
       \/ FALSE \in Outcomes /\ ModalError("error")

DismissDetails == layer = "details" /\ DisplayTable(modalPage)

-----------------------------------------------------------------------------
(* The decision.                                                           *)

Decide(verdict) ==
  /\ decision' = verdict
  /\ layer' = "status"
  /\ UNCHANGED <<tx, page, fields, subject, screens, failed, modal>>

Sign == layer = "page" /\ page = 2 /\ Decide("approved")

\* handle_review_rejection_with_confirmation.
AskReject == Turn("page", "dialog") /\ UNCHANGED <<modalPage, rows, detail, tapped>>
ResumeReview == Turn("dialog", "page") /\ UNCHANGED <<modalPage, rows, detail, tapped>>
ConfirmReject == layer = "dialog" /\ Decide("rejected")

\* init_review_context; the review starts on the intent page.
Init ==
  /\ subject \in Transactions /\ tx = subject /\ modalPage = 0
  /\ page = 0 /\ layer = "page" /\ fields = <<>> /\ decision = "none"
  /\ slots = NoSlots /\ rows = <<>> /\ detail = NoDetail /\ tapped = None
  /\ screens = {} /\ failed = FALSE

Next ==
  \/ Swipe \/ SwipeToLongRecipient
  \/ TapSummary \/ TapMemo \/ DismissMemo
  \/ Navigate \/ CloseTable \/ TapBar \/ DismissDetails
  \/ Sign \/ AskReject \/ ResumeReview \/ ConfirmReject

Spec == Init /\ [][Next]_vars
-----------------------------------------------------------------------------
(* Properties.                                                             *)

Items(t) == 0..MemoOf(t)
AllItems == UNION {Items(t) : t \in Transactions}
FieldTypes == [item : AllItems \cup {None, Summary}, icon : BOOLEAN]
RowTypes == [no : 1..ByteMax, item : AllItems]

\* The type of every variable.
TypeOK ==
  /\ tx \in {subject, None} /\ subject \in Transactions
  /\ modalPage \in 0..ByteMax
  /\ page \in 0..2
  /\ layer \in {"page", "table", "details", "memo", "dialog", "status", "error", "undefined"}
  /\ fields \in Seq(FieldTypes) /\ Len(fields) <= 4
  /\ slots \in [Slots -> Items(subject) \cup {None}]
  /\ rows \in Seq(RowTypes) /\ Len(rows) <= Bars
  /\ detail \in [no : 0..ByteMax, items : Seq(AllItems)]
  /\ decision \in {"none", "approved", "rejected"}
  /\ tapped \in RowTypes \cup {None}
  /\ \A s \in screens : s \in Seq(FieldTypes)
  /\ failed \in BOOLEAN

\* A bar's number, its text and the two slots its details come from are those of
\* one record, and the record is one of the table's: whatever pages, details and
\* modals used the slots before, and whatever page was navigated to.
TableShowsItsPage ==
  layer = "table" =>
    \A i \in DOMAIN rows :
      /\ rows[i].no \in 1..subject.count
      /\ rows[i].item = 2 * (rows[i].no - 1)
      /\ slots[2 * i - 2] = rows[i].item
      /\ slots[2 * i - 1] = rows[i].item + 1

\* The details are numbered like the bar that was tapped and show both parts of
\* its record; the memo's modal has the memo in its slot.
DetailsShowTapped ==
  /\ layer = "details" =>
       /\ detail.no = tapped.no
       /\ detail.items = <<2 * (tapped.no - 1), 2 * (tapped.no - 1) + 1>>
  /\ layer = "memo" => slots[MemoOf(subject) % (2 * Bars)] = MemoOf(subject)

\* Between them the pages the table can be turned to list every record once, in
\* order, with no bar left over: the two loops that count pages and bars agree,
\* and the bytes they are kept in do not wrap.
RowsCoverRecords ==
  HasTable(subject) =>
    LET bars == {<<p, i>> : p \in 0..PageCount(subject), i \in 1..Bars}
        listed == {b \in bars : b[2] <= BarCount(subject, b[1])}
    IN  /\ \A b \in listed : Row(b[1], b[2]).no = b[1] * Bars + b[2]
        /\ {Row(b[1], b[2]).no : b \in listed} = 1..subject.count

\* The signature is offered only after page 1 was shown with every item of the
\* transaction, unless a formatter failed.
OfferedWhenComplete ==
  page = 2 /\ ~failed => Complete(subject) \in screens

\* The promise is about the approval of a review in which no formatter failed;
\* there is one screen to show, the one with every item.
Outcome == IF failed /\ decision = "approved" THEN "none" ELSE decision
Promise ==
  INSTANCE FullReview
    WITH everything <- {Complete(subject)},
         seen <- screens \cap {Complete(subject)}, decision <- Outcome

\* A transaction can be rejected at any time, and approved once its items have been
\* shown, not before.
ImplementsFullReview == Promise!RSpec

(* What the repository says and the code does otherwise.                    *)

\* review.c: "the transaction is gracefully rejected" when a text is too long.
GracefullyRejected == TooLong(subject) => layer # "undefined"

\* review.c, of a single payment or vote: "One asset record pair needs to be
\* displayed."
RecordPairDisplayed ==
  decision = "approved" /\ subject.type = "pair" /\ ~HasTable(subject) =>
    \E s \in screens : {0, 1} \subseteq {s[i].item : i \in DOMAIN s}
=============================================================================
