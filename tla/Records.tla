------------------------------ MODULE Records -------------------------------
(***************************************************************************)
(* What the reviews show of an accepted payload: the providers of records  *)
(* (ui_ipfs.c, ui_transfer.c, ui_burn.c, ui_vote.c), of the fee and of the *)
(* memo, and the text of a message.  The user turns to any item at any     *)
(* time, so that a provider may be asked for any index in any order; each  *)
(* time it finds its record in raw_tx anew.                                *)
(*                                                                         *)
(* Abstractions.  The labels are those of a Nano, which name the position  *)
(* of the record; the labels of a Stax and a Flex are fixed.  A Base58 text*)
(* is what it encodes.                                                     *)
(***************************************************************************)
EXTENDS Deserialiser, Amounts

CONSTANTS
  Indices,    (* indices a provider is asked for                             *)
  Outcomes,   (* results a hash may have                                     *)
  None        (* nothing is asked for                                        *)

ASSUME RecordsAssumption ==
  Indices \subseteq 0..255 /\ Outcomes \subseteq BOOLEAN /\ TRUE \in Outcomes

VARIABLES
  search,   (* vote_search for an index: votes still to pass, and where it is *)
  shown     (* the item last asked for and what the provider made of it       *)

vars == <<parser, search, shown>>

MaxValueLen == 256   \* MAX_VALUE_LEN
MaxItemLen == 16     \* MAX_ITEM_LEN of a Nano

-----------------------------------------------------------------------------
(* Texts.                                                                  *)

WordLen == [Address |-> 7, Amount |-> 6, Vote |-> 4, Percent |-> 6]
Digits(n) == IF n < 10 THEN 1 ELSE IF n < 100 THEN 2 ELSE 3

\* "Address 3/127": the label of a record, cut when it does not fit.
Label(word, index, count) ==
  LET position == index \div 2 + 1
  IN  IF WordLen[word] + 2 + Digits(position) + Digits(count) >= MaxItemLen THEN "cut"
      ELSE <<word, position, count>>

\* base58_encode.
Base58(bytes) == [base58 |-> bytes]

\* calculate_address_checksum: the first bytes of the hash of the hash.
Checksum(hash) == [hashedTwice |-> hash]

\* address_from_pubkey_hash.
AddressFromPubkeyHash(hash) == Base58(<<hash, Checksum(hash)>>)

Item(label, value) == [label |-> label, value |-> value]
NoItem == [label |-> "none"]   \* the provider returned false
Amount(label, at) ==
  LET text == FormatAmountSxp(MaxValueLen, Field(at, AmountLen))
  IN  IF text = NoText THEN NoItem ELSE Item(label, text)

-----------------------------------------------------------------------------
(* The providers.                                                          *)

Show(kind, index, item) ==
  /\ shown' = [kind |-> kind, index |-> index, item |-> item]
  /\ UNCHANGED search
ShowPart(index, item) == Show("part", index, item)

GetIpfsRecord(index) ==
  /\ tx.asset = "ipfs"
  /\ ShowPart(index, IF index # 0 THEN NoItem
                 ELSE Item("Content ID", Base58(Field(tx.at, tx.count))))

GetBurnRecord(index) ==
  /\ tx.asset = "burn"
  /\ ShowPart(index, IF index # 0 THEN NoItem ELSE Amount("Amount", tx.at))

\* Even indices are recipients, odd ones amounts.
\* Slip: the recipient is taken to stand before the amount.
RecipientFirst(payment) == payment

RecipientAt(payment) == payment + AmountLen

GetPaymentRecord(index) ==
  LET payment == tx.at + PaymentLen * (index \div 2)
      recipient == AddressFromPubkeyHash(Field(RecipientAt(payment), PubkeyHashLen))
  IN  /\ tx.asset = "transfer"
      /\ \/ index \div 2 >= tx.count /\ ShowPart(index, NoItem)
         \/ /\ index \div 2 < tx.count /\ index % 2 = 0
            /\ \E hashed \in Outcomes :
                 ShowPart(index, IF ~hashed THEN NoItem
                             ELSE Item(Label("Address", index, tx.count), recipient))
         \/ /\ index \div 2 < tx.count /\ index % 2 = 1
            /\ ShowPart(index, Amount(Label("Amount", index, tx.count), payment))

\* get_vote_record starts the search, unless there is no such vote.
GetVoteRecord(index) ==
  /\ tx.asset = "vote"
  /\ \/ index \div 2 >= tx.count /\ ShowPart(index, NoItem)
     \/ /\ index \div 2 < tx.count
        /\ search' = [index |-> index, left |-> index \div 2, at |-> tx.at]
        /\ shown' = None

\* vote_search passes one vote.
\* Slip: the percentage is not passed.
PassName == search.at + 1 + Byte(search.at)

PassVote == search.at + 1 + Byte(search.at) + 2

SearchVote ==
  /\ search # None /\ search.left > 0
  /\ search' = [search EXCEPT !.left = @ - 1, !.at = PassVote]
  /\ UNCHANGED <<parser, shown>>

\* Even indices are names, odd ones percentages with two decimals.
FoundVote ==
  LET index == search.index
      length == Byte(search.at)
      percent == FormatPercent(MaxValueLen, Field(search.at + 1 + length, 2), 2)
      item == IF index % 2 = 0
              THEN Item(Label("Vote", index, tx.count), Field(search.at + 1, length))
              ELSE IF percent = NoText THEN NoItem
              ELSE Item(Label("Percent", index, tx.count), percent)
  IN  /\ search # None /\ search.left = 0
      /\ search' = None
      /\ shown' = [kind |-> "part", index |-> index, item |-> item]
      /\ UNCHANGED parser

\* ui_set_fee and ui_set_memo.
SetFee == tx.asset # "message" /\ Show("fee", 0, Amount("Fee", FeeAt))

SetMemo ==
  /\ tx.asset # "message"
  /\ Show("memo", 0, Item("Memo", Field(HeaderLen, tx.memoLen)))

\* ui_display_message: the string that starts after the length.
MessageTextOffset == 2

DisplayMessage ==
  LET length == CHOOSE n \in 0..TxLenMax :
                  /\ Byte(MessageTextOffset + n) = 0
                  /\ \A k \in 0..n - 1 : Byte(MessageTextOffset + k) # 0
  IN  /\ tx.asset = "message"
      /\ Show("message", 0, Item("Message", Field(MessageTextOffset, length)))

GetItem ==
  /\ Accepted /\ search = None
  /\ \/ \E index \in Indices :
          \/ GetIpfsRecord(index) \/ GetBurnRecord(index)
          \/ GetPaymentRecord(index) \/ GetVoteRecord(index)
     \/ SetFee \/ SetMemo
     \/ DisplayMessage
  /\ UNCHANGED parser

-----------------------------------------------------------------------------
Init == ParserInit /\ search = None /\ shown = None

Parse == ParserNext /\ UNCHANGED <<search, shown>>

Next == Parse \/ GetItem \/ SearchVote \/ FoundVote

Spec == Init /\ [][Next]_vars

-----------------------------------------------------------------------------
(* The strategy of the review (strategy.c; display_transaction_nano.c).    *)

\* record_type and record_count, as configure_review_strategy sets them.
RecordType ==
  CASE tx.asset \in {"ipfs", "burn"} -> "single"
    [] tx.asset = "transfer" -> "pair"
    [] tx.asset = "vote" -> IF tx.count = 0 THEN "none" ELSE "pair"
    [] OTHER -> "unknown"

RecordCount == IF tx.asset \in {"ipfs", "burn"} THEN 1 ELSE tx.count

\* How many indices the review asks for.
PartCount == IF RecordType = "pair" THEN 2 * RecordCount ELSE RecordCount

-----------------------------------------------------------------------------
(* Properties.                                                             *)

\* The type of every variable; what a provider makes is left open.
TypeOK ==
  /\ ParserTypeOK
  /\ search = None \/ search \in [index : Indices, left : Nat, at : Nat]

\* vote_search counts on the lengths it reads to be those that the deserialiser
\* checked: it is at the start of a vote the deserialiser read, the one as many
\* votes before the one asked for as are left to pass.
SearchRetracesParser ==
  search # None =>
    /\ Accepted /\ tx.asset = "vote" /\ search.index \div 2 < tx.count
    /\ search.left <= search.index \div 2
    /\ search.at = starts[search.index \div 2 - search.left + 1]

\* The review of an accepted transaction never meets the default case of its
\* strategy, whose answer the Nano's review would ignore; its record type fits
\* its number of records, and the parts and the fields around them can be counted
\* in the uint8_t of the UI library.
FitsTheReviews ==
  Accepted /\ tx.asset # "message" =>
    /\ RecordType # "unknown"
    /\ RecordType = "pair" => RecordCount > 0
    /\ 2 * RecordCount + 1 <= 255

\* Every part of every record that the review counts can be shown, and none
\* behind the last: only a hash that fails leaves a recipient without text.
EveryPartShown ==
  shown # None /\ shown.kind = "part" =>
    IF shown.index >= PartCount THEN shown.item = NoItem
    ELSE shown.item = NoItem => tx.asset = "transfer" /\ shown.index % 2 = 0
=============================================================================
