---------------------------- MODULE Deserialiser ----------------------------
(***************************************************************************)
(* The deserialisers of transactions and messages (src/src/transaction).   *)
(* They read the payload that the chunks of a signing command put in       *)
(* G_context.tx_info.raw_tx, from the first byte to the last, and keep     *)
(* pointers into it.  One action per deserialiser, and one per turn of the *)
(* loop over the votes.                                                    *)
(*                                                                         *)
(* Abstractions.  The parser_status_e errors are one stage, "refused":     *)
(* handle_last_chunk (sign_tx.c:78) treats them alike, and what a refused  *)
(* payload left in the structure is overwritten before it is read.  A      *)
(* pointer is its offset in raw_tx.  An integer of the payload that is not *)
(* computed with (fee, amount, nonce) stays where it is, as bytes.         *)
(***************************************************************************)
EXTENDS Integers, Sequences

CONSTANT Payloads   (* what may be in raw_tx, of a transaction or a message *)

TxLenMax == 4096    \* TRANSACTION_LEN_MAX
UInt16Max == 65535

ASSUME PayloadAssumption ==
  \A p \in Payloads :
    /\ p.kind \in {"transaction", "message"}
    /\ p.bytes \in Seq(0..255) /\ Len(p.bytes) <= TxLenMax

VARIABLES
  payload,  (* the raw_tx_len bytes of raw_tx                               *)
  stage,    (* the deserialiser that reads next, or the result              *)
  offset,   (* buf.offset                                                   *)
  tx,       (* G_context.tx_info.transaction: its asset, length of the memo,*)
            (* where the asset's records are, how many (or the hash's size) *)
  total,    (* total_percentage                                             *)
  starts,   (* where each vote read so far starts; the loop's i is its length*)
  sum       (* history: the sum of the percentages                          *)

votes == <<total, starts, sum>>
parser == <<payload, stage, offset, tx, votes>>

Stages == {"common", "ipfs", "transfer", "burn", "voteCount", "votes", "message",
           "accepted", "refused"}

-----------------------------------------------------------------------------
(* Reading.                                                                *)

Size == Len(payload.bytes)

\* The memory from raw_tx on: the payload, the rest of the zeroed buffer, and
\* after it raw_tx_len, least significant byte first.
Byte(o) ==
  IF o < Size THEN payload.bytes[o + 1]
  ELSE IF o < TxLenMax THEN 0
  ELSE CASE o = TxLenMax -> Size % 256
         [] o = TxLenMax + 1 -> Size \div 256
         [] OTHER -> 0

U16(o) == Byte(o) + 256 * Byte(o + 1)
Field(o, n) == [k \in 1..n |-> Byte(o + k - 1)]

\* The buffer has n more bytes.
Has(n) == offset + n <= Size

LF == 10
CR == 13

\* check_ascii.
\* Slip: control characters pass.
AsciiOrControl(o, n, newLines) == \A k \in o..o + n - 1 : Byte(k) <= 126

Ascii(o, n, newLines) ==
  \A k \in o..o + n - 1 :
    \/ Byte(k) \in 32..126
    \/ newLines /\ Byte(k) = LF
    \/ newLines /\ Byte(k) = CR /\ k + 1 < o + n /\ Byte(k + 1) = LF

\* A deserialiser goes on to the next stage, or refuses the payload.
Read(from, valid, to, end, parsed) ==
  /\ stage = from
  /\ IF valid THEN stage' = to /\ offset' = end /\ tx' = parsed
     ELSE stage' = "refused" /\ UNCHANGED <<offset, tx>>
  /\ UNCHANGED payload

-----------------------------------------------------------------------------
(* The common part: starting byte, version, network, typeGroup (3), type   *)
(* (7), nonce (9), public key (17), fee (50), memo length (58), memo.      *)

HeaderLen == 59

\* Slip: the public key is taken to have 32 bytes.
FeeBehindShortKey == 49

FeeAt == 50
MemoLen == Byte(58)

\* deserialise_transaction_asset.
Asset ==
  CASE Field(3, 4) = <<1, 0, 0, 0>> /\ U16(7) = 5 -> "ipfs"
    [] Field(3, 4) = <<1, 0, 0, 0>> /\ U16(7) = 6 -> "transfer"
    [] Field(3, 4) = <<2, 0, 0, 0>> /\ U16(7) = 0 -> "burn"
    [] Field(3, 4) = <<2, 0, 0, 0>> /\ U16(7) = 2 -> "vote"
    [] OTHER -> "unknown"

\* Slip: the version is not looked at.
ValidHeaderOfAnyVersion ==
  /\ Has(HeaderLen)
  /\ Byte(0) = 255 /\ Byte(2) \in {63, 30}
  /\ Has(HeaderLen + MemoLen) /\ Ascii(HeaderLen, MemoLen, FALSE)
  /\ Asset # "unknown"

ValidHeader ==
  /\ Has(HeaderLen)
  /\ Byte(0) = 255 /\ Byte(1) = 3 /\ Byte(2) \in {63, 30}
  /\ Has(HeaderLen + MemoLen) /\ Ascii(HeaderLen, MemoLen, FALSE)
  /\ Asset # "unknown"

ReadCommon ==
  /\ Read("common", ValidHeader,
          IF Asset = "vote" THEN "voteCount" ELSE Asset,
          HeaderLen + MemoLen,
          [tx EXCEPT !.asset = Asset, !.memoLen = MemoLen])
  /\ UNCHANGED votes

-----------------------------------------------------------------------------
(* The assets of one part.                                                 *)

\* The hash is kept with its two bytes of prefix, function and length.
\* Slip: the prefix is counted once.
HashWithoutFunction == Byte(offset + 1) + 1

HashLen == Byte(offset + 1) + 2

ReadIpfs ==
  LET end == offset + 2 + Byte(offset + 1)
  IN  /\ Read("ipfs",
              Has(2) /\ Byte(offset + 1) \in 1..64 /\ end <= Size /\ end = Size,
              "accepted", end, [tx EXCEPT !.at = offset, !.count = HashLen])
      /\ UNCHANGED votes

\* A payment is an amount and the recipient's hash.
AmountLen == 8
PubkeyHashLen == 21
PaymentLen == PubkeyHashLen + AmountLen
PaymentCountMax == 127

\* Slip: one payment more.
PaymentCountOfBuffer(count) == count \in 1..128

PaymentCount(count) == count \in 1..PaymentCountMax

ReadTransfer ==
  LET count == U16(offset)
      end == offset + 2 + PaymentLen * count
  IN  /\ Read("transfer",
              Has(2) /\ PaymentCount(count) /\ end <= Size /\ end = Size,
              "accepted", end, [tx EXCEPT !.at = offset + 2, !.count = count])
      /\ UNCHANGED votes

ReadBurn ==
  LET end == offset + AmountLen
  IN  /\ Read("burn", end <= Size /\ end = Size, "accepted", end,
              [tx EXCEPT !.at = offset, !.count = 1])
      /\ UNCHANGED votes

-----------------------------------------------------------------------------
(* Votes.                                                                  *)

VoteCountMax == 53
PercentageMax == 10000

\* No votes cancel the vote cast before: accepted, whatever follows.
ReadVoteCount ==
  LET count == Byte(offset)
  IN  /\ Read("voteCount", Has(1) /\ count <= VoteCountMax,
              IF count = 0 THEN "accepted" ELSE "votes", offset + 1,
              [tx EXCEPT !.at = offset + 1, !.count = count])
      /\ UNCHANGED votes

NameLen == Byte(offset)
Percent == U16(offset + 1 + NameLen)

\* Slips: the percentage is read without a look at the size; so is the name.
ValidVoteUnsized ==
  /\ Has(1) /\ NameLen \in 1..20
  /\ Has(1 + NameLen) /\ Ascii(offset + 1, NameLen, FALSE)
  /\ Percent \in 1..PercentageMax
ValidVoteOfAnyName ==
  /\ Has(1) /\ Has(1 + NameLen) /\ Ascii(offset + 1, NameLen, FALSE)
  /\ Has(3 + NameLen) /\ Percent \in 1..PercentageMax

ValidVote ==
  /\ Has(1) /\ NameLen \in 1..20
  /\ Has(1 + NameLen) /\ Ascii(offset + 1, NameLen, FALSE)
  /\ Has(3 + NameLen) /\ Percent \in 1..PercentageMax

\* total_percentage has 16 bits.
\* Slip: more than that.
PlusUnbounded(percent) == total + percent

Plus(percent) == (total + percent) % (UInt16Max + 1)

\* One turn of the loop.
ReadVote ==
  /\ Len(starts) < tx.count
  /\ Read("votes", ValidVote, "votes", offset + 3 + NameLen, tx)
  /\ IF ValidVote
     THEN /\ total' = Plus(Percent)
          /\ starts' = Append(starts, offset)
          /\ sum' = sum + Percent
     ELSE UNCHANGED votes

EndVotes ==
  /\ Len(starts) = tx.count
  /\ Read("votes", total = PercentageMax /\ offset = Size, "accepted", offset, tx)
  /\ UNCHANGED votes

-----------------------------------------------------------------------------
(* Messages: a length of two bytes and the text.                           *)

MessageMaxLen == TxLenMax - 1

ReadMessage ==
  LET length == U16(offset)
      end == offset + 2 + length
  IN  /\ Read("message",
              /\ Has(2) /\ length \in 1..MessageMaxLen
              /\ end <= Size /\ Ascii(offset + 2, length, TRUE) /\ end = Size,
              "accepted", end,
              [tx EXCEPT !.asset = "message", !.at = offset + 2, !.count = length])
      /\ UNCHANGED votes

-----------------------------------------------------------------------------
\* handle_last_chunk.  The context is zero.
ParserInit ==
  /\ payload \in Payloads
  /\ stage = IF payload.kind = "message" THEN "message" ELSE "common"
  /\ offset = 0
  /\ tx = [asset |-> "none", memoLen |-> 0, at |-> 0, count |-> 0]
  /\ total = 0 /\ starts = <<>> /\ sum = 0

ParserNext ==
  \/ ReadCommon \/ ReadIpfs \/ ReadTransfer \/ ReadBurn
  \/ ReadVoteCount \/ ReadVote \/ EndVotes
  \/ ReadMessage

-----------------------------------------------------------------------------
(* Properties.                                                             *)

Assets == {"none", "ipfs", "transfer", "burn", "vote", "message"}
TxTypes == [asset : Assets, memoLen : 0..255, at : Nat, count : 0..UInt16Max]

\* The type of every variable.
ParserTypeOK ==
  /\ payload \in Payloads /\ stage \in Stages
  /\ offset \in Nat
  /\ tx \in TxTypes
  /\ total \in 0..UInt16Max /\ starts \in Seq(Nat) /\ sum \in Nat

Accepted == stage = "accepted"
MemoEnd == HeaderLen + tx.memoLen
VoteEnd(o) == o + 3 + Byte(o)

\* The cursor stays in the payload after every step of every deserialiser, also
\* on payloads that end in the middle of a field.
CursorInside == offset <= Size

\* The asset of an accepted transaction begins where its memo ends, and its
\* records, or the text of a message, fill the payload to its last byte: nothing
\* that is signed lies beyond what the review can show, save the bytes after a
\* cancelled vote.
RecordsFillPayload ==
  Accepted =>
    /\ tx.asset # "none"
    /\ tx.asset = "ipfs" => tx.at = MemoEnd /\ tx.at + tx.count = Size
    /\ tx.asset = "transfer" => tx.at = MemoEnd + 2 /\ tx.at + PaymentLen * tx.count = Size
    /\ tx.asset = "burn" => tx.at = MemoEnd /\ tx.at + AmountLen = Size
    /\ tx.asset = "vote" =>
         /\ tx.at = MemoEnd + 1 /\ tx.at <= Size /\ Len(starts) = tx.count
         /\ tx.count # 0 => VoteEnd(starts[tx.count]) = Size
    /\ tx.asset = "message" => tx.at = 2 /\ tx.at + tx.count = Size

(* What the repository says and the code does otherwise.                    *)

\* test_transaction_errors.py: a vote whose percentages do not add up to 100 %
\* is refused.
VotesSumTo100 ==
  Accepted /\ tx.asset = "vote" /\ tx.count # 0 => sum = PercentageMax

\* doc/transactions/TG02_T02_VOTE.md: a cancelled vote ends with its count of
\* votes, as every other asset ends with its last record.
AcceptedIsConsumed == Accepted => offset = Size
=============================================================================
