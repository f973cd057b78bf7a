---------------------------- MODULE SolarClient -----------------------------
(***************************************************************************)
(* The host's side: how the client of the functional tests serialises a    *)
(* transaction (tests/functional/transactions/*.py and                     *)
(* application_client/solar_transaction.py), which ones the documents      *)
(* (doc/transactions) allow, and what their reviews should then say.  It   *)
(* knows nothing of the device's code.                                     *)
(*                                                                         *)
(* A transaction is its asset, network, nonce, public key, fee, memo and   *)
(* records:                                                                *)
(*   vote       [name, percent]         burn   the amount                  *)
(*   transfer   [amount, recipient]     ipfs   the hash with its prefix    *)
(* and a message only has one record, its text.  Names, texts and hashes   *)
(* are byte sequences; fees, amounts and nonces the eight bytes of         *)
(* to_bytes(8, "little").                                                  *)
(***************************************************************************)
EXTENDS Integers, Sequences, Accumulate

TwoTo16 == 65536
Hundred == 10000   \* 100 %, with two decimals

Bytes == Seq(0..255)
BytesOf(n) == [1..n -> 0..255]
UpTo(n, S) == {list \in Seq(S) : Len(list) <= n}

\* Lists that Python can write the length of.
VoteLists == UpTo(255, [name : UpTo(255, 0..255), percent : 0..TwoTo16 - 1])
PaymentLists == UpTo(TwoTo16 - 1, [amount : BytesOf(8), recipient : BytesOf(21)])

TransactionsWith(asset, lists) ==
  [asset : {asset}, network : 0..255, nonce : BytesOf(8), senderPkey : BytesOf(33),
   fee : BytesOf(8), memo : UpTo(255, 0..255), records : lists]
Messages == [asset : {"message"}, records : [1..1 -> UpTo(TwoTo16 - 1, 0..255)]]
Transactions ==
  TransactionsWith("vote", VoteLists) \cup TransactionsWith("transfer", PaymentLists)
    \cup TransactionsWith("burn", [1..1 -> BytesOf(8)])
    \cup TransactionsWith("ipfs", [1..1 -> Bytes])
    \cup Messages

-----------------------------------------------------------------------------
(* Serialising.                                                            *)

U8(n) == <<n>>
U16LE(n) == <<n % 256, n \div 256>>

TypeOf(asset) ==
  CASE asset = "ipfs" -> <<1, 0, 0, 0, 5, 0>>
    [] asset = "transfer" -> <<1, 0, 0, 0, 6, 0>>
    [] asset = "burn" -> <<2, 0, 0, 0, 0, 0>>
    [] asset = "vote" -> <<2, 0, 0, 0, 2, 0>>

\* Transaction.serialise.
Common(t) ==
  <<255, 3, t.network>> \o TypeOf(t.asset) \o t.nonce \o t.senderPkey \o t.fee
    \o U8(Len(t.memo)) \o t.memo

VoteBytes(v) == U8(Len(v.name)) \o v.name \o U16LE(v.percent)
PaymentBytes(p) == p.amount \o p.recipient

VoteParts(records) == [k \in 1..Len(records) |-> VoteBytes(records[k])]
PaymentParts(records) == [k \in 1..Len(records) |-> PaymentBytes(records[k])]

\* serialise of Vote, Transfer, Burn and Ipfs; a message's chunk.
Serialised(t) ==
  CASE t.asset = "vote" ->
         Common(t) \o U8(Len(t.records)) \o Joined(VoteParts(t.records))
    [] t.asset = "transfer" ->
         Common(t) \o U16LE(Len(t.records)) \o Joined(PaymentParts(t.records))
    [] t.asset \in {"burn", "ipfs"} -> Common(t) \o t.records[1]
    [] t.asset = "message" -> U16LE(Len(t.records[1])) \o t.records[1]

-----------------------------------------------------------------------------
(* What the documents allow.                                               *)

Printable(text) == \A k \in 1..Len(text) : text[k] \in 32..126

PercentSum(records) == SumOf([k \in 1..Len(records) |-> records[k].percent])

\* A line ends with a line feed, which a carriage return may precede.
Lines(text) ==
  \A k \in 1..Len(text) :
    \/ text[k] \in (32..126) \cup {10}
    \/ text[k] = 13 /\ k < Len(text) /\ text[k + 1] = 10

LegalVote(v) ==
  Len(v.name) \in 1..20 /\ Printable(v.name) /\ v.percent \in 1..Hundred

LegalVotes(records) ==
  Len(records) <= 53 /\ \A k \in 1..Len(records) : LegalVote(records[k])

LegalAsset(t) ==
  CASE t.asset = "vote" ->
         /\ LegalVotes(t.records)
         /\ t.records # <<>> => PercentSum(t.records) = Hundred
    [] t.asset = "transfer" -> Len(t.records) \in 1..127
    [] t.asset = "burn" -> TRUE
    [] t.asset = "ipfs" ->
         Len(t.records[1]) \in 3..66 /\ t.records[1][2] = Len(t.records[1]) - 2
    [] t.asset = "message" -> t.records[1] # <<>> /\ Lines(t.records[1])

LegalCommon(t) == t.network \in {30, 63} /\ Printable(t.memo)

Legal(t) == (t.asset # "message" => LegalCommon(t)) /\ LegalAsset(t)

-----------------------------------------------------------------------------
(* What a review should say.                                               *)

\* An integer of 64 bits in words of 16, the least one first; the last word of a
\* number that is too large does not fit.
WordsOf(bytes) == [k \in 1..4 |-> bytes[2 * k - 1] + 256 * bytes[2 * k]]

TenTimes(words, digit) ==
  LET c1 == words[1] * 10 + digit
      c2 == words[2] * 10 + c1 \div TwoTo16
      c3 == words[3] * 10 + c2 \div TwoTo16
      c4 == words[4] * 10 + c3 \div TwoTo16
  IN  <<c1 % TwoTo16, c2 % TwoTo16, c3 % TwoTo16, c4>>

\* The number that decimal digits write, the first digit first.
NumberTo(digits, n) ==
  LET number[k \in 0..n] ==
        IF k = 0 THEN <<0, 0, 0, 0>> ELSE TenTimes(number[k - 1], digits[k])
  IN  number[n]

\* "12.34 SXP" denotes 12.34 * 10^8: digits, a point, from two to eight decimals,
\* no zero behind the second and none before a first digit.
DenotesSxp(text, amount) ==
  \E point \in 2..Len(text) - 6 :
    LET decimals == Len(text) - point - 4
        digits == [k \in 1..point + 7 |->
                     IF k < point THEN text[k] - 48
                     ELSE IF k < point + decimals THEN text[k + 1] - 48
                     ELSE 0]
    IN  /\ text[point] = 46 /\ decimals <= 8
        /\ \A k \in 1..point + decimals : k = point \/ text[k] \in 48..57
        /\ \A k \in 1..4 : text[point + decimals + k] = <<32, 83, 88, 80>>[k]
        /\ point > 2 => text[1] # 48
        /\ decimals > 2 => text[point + decimals] # 48
        /\ NumberTo(digits, point + 7) = WordsOf(amount)

\* "12.34%" denotes 1234.
DenotesPercent(text, percent) ==
  LET n == Len(text) - 2
      digits == [k \in 1..n |-> (IF k < n - 1 THEN text[k] ELSE text[k + 1]) - 48]
  IN  /\ n >= 3 /\ text[n + 2] = 37 /\ text[n - 1] = 46
      /\ \A k \in 1..n : digits[k] \in 0..9
      /\ n > 3 => digits[1] # 0
      /\ NumberTo(digits, n) = <<percent, 0, 0, 0>>

\* A Base58Check text of the recipient's hash; a Base58 text of the content.
AddressOf(hash) == [base58 |-> <<hash, [hashedTwice |-> hash]>>]
ContentId(hash) == [base58 |-> hash]

\* The item is the one the review of t should show as its part of that index.
SaysPart(item, t, index) ==
  LET n == Len(t.records)
      r == t.records[index \div 2 + 1]
      label == <<index \div 2 + 1, n>>
  IN  CASE t.asset = "ipfs" -> item.value = ContentId(t.records[1])
        [] t.asset = "burn" -> DenotesSxp(item.value, t.records[1])
        [] t.asset = "transfer" /\ index % 2 = 0 ->
             item = [label |-> <<"Address">> \o label, value |-> AddressOf(r.recipient)]
        [] t.asset = "transfer" /\ index % 2 = 1 ->
             /\ item.label = <<"Amount">> \o label
             /\ DenotesSxp(item.value, r.amount)
        [] t.asset = "vote" /\ index % 2 = 0 ->
             item = [label |-> <<"Vote">> \o label, value |-> r.name]
        [] t.asset = "vote" /\ index % 2 = 1 ->
             /\ item.label = <<"Percent">> \o label
             /\ DenotesPercent(item.value, r.percent)
=============================================================================
