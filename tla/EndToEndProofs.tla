--------------------------- MODULE EndToEndProofs ---------------------------
(***************************************************************************)
(* Proofs about what the device makes of a payload, for every payload.     *)
(*                                                                         *)
(* ReadInv says of every stage which bytes the deserialisers before it     *)
(* have seen to, and of an accepted payload all of them.  From it follow   *)
(*   AcceptedAreSerialised   byte by byte, by fields that grow, that the   *)
(*                           payload is what a client makes of what was    *)
(*                           read;                                         *)
(*   ReceivesAsSent          by the same fields of the client's bytes, that*)
(*                           what was read is what was sent.               *)
(* WantedInv adds that nothing legal was refused (AcceptsAllThatIsLegal),  *)
(* TextInv and SaysInv what is shown of a message and of a transaction     *)
(* (DisplayedTextIsRight, ShowsAsSent).                                    *)
(***************************************************************************)
EXTENDS EndToEnd, RecordsProofs

-----------------------------------------------------------------------------
(* The invariant.                                                          *)

\* A message is read as a message and nothing else is.
KindIsRight ==
  /\ stage = "message" => payload.kind = "message"
  /\ stage \in {"common", "ipfs", "transfer", "burn", "voteCount", "votes"} =>
       payload.kind # "message"
  /\ Accepted => (tx.asset = "message" <=> payload.kind = "message")

\* The common part was read: it is valid and tx has its asset and the memo's length.
CommonIsRead ==
  /\ Byte(0) = 255 /\ Byte(1) = 3 /\ Byte(2) \in {63, 30}
  /\ tx.asset = Asset /\ Asset # "unknown" /\ tx.memoLen = MemoLen
  /\ Ascii(HeaderLen, MemoLen, FALSE) /\ MemoEnd <= Size

CommonRead ==
  /\ stage \in {"ipfs", "transfer", "burn", "voteCount", "votes"} => CommonIsRead
  /\ Accepted /\ tx.asset # "message" => CommonIsRead

\* The asset was read: its number of records is the one in the payload.
AssetRead ==
  /\ stage = "votes" \/ (Accepted /\ tx.asset = "vote") => tx.count = Byte(MemoEnd)
  /\ Accepted =>
       /\ tx.asset = "ipfs" =>
            Byte(MemoEnd + 1) \in 1..64 /\ tx.count = Byte(MemoEnd + 1) + 2
       /\ tx.asset = "transfer" => tx.count = U16(MemoEnd)
       /\ tx.asset = "vote" => tx.count = 0 \/ total = PercentageMax
       /\ tx.asset = "message" =>
            /\ tx.count = U16(0) /\ tx.count \in 1..MessageMaxLen
            /\ Ascii(2, tx.count, TRUE)

\* The votes read so far are valid and their percentages are summed up.
VotePercent(o) == U16(o + 1 + Byte(o))
VoteIsRead(o) ==
  Byte(o) \in 1..20 /\ Ascii(o + 1, Byte(o), FALSE) /\ VotePercent(o) \in 1..PercentageMax
Percents == [k \in 1..Len(starts) |-> VotePercent(starts[k])]

VotesRead ==
  /\ \A k \in 1..Len(starts) : VoteIsRead(starts[k])
  /\ sum = SumTo(Percents, Len(starts))
  /\ total = sum % TwoTo16

ReadInv == Inv /\ KindIsRight /\ CommonRead /\ AssetRead /\ VotesRead

\* No transaction that the documents allow, or whose sum wraps, is refused.
NoneRefused ==
  Undamaged /\ (Legal(payload.sent) \/ SumWraps(payload.sent)) => stage # "refused"

\* The item is what the transaction that was received says.
SaysOf(t, kind, index, item) ==
  CASE kind = "fee" -> DenotesSxp(item.value, t.fee)
    [] kind = "memo" -> item.value = t.memo
    [] OTHER -> SaysPart(item, t, index)

SaysReceived ==
  shown # None /\ shown.item # NoItem /\ tx.asset # "message" =>
    Accepted /\ SaysOf(Received, shown.kind, shown.index, shown.item)

\* The text of a message on the display.
TextReceived ==
  shown # None /\ tx.asset = "message" =>
    Accepted /\ shown.item = Item("Message", Field(2, tx.count))

-----------------------------------------------------------------------------
(* What was read stays so.                                                 *)

LEMMA ReadsStay ==
  ASSUME payload' = payload
  PROVE  /\ Size' = Size /\ MemoLen' = MemoLen /\ Asset' = Asset
         /\ \A o : Byte(o)' = Byte(o) /\ U16(o)' = U16(o)
         /\ \A o, n, f : Ascii(o, n, f)' <=> Ascii(o, n, f)
         /\ \A o : VotePercent(o)' = VotePercent(o) /\ (VoteIsRead(o)' <=> VoteIsRead(o))
<1>1. Size' = Size /\ \A o : Byte(o)' = Byte(o)
  BY BytesStay
<1>2. \A o : U16(o)' = U16(o)
  BY <1>1 DEF U16
<1>3. \A o, n : Field(o, n)' = Field(o, n)
  BY <1>1 DEF Field
<1>4. \A o, n, f : Ascii(o, n, f)' <=> Ascii(o, n, f)
  BY <1>1 DEF Ascii
<1>5. MemoLen' = MemoLen
  BY <1>1 DEF MemoLen
<1>6. Asset' = Asset
  <2>1. Field(3, 4)' = Field(3, 4) /\ U16(7)' = U16(7)
    BY <1>2, <1>3
  <2> QED BY <2>1, Zenon DEF Asset
<1>7. \A o : VotePercent(o)' = VotePercent(o)
  BY <1>1, <1>2 DEF VotePercent
<1>8. \A o : VoteIsRead(o)' <=> VoteIsRead(o)
  BY <1>1, <1>4, <1>7 DEF VoteIsRead
<1> QED BY <1>1, <1>2, <1>4, <1>5, <1>6, <1>7, <1>8

LEMMA VotesStay ==
  ASSUME VotesRead, UNCHANGED <<payload, votes>>
  PROVE  VotesRead'
<1>1. starts' = starts /\ sum' = sum /\ total' = total /\ payload' = payload
  BY DEF votes
<1>2. \A o : VotePercent(o)' = VotePercent(o) /\ (VoteIsRead(o)' <=> VoteIsRead(o))
  BY <1>1, ReadsStay
<1>3. Percents' = Percents
  BY <1>1, <1>2 DEF Percents
<1> QED BY <1>1, <1>2, <1>3 DEF VotesRead

LEMMA CommonStays ==
  ASSUME CommonIsRead, payload' = payload, tx'.asset = tx.asset, tx'.memoLen = tx.memoLen
  PROVE  CommonIsRead' /\ MemoEnd' = MemoEnd
<1>1. /\ Size' = Size /\ MemoLen' = MemoLen /\ Asset' = Asset
      /\ \A o : Byte(o)' = Byte(o)
      /\ \A o, n, f : Ascii(o, n, f)' <=> Ascii(o, n, f)
  BY ReadsStay
<1>2. MemoEnd' = MemoEnd
  BY DEF MemoEnd
<1> QED BY <1>1, <1>2 DEF CommonIsRead

LEMMA RefusalReads ==
  ASSUME VotesRead, stage' = "refused", UNCHANGED <<payload, votes>>
  PROVE  KindIsRight' /\ CommonRead' /\ AssetRead' /\ VotesRead'
<1>1. VotesRead'
  BY VotesStay
<1> QED BY <1>1 DEF KindIsRight, CommonRead, AssetRead, Accepted

LEMMA ReadCommonReads ==
  ASSUME ReadInv, ReadCommon
  PROVE  KindIsRight' /\ CommonRead' /\ AssetRead' /\ VotesRead'
<1>1. /\ stage = "common" /\ offset = 0 /\ payload \in Payloads /\ tx \in TxTypes
      /\ payload.kind # "message" /\ VotesRead
  BY DEF ReadCommon, Read, ReadInv, Inv, ParserInv, StageBegins, ParserTypeOK, KindIsRight
<1>2. UNCHANGED <<payload, votes>>
  BY DEF ReadCommon, Read
<1>3. CASE ~ValidHeader
  <2>1. stage' = "refused"
    BY <1>3 DEF ReadCommon, Read
  <2> QED BY <2>1, <1>1, <1>2, RefusalReads
<1>4. CASE ValidHeader
  <2>1. /\ stage' = IF Asset = "vote" THEN "voteCount" ELSE Asset
        /\ tx' = [tx EXCEPT !.asset = Asset, !.memoLen = MemoLen]
    BY <1>4 DEF ReadCommon, Read
  <2>2. Asset \in {"ipfs", "transfer", "burn", "vote"}
    BY <1>4, AssetType DEF ValidHeader
  <2>3. stage' \in {"ipfs", "transfer", "burn", "voteCount"}
    BY <2>1, <2>2
  <2>4. tx'.asset = Asset /\ tx'.memoLen = MemoLen
    BY <2>1, <1>1 DEF TxTypes
  <2>5. /\ Size' = Size /\ MemoLen' = MemoLen /\ Asset' = Asset
        /\ \A o : Byte(o)' = Byte(o)
        /\ \A o, n, f : Ascii(o, n, f)' <=> Ascii(o, n, f)
    BY <1>2, ReadsStay
  <2>6. MemoEnd' <= Size
    <3>1. MemoEnd' = HeaderLen + MemoLen
      BY <2>4 DEF MemoEnd
    <3>2. offset + (HeaderLen + MemoLen) <= Size
      BY <1>4 DEF ValidHeader, Has
    <3>3. MemoLen \in Nat
      BY <1>1, ByteType DEF MemoLen
    <3> QED BY <1>1, <3>1, <3>2, <3>3 DEF HeaderLen
  <2>7. CommonIsRead'
    BY <2>4, <2>5, <2>6, <1>4 DEF CommonIsRead, ValidHeader
  <2>8. KindIsRight' /\ CommonRead' /\ AssetRead'
    BY <2>3, <2>7, <1>1, <1>2 DEF KindIsRight, CommonRead, AssetRead, Accepted
  <2> QED BY <2>8, <1>1, <1>2, VotesStay
<1> QED BY <1>3, <1>4

LEMMA ReadIpfsReads ==
  ASSUME ReadInv, ReadIpfs
  PROVE  KindIsRight' /\ CommonRead' /\ AssetRead' /\ VotesRead'
<1> DEFINE end == offset + 2 + Byte(offset + 1)
           valid == Has(2) /\ Byte(offset + 1) \in 1..64 /\ end <= Size /\ end = Size
<1>1. /\ stage = "ipfs" /\ tx.asset = "ipfs" /\ offset = MemoEnd /\ tx \in TxTypes
      /\ payload.kind # "message" /\ VotesRead /\ CommonIsRead
  BY DEF ReadIpfs, Read, ReadInv, Inv, ParserInv, StageBegins, ParserTypeOK, KindIsRight, CommonRead
<1>2. UNCHANGED <<payload, votes>>
  BY DEF ReadIpfs, Read
<1>3. CASE ~valid
  <2>1. stage' = "refused"
    BY <1>3 DEF ReadIpfs, Read
  <2> QED BY <2>1, <1>1, <1>2, RefusalReads
<1>4. CASE valid
  <2>1. /\ stage' = "accepted" /\ tx' = [tx EXCEPT !.at = offset, !.count = HashLen]
    BY <1>4 DEF ReadIpfs, Read
  <2>2. tx'.asset = "ipfs" /\ tx'.memoLen = tx.memoLen /\ tx'.count = HashLen
    BY <2>1, <1>1 DEF TxTypes
  <2>3. CommonIsRead' /\ MemoEnd' = MemoEnd
    BY <2>2, <1>1, <1>2, CommonStays
  <2>4. \A o : Byte(o)' = Byte(o)
    BY <1>2, ReadsStay
  <2>5. Byte(MemoEnd + 1) \in 1..64 /\ tx'.count = Byte(MemoEnd + 1) + 2
    BY <2>2, <1>1, <1>4 DEF HashLen
  <2>6. KindIsRight' /\ CommonRead' /\ AssetRead'
    BY <2>1, <2>2, <2>3, <2>4, <2>5, <1>1, <1>2 DEF KindIsRight, CommonRead, AssetRead, Accepted
  <2> QED BY <2>6, <1>1, <1>2, VotesStay
<1> QED BY <1>3, <1>4

LEMMA ReadTransferReads ==
  ASSUME ReadInv, ReadTransfer
  PROVE  KindIsRight' /\ CommonRead' /\ AssetRead' /\ VotesRead'
<1> DEFINE count == U16(offset)
           end == offset + 2 + PaymentLen * count
           valid == Has(2) /\ PaymentCount(count) /\ end <= Size /\ end = Size
<1>1. /\ stage = "transfer" /\ tx.asset = "transfer" /\ offset = MemoEnd /\ tx \in TxTypes
      /\ payload.kind # "message" /\ VotesRead /\ CommonIsRead
  BY DEF ReadTransfer, Read, ReadInv, Inv, ParserInv, StageBegins, ParserTypeOK, KindIsRight, CommonRead
<1>2. UNCHANGED <<payload, votes>>
  BY DEF ReadTransfer, Read
<1>3. CASE ~valid
  <2>1. stage' = "refused"
    BY <1>3 DEF ReadTransfer, Read
  <2> QED BY <2>1, <1>1, <1>2, RefusalReads
<1>4. CASE valid
  <2>1. /\ stage' = "accepted" /\ tx' = [tx EXCEPT !.at = offset + 2, !.count = count]
    BY <1>4 DEF ReadTransfer, Read
  <2>2. tx'.asset = "transfer" /\ tx'.memoLen = tx.memoLen /\ tx'.count = U16(MemoEnd)
    BY <2>1, <1>1 DEF TxTypes
  <2>3. CommonIsRead' /\ MemoEnd' = MemoEnd
    BY <2>2, <1>1, <1>2, CommonStays
  <2>4. \A o : U16(o)' = U16(o)
    BY <1>2, ReadsStay
  <2>5. KindIsRight' /\ CommonRead' /\ AssetRead'
    BY <2>1, <2>2, <2>3, <2>4, <1>1, <1>2 DEF KindIsRight, CommonRead, AssetRead, Accepted
  <2> QED BY <2>5, <1>1, <1>2, VotesStay
<1> QED BY <1>3, <1>4

LEMMA ReadBurnReads ==
  ASSUME ReadInv, ReadBurn
  PROVE  KindIsRight' /\ CommonRead' /\ AssetRead' /\ VotesRead'
<1> DEFINE end == offset + AmountLen
           valid == end <= Size /\ end = Size
<1>1. /\ stage = "burn" /\ tx.asset = "burn" /\ tx \in TxTypes
      /\ payload.kind # "message" /\ VotesRead /\ CommonIsRead
  BY DEF ReadBurn, Read, ReadInv, Inv, ParserInv, StageBegins, ParserTypeOK, KindIsRight, CommonRead
<1>2. UNCHANGED <<payload, votes>>
  BY DEF ReadBurn, Read
<1>3. CASE ~valid
  <2>1. stage' = "refused"
    BY <1>3 DEF ReadBurn, Read
  <2> QED BY <2>1, <1>1, <1>2, RefusalReads
<1>4. CASE valid
  <2>1. /\ stage' = "accepted" /\ tx' = [tx EXCEPT !.at = offset, !.count = 1]
    BY <1>4 DEF ReadBurn, Read
  <2>2. tx'.asset = "burn" /\ tx'.memoLen = tx.memoLen
    BY <2>1, <1>1 DEF TxTypes
  <2>3. CommonIsRead'
    BY <2>2, <1>1, <1>2, CommonStays
  <2>4. KindIsRight' /\ CommonRead' /\ AssetRead'
    BY <2>1, <2>2, <2>3, <1>1, <1>2 DEF KindIsRight, CommonRead, AssetRead, Accepted
  <2> QED BY <2>4, <1>1, <1>2, VotesStay
<1> QED BY <1>3, <1>4

LEMMA ReadMessageReads ==
  ASSUME ReadInv, ReadMessage
  PROVE  KindIsRight' /\ CommonRead' /\ AssetRead' /\ VotesRead'
<1> DEFINE length == U16(offset)
           end == offset + 2 + length
           valid == /\ Has(2) /\ length \in 1..MessageMaxLen
                    /\ end <= Size /\ Ascii(offset + 2, length, TRUE) /\ end = Size
<1>1. /\ stage = "message" /\ offset = 0 /\ tx \in TxTypes
      /\ payload.kind = "message" /\ VotesRead
  BY DEF ReadMessage, Read, ReadInv, Inv, ParserInv, StageBegins, ParserTypeOK, KindIsRight
<1>2. UNCHANGED <<payload, votes>>
  BY DEF ReadMessage, Read
<1>3. CASE ~valid
  <2>1. stage' = "refused"
    BY <1>3 DEF ReadMessage, Read
  <2> QED BY <2>1, <1>1, <1>2, RefusalReads
<1>4. CASE valid
  <2>1. /\ stage' = "accepted"
        /\ tx' = [tx EXCEPT !.asset = "message", !.at = offset + 2, !.count = length]
    BY <1>4 DEF ReadMessage, Read
  <2>2. tx'.asset = "message" /\ tx'.count = U16(0)
    BY <2>1, <1>1 DEF TxTypes
  <2>3. U16(0) \in 1..MessageMaxLen /\ Ascii(2, U16(0), TRUE)
    <3>1. offset = 0 /\ 0 + 2 = 2
      BY <1>1
    <3>2. U16(offset) \in 1..MessageMaxLen /\ Ascii(offset + 2, U16(offset), TRUE)
      BY <1>4
    <3> QED BY <3>1, <3>2, Zenon
  <2>4. /\ \A o : U16(o)' = U16(o)
        /\ \A o, n, f : Ascii(o, n, f)' <=> Ascii(o, n, f)
    BY <1>2, ReadsStay
  <2>5. KindIsRight' /\ CommonRead' /\ AssetRead'
    BY <2>1, <2>2, <2>3, <2>4, <1>1, <1>2 DEF KindIsRight, CommonRead, AssetRead, Accepted
  <2> QED BY <2>5, <1>1, <1>2, VotesStay
<1> QED BY <1>3, <1>4

LEMMA ReadVoteCountReads ==
  ASSUME ReadInv, ReadVoteCount
  PROVE  KindIsRight' /\ CommonRead' /\ AssetRead' /\ VotesRead'
<1> DEFINE count == Byte(offset)
           valid == Has(1) /\ count <= VoteCountMax
<1>1. /\ stage = "voteCount" /\ tx.asset = "vote" /\ offset = MemoEnd /\ tx \in TxTypes
      /\ payload.kind # "message" /\ VotesRead /\ CommonIsRead
  BY DEF ReadVoteCount, Read, ReadInv, Inv, ParserInv, StageBegins, ParserTypeOK, KindIsRight, CommonRead
<1>2. UNCHANGED <<payload, votes>>
  BY DEF ReadVoteCount, Read
<1>3. CASE ~valid
  <2>1. stage' = "refused"
    BY <1>3 DEF ReadVoteCount, Read
  <2> QED BY <2>1, <1>1, <1>2, RefusalReads
<1>4. CASE valid
  <2>1. /\ stage' = (IF count = 0 THEN "accepted" ELSE "votes")
        /\ tx' = [tx EXCEPT !.at = offset + 1, !.count = count]
    BY <1>4 DEF ReadVoteCount, Read
  <2>2. tx'.asset = "vote" /\ tx'.memoLen = tx.memoLen /\ tx'.count = Byte(MemoEnd)
    BY <2>1, <1>1 DEF TxTypes
  <2>3. CommonIsRead' /\ MemoEnd' = MemoEnd
    BY <2>2, <1>1, <1>2, CommonStays
  <2>4. \A o : Byte(o)' = Byte(o)
    BY <1>2, ReadsStay
  <2>5. stage' = "accepted" => tx'.count = 0
    BY <2>1, <2>2, <1>1
  <2>6. stage' \in {"accepted", "votes"}
    BY <2>1
  <2>7. KindIsRight' /\ CommonRead' /\ AssetRead'
    BY <2>2, <2>3, <2>4, <2>5, <2>6, <1>1, <1>2 DEF KindIsRight, CommonRead, AssetRead, Accepted
  <2> QED BY <2>7, <1>1, <1>2, VotesStay
<1> QED BY <1>3, <1>4

LEMMA EndVotesReads ==
  ASSUME ReadInv, EndVotes
  PROVE  KindIsRight' /\ CommonRead' /\ AssetRead' /\ VotesRead'
<1> DEFINE valid == total = PercentageMax /\ offset = Size
<1>1. /\ stage = "votes" /\ tx.asset = "vote" /\ tx.count = Byte(MemoEnd)
      /\ payload.kind # "message" /\ VotesRead /\ CommonIsRead
  BY DEF EndVotes, Read, ReadInv, Inv, ParserInv, StageBegins, KindIsRight, CommonRead, AssetRead
<1>2. UNCHANGED <<payload, votes, tx>>
  BY DEF EndVotes, Read
<1>3. CASE ~valid
  <2>1. stage' = "refused"
    BY <1>3 DEF EndVotes, Read
  <2> QED BY <2>1, <1>1, <1>2, RefusalReads
<1>4. CASE valid
  <2>1. stage' = "accepted" /\ total = PercentageMax
    BY <1>4 DEF EndVotes, Read
  <2>2. CommonIsRead' /\ MemoEnd' = MemoEnd
    BY <1>1, <1>2, CommonStays
  <2>3. \A o : Byte(o)' = Byte(o)
    BY <1>2, ReadsStay
  <2>4. total' = total /\ tx' = tx
    BY <1>2 DEF votes
  <2>5. KindIsRight' /\ CommonRead' /\ AssetRead'
    BY <2>1, <2>2, <2>3, <2>4, <1>1, <1>2 DEF KindIsRight, CommonRead, AssetRead, Accepted
  <2> QED BY <2>5, <1>1, <1>2, VotesStay
<1> QED BY <1>3, <1>4

\* The sum modulo 2^16 goes on with the sum.
LEMMA SumsAgree ==
  ASSUME NEW s \in Nat, NEW p \in Nat
  PROVE  ((s % TwoTo16) + p) % (UInt16Max + 1) = (s + p) % TwoTo16
BY DEF TwoTo16, UInt16Max

\* Where the percentage of a vote begins.
LEMMA PercentAt == \A o \in Nat, b \in 0..255 : o + 1 + b \in Nat
OBVIOUS

LEMMA PercentType ==
  ASSUME payload \in Payloads, starts \in Seq(Nat)
  PROVE  \A k \in 1..Len(starts) : starts[k] \in Nat /\ Percents[k] \in Nat /\ Percents[k] = VotePercent(starts[k])
<1> SUFFICES ASSUME NEW k \in 1..Len(starts)
             PROVE starts[k] \in Nat /\ Percents[k] \in Nat /\ Percents[k] = VotePercent(starts[k])
  OBVIOUS
<1>1. starts[k] \in Nat
  BY ElementOfSeq
<1>2. Byte(starts[k]) \in 0..255
  BY <1>1, ByteType
<1> DEFINE at == starts[k] + 1 + Byte(starts[k])
<1>3. at \in Nat
  BY <1>1, <1>2, PercentAt, Zenon
<1>4. Percents[k] = U16(at)
  BY DEF Percents, VotePercent
<1> HIDE DEF at
<1>5. U16(at) \in 0..UInt16Max
  BY <1>3, U16Type
<1>6. \A n \in 0..UInt16Max : n \in Nat
  BY UInt16Bound
<1>7. Percents[k] = VotePercent(starts[k])
  BY DEF Percents
<1>8. Percents[k] \in Nat
  BY <1>4, <1>5, <1>6, Zenon
<1> QED BY <1>1, <1>7, <1>8

LEMMA ReadVoteReads ==
  ASSUME ReadInv, ReadVote
  PROVE  KindIsRight' /\ CommonRead' /\ AssetRead' /\ VotesRead'
<1>1. /\ stage = "votes" /\ tx.asset = "vote" /\ tx.count = Byte(MemoEnd)
      /\ payload.kind # "message" /\ VotesRead /\ CommonIsRead
  BY DEF ReadVote, Read, ReadInv, Inv, ParserInv, StageBegins, KindIsRight, CommonRead, AssetRead
<1>2. /\ payload \in Payloads /\ offset \in Nat /\ starts \in Seq(Nat) /\ sum \in Nat
  BY DEF ReadInv, Inv, ParserInv, ParserTypeOK
<1>3. payload' = payload
  BY DEF ReadVote, Read
<1>4. CASE ~ValidVote
  <2>1. stage' = "refused" /\ UNCHANGED <<payload, votes>>
    BY <1>4 DEF ReadVote, Read
  <2> QED BY <2>1, <1>1, RefusalReads
<1>5. CASE ValidVote
  <2>1. /\ stage' = "votes" /\ tx' = tx
        /\ total' = Plus(Percent) /\ starts' = Append(starts, offset) /\ sum' = sum + Percent
    BY <1>5 DEF ReadVote, Read
  <2>2. /\ \A o : Byte(o)' = Byte(o)
        /\ \A o : VotePercent(o)' = VotePercent(o) /\ (VoteIsRead(o)' <=> VoteIsRead(o))
    BY <1>3, ReadsStay
  <2>3. Percent = VotePercent(offset)
    BY DEF Percent, VotePercent, NameLen
  <2>4. VoteIsRead(offset)
    BY <1>5, <2>3 DEF ValidVote, VoteIsRead, NameLen
  <2>5. /\ starts' \in Seq(Nat) /\ Len(starts') = Len(starts) + 1 /\ Len(starts) \in Nat
        /\ \A k \in 1..Len(starts) : starts'[k] = starts[k]
        /\ starts'[Len(starts) + 1] = offset
    <3>1. Len(starts) \in Nat
      BY <1>2, LenProperties
    <3> QED BY <2>1, <3>1, <1>2, AppendProperties
  <2> DEFINE n == Len(starts)
             new == [k \in 1..n + 1 |-> VotePercent(starts'[k])]
  <2>6. \A k \in 1..Len(starts') : VoteIsRead(starts'[k])
    <3> SUFFICES ASSUME NEW k \in 1..n + 1 PROVE VoteIsRead(starts'[k])
      BY <2>5
    <3>1. k = n + 1 \/ k \in 1..n
      BY <2>5
    <3> QED BY <3>1, <1>1, <2>4, <2>5 DEF VotesRead
  <2>7. Percents' = new
    <3>1. Len(starts') = n + 1
      BY <2>5
    <3> QED BY <3>1, <2>2 DEF Percents
  <2>8. \A k \in 1..n : Percents[k] \in Nat /\ Percents[k] = new[k]
    <3> SUFFICES ASSUME NEW k \in 1..n PROVE Percents[k] \in Nat /\ Percents[k] = new[k]
      OBVIOUS
    <3>1. Percents[k] \in Nat /\ Percents[k] = VotePercent(starts[k])
      BY <1>2, PercentType
    <3>2. k \in 1..n + 1 /\ starts'[k] = starts[k]
      BY <2>5
    <3>3. new[k] = VotePercent(starts'[k])
      BY <3>2
    <3> HIDE DEF new
    <3> QED BY <3>1, <3>2, <3>3
  <2>9. new[n + 1] = VotePercent(offset) /\ VotePercent(offset) \in Nat
    <3>1. n + 1 \in 1..n + 1
      BY <2>5
    <3>2. VotePercent(offset) \in Nat
      BY <2>4 DEF VoteIsRead
    <3> QED BY <3>1, <3>2, <2>5
  <2> HIDE DEF new
  <2>10. SumTo(new, n + 1) = SumTo(Percents, n) + VotePercent(offset)
    <3>1. SumTo(Percents, n) = SumTo(new, n)
      BY <2>5, <2>8, SumOfSame
    <3>2. \A k \in 1..n + 1 : new[k] \in Nat
      <4>1. \A k \in 1..n + 1 : k = n + 1 \/ k \in 1..n
        BY <2>5
      <4> QED BY <4>1, <2>8, <2>9
    <3>3. n + 1 \in Nat /\ n + 1 # 0 /\ (n + 1) - 1 = n
      BY <2>5
    <3>4. SumTo(new, n + 1) = SumTo(new, (n + 1) - 1) + new[n + 1]
      BY <3>2, <3>3, SumEquations
    <3> QED BY <3>1, <3>3, <3>4, <2>9
  <2>11. sum' = SumTo(Percents', Len(starts'))
    BY <1>1, <2>1, <2>3, <2>5, <2>7, <2>10 DEF VotesRead
  <2>12. total' = sum' % TwoTo16
    <3>1. total = sum % TwoTo16
      BY <1>1 DEF VotesRead
    <3>2. ((sum % TwoTo16) + Percent) % (UInt16Max + 1) = (sum + Percent) % TwoTo16
      BY <1>2, <2>3, <2>9, SumsAgree
    <3> QED BY <3>1, <3>2, <2>1 DEF Plus
  <2>13. VotesRead'
    BY <2>2, <2>6, <2>11, <2>12 DEF VotesRead
  <2>14. CommonIsRead' /\ MemoEnd' = MemoEnd
    BY <2>1, <1>1, <1>3, CommonStays
  <2>15. KindIsRight' /\ CommonRead' /\ AssetRead'
    BY <2>1, <2>2, <2>14, <1>1, <1>3 DEF KindIsRight, CommonRead, AssetRead, Accepted
  <2> QED BY <2>13, <2>15
<1> QED BY <1>4, <1>5

LEMMA ReadInitially == Init => ReadInv
<1> SUFFICES ASSUME Init PROVE ReadInv
  OBVIOUS
<1>1. /\ payload \in Payloads /\ starts = <<>> /\ total = 0 /\ sum = 0
      /\ stage = IF payload.kind = "message" THEN "message" ELSE "common"
  BY DEF Init, ParserInit
<1>2. Inv
  BY Initially
<1>3. VotesRead
  <2>1. Len(starts) = 0
    BY <1>1
  <2>2. SumTo(Percents, 0) = 0
    <3>1. 0 \in Nat /\ \A k \in 1..0 : Percents[k] \in Nat
      OBVIOUS
    <3> QED BY <3>1, SumEquations
  <2>3. 0 % TwoTo16 = 0
    BY DEF TwoTo16
  <2> QED BY <1>1, <2>1, <2>2, <2>3 DEF VotesRead
<1>4. KindIsRight /\ CommonRead /\ AssetRead
  BY <1>1 DEF KindIsRight, CommonRead, AssetRead, Accepted
<1> QED BY <1>2, <1>3, <1>4 DEF ReadInv

LEMMA ReadStutter ==
  ASSUME ReadInv, UNCHANGED parser
  PROVE  KindIsRight' /\ CommonRead' /\ AssetRead' /\ VotesRead'
<1>1. payload' = payload /\ stage' = stage /\ tx' = tx /\ UNCHANGED votes /\ total' = total
  BY DEF parser, votes
<1>2. VotesRead'
  BY <1>1, VotesStay DEF ReadInv
<1>3. /\ \A o : Byte(o)' = Byte(o) /\ U16(o)' = U16(o)
      /\ \A o, n, f : Ascii(o, n, f)' <=> Ascii(o, n, f)
  BY <1>1, ReadsStay
<1>4. MemoEnd' = MemoEnd /\ (CommonIsRead => CommonIsRead')
  BY <1>1, CommonStays DEF MemoEnd
<1> QED BY <1>1, <1>2, <1>3, <1>4 DEF ReadInv, KindIsRight, CommonRead, AssetRead, Accepted

LEMMA ReadInductive == ReadInv /\ [Next]_vars => ReadInv'
<1> SUFFICES ASSUME ReadInv, [Next]_vars PROVE ReadInv'
  OBVIOUS
<1>1. Inv'
  BY Inductive DEF ReadInv
<1>2. CASE Parse
  <2>1. CASE ReadCommon BY <1>1, <2>1, ReadCommonReads DEF ReadInv
  <2>2. CASE ReadIpfs BY <1>1, <2>2, ReadIpfsReads DEF ReadInv
  <2>3. CASE ReadTransfer BY <1>1, <2>3, ReadTransferReads DEF ReadInv
  <2>4. CASE ReadBurn BY <1>1, <2>4, ReadBurnReads DEF ReadInv
  <2>5. CASE ReadVoteCount BY <1>1, <2>5, ReadVoteCountReads DEF ReadInv
  <2>6. CASE ReadVote BY <1>1, <2>6, ReadVoteReads DEF ReadInv
  <2>7. CASE EndVotes BY <1>1, <2>7, EndVotesReads DEF ReadInv
  <2>8. CASE ReadMessage BY <1>1, <2>8, ReadMessageReads DEF ReadInv
  <2> QED BY <1>2, <2>1, <2>2, <2>3, <2>4, <2>5, <2>6, <2>7, <2>8 DEF Parse, ParserNext
<1>3. CASE UNCHANGED parser
  BY <1>1, <1>3, ReadStutter DEF ReadInv
<1> QED BY <1>2, <1>3 DEF Next, GetItem, SearchVote, FoundVote, vars

\* What the deserialisers have seen to, in every state.
THEOREM ReadAlways == Spec => []ReadInv
BY ReadInitially, ReadInductive, PTL DEF Spec

-----------------------------------------------------------------------------
(* Bytes of the payload as fields, and texts in it.                        *)

LEMMA Concat ==
  ASSUME NEW S, NEW s \in Seq(S), NEW t \in Seq(S)
  PROVE  /\ s \o t \in Seq(S) /\ Len(s \o t) = Len(s) + Len(t)
         /\ \A k \in 1..Len(s) : (s \o t)[k] = s[k]
         /\ \A k \in 1..Len(t) : (s \o t)[Len(s) + k] = t[k]
<1>1. s \o t \in Seq(S) /\ Len(s \o t) = Len(s) + Len(t) /\ Len(s) \in Nat /\ Len(t) \in Nat
  OBVIOUS
<1>2. \A k \in 1..Len(s) : (s \o t)[k] = s[k]
  OBVIOUS
<1>3. \A k \in 1..Len(t) : (s \o t)[Len(s) + k] = t[k]
  OBVIOUS
<1> QED BY <1>1, <1>2, <1>3

LEMMA FieldType ==
  ASSUME payload \in Payloads, NEW o \in Nat, NEW n \in Nat
  PROVE  /\ Field(o, n) \in [1..n -> 0..255]
         /\ Field(o, n) \in Seq(0..255) /\ Len(Field(o, n)) = n
         /\ \A k \in 1..n : Field(o, n)[k] = Byte(o + k - 1)
<1>1. \A k \in 1..n : Byte(o + k - 1) \in 0..255
  <2> SUFFICES ASSUME NEW k \in 1..n PROVE Byte(o + k - 1) \in 0..255
    OBVIOUS
  <2>1. o + k - 1 \in Nat
    OBVIOUS
  <2> QED BY <2>1, ByteType
<1>2. Field(o, n) \in [1..n -> 0..255]
  BY <1>1 DEF Field
<1>3. \A k \in 1..n : Field(o, n)[k] = Byte(o + k - 1)
  BY DEF Field
<1> QED BY <1>2, <1>3, FunctionSeq

\* Two fields one behind the other are one.
LEMMA FieldJoin ==
  ASSUME payload \in Payloads, NEW o \in Nat, NEW m \in Nat, NEW n \in Nat
  PROVE  Field(o, m) \o Field(o + m, n) = Field(o, m + n)
<1> DEFINE a == Field(o, m)
           b == Field(o + m, n)
           c == Field(o, m + n)
<1>1. o + m \in Nat /\ m + n \in Nat
  OBVIOUS
<1>2. /\ a \in Seq(0..255) /\ Len(a) = m /\ \A k \in 1..m : a[k] = Byte(o + k - 1)
  BY FieldType
<1>3. /\ b \in Seq(0..255) /\ Len(b) = n /\ \A k \in 1..n : b[k] = Byte(o + m + k - 1)
  BY <1>1, FieldType
<1>4. /\ c \in Seq(0..255) /\ Len(c) = m + n /\ \A k \in 1..m + n : c[k] = Byte(o + k - 1)
  BY <1>1, FieldType
<1> HIDE DEF a, b, c
<1>5. a \o b \in Seq(0..255) /\ Len(a \o b) = m + n
  <2>1. /\ a \in Seq(0..255) /\ Len(a) = m /\ b \in Seq(0..255) /\ Len(b) = n
    BY <1>2, <1>3
  <2> QED BY <2>1, Concat, ZenonT(40)
<1>6. \A k \in 1..m + n : (a \o b)[k] = c[k]
  <2> SUFFICES ASSUME NEW k \in 1..m + n PROVE (a \o b)[k] = c[k]
    OBVIOUS
  <2>1. k \in 1..m \/ k \in m + 1..m + n
    OBVIOUS
  <2>2. CASE k \in 1..m
    <3>1. (a \o b)[k] = a[k]
      BY <2>2, <1>2, <1>3
    <3> QED BY <2>2, <3>1, <1>2, <1>4
  <2>3. CASE k \in m + 1..m + n
    <3>1. k - m \in 1..n /\ o + m + (k - m) - 1 = o + k - 1
      BY <2>3
    <3>2. b[k - m] = Byte(o + m + (k - m) - 1)
      BY <3>1, <1>3
    <3>3. (a \o b)[k] = b[k - m]
      BY <2>3, <1>2, <1>3, SMTT(40)
    <3> QED BY <2>3, <3>1, <3>2, <3>3, <1>4
  <2> QED BY <2>1, <2>2, <2>3
<1>7. a \o b = c
  BY <1>4, <1>5, <1>6, SeqEqual
<1> QED BY <1>7 DEF a, b, c

LEMMA FieldsEqual ==
  ASSUME payload \in Payloads, NEW o \in Nat, NEW s \in Seq(0..255),
         \A k \in 1..Len(s) : Byte(o + k - 1) = s[k]
  PROVE  Field(o, Len(s)) = s
<1>1. Len(s) \in Nat
  BY LenProperties
<1>2. /\ Field(o, Len(s)) \in Seq(0..255) /\ Len(Field(o, Len(s))) = Len(s)
      /\ \A k \in 1..Len(s) : Field(o, Len(s))[k] = Byte(o + k - 1)
  BY <1>1, FieldType, ZenonT(40)
<1> QED BY <1>2, SeqEqual

\* The whole payload.
LEMMA FieldOfAll ==
  ASSUME payload \in Payloads
  PROVE  Field(0, Size) = payload.bytes /\ payload.bytes \in Seq(0..255)
<1>1. payload.bytes \in Seq(0..255)
  BY PayloadAssumption
<1>2. Size \in Nat
  BY PayloadType
<1>3. \A k \in 1..Size : Byte(0 + k - 1) = payload.bytes[k]
  <2> SUFFICES ASSUME NEW k \in 1..Size PROVE Byte(0 + k - 1) = payload.bytes[k]
    OBVIOUS
  <2>1. 0 + k - 1 < Size /\ (0 + k - 1) + 1 = k
    BY <1>2
  <2> QED BY <2>1 DEF Byte
<1> QED BY <1>1, <1>3, FieldsEqual DEF Size

\* One byte, two bytes.
LEMMA SmallFields ==
  ASSUME payload \in Payloads, NEW o \in Nat
  PROVE  /\ U8(Byte(o)) = Field(o, 1)
         /\ U16LE(U16(o)) = Field(o, 2)
         /\ <<Byte(o), Byte(o + 1), Byte(o + 2)>> = Field(o, 3)
<1>1. Byte(o) \in 0..255 /\ Byte(o + 1) \in 0..255
  BY ByteType
<1>2. Field(o, 1) = <<Byte(o)>>
  BY DEF Field
<1>3. Field(o, 2) = <<Byte(o), Byte(o + 1)>>
  BY DEF Field
<1>4. Field(o, 3) = <<Byte(o), Byte(o + 1), Byte(o + 2)>>
  BY DEF Field
<1>5. \A a, b \in 0..255 : (a + 256 * b) % 256 = a /\ (a + 256 * b) \div 256 = b
  OBVIOUS
<1>6. U16(o) % 256 = Byte(o) /\ U16(o) \div 256 = Byte(o + 1)
  BY <1>1, <1>5, ZenonT(40) DEF U16
<1> QED BY <1>2, <1>3, <1>4, <1>6 DEF U8, U16LE

\* The payload has these bytes there.
At(o, s) == s \in Seq(0..255) /\ o + Len(s) <= Size /\ Field(o, Len(s)) = s

LEMMA AtByte ==
  ASSUME payload \in Payloads, NEW o \in Nat, NEW s, At(o, s)
  PROVE  Len(s) \in Nat /\ \A k \in 1..Len(s) : Byte(o + k - 1) = s[k] /\ s[k] \in 0..255
<1>1. s \in Seq(0..255) /\ Field(o, Len(s)) = s
  BY DEF At
<1>2. Len(s) \in Nat
  BY <1>1, LenProperties
<1>3. \A k \in 1..Len(s) : Field(o, Len(s))[k] = Byte(o + k - 1)
  BY <1>2, FieldType
<1>4. \A k \in 1..Len(s) : s[k] \in 0..255
  BY <1>1, ElementOfSeq
<1> QED BY <1>1, <1>2, <1>3, <1>4

LEMMA AtConcat ==
  ASSUME payload \in Payloads, NEW o \in Nat, NEW s \in Seq(0..255), NEW t \in Seq(0..255),
         At(o, s \o t)
  PROVE  At(o, s) /\ At(o + Len(s), t) /\ o + Len(s) \in Nat
<1>1. Len(s) \in Nat /\ Len(t) \in Nat /\ o + Len(s) \in Nat
  BY LenProperties
<1>2. /\ Len(s \o t) = Len(s) + Len(t)
      /\ \A k \in 1..Len(s) : (s \o t)[k] = s[k]
      /\ \A k \in 1..Len(t) : (s \o t)[Len(s) + k] = t[k]
  BY Concat
<1>3. \A k \in 1..Len(s \o t) : Byte(o + k - 1) = (s \o t)[k]
  BY AtByte
<1>4. o + Len(s \o t) <= Size /\ Size \in Nat
  BY PayloadType DEF At
<1>5. \A k \in 1..Len(s) : Byte(o + k - 1) = s[k]
  <2> SUFFICES ASSUME NEW k \in 1..Len(s) PROVE Byte(o + k - 1) = s[k]
    OBVIOUS
  <2>1. k \in 1..Len(s \o t)
    BY <1>1, <1>2
  <2> QED BY <2>1, <1>2, <1>3
<1>6. \A k \in 1..Len(t) : Byte(o + Len(s) + k - 1) = t[k]
  <2> SUFFICES ASSUME NEW k \in 1..Len(t) PROVE Byte(o + Len(s) + k - 1) = t[k]
    OBVIOUS
  <2> DEFINE i == Len(s) + k
  <2>1. i \in 1..Len(s \o t) /\ o + Len(s) + k - 1 = o + i - 1 /\ (s \o t)[i] = t[k]
    BY <1>1, <1>2
  <2> HIDE DEF i
  <2> QED BY <2>1, <1>3
<1>7. Field(o, Len(s)) = s /\ Field(o + Len(s), Len(t)) = t
  BY <1>1, <1>5, <1>6, FieldsEqual
<1>8. o + Len(s) <= Size /\ o + Len(s) + Len(t) <= Size
  BY <1>1, <1>2, <1>4
<1> QED BY <1>1, <1>7, <1>8 DEF At

\* What a field of one byte or two says.
LEMMA AtU8 ==
  ASSUME payload \in Payloads, NEW o \in Nat, NEW n, At(o, U8(n))
  PROVE  Byte(o) = n /\ n \in 0..255
<1>1. Len(U8(n)) = 1 /\ U8(n)[1] = n
  BY DEF U8
<1>2. \A k \in 1..Len(U8(n)) : Byte(o + k - 1) = U8(n)[k] /\ U8(n)[k] \in 0..255
  BY AtByte
<1>3. 1 \in 1..Len(U8(n)) /\ o + 1 - 1 = o
  BY <1>1
<1> QED BY <1>1, <1>2, <1>3

LEMMA AtU16 ==
  ASSUME payload \in Payloads, NEW o \in Nat, NEW n \in Nat, At(o, U16LE(n))
  PROVE  U16(o) = n
<1>1. Len(U16LE(n)) = 2 /\ U16LE(n)[1] = n % 256 /\ U16LE(n)[2] = n \div 256
  BY DEF U16LE
<1>2. \A k \in 1..Len(U16LE(n)) : Byte(o + k - 1) = U16LE(n)[k]
  BY AtByte
<1>3. /\ 1 \in 1..Len(U16LE(n)) /\ o + 1 - 1 = o
      /\ 2 \in 1..Len(U16LE(n)) /\ o + 2 - 1 = o + 1
  BY <1>1
<1>4. Byte(o) = n % 256 /\ Byte(o + 1) = n \div 256
  BY <1>1, <1>2, <1>3
<1>5. (n % 256) + 256 * (n \div 256) = n
  OBVIOUS
<1> QED BY <1>4, <1>5 DEF U16

LEMMA AtAll ==
  ASSUME payload \in Payloads, Undamaged
  PROVE  At(0, Serialised(payload.sent)) /\ Size = Len(Serialised(payload.sent))
<1>1. Field(0, Size) = payload.bytes /\ payload.bytes \in Seq(0..255) /\ Size = Len(payload.bytes)
  BY FieldOfAll DEF Size
<1>2. Size \in Nat
  BY PayloadType
<1> QED BY <1>1, <1>2 DEF At, Undamaged

-----------------------------------------------------------------------------
(* What a client serialises.                                               *)

CommonTypes(t) ==
  /\ t.network \in 0..255 /\ t.nonce \in BytesOf(8) /\ t.senderPkey \in BytesOf(33)
  /\ t.fee \in BytesOf(8) /\ t.memo \in UpTo(255, 0..255)

WholeRecord(t) ==
  t = [asset |-> t.asset, network |-> t.network, nonce |-> t.nonce,
       senderPkey |-> t.senderPkey, fee |-> t.fee, memo |-> t.memo, records |-> t.records]

LEMMA WithType ==
  ASSUME NEW asset, NEW lists, NEW t \in TransactionsWith(asset, lists)
  PROVE  t.asset = asset /\ CommonTypes(t) /\ WholeRecord(t) /\ t.records \in lists
BY DEF TransactionsWith, CommonTypes, WholeRecord

LEMMA TransactionType ==
  ASSUME NEW t \in Transactions
  PROVE  /\ t.asset \in {"vote", "transfer", "burn", "ipfs", "message"}
         /\ t.asset # "message" => CommonTypes(t) /\ WholeRecord(t)
         /\ t.asset = "vote" => t.records \in VoteLists
         /\ t.asset = "transfer" => t.records \in PaymentLists
         /\ t.asset = "burn" => t.records \in [1..1 -> BytesOf(8)]
         /\ t.asset = "ipfs" => t.records \in [1..1 -> Bytes]
         /\ t.asset = "message" =>
              /\ t = [asset |-> "message", records |-> t.records]
              /\ t.records \in [1..1 -> UpTo(TwoTo16 - 1, 0..255)]
<1>1. CASE t \in TransactionsWith("vote", VoteLists)
  BY <1>1, WithType
<1>2. CASE t \in TransactionsWith("transfer", PaymentLists)
  BY <1>2, WithType
<1>3. CASE t \in TransactionsWith("burn", [1..1 -> BytesOf(8)])
  BY <1>3, WithType
<1>4. CASE t \in TransactionsWith("ipfs", [1..1 -> Bytes])
  BY <1>4, WithType
<1>5. CASE t \in Messages
  BY <1>5 DEF Messages
<1> QED BY <1>1, <1>2, <1>3, <1>4, <1>5 DEF Transactions

\* The asset's part of what a client makes of a transaction.
AssetBytes(t) ==
  CASE t.asset = "vote" -> U8(Len(t.records)) \o Joined(VoteParts(t.records))
    [] t.asset = "transfer" -> U16LE(Len(t.records)) \o Joined(PaymentParts(t.records))
    [] t.asset \in {"burn", "ipfs"} -> t.records[1]

\* A vote and a payment as bytes.
LEMMA SixteenBits == TwoTo16 - 1 \in Nat /\ \A n \in Nat : n <= TwoTo16 - 1 <=> n < 256 * 256
BY DEF TwoTo16

LEMMA U16LEType ==
  ASSUME NEW n \in 0..TwoTo16 - 1
  PROVE  U16LE(n) \in Seq(0..255) /\ Len(U16LE(n)) = 2 /\ n \in Nat
<1>0. n \in Nat /\ n < 256 * 256
  <2>1. n \in Nat /\ n <= TwoTo16 - 1
    BY SixteenBits
  <2> QED BY <2>1, SixteenBits
<1>1. n % 256 \in 0..255 /\ n \div 256 \in 0..255 /\ n \in Nat
  <2>1. \A k \in Nat : k < 256 * 256 => k % 256 \in 0..255 /\ k \div 256 \in 0..255
    OBVIOUS
  <2> QED BY <2>1, <1>0
<1> DEFINE a == n % 256
           b == n \div 256
<1>2. a \in 0..255 /\ b \in 0..255 /\ n \in Nat /\ U16LE(n) = <<a, b>>
  BY <1>1 DEF U16LE
<1> HIDE DEF a, b
<1> QED BY <1>2

LEMMA U8Type ==
  ASSUME NEW n \in 0..255
  PROVE  U8(n) \in Seq(0..255) /\ Len(U8(n)) = 1
BY DEF U8

\* That many bytes.
Octets(s, n) == s \in Seq(0..255) /\ Len(s) = n

LEMMA OctetsOf ==
  ASSUME NEW n \in Nat, NEW f \in BytesOf(n)
  PROVE  Octets(f, n)
BY FunctionSeq DEF BytesOf, Octets

LEMMA OctetsOfU8 ==
  ASSUME NEW n \in 0..255
  PROVE  Octets(U8(n), 1)
BY U8Type DEF Octets

LEMMA OctetsConcat ==
  ASSUME NEW s, NEW t, NEW n \in Nat, NEW m \in Nat, Octets(s, n), Octets(t, m)
  PROVE  Octets(s \o t, n + m)
<1>1. s \in Seq(0..255) /\ t \in Seq(0..255) /\ Len(s) = n /\ Len(t) = m
  BY DEF Octets
<1>2. s \o t \in Seq(0..255) /\ Len(s \o t) = Len(s) + Len(t)
  BY <1>1, Concat, ZenonT(40)
<1> QED BY <1>1, <1>2 DEF Octets

LEMMA VoteBytesType ==
  ASSUME NEW v, v.name \in Seq(0..255), Len(v.name) \in 0..255, v.percent \in 0..TwoTo16 - 1
  PROVE  /\ Octets(U8(Len(v.name)), 1) /\ Octets(v.name, Len(v.name))
         /\ Octets(U8(Len(v.name)) \o v.name, 1 + Len(v.name))
         /\ Octets(U16LE(v.percent), 2)
         /\ Octets(VoteBytes(v), 3 + Len(v.name)) /\ v.percent \in Nat
<1> DEFINE n == Len(v.name)
           l == U8(n)
           p == U16LE(v.percent)
<1>1. n \in 0..255 /\ n \in Nat
  OBVIOUS
<1>2. Octets(v.name, n)
  BY DEF Octets
<1> HIDE DEF n
<1>3. Octets(l, 1)
  BY <1>1, U8Type DEF Octets
<1>4. Octets(p, 2) /\ v.percent \in Nat
  BY U16LEType DEF Octets
<1> HIDE DEF l, p
<1>5. Octets(l \o v.name, 1 + n) /\ 1 \in Nat /\ 1 + n \in Nat /\ 2 \in Nat
  BY <1>1, <1>2, <1>3, OctetsConcat, SMTT(40)
<1>6. Octets((l \o v.name) \o p, (1 + n) + 2)
  BY <1>4, <1>5, OctetsConcat
<1>7. (1 + n) + 2 = 3 + n
  BY <1>1
<1>8. Octets((l \o v.name) \o p, 3 + n)
  BY <1>6, <1>7
<1>9. VoteBytes(v) = (l \o v.name) \o p
  BY DEF VoteBytes, l, p, n
<1>10. Octets(VoteBytes(v), 3 + n)
  BY <1>8, <1>9
<1> QED BY <1>2, <1>3, <1>4, <1>5, <1>10 DEF l, p, n

LEMMA PaymentBytesType ==
  ASSUME NEW p, p.amount \in BytesOf(8), p.recipient \in BytesOf(21)
  PROVE  Octets(p.amount, 8) /\ Octets(p.recipient, 21) /\ Octets(PaymentBytes(p), 29)
<1>1. Octets(p.amount, 8)
  BY FunctionSeq, ZenonT(40) DEF BytesOf, Octets
<1>2. Octets(p.recipient, 21)
  BY FunctionSeq, ZenonT(40) DEF BytesOf, Octets
<1>3. Octets(p.amount \o p.recipient, 8 + 21) /\ 8 + 21 = 29
  BY <1>1, <1>2, OctetsConcat
<1> QED BY <1>1, <1>2, <1>3 DEF PaymentBytes

\* The lists of a transaction.
VoteTypes(records) ==
  /\ Len(records) \in 0..255
  /\ \A k \in 1..Len(records) :
       /\ records[k] = [name |-> records[k].name, percent |-> records[k].percent]
       /\ records[k].name \in Seq(0..255) /\ Len(records[k].name) \in 0..255
       /\ records[k].percent \in 0..TwoTo16 - 1

PaymentTypes(records) ==
  /\ Len(records) \in 0..TwoTo16 - 1
  /\ \A k \in 1..Len(records) :
       /\ records[k] = [amount |-> records[k].amount, recipient |-> records[k].recipient]
       /\ records[k].amount \in BytesOf(8) /\ records[k].recipient \in BytesOf(21)

LEMMA UpToType ==
  ASSUME NEW n \in Nat, NEW S, NEW s \in UpTo(n, S)
  PROVE  s \in Seq(S) /\ Len(s) \in 0..n /\ \A k \in 1..Len(s) : s[k] \in S
<1>1. s \in Seq(S) /\ Len(s) <= n
  BY DEF UpTo
<1>2. Len(s) \in Nat /\ \A k \in 1..Len(s) : s[k] \in S
  BY <1>1, LenProperties, ElementOfSeq
<1> QED BY <1>1, <1>2

LEMMA VoteListType ==
  ASSUME NEW records \in VoteLists
  PROVE  /\ records \in Seq([name : UpTo(255, 0..255), percent : 0..TwoTo16 - 1])
         /\ VoteTypes(records)
<1> DEFINE V == [name : UpTo(255, 0..255), percent : 0..TwoTo16 - 1]
<1>1. ASSUME NEW v \in V
      PROVE  /\ v = [name |-> v.name, percent |-> v.percent]
             /\ v.name \in UpTo(255, 0..255) /\ v.percent \in 0..TwoTo16 - 1
  OBVIOUS
<1>2. \A s \in UpTo(255, 0..255) : s \in Seq(0..255) /\ Len(s) \in 0..255
  <2>1. 255 \in Nat
    OBVIOUS
  <2> QED BY <2>1, UpToType, ZenonT(40)
<1>3. records \in UpTo(255, V)
  BY DEF VoteLists
<1> HIDE DEF V
<1>4. /\ records \in Seq(V) /\ Len(records) \in 0..255
      /\ \A k \in 1..Len(records) : records[k] \in V
  <2>1. 255 \in Nat
    OBVIOUS
  <2> QED BY <2>1, <1>3, UpToType, Zenon
<1>5. VoteTypes(records)
  BY <1>1, <1>2, <1>4, ZenonT(40) DEF VoteTypes
<1> QED BY <1>4, <1>5 DEF V

LEMMA PaymentListType ==
  ASSUME NEW records \in PaymentLists
  PROVE  /\ records \in Seq([amount : BytesOf(8), recipient : BytesOf(21)])
         /\ PaymentTypes(records)
<1> DEFINE P == [amount : BytesOf(8), recipient : BytesOf(21)]
<1>1. ASSUME NEW p \in P
      PROVE  /\ p = [amount |-> p.amount, recipient |-> p.recipient]
             /\ p.amount \in BytesOf(8) /\ p.recipient \in BytesOf(21)
  OBVIOUS
<1>2. records \in UpTo(TwoTo16 - 1, P)
  BY DEF PaymentLists
<1> HIDE DEF P
<1>3. TwoTo16 - 1 \in Nat
  BY SixteenBits
<1>4. /\ records \in Seq(P) /\ Len(records) \in 0..TwoTo16 - 1
      /\ \A k \in 1..Len(records) : records[k] \in P
  BY <1>2, <1>3, UpToType
<1>5. PaymentTypes(records)
  BY <1>1, <1>4, Zenon DEF PaymentTypes
<1> QED BY <1>4, <1>5 DEF P

\* The pieces of the common part.
LEMMA TypeOctets ==
  ASSUME NEW asset \in {"vote", "transfer", "burn", "ipfs"}
  PROVE  Octets(TypeOf(asset), 6)
<1>1. \A c, d \in 0..255 : Octets(<<c, 0, 0, 0, d, 0>>, 6)
  BY DEF Octets
<1>2. 1 \in 0..255 /\ 2 \in 0..255 /\ 0 \in 0..255 /\ 5 \in 0..255 /\ 6 \in 0..255
  OBVIOUS
<1>3. CASE asset = "vote"
  BY <1>1, <1>2, <1>3, Zenon DEF TypeOf
<1>4. CASE asset = "transfer"
  BY <1>1, <1>2, <1>4, Zenon DEF TypeOf
<1>5. CASE asset = "burn"
  BY <1>1, <1>2, <1>5, Zenon DEF TypeOf
<1>6. CASE asset = "ipfs"
  BY <1>1, <1>2, <1>6, Zenon DEF TypeOf
<1> QED BY <1>3, <1>4, <1>5, <1>6

Head2(t) == <<255, 3, t.network>> \o TypeOf(t.asset)
Head3(t) == Head2(t) \o t.nonce
Head4(t) == Head3(t) \o t.senderPkey
Head5(t) == Head4(t) \o t.fee
Head6(t) == Head5(t) \o U8(Len(t.memo))

CommonPieces(t) ==
  /\ Octets(<<255, 3, t.network>>, 3) /\ Octets(TypeOf(t.asset), 6)
  /\ Octets(t.nonce, 8) /\ Octets(t.senderPkey, 33) /\ Octets(t.fee, 8)
  /\ Octets(U8(Len(t.memo)), 1) /\ Octets(t.memo, Len(t.memo))
  /\ Octets(Head2(t), 9) /\ Octets(Head3(t), 17) /\ Octets(Head4(t), 50)
  /\ Octets(Head5(t), 58) /\ Octets(Head6(t), 59)
  /\ Octets(Common(t), 59 + Len(t.memo)) /\ Common(t) = Head6(t) \o t.memo
  /\ Len(t.memo) \in 0..255

LEMMA CommonOctets ==
  ASSUME NEW t, t.asset \in {"vote", "transfer", "burn", "ipfs"}, CommonTypes(t)
  PROVE  CommonPieces(t)
<1>1. Octets(<<255, 3, t.network>>, 3)
  <2>1. t.network \in 0..255
    BY DEF CommonTypes
  <2>2. \A n \in 0..255 : Octets(<<255, 3, n>>, 3)
    BY DEF Octets
  <2> QED BY <2>1, <2>2
<1>2. Octets(TypeOf(t.asset), 6)
  BY TypeOctets
<1>3. Octets(t.nonce, 8) /\ Octets(t.senderPkey, 33) /\ Octets(t.fee, 8)
  <2>1. 8 \in Nat /\ 33 \in Nat
    OBVIOUS
  <2> QED BY <2>1, OctetsOf, Zenon DEF CommonTypes
<1>4. t.memo \in Seq(0..255) /\ Len(t.memo) \in 0..255
  <2>1. 255 \in Nat /\ t.memo \in UpTo(255, 0..255)
    BY DEF CommonTypes
  <2> QED BY <2>1, UpToType, ZenonT(40)
<1>5. Octets(U8(Len(t.memo)), 1) /\ Octets(t.memo, Len(t.memo)) /\ Len(t.memo) \in Nat
  <2>1. Octets(U8(Len(t.memo)), 1)
    BY <1>4, OctetsOfU8, Zenon
  <2>2. Octets(t.memo, Len(t.memo))
    BY <1>4, Zenon DEF Octets
  <2>3. Len(t.memo) \in Nat
    BY <1>4, LenProperties, Zenon
  <2> QED BY <2>1, <2>2, <2>3
<1>6. Octets(Head2(t), 3 + 6)
  BY <1>1, <1>2, OctetsConcat DEF Head2
<1>7. Octets(Head2(t), 9)
  <2>1. 3 + 6 = 9
    OBVIOUS
  <2> QED BY <2>1, <1>6
<1>8. Octets(Head3(t), 9 + 8)
  BY <1>7, <1>3, OctetsConcat DEF Head3
<1>9. Octets(Head3(t), 17)
  <2>1. 9 + 8 = 17
    OBVIOUS
  <2> QED BY <2>1, <1>8
<1>10. Octets(Head4(t), 17 + 33)
  BY <1>9, <1>3, OctetsConcat DEF Head4
<1>11. Octets(Head4(t), 50)
  <2>1. 17 + 33 = 50
    OBVIOUS
  <2> QED BY <2>1, <1>10
<1>12. Octets(Head5(t), 50 + 8)
  BY <1>11, <1>3, OctetsConcat DEF Head5
<1>13. Octets(Head5(t), 58)
  <2>1. 50 + 8 = 58
    OBVIOUS
  <2> QED BY <2>1, <1>12
<1>14. Octets(Head6(t), 58 + 1)
  BY <1>13, <1>5, OctetsConcat DEF Head6
<1>15. Octets(Head6(t), 59)
  <2>1. 58 + 1 = 59
    OBVIOUS
  <2> QED BY <2>1, <1>14
<1>16. Common(t) = Head6(t) \o t.memo
  BY DEF Common, Head6, Head5, Head4, Head3, Head2
<1>17. Octets(Head6(t) \o t.memo, 59 + Len(t.memo))
  BY <1>15, <1>5, OctetsConcat
<1> QED BY <1>1, <1>2, <1>3, <1>4, <1>5, <1>7, <1>9, <1>11, <1>13, <1>15, <1>16, <1>17, Zenon DEF CommonPieces

\* What follows bytes whose number is known.
LEMMA AtSplit ==
  ASSUME payload \in Payloads, NEW o \in Nat, NEW n \in Nat, NEW m \in Nat,
         NEW s, NEW t, Octets(s, n), Octets(t, m), At(o, s \o t)
  PROVE  At(o, s) /\ At(o + n, t) /\ o + n \in Nat
<1>1. s \in Seq(0..255) /\ t \in Seq(0..255) /\ Len(s) = n
  BY DEF Octets
<1> QED BY <1>1, AtConcat

LEMMA AtOctets ==
  ASSUME NEW o, NEW s, NEW n, At(o, s), Octets(s, n)
  PROVE  Field(o, n) = s
BY DEF At, Octets

AtTwo(n, s, t, m) == At(0, s) /\ At(n, t) /\ Field(n, m) = t

LEMMA AtHead ==
  ASSUME payload \in Payloads, NEW n \in Nat, NEW m \in Nat,
         NEW s, NEW t, Octets(s, n), Octets(t, m), At(0, s \o t)
  PROVE  AtTwo(n, s, t, m)
<1>1. 0 \in Nat /\ 0 + n = n
  OBVIOUS
<1>2. At(0, s) /\ At(0 + n, t)
  BY <1>1, AtSplit, Zenon
<1>3. Field(n, m) = t
  BY <1>1, <1>2, AtOctets
<1> QED BY <1>1, <1>2, <1>3 DEF AtTwo

HeaderOf(t) ==
  /\ Field(0, 3) = <<255, 3, t.network>> /\ Field(3, 6) = TypeOf(t.asset)
  /\ Field(9, 8) = t.nonce /\ Field(17, 33) = t.senderPkey /\ Field(50, 8) = t.fee
  /\ Byte(58) = Len(t.memo) /\ Field(59, Len(t.memo)) = t.memo

LEMMA HeaderIsThere ==
  ASSUME payload \in Payloads, NEW t, t.asset \in {"vote", "transfer", "burn", "ipfs"},
         CommonTypes(t), At(0, Common(t))
  PROVE  HeaderOf(t)
<1>1. CommonPieces(t)
  BY CommonOctets
<1>2. Len(t.memo) \in Nat
  <2>1. Len(t.memo) \in 0..255
    BY <1>1, Zenon DEF CommonPieces
  <2> QED BY <2>1, SMTT(40)
<1>3. /\ 0 \in Nat /\ 1 \in Nat /\ 3 \in Nat /\ 6 \in Nat /\ 8 \in Nat /\ 9 \in Nat /\ 17 \in Nat
      /\ 33 \in Nat /\ 50 \in Nat /\ 58 \in Nat /\ 59 \in Nat
  OBVIOUS
<1>4. At(0, Head6(t)) /\ At(59, t.memo) /\ Field(59, Len(t.memo)) = t.memo
  <2>1. At(0, Head6(t) \o t.memo) /\ Octets(Head6(t), 59) /\ Octets(t.memo, Len(t.memo))
    BY <1>1, Zenon DEF CommonPieces
  <2>2. AtTwo(59, Head6(t), t.memo, Len(t.memo))
    BY <2>1, <1>2, <1>3, AtHead
  <2> QED BY <2>2 DEF AtTwo
<1>5. At(0, Head5(t)) /\ At(58, U8(Len(t.memo)))
  <2>1. At(0, Head5(t) \o U8(Len(t.memo))) /\ Octets(Head5(t), 58) /\ Octets(U8(Len(t.memo)), 1)
    BY <1>1, <1>4, Zenon DEF CommonPieces, Head6
  <2>2. AtTwo(58, Head5(t), U8(Len(t.memo)), 1)
    BY <2>1, <1>3, AtHead
  <2> QED BY <2>2 DEF AtTwo
<1>6. At(0, Head4(t)) /\ At(50, t.fee) /\ Field(50, 8) = t.fee
  <2>1. At(0, Head4(t) \o t.fee) /\ Octets(Head4(t), 50) /\ Octets(t.fee, 8)
    BY <1>1, <1>5, Zenon DEF CommonPieces, Head5
  <2>2. AtTwo(50, Head4(t), t.fee, 8)
    BY <2>1, <1>3, AtHead
  <2> QED BY <2>2 DEF AtTwo
<1>7. At(0, Head3(t)) /\ At(17, t.senderPkey) /\ Field(17, 33) = t.senderPkey
  <2>1. At(0, Head3(t) \o t.senderPkey) /\ Octets(Head3(t), 17) /\ Octets(t.senderPkey, 33)
    BY <1>1, <1>6, Zenon DEF CommonPieces, Head4
  <2>2. AtTwo(17, Head3(t), t.senderPkey, 33)
    BY <2>1, <1>3, AtHead
  <2> QED BY <2>2 DEF AtTwo
<1>8. At(0, Head2(t)) /\ At(9, t.nonce) /\ Field(9, 8) = t.nonce
  <2>1. At(0, Head2(t) \o t.nonce) /\ Octets(Head2(t), 9) /\ Octets(t.nonce, 8)
    BY <1>1, <1>7, Zenon DEF CommonPieces, Head3
  <2>2. AtTwo(9, Head2(t), t.nonce, 8)
    BY <2>1, <1>3, AtHead
  <2> QED BY <2>2 DEF AtTwo
<1>9. /\ At(0, <<255, 3, t.network>>) /\ At(3, TypeOf(t.asset)) /\ Field(3, 6) = TypeOf(t.asset)
      /\ Field(0, 3) = <<255, 3, t.network>>
  <2> DEFINE h == <<255, 3, t.network>>
  <2>1. At(0, h \o TypeOf(t.asset)) /\ Octets(h, 3) /\ Octets(TypeOf(t.asset), 6)
    BY <1>1, <1>8, Zenon DEF CommonPieces, Head2
  <2> HIDE DEF h
  <2>2. AtTwo(3, h, TypeOf(t.asset), 6)
    BY <2>1, <1>3, AtHead
  <2>3. Field(0, 3) = h
    BY <2>1, <2>2, AtOctets DEF AtTwo
  <2> QED BY <2>2, <2>3 DEF AtTwo, h
<1>10. Byte(58) = Len(t.memo)
  BY <1>3, <1>5, AtU8, Zenon
<1> QED BY <1>4, <1>6, <1>7, <1>8, <1>9, <1>10, Zenon DEF HeaderOf

-----------------------------------------------------------------------------
(* What the device reads in the common part.                               *)

LEMMA TypeIsRead ==
  ASSUME payload \in Payloads, NEW c \in 0..255, NEW d \in 0..255
  PROVE  Field(3, 6) = <<c, 0, 0, 0, d, 0>> <=> Field(3, 4) = <<c, 0, 0, 0>> /\ U16(7) = d
<1>1. /\ Byte(3) \in 0..255 /\ Byte(4) \in 0..255 /\ Byte(5) \in 0..255
      /\ Byte(6) \in 0..255 /\ Byte(7) \in 0..255 /\ Byte(8) \in 0..255
  BY ByteType
<1>2. Field(3, 6) = <<Byte(3), Byte(4), Byte(5), Byte(6), Byte(7), Byte(8)>>
  BY DEF Field
<1>3. Field(3, 4) = <<Byte(3), Byte(4), Byte(5), Byte(6)>>
  BY DEF Field
<1>4. U16(7) = Byte(7) + 256 * Byte(8)
  BY DEF U16
<1>5. \A a, b \in 0..255 : a + 256 * b = d <=> a = d /\ b = 0
  OBVIOUS
<1>6. U16(7) = d <=> Byte(7) = d /\ Byte(8) = 0
  <2>1. Byte(7) + 256 * Byte(8) = d <=> Byte(7) = d /\ Byte(8) = 0
    BY <1>1, <1>5, ZenonT(40)
  <2> QED BY <2>1, <1>4, Zenon
<1> QED BY <1>2, <1>3, <1>6

LEMMA AssetIsRead ==
  ASSUME payload \in Payloads, NEW asset \in {"vote", "transfer", "burn", "ipfs"}
  PROVE  Field(3, 6) = TypeOf(asset) <=> Asset = asset
<1> DEFINE f == Field(3, 4)
           u == U16(7)
<1>1. 0 \in 0..255 /\ 1 \in 0..255 /\ 2 \in 0..255 /\ 5 \in 0..255 /\ 6 \in 0..255
  OBVIOUS
<1>2. /\ Field(3, 6) = TypeOf("ipfs") <=> f = <<1, 0, 0, 0>> /\ u = 5
      /\ Field(3, 6) = TypeOf("transfer") <=> f = <<1, 0, 0, 0>> /\ u = 6
      /\ Field(3, 6) = TypeOf("burn") <=> f = <<2, 0, 0, 0>> /\ u = 0
      /\ Field(3, 6) = TypeOf("vote") <=> f = <<2, 0, 0, 0>> /\ u = 2
  BY <1>1, TypeIsRead, ZenonT(40) DEF TypeOf
<1>3. Asset = CASE f = <<1, 0, 0, 0>> /\ u = 5 -> "ipfs"
                [] f = <<1, 0, 0, 0>> /\ u = 6 -> "transfer"
                [] f = <<2, 0, 0, 0>> /\ u = 0 -> "burn"
                [] f = <<2, 0, 0, 0>> /\ u = 2 -> "vote"
                [] OTHER -> "unknown"
  BY DEF Asset
<1> HIDE DEF f, u
<1>4. <<1, 0, 0, 0>> # <<2, 0, 0, 0>>
  OBVIOUS
<1> DEFINE one == <<1, 0, 0, 0>>
           two == <<2, 0, 0, 0>>
<1>5. /\ Field(3, 6) = TypeOf("ipfs") <=> f = one /\ u = 5
      /\ Field(3, 6) = TypeOf("transfer") <=> f = one /\ u = 6
      /\ Field(3, 6) = TypeOf("burn") <=> f = two /\ u = 0
      /\ Field(3, 6) = TypeOf("vote") <=> f = two /\ u = 2
  BY <1>2
<1>6. Asset = CASE f = one /\ u = 5 -> "ipfs"
                [] f = one /\ u = 6 -> "transfer"
                [] f = two /\ u = 0 -> "burn"
                [] f = two /\ u = 2 -> "vote"
                [] OTHER -> "unknown"
  BY <1>3
<1>7. one # two
  BY <1>4
<1> HIDE DEF one, two
<1>8. CASE asset = "ipfs"
  BY <1>5, <1>6, <1>7, <1>8
<1>9. CASE asset = "transfer"
  BY <1>5, <1>6, <1>7, <1>9
<1>10. CASE asset = "burn"
  BY <1>5, <1>6, <1>7, <1>10
<1>11. CASE asset = "vote"
  BY <1>5, <1>6, <1>7, <1>11
<1> QED BY <1>8, <1>9, <1>10, <1>11

\* The device reads what the client wrote.
LEMMA HeaderIsRead ==
  ASSUME payload \in Payloads, NEW t, t.asset \in {"vote", "transfer", "burn", "ipfs"},
         HeaderOf(t), t.network \in 0..255
  PROVE  /\ Byte(0) = 255 /\ Byte(1) = 3 /\ Byte(2) = t.network
         /\ Asset = t.asset /\ MemoLen = Len(t.memo)
<1>1. Field(0, 3) = <<255, 3, t.network>>
  BY DEF HeaderOf
<1>2. <<Byte(0), Byte(0 + 1), Byte(0 + 2)>> = Field(0, 3)
  BY SmallFields
<1>3. Byte(0) = 255 /\ Byte(1) = 3 /\ Byte(2) = t.network
  BY <1>1, <1>2
<1>4. Asset = t.asset
  BY AssetIsRead DEF HeaderOf
<1>5. MemoLen = Len(t.memo)
  BY DEF HeaderOf, MemoLen
<1> QED BY <1>3, <1>4, <1>5

-----------------------------------------------------------------------------
(* Lists of records in the payload.                                        *)

JoinLen(parts, k) == Len(JoinTo(parts, k))

LEMMA JoinStep ==
  ASSUME NEW n \in Nat, NEW parts, \A k \in 1..n : parts[k] \in Seq(0..255)
  PROVE  /\ \A k \in 0..n : JoinTo(parts, k) \in Seq(0..255) /\ JoinLen(parts, k) \in Nat
         /\ JoinLen(parts, 0) = 0
         /\ \A k \in 1..n : /\ JoinTo(parts, k) = JoinTo(parts, k - 1) \o parts[k]
                            /\ JoinLen(parts, k) = JoinLen(parts, k - 1) + Len(parts[k])
<1>1. ASSUME NEW k \in 0..n
      PROVE  /\ JoinTo(parts, k) \in Seq(0..255)
             /\ k = 0 => JoinTo(parts, k) = <<>>
             /\ k # 0 => JoinTo(parts, k) = JoinTo(parts, k - 1) \o parts[k]
  <2>1. k \in Nat /\ \A i \in 1..k : parts[i] \in Seq(0..255)
    OBVIOUS
  <2> QED BY <2>1, JoinEquations
<1>2. \A k \in 0..n : JoinLen(parts, k) \in Nat
  BY <1>1, LenProperties DEF JoinLen
<1>3. JoinLen(parts, 0) = 0
  <2>1. 0 \in 0..n /\ Len(<<>>) = 0
    OBVIOUS
  <2>2. JoinTo(parts, 0) = <<>>
    BY <2>1, <1>1
  <2> QED BY <2>1, <2>2 DEF JoinLen
<1>4. ASSUME NEW k \in 1..n
      PROVE  /\ JoinTo(parts, k) = JoinTo(parts, k - 1) \o parts[k]
             /\ JoinLen(parts, k) = JoinLen(parts, k - 1) + Len(parts[k])
  <2> DEFINE p == k - 1
  <2>1. p \in 0..n /\ k \in 0..n /\ k # 0
    OBVIOUS
  <2>2. JoinTo(parts, k) = JoinTo(parts, p) \o parts[k]
    BY <2>1, <1>1
  <2>3. JoinTo(parts, p) \in Seq(0..255) /\ parts[k] \in Seq(0..255)
    BY <2>1, <1>1
  <2> HIDE DEF p
  <2>4. Len(JoinTo(parts, k)) = Len(JoinTo(parts, p)) + Len(parts[k])
    BY <2>2, <2>3, Concat
  <2> QED BY <2>2, <2>4 DEF JoinLen, p
<1> QED BY <1>1, <1>2, <1>3, <1>4

\* Where each part of a list is.
LEMMA PartIsThere ==
  ASSUME payload \in Payloads, NEW at \in Nat, NEW n \in Nat, NEW parts,
         \A k \in 1..n : parts[k] \in Seq(0..255),
         At(at, JoinTo(parts, n)), NEW k \in 1..n
  PROVE  /\ At(at + JoinLen(parts, k - 1), parts[k])
         /\ at + JoinLen(parts, k - 1) \in Nat
         /\ JoinLen(parts, k) <= JoinLen(parts, n)
<1> DEFINE p == k - 1
           before == JoinTo(parts, p)
           upTo == JoinTo(parts, k)
           all == JoinTo(parts, n)
<1>1. /\ p \in 0..n /\ k \in 0..n /\ n \in 0..n
      /\ upTo = before \o parts[k]
      /\ before \in Seq(0..255) /\ upTo \in Seq(0..255) /\ all \in Seq(0..255)
      /\ parts[k] \in Seq(0..255)
  <2>1. p \in 0..n /\ k \in 0..n /\ n \in 0..n
    OBVIOUS
  <2> QED BY <2>1, JoinStep, ZenonT(40)
<1>2. Len(upTo) <= Len(all) /\ \A i \in 1..Len(upTo) : all[i] = upTo[i]
  <2>1. k \in 0..n /\ \A i \in 1..n : parts[i] \in Seq(0..255)
    BY <1>1
  <2> QED BY <2>1, JoinBegins
<1> HIDE DEF p, before, upTo, all
<1>3. Len(upTo) \in Nat /\ Len(all) \in Nat /\ Len(before) \in Nat
  BY <1>1, LenProperties
<1>4. At(at, all)
  BY DEF all
<1>5. \A i \in 1..Len(all) : Byte(at + i - 1) = all[i]
  BY <1>4, AtByte
<1>6. \A i \in 1..Len(upTo) : Byte(at + i - 1) = upTo[i]
  <2> SUFFICES ASSUME NEW i \in 1..Len(upTo) PROVE Byte(at + i - 1) = upTo[i]
    OBVIOUS
  <2>1. i \in 1..Len(all)
    BY <1>2, <1>3
  <2> QED BY <2>1, <1>2, <1>5
<1>7. Field(at, Len(upTo)) = upTo
  BY <1>1, <1>6, FieldsEqual
<1>8. at + Len(upTo) <= Size
  <2>1. at + Len(all) <= Size /\ Size \in Nat
    BY <1>4, PayloadType DEF At
  <2> QED BY <2>1, <1>2, <1>3
<1>9. At(at, upTo)
  BY <1>1, <1>7, <1>8 DEF At
<1>10. At(at + Len(before), parts[k]) /\ at + Len(before) \in Nat
  BY <1>1, <1>9, AtConcat
<1> QED BY <1>2, <1>10 DEF JoinLen, p, before, upTo, all

\* Parts of one length.
OneLength(parts, l, n) == \A k \in 0..n : JoinLen(parts, k) = l * k

LEMMA PartsOfOneLength ==
  ASSUME NEW n \in Nat, NEW parts, NEW l \in Nat,
         \A k \in 1..n : parts[k] \in Seq(0..255) /\ Len(parts[k]) = l
  PROVE  OneLength(parts, l, n)
<1> DEFINE S == {k \in Nat : k <= n => JoinLen(parts, k) = l * k}
<1>1. /\ JoinLen(parts, 0) = 0
      /\ \A k \in 1..n : JoinLen(parts, k) = JoinLen(parts, k - 1) + Len(parts[k])
  BY JoinStep
<1>2. 0 \in S
  BY <1>1
<1>3. ASSUME NEW k \in Nat, k \in S PROVE k + 1 \in S
  <2> SUFFICES ASSUME k + 1 <= n PROVE JoinLen(parts, k + 1) = l * (k + 1)
    OBVIOUS
  <2> DEFINE j == k + 1
  <2>1. j \in 1..n /\ j - 1 = k /\ JoinLen(parts, k) = l * k /\ l * (k + 1) = l * k + l
    BY <1>3
  <2> HIDE DEF j
  <2>2. JoinLen(parts, j) = JoinLen(parts, k) + l
    BY <2>1, <1>1
  <2> QED BY <2>1, <2>2 DEF j
<1> HIDE DEF S
<1>4. \A k \in Nat : k \in S
  BY <1>2, <1>3, Induction
<1> QED BY <1>4 DEF S, OneLength

LEMMA VotePartsType ==
  ASSUME NEW records, VoteTypes(records)
  PROVE  LET parts == VoteParts(records) IN
         /\ Len(records) \in Nat /\ Len(records) \in 0..255 /\ Len(parts) = Len(records)
         /\ \A k \in 1..Len(records) :
              /\ parts[k] \in Seq(0..255) /\ parts[k] = VoteBytes(records[k])
              /\ Len(parts[k]) = 3 + Len(records[k].name)
<1> DEFINE parts == VoteParts(records)
<1>1. Len(records) \in 0..255
  BY DEF VoteTypes
<1>2. Len(records) \in Nat
  BY <1>1
<1>3. Len(parts) = Len(records) /\ \A k \in 1..Len(records) : parts[k] = VoteBytes(records[k])
  BY <1>2 DEF VoteParts
<1>4. \A k \in 1..Len(records) : Octets(VoteBytes(records[k]), 3 + Len(records[k].name))
  BY VoteBytesType DEF VoteTypes
<1> HIDE DEF parts
<1>5. \A k \in 1..Len(records) : parts[k] \in Seq(0..255) /\ Len(parts[k]) = 3 + Len(records[k].name)
  BY <1>3, <1>4 DEF Octets
<1> QED BY <1>1, <1>2, <1>3, <1>5 DEF parts

LEMMA PaymentPartsType ==
  ASSUME NEW records, PaymentTypes(records)
  PROVE  LET parts == PaymentParts(records) IN
         /\ Len(records) \in Nat /\ Len(records) \in 0..TwoTo16 - 1 /\ Len(parts) = Len(records)
         /\ \A k \in 1..Len(records) :
              /\ parts[k] \in Seq(0..255) /\ parts[k] = PaymentBytes(records[k])
              /\ Len(parts[k]) = 29
<1> DEFINE parts == PaymentParts(records)
<1>1. Len(records) \in 0..TwoTo16 - 1
  BY DEF PaymentTypes
<1>2. Len(records) \in Nat
  BY <1>1, SixteenBits
<1>3. Len(parts) = Len(records) /\ \A k \in 1..Len(records) : parts[k] = PaymentBytes(records[k])
  BY <1>2 DEF PaymentParts
<1>4. \A k \in 1..Len(records) : Octets(PaymentBytes(records[k]), 29)
  BY PaymentBytesType DEF PaymentTypes
<1> HIDE DEF parts
<1>5. \A k \in 1..Len(records) : parts[k] \in Seq(0..255) /\ Len(parts[k]) = 29
  BY <1>3, <1>4 DEF Octets
<1> QED BY <1>1, <1>2, <1>3, <1>5 DEF parts

\* A vote and a payment, as the deserialiser reads them.
LEMMA VoteIsThere ==
  ASSUME payload \in Payloads, NEW o \in Nat, NEW v, v.name \in Seq(0..255),
         Len(v.name) \in 0..255, v.percent \in 0..TwoTo16 - 1, At(o, VoteBytes(v))
  PROVE  /\ Byte(o) = Len(v.name) /\ Field(o + 1, Byte(o)) = v.name
         /\ U16(o + 1 + Byte(o)) = v.percent /\ o + 3 + Byte(o) <= Size
<1> DEFINE n == Len(v.name)
           l == U8(n)
           p == U16LE(v.percent)
<1>1. /\ Octets(l, 1) /\ Octets(v.name, n) /\ Octets(l \o v.name, 1 + n) /\ Octets(p, 2)
      /\ Octets(VoteBytes(v), 3 + n) /\ v.percent \in Nat
  BY VoteBytesType, Zenon
<1>2. n \in Nat
  OBVIOUS
<1>3. VoteBytes(v) = (l \o v.name) \o p
  BY DEF VoteBytes
<1> HIDE DEF n
<1>4. 1 \in Nat /\ 2 \in Nat /\ 1 + n \in Nat
  BY <1>2, SMTT(40)
<1>5. At(o, l \o v.name) /\ At(o + (1 + n), p) /\ o + (1 + n) \in Nat
  <2>1. At(o, (l \o v.name) \o p)
    BY <1>3
  <2> HIDE DEF l, p
  <2> QED BY <2>1, <1>1, <1>4, AtSplit, Zenon
<1>6. At(o, l) /\ At(o + 1, v.name) /\ o + 1 \in Nat
  <2> HIDE DEF l, p
  <2> QED BY <1>1, <1>2, <1>4, <1>5, AtSplit, Zenon
<1>7. Byte(o) = n
  BY <1>6, AtU8
<1>8. Field(o + 1, n) = v.name
  BY <1>1, <1>6, AtOctets
<1>9. U16(o + (1 + n)) = v.percent
  BY <1>1, <1>5, AtU16
<1>10. o + 3 + n <= Size
  <2>1. o + Len(VoteBytes(v)) <= Size
    BY DEF At
  <2>2. Len(VoteBytes(v)) = 3 + n
    BY <1>1 DEF Octets
  <2>3. o + (3 + n) = o + 3 + n
    BY <1>2, SMTT(40)
  <2> QED BY <2>1, <2>2, <2>3
<1>11. o + (1 + n) = o + 1 + n
  BY <1>2
<1> QED BY <1>7, <1>8, <1>9, <1>10, <1>11 DEF n

LEMMA PaymentIsThere ==
  ASSUME payload \in Payloads, NEW o \in Nat, NEW p, p.amount \in BytesOf(8),
         p.recipient \in BytesOf(21), At(o, PaymentBytes(p))
  PROVE  Field(o, 8) = p.amount /\ Field(o + 8, 21) = p.recipient
<1>1. Octets(p.amount, 8) /\ Octets(p.recipient, 21) /\ 8 \in Nat /\ 21 \in Nat
  BY PaymentBytesType
<1>2. At(o, p.amount) /\ At(o + 8, p.recipient)
  <2>1. At(o, p.amount \o p.recipient)
    BY DEF PaymentBytes
  <2> QED BY <2>1, <1>1, AtSplit, Zenon
<1> QED BY <1>1, <1>2, AtOctets

-----------------------------------------------------------------------------
(* Where the parts of the transaction are that was sent.                   *)

ListBytes(t) == IF t.asset = "vote" THEN Joined(VoteParts(t.records)) ELSE Joined(PaymentParts(t.records))

LEMMA ListsType ==
  ASSUME NEW t \in Transactions
  PROVE  /\ t.asset = "vote" =>
              /\ VoteTypes(t.records)
              /\ ListBytes(t) = JoinTo(VoteParts(t.records), Len(t.records))
              /\ ListBytes(t) \in Seq(0..255) /\ Octets(U8(Len(t.records)), 1)
         /\ t.asset = "transfer" =>
              /\ PaymentTypes(t.records)
              /\ ListBytes(t) = JoinTo(PaymentParts(t.records), Len(t.records))
              /\ ListBytes(t) \in Seq(0..255) /\ Octets(U16LE(Len(t.records)), 2)
<1>1. ASSUME t.asset = "vote"
      PROVE  /\ VoteTypes(t.records)
             /\ ListBytes(t) = JoinTo(VoteParts(t.records), Len(t.records))
             /\ ListBytes(t) \in Seq(0..255) /\ Octets(U8(Len(t.records)), 1)
  <2> DEFINE parts == VoteParts(t.records)
             n == Len(t.records)
  <2>1. VoteTypes(t.records)
    BY <1>1, TransactionType, VoteListType
  <2>2. /\ n \in Nat /\ n \in 0..255 /\ Len(parts) = n
        /\ \A k \in 1..n : parts[k] \in Seq(0..255)
    BY <2>1, VotePartsType
  <2>3. ListBytes(t) = JoinTo(parts, n)
    BY <1>1, <2>2 DEF ListBytes, Joined
  <2> HIDE DEF parts, n
  <2>4. JoinTo(parts, n) \in Seq(0..255)
    BY <2>2, JoinEquations
  <2>5. Octets(U8(n), 1)
    BY <2>2, OctetsOfU8
  <2> QED BY <2>1, <2>3, <2>4, <2>5, Zenon DEF parts, n
<1>2. ASSUME t.asset = "transfer"
      PROVE  /\ PaymentTypes(t.records)
             /\ ListBytes(t) = JoinTo(PaymentParts(t.records), Len(t.records))
             /\ ListBytes(t) \in Seq(0..255) /\ Octets(U16LE(Len(t.records)), 2)
  <2> DEFINE parts == PaymentParts(t.records)
             n == Len(t.records)
  <2>1. PaymentTypes(t.records)
    BY <1>2, TransactionType, PaymentListType
  <2>2. /\ n \in Nat /\ n \in 0..TwoTo16 - 1 /\ Len(parts) = n
        /\ \A k \in 1..n : parts[k] \in Seq(0..255)
    BY <2>1, PaymentPartsType
  <2>3. ListBytes(t) = JoinTo(parts, n)
    BY <1>2, <2>2 DEF ListBytes, Joined
  <2> HIDE DEF parts, n
  <2>4. JoinTo(parts, n) \in Seq(0..255)
    BY <2>2, JoinEquations
  <2>5. Octets(U16LE(n), 2)
    BY <2>2, U16LEType DEF Octets
  <2> QED BY <2>1, <2>3, <2>4, <2>5, Zenon DEF parts, n
<1> QED BY <1>1, <1>2

LEMMA SingleType ==
  ASSUME NEW t \in Transactions
  PROVE  /\ t.asset = "burn" => Octets(t.records[1], 8) /\ t.records = <<t.records[1]>>
         /\ t.asset = "ipfs" => t.records[1] \in Seq(0..255) /\ t.records = <<t.records[1]>>
         /\ t.asset = "message" =>
              /\ t.records[1] \in Seq(0..255) /\ t.records = <<t.records[1]>>
              /\ Len(t.records[1]) \in 0..TwoTo16 - 1
<1>1. ASSUME NEW S, t.records \in [1..1 -> S]
      PROVE  t.records[1] \in S /\ t.records = <<t.records[1]>>
  <2>1. t.records = [k \in 1..1 |-> t.records[1]] /\ t.records[1] \in S
    BY <1>1
  <2> QED BY <2>1
<1>2. CASE t.asset = "burn"
  <2>1. t.records[1] \in BytesOf(8) /\ t.records = <<t.records[1]>> /\ 8 \in Nat
    BY <1>1, <1>2, TransactionType
  <2> QED BY <1>2, <2>1, OctetsOf
<1>3. CASE t.asset = "ipfs"
  BY <1>1, <1>3, TransactionType DEF Bytes
<1>4. CASE t.asset = "message"
  <2>1. t.records[1] \in UpTo(TwoTo16 - 1, 0..255) /\ t.records = <<t.records[1]>>
    BY <1>1, <1>4, TransactionType
  <2>2. TwoTo16 - 1 \in Nat
    BY SixteenBits
  <2>3. t.records[1] \in Seq(0..255) /\ Len(t.records[1]) \in 0..TwoTo16 - 1
    BY <2>1, <2>2, UpToType, ZenonT(40)
  <2> QED BY <1>4, <2>1, <2>3
<1> QED BY <1>2, <1>3, <1>4, TransactionType

LEMMA AssetBytesType ==
  ASSUME NEW t \in Transactions, t.asset # "message"
  PROVE  /\ AssetBytes(t) \in Seq(0..255) /\ Serialised(t) = Common(t) \o AssetBytes(t)
         /\ t.asset = "vote" => AssetBytes(t) = U8(Len(t.records)) \o ListBytes(t)
         /\ t.asset = "transfer" => AssetBytes(t) = U16LE(Len(t.records)) \o ListBytes(t)
         /\ t.asset \in {"burn", "ipfs"} => AssetBytes(t) = t.records[1]
<1>1. t.asset \in {"vote", "transfer", "burn", "ipfs"} /\ CommonTypes(t)
  BY TransactionType
<1>2. Common(t) \in Seq(0..255)
  BY <1>1, CommonOctets DEF CommonPieces, Octets
<1>3. CASE t.asset = "vote"
  <2> DEFINE c == U8(Len(t.records))
             l == ListBytes(t)
  <2>1. AssetBytes(t) = c \o l /\ Serialised(t) = (Common(t) \o c) \o l
    BY <1>3 DEF AssetBytes, Serialised, ListBytes
  <2>2. c \in Seq(0..255) /\ l \in Seq(0..255)
    BY <1>3, ListsType DEF Octets
  <2> HIDE DEF c, l
  <2>3. (Common(t) \o c) \o l = Common(t) \o (c \o l) /\ c \o l \in Seq(0..255)
    BY <1>2, <2>2, ConcatAssociative, Concat
  <2> QED BY <1>3, <2>1, <2>3 DEF c, l
<1>4. CASE t.asset = "transfer"
  <2> DEFINE c == U16LE(Len(t.records))
             l == ListBytes(t)
  <2>1. AssetBytes(t) = c \o l /\ Serialised(t) = (Common(t) \o c) \o l
    BY <1>4 DEF AssetBytes, Serialised, ListBytes
  <2>2. c \in Seq(0..255) /\ l \in Seq(0..255)
    BY <1>4, ListsType DEF Octets
  <2> HIDE DEF c, l
  <2>3. (Common(t) \o c) \o l = Common(t) \o (c \o l) /\ c \o l \in Seq(0..255)
    BY <1>2, <2>2, ConcatAssociative, Concat
  <2> QED BY <1>4, <2>1, <2>3 DEF c, l
<1>5. CASE t.asset \in {"burn", "ipfs"}
  <2>1. t.records[1] \in Seq(0..255)
    BY <1>5, SingleType DEF Octets
  <2> QED BY <1>5, <2>1 DEF AssetBytes, Serialised
<1> QED BY <1>1, <1>3, <1>4, <1>5

SentIsRead(t) ==
  /\ t \in Transactions /\ t.asset \in {"vote", "transfer", "burn", "ipfs"}
  /\ CommonTypes(t) /\ HeaderOf(t) /\ Len(t.memo) \in 0..255
  /\ Byte(0) = 255 /\ Byte(1) = 3 /\ Byte(2) = t.network
  /\ Asset = t.asset /\ MemoLen = Len(t.memo)
  /\ HeaderLen + MemoLen \in Nat /\ At(HeaderLen + MemoLen, AssetBytes(t))
  /\ Size = HeaderLen + MemoLen + Len(AssetBytes(t))
  /\ payload.kind # "message"

LEMMA SentIsThere ==
  ASSUME payload \in Payloads, Undamaged, payload.sent.asset # "message"
  PROVE  SentIsRead(payload.sent)
<1> DEFINE t == payload.sent
           n == Len(t.memo)
           a == AssetBytes(t)
<1>1. /\ t \in Transactions /\ t.asset # "message" /\ payload.kind # "message"
  BY SentAssumption
<1> HIDE DEF t
<1>2. t.asset \in {"vote", "transfer", "burn", "ipfs"} /\ CommonTypes(t)
  BY <1>1, TransactionType
<1>3. a \in Seq(0..255) /\ Serialised(t) = Common(t) \o a
  BY <1>1, AssetBytesType
<1>4. CommonPieces(t)
  BY <1>2, CommonOctets
<1>5. n \in 0..255 /\ Octets(Common(t), 59 + n)
  BY <1>4, Zenon DEF CommonPieces
<1>6. At(0, Common(t) \o a) /\ Size = Len(Common(t) \o a)
  BY <1>3, AtAll DEF t
<1> HIDE DEF n, a
<1>7. 59 + n \in Nat /\ Len(a) \in Nat /\ Octets(a, Len(a))
  BY <1>3, <1>5, LenProperties DEF Octets
<1>8. AtTwo(59 + n, Common(t), a, Len(a))
  BY <1>5, <1>6, <1>7, AtHead
<1>9. At(0, Common(t)) /\ At(59 + n, a)
  BY <1>8 DEF AtTwo
<1>10. Size = 59 + n + Len(a)
  <2>1. Octets(Common(t) \o a, (59 + n) + Len(a))
    BY <1>5, <1>7, OctetsConcat
  <2> QED BY <2>1, <1>6 DEF Octets
<1>11. HeaderOf(t)
  BY <1>2, <1>9, HeaderIsThere
<1>12. t.network \in 0..255
  BY <1>2 DEF CommonTypes
<1>13. /\ Byte(0) = 255 /\ Byte(1) = 3 /\ Byte(2) = t.network
       /\ Asset = t.asset /\ MemoLen = n
  BY <1>2, <1>11, <1>12, HeaderIsRead DEF n
<1>14. HeaderLen + MemoLen = 59 + n
  BY <1>13 DEF HeaderLen
<1>15. Size = HeaderLen + MemoLen + Len(a)
  BY <1>10, <1>14
<1> QED BY <1>1, <1>2, <1>5, <1>7, <1>9, <1>11, <1>13, <1>14, <1>15, Zenon DEF SentIsRead, t, n, a

\* Where the votes that were sent are: in front of them are the votes before them.
VoteAt(t, k) == HeaderLen + MemoLen + 1 + JoinLen(VoteParts(t.records), k - 1)

VotesAreThere(t) ==
  LET n == Len(t.records)
      o == HeaderLen + MemoLen
  IN  /\ Byte(o) = n /\ n \in 0..255 /\ o + 1 \in Nat
      /\ \A k \in 1..n : LET v == t.records[k]
                             at == VoteAt(t, k)
                         IN  /\ at \in Nat /\ Byte(at) = Len(v.name) /\ Field(at + 1, Byte(at)) = v.name
                             /\ U16(at + 1 + Byte(at)) = v.percent /\ VoteEnd(at) <= Size
                             /\ VoteEnd(at) = VoteAt(t, k + 1)
      /\ VoteAt(t, 1) = o + 1 /\ VoteAt(t, n + 1) = Size

LEMMA SentVotes ==
  ASSUME payload \in Payloads, NEW t, SentIsRead(t), t.asset = "vote"
  PROVE  VotesAreThere(t)
<1> DEFINE o == HeaderLen + MemoLen
           records == t.records
           n == Len(records)
           parts == VoteParts(records)
           c == U8(n)
           l == ListBytes(t)
<1>1. t \in Transactions /\ o \in Nat /\ At(o, AssetBytes(t)) /\ Size = o + Len(AssetBytes(t))
  BY DEF SentIsRead
<1>2. AssetBytes(t) = c \o l
  BY <1>1, AssetBytesType
<1>3. /\ VoteTypes(records) /\ l = JoinTo(parts, n) /\ l \in Seq(0..255) /\ Octets(c, 1)
  BY <1>1, ListsType
<1>4. /\ n \in Nat /\ n \in 0..255
      /\ \A k \in 1..n : /\ parts[k] \in Seq(0..255) /\ parts[k] = VoteBytes(records[k])
                         /\ Len(parts[k]) = 3 + Len(records[k].name)
  BY <1>3, VotePartsType, ZenonT(40)
<1>5. \A k \in 1..n : /\ records[k].name \in Seq(0..255) /\ Len(records[k].name) \in 0..255
                      /\ records[k].percent \in 0..TwoTo16 - 1
  BY <1>3 DEF VoteTypes
<1>6. \A k \in 1..n : VoteAt(t, k) = o + 1 + JoinLen(parts, k - 1)
  BY DEF VoteAt
<1>7. VoteAt(t, n + 1) = o + 1 + JoinLen(parts, n) /\ VoteAt(t, 1) = o + 1 + JoinLen(parts, 0)
  <2>1. n + 1 - 1 = n /\ 1 - 1 = 0
    BY <1>4
  <2> QED BY <2>1 DEF VoteAt
<1>8. \A k \in 1..n : VoteAt(t, k + 1) = o + 1 + JoinLen(parts, k)
  <2>1. \A k \in 1..n : k + 1 - 1 = k
    OBVIOUS
  <2> QED BY <2>1 DEF VoteAt
<1> HIDE DEF o, records, n, parts, c, l
<1>9. Len(l) \in Nat /\ Octets(l, Len(l)) /\ 1 \in Nat /\ o + 1 \in Nat
  BY <1>1, <1>3, LenProperties DEF Octets
<1>10. At(o, c) /\ At(o + 1, l)
  <2>1. At(o, c \o l)
    BY <1>1, <1>2
  <2> QED BY <2>1, <1>1, <1>3, <1>9, AtSplit, Zenon
<1>11. Byte(o) = n
  BY <1>1, <1>10, AtU8 DEF c
<1>12. /\ \A k \in 0..n : JoinLen(parts, k) \in Nat
       /\ JoinLen(parts, 0) = 0
       /\ \A k \in 1..n : JoinLen(parts, k) = JoinLen(parts, k - 1) + Len(parts[k])
  BY <1>4, JoinStep, ZenonT(40)
<1>13. ASSUME NEW k \in 1..n
       PROVE  LET v == records[k]
                  at == VoteAt(t, k)
              IN  /\ at \in Nat /\ Byte(at) = Len(v.name) /\ Field(at + 1, Byte(at)) = v.name
                  /\ U16(at + 1 + Byte(at)) = v.percent /\ VoteEnd(at) <= Size
                  /\ VoteEnd(at) = VoteAt(t, k + 1)
  <2> DEFINE v == records[k]
             at == o + 1 + JoinLen(parts, k - 1)
  <2>1. At(at, parts[k]) /\ at \in Nat
    <3>1. At(o + 1, JoinTo(parts, n))
      BY <1>3, <1>10
    <3> QED BY <3>1, <1>4, <1>9, PartIsThere
  <2>2. /\ at = VoteAt(t, k) /\ parts[k] = VoteBytes(v) /\ Len(parts[k]) = 3 + Len(v.name)
        /\ v.name \in Seq(0..255) /\ Len(v.name) \in 0..255 /\ v.percent \in 0..TwoTo16 - 1
    BY <1>4, <1>5, <1>6, ZenonT(40)
  <2>3. VoteAt(t, k + 1) = o + 1 + (JoinLen(parts, k - 1) + Len(parts[k]))
    BY <1>8, <1>12
  <2>4. JoinLen(parts, k - 1) \in Nat
    <3>1. k - 1 \in 0..n
      BY <1>4
    <3> QED BY <3>1, <1>12
  <2> DEFINE j == JoinLen(parts, k - 1)
             m == Len(v.name)
  <2>5. at + 3 + m = o + 1 + (j + (3 + m))
    <3>1. m \in Nat /\ j \in Nat /\ o \in Nat /\ at = o + 1 + j
      BY <2>2, <2>4, <1>1
    <3> HIDE DEF m, j, at
    <3> QED BY <3>1
  <2> HIDE DEF at, v
  <2>6. /\ Byte(at) = Len(v.name) /\ Field(at + 1, Byte(at)) = v.name
        /\ U16(at + 1 + Byte(at)) = v.percent /\ at + 3 + Byte(at) <= Size
    <3>1. At(at, VoteBytes(v))
      BY <2>1, <2>2
    <3> QED BY <3>1, <2>1, <2>2, VoteIsThere, Zenon
  <2>7. VoteEnd(at) = VoteAt(t, k + 1)
    BY <2>2, <2>3, <2>5, <2>6 DEF VoteEnd
  <2> QED BY <2>1, <2>2, <2>6, <2>7 DEF VoteEnd, v
<1>14. VoteAt(t, 1) = o + 1
  BY <1>7, <1>9, <1>12
<1>15. VoteAt(t, n + 1) = Size
  <2>1. Octets(c \o l, 1 + Len(l))
    BY <1>3, <1>9, OctetsConcat
  <2>2. Size = o + (1 + Len(l))
    BY <2>1, <1>1, <1>2 DEF Octets
  <2>3. Len(l) = JoinLen(parts, n)
    BY <1>3 DEF JoinLen
  <2>4. o + (1 + Len(l)) = o + 1 + Len(l)
    BY <1>1, <1>9
  <2> QED BY <2>2, <2>3, <2>4, <1>7
<1> QED BY <1>4, <1>9, <1>11, <1>13, <1>14, <1>15 DEF VotesAreThere, o, n, records

PaymentAt(k) == HeaderLen + MemoLen + 2 + PaymentLen * (k - 1)

PaymentsAreThere(t) ==
  LET n == Len(t.records)
      o == HeaderLen + MemoLen
  IN  /\ U16(o) = n /\ n \in 0..TwoTo16 - 1 /\ o + 2 \in Nat
      /\ \A k \in 1..n : /\ Field(PaymentAt(k), 8) = t.records[k].amount
                         /\ Field(PaymentAt(k) + 8, 21) = t.records[k].recipient
      /\ Size = o + 2 + PaymentLen * n

LEMMA SentPayments ==
  ASSUME payload \in Payloads, NEW t, SentIsRead(t), t.asset = "transfer"
  PROVE  PaymentsAreThere(t)
<1> DEFINE o == HeaderLen + MemoLen
           records == t.records
           n == Len(records)
           parts == PaymentParts(records)
           c == U16LE(n)
           l == ListBytes(t)
<1>1. t \in Transactions /\ o \in Nat /\ At(o, AssetBytes(t)) /\ Size = o + Len(AssetBytes(t))
  BY DEF SentIsRead
<1>2. AssetBytes(t) = c \o l
  BY <1>1, AssetBytesType
<1>3. /\ PaymentTypes(records) /\ l = JoinTo(parts, n) /\ l \in Seq(0..255) /\ Octets(c, 2)
  BY <1>1, ListsType
<1>4. /\ n \in Nat /\ n \in 0..TwoTo16 - 1
      /\ \A k \in 1..n : /\ parts[k] \in Seq(0..255) /\ parts[k] = PaymentBytes(records[k])
                         /\ Len(parts[k]) = 29
  BY <1>3, PaymentPartsType
<1>5. \A k \in 1..n : records[k].amount \in BytesOf(8) /\ records[k].recipient \in BytesOf(21)
  BY <1>3 DEF PaymentTypes
<1>6. PaymentLen = 29
  BY DEF PaymentLen, PubkeyHashLen, AmountLen
<1>7. \A k \in 1..n : PaymentAt(k) = o + 2 + 29 * (k - 1)
  BY <1>6 DEF PaymentAt
<1> HIDE DEF o, records, n, parts, c, l
<1>8. Len(l) \in Nat /\ Octets(l, Len(l)) /\ 2 \in Nat /\ o + 2 \in Nat
  BY <1>1, <1>3, LenProperties DEF Octets
<1>9. At(o, c) /\ At(o + 2, l)
  <2>1. At(o, c \o l)
    BY <1>1, <1>2
  <2> QED BY <2>1, <1>1, <1>3, <1>8, AtSplit, Zenon
<1>10. U16(o) = n
  BY <1>1, <1>4, <1>9, AtU16 DEF c
<1>11. \A k \in 0..n : JoinLen(parts, k) = 29 * k
  <2>1. 29 \in Nat
    OBVIOUS
  <2>2. n \in Nat /\ \A k \in 1..n : parts[k] \in Seq(0..255) /\ Len(parts[k]) = 29
    BY <1>4
  <2>3. OneLength(parts, 29, n)
    BY <2>1, <2>2, PartsOfOneLength
  <2> QED BY <2>3 DEF OneLength
<1>12. ASSUME NEW k \in 1..n
       PROVE  /\ Field(PaymentAt(k), 8) = records[k].amount
              /\ Field(PaymentAt(k) + 8, 21) = records[k].recipient
  <2> DEFINE at == o + 2 + JoinLen(parts, k - 1)
  <2>1. At(at, parts[k]) /\ at \in Nat
    <3>1. At(o + 2, JoinTo(parts, n))
      BY <1>3, <1>9
    <3> QED BY <3>1, <1>4, <1>8, PartIsThere
  <2>2. at = PaymentAt(k)
    <3>1. k - 1 \in 0..n
      BY <1>4
    <3> QED BY <3>1, <1>7, <1>11
  <2> HIDE DEF at
  <2>3. At(at, PaymentBytes(records[k]))
    BY <2>1, <1>4
  <2>4. Field(at, 8) = records[k].amount /\ Field(at + 8, 21) = records[k].recipient
    BY <2>1, <2>3, <1>5, PaymentIsThere
  <2> QED BY <2>2, <2>4
<1>13. Size = o + 2 + PaymentLen * n
  <2>1. Octets(c \o l, 2 + Len(l))
    BY <1>3, <1>8, OctetsConcat
  <2>2. Size = o + (2 + Len(l))
    BY <2>1, <1>1, <1>2 DEF Octets
  <2>3. Len(l) = 29 * n
    <3>1. n \in 0..n
      BY <1>4
    <3> QED BY <3>1, <1>3, <1>11 DEF JoinLen
  <2>4. o + (2 + Len(l)) = o + 2 + Len(l)
    BY <1>1, <1>8
  <2> QED BY <2>2, <2>3, <2>4, <1>6
<1> QED BY <1>4, <1>8, <1>10, <1>12, <1>13 DEF PaymentsAreThere, o, n, records

\* The records of one part.
SingleIsThere(t) ==
  LET r == t.records[1]
      o == HeaderLen + MemoLen
  IN  /\ r \in Seq(0..255) /\ t.records = <<r>> /\ Len(r) \in Nat
      /\ Size = o + Len(r) /\ Field(o, Len(r)) = r
      /\ \A k \in 1..Len(r) : Byte(o + k - 1) = r[k]
      /\ t.asset = "burn" => Len(r) = 8

LEMMA SentSingle ==
  ASSUME payload \in Payloads, NEW t, SentIsRead(t), t.asset \in {"burn", "ipfs"}
  PROVE  SingleIsThere(t)
<1> DEFINE o == HeaderLen + MemoLen
           r == t.records[1]
<1>1. t \in Transactions /\ o \in Nat /\ At(o, AssetBytes(t)) /\ Size = o + Len(AssetBytes(t))
  BY DEF SentIsRead
<1>2. AssetBytes(t) = r
  BY <1>1, AssetBytesType
<1>3. r \in Seq(0..255) /\ t.records = <<r>> /\ (t.asset = "burn" => Len(r) = 8)
  BY <1>1, SingleType DEF Octets
<1>4. At(o, r) /\ Size = o + Len(r)
  BY <1>1, <1>2
<1> HIDE DEF o, r
<1>5. Len(r) \in Nat /\ \A k \in 1..Len(r) : Byte(o + k - 1) = r[k]
  BY <1>1, <1>4, AtByte
<1>6. Field(o, Len(r)) = r
  BY <1>4 DEF At
<1> QED BY <1>3, <1>4, <1>5, <1>6 DEF SingleIsThere, o, r

\* A message.
MessageIsThere(t) ==
  LET r == t.records[1]
  IN  /\ t = [asset |-> "message", records |-> <<r>>] /\ r \in Seq(0..255)
      /\ Len(r) \in 0..TwoTo16 - 1 /\ Len(r) \in Nat
      /\ U16(0) = Len(r) /\ Size = 2 + Len(r) /\ Field(2, Len(r)) = r
      /\ \A k \in 1..Len(r) : Byte(2 + k - 1) = r[k]

LEMMA SentMessage ==
  ASSUME payload \in Payloads, Undamaged, payload.sent.asset = "message"
  PROVE  MessageIsThere(payload.sent) /\ payload.kind = "message"
<1> DEFINE t == payload.sent
           r == t.records[1]
           c == U16LE(Len(r))
<1>1. t \in Transactions /\ t.asset = "message" /\ payload.kind = "message"
  BY SentAssumption
<1>2. At(0, Serialised(t)) /\ Size = Len(Serialised(t))
  BY AtAll
<1> HIDE DEF t
<1>3. t = [asset |-> "message", records |-> t.records]
  BY <1>1, TransactionType
<1>4. r \in Seq(0..255) /\ t.records = <<r>> /\ Len(r) \in 0..TwoTo16 - 1
  BY <1>1, SingleType
<1>5. Serialised(t) = c \o r
  BY <1>1 DEF Serialised
<1> HIDE DEF r
<1>6. Octets(c, 2) /\ Octets(r, Len(r)) /\ Len(r) \in Nat /\ 2 \in Nat
  BY <1>4, U16LEType, LenProperties DEF Octets
<1> HIDE DEF c
<1>7. AtTwo(2, c, r, Len(r))
  BY <1>2, <1>5, <1>6, AtHead
<1>8. At(0, c) /\ At(2, r) /\ Field(2, Len(r)) = r
  BY <1>7 DEF AtTwo
<1>9. U16(0) = Len(r)
  BY <1>6, <1>8, AtU16 DEF c
<1>10. \A k \in 1..Len(r) : Byte(2 + k - 1) = r[k]
  BY <1>6, <1>8, AtByte
<1>11. Size = 2 + Len(r)
  <2>1. Octets(c \o r, 2 + Len(r))
    BY <1>6, OctetsConcat
  <2> QED BY <2>1, <1>2, <1>5 DEF Octets
<1>12. t = [asset |-> "message", records |-> <<r>>]
  BY <1>3, <1>4
<1> QED BY <1>1, <1>4, <1>6, <1>8, <1>9, <1>10, <1>11, <1>12, Zenon DEF MessageIsThere, t, r

-----------------------------------------------------------------------------
(* Nothing that should be accepted is refused.                             *)

Wanted == Undamaged /\ (Legal(payload.sent) \/ SumWraps(payload.sent))

VotesWanted(records) ==
  LegalVotes(records) /\ (records # <<>> => PercentSum(records) % TwoTo16 = Hundred)

LEMMA HundredIs == Hundred = PercentageMax
BY DEF Hundred, PercentageMax

LEMMA WantedCommon ==
  ASSUME NEW t, t.asset # "message", Legal(t) \/ SumWraps(t)
  PROVE  /\ LegalCommon(t)
         /\ t.asset = "vote" => VotesWanted(t.records)
         /\ t.asset # "vote" => LegalAsset(t)
<1>1. CASE Legal(t)
  <2>1. LegalCommon(t) /\ LegalAsset(t)
    BY <1>1 DEF Legal
  <2>2. ASSUME t.asset = "vote" PROVE VotesWanted(t.records)
    <3>1. LegalVotes(t.records) /\ (t.records # <<>> => PercentSum(t.records) = Hundred)
      BY <2>1, <2>2 DEF LegalAsset
    <3>2. Hundred % TwoTo16 = Hundred
      BY DEF TwoTo16, Hundred
    <3> QED BY <3>1, <3>2 DEF VotesWanted
  <2> QED BY <2>1, <2>2
<1>2. CASE SumWraps(t)
  BY <1>2 DEF SumWraps, VotesWanted
<1> QED BY <1>1, <1>2

\* A printable text is ASCII to the device.
LEMMA TextIsAscii ==
  ASSUME payload \in Payloads, NEW o \in Nat, NEW s, Printable(s), Len(s) \in Nat,
         \A k \in 1..Len(s) : Byte(o + k - 1) = s[k]
  PROVE  Ascii(o, Len(s), FALSE)
<1> SUFFICES ASSUME NEW k \in o..o + Len(s) - 1 PROVE Byte(k) \in 32..126
  BY DEF Ascii
<1> DEFINE j == k - o + 1
<1>1. j \in 1..Len(s) /\ o + j - 1 = k
  OBVIOUS
<1> HIDE DEF j
<1>2. Byte(k) = s[j] /\ s[j] \in 32..126
  BY <1>1 DEF Printable
<1> QED BY <1>2

LEMMA SentWhenRead ==
  ASSUME ReadInv, Wanted, stage \in {"common", "ipfs", "transfer", "burn", "voteCount", "votes"}
  PROVE  /\ payload \in Payloads /\ SentIsRead(payload.sent)
         /\ LegalCommon(payload.sent)
         /\ payload.sent.asset = "vote" => VotesWanted(payload.sent.records)
         /\ payload.sent.asset # "vote" => LegalAsset(payload.sent)
<1>1. payload \in Payloads /\ payload.kind # "message"
  BY DEF ReadInv, Inv, ParserInv, ParserTypeOK, KindIsRight
<1>2. payload.sent.asset # "message"
  BY <1>1, SentAssumption
<1>3. SentIsRead(payload.sent)
  BY <1>1, <1>2, SentIsThere DEF Wanted
<1> QED BY <1>1, <1>2, <1>3, WantedCommon DEF Wanted

LEMMA CommonGoesOn ==
  ASSUME ReadInv, Wanted, ReadCommon
  PROVE  stage' # "refused"
<1> DEFINE t == payload.sent
<1>1. stage = "common" /\ offset = 0
  BY DEF ReadCommon, Read, ReadInv, Inv, ParserInv, StageBegins
<1>2. payload \in Payloads /\ SentIsRead(t) /\ LegalCommon(t)
  BY <1>1, SentWhenRead
<1> HIDE DEF t
<1>3. /\ t.asset \in {"vote", "transfer", "burn", "ipfs"} /\ HeaderOf(t) /\ Len(t.memo) \in 0..255
      /\ Byte(0) = 255 /\ Byte(1) = 3 /\ Byte(2) = t.network
      /\ Asset = t.asset /\ MemoLen = Len(t.memo)
      /\ Size = HeaderLen + MemoLen + Len(AssetBytes(t)) /\ t \in Transactions
  BY <1>2 DEF SentIsRead
<1>4. Byte(2) \in {63, 30} /\ Printable(t.memo)
  BY <1>2, <1>3 DEF LegalCommon
<1>5. Len(AssetBytes(t)) \in Nat
  <2>1. AssetBytes(t) \in Seq(0..255)
    BY <1>3, AssetBytesType
  <2> QED BY <2>1, LenProperties
<1>6. Len(t.memo) \in Nat
  BY <1>3
<1>7. Has(HeaderLen) /\ Has(HeaderLen + MemoLen)
  <2> DEFINE m == Len(t.memo)
             a == Len(AssetBytes(t))
  <2>1. m \in Nat /\ a \in Nat /\ Size = 59 + m + a /\ MemoLen = m /\ HeaderLen = 59
    BY <1>3, <1>5, <1>6 DEF HeaderLen
  <2> HIDE DEF m, a
  <2> QED BY <2>1, <1>1 DEF Has
<1>8. Ascii(HeaderLen, MemoLen, FALSE)
  <2>1. Field(59, Len(t.memo)) = t.memo
    BY <1>3 DEF HeaderOf
  <2>2. 59 \in Nat /\ HeaderLen = 59
    BY DEF HeaderLen
  <2> DEFINE m == t.memo
             n == Len(m)
             f == Field(59, n)
  <2>3. f = m /\ n \in Nat /\ payload \in Payloads /\ Printable(m) /\ MemoLen = n
    BY <2>1, <1>2, <1>3, <1>4, <1>6
  <2>4. \A k \in 1..n : f[k] = Byte(59 + k - 1)
    <3>1. n \in Nat /\ payload \in Payloads
      BY <2>3
    <3> HIDE DEF n
    <3> QED BY <2>2, <3>1, FieldType, Zenon
  <2> HIDE DEF f
  <2>5. \A k \in 1..n : Byte(59 + k - 1) = m[k]
    BY <2>3, <2>4
  <2> HIDE DEF m
  <2>6. Ascii(59, n, FALSE)
    BY <2>2, <2>3, <2>5, TextIsAscii, Zenon
  <2> QED BY <2>2, <2>3, <2>6
<1>9. ValidHeader
  BY <1>3, <1>4, <1>7, <1>8 DEF ValidHeader
<1> QED BY <1>3, <1>9 DEF ReadCommon, Read

LEMMA ReadStages ==
  ASSUME ReadInv, stage \in {"ipfs", "transfer", "burn", "voteCount"}
  PROVE  /\ offset = HeaderLen + MemoLen /\ tx.asset = Asset
         /\ stage \in {"ipfs", "transfer", "burn"} => tx.asset = stage
         /\ stage = "voteCount" => tx.asset = "vote"
<1>1. CommonIsRead
  BY DEF ReadInv, CommonRead
<1>2. offset = MemoEnd
  BY DEF ReadInv, Inv, ParserInv, StageBegins
<1>3. MemoEnd = HeaderLen + MemoLen
  BY <1>1 DEF CommonIsRead, MemoEnd
<1> QED BY <1>1, <1>2, <1>3 DEF CommonIsRead, ReadInv, Inv, ParserInv, StageBegins

LEMMA IpfsGoesOn ==
  ASSUME ReadInv, Wanted, ReadIpfs
  PROVE  stage' # "refused"
<1> DEFINE t == payload.sent
           r == t.records[1]
           n == Len(r)
<1>1. stage = "ipfs"
  BY DEF ReadIpfs, Read
<1>2. payload \in Payloads /\ SentIsRead(t) /\ (t.asset # "vote" => LegalAsset(t))
  BY <1>1, SentWhenRead
<1>3. offset = HeaderLen + MemoLen /\ Asset = "ipfs" /\ offset \in Nat
  BY <1>1, ReadStages DEF ReadInv, Inv, ParserInv, ParserTypeOK
<1> HIDE DEF t
<1>4. t.asset = "ipfs"
  BY <1>2, <1>3 DEF SentIsRead
<1>5. /\ n \in Nat /\ Size = offset + n /\ \A k \in 1..n : Byte(offset + k - 1) = r[k]
  BY <1>2, <1>3, <1>4, SentSingle DEF SingleIsThere
<1>6. n \in 3..66 /\ r[2] = n - 2
  BY <1>2, <1>4 DEF LegalAsset
<1> HIDE DEF r, n
<1>7. Byte(offset + 1) = n - 2
  <2>1. 2 \in 1..n /\ offset + 2 - 1 = offset + 1
    BY <1>3, <1>6
  <2>2. Byte(offset + 2 - 1) = r[2]
    BY <2>1, <1>5
  <2> QED BY <2>1, <2>2, <1>6
<1>8. /\ Has(2) /\ Byte(offset + 1) \in 1..64
      /\ offset + 2 + Byte(offset + 1) <= Size /\ offset + 2 + Byte(offset + 1) = Size
  BY <1>3, <1>5, <1>6, <1>7 DEF Has
<1> QED BY <1>8 DEF ReadIpfs, Read

LEMMA TransferGoesOn ==
  ASSUME ReadInv, Wanted, ReadTransfer
  PROVE  stage' # "refused"
<1> DEFINE t == payload.sent
           n == Len(t.records)
<1>1. stage = "transfer"
  BY DEF ReadTransfer, Read
<1>2. payload \in Payloads /\ SentIsRead(t) /\ (t.asset # "vote" => LegalAsset(t))
  BY <1>1, SentWhenRead
<1>3. offset = HeaderLen + MemoLen /\ Asset = "transfer" /\ offset \in Nat
  BY <1>1, ReadStages DEF ReadInv, Inv, ParserInv, ParserTypeOK
<1> HIDE DEF t
<1>4. t.asset = "transfer"
  BY <1>2, <1>3 DEF SentIsRead
<1>5. U16(offset) = n /\ Size = offset + 2 + PaymentLen * n
  BY <1>2, <1>3, <1>4, SentPayments DEF PaymentsAreThere
<1>6. n \in 1..127
  BY <1>2, <1>4 DEF LegalAsset
<1> HIDE DEF n
<1>7. PaymentCount(n)
  BY <1>6 DEF PaymentCount, PaymentCountMax
<1>8. Has(2) /\ offset + 2 + PaymentLen * n <= Size
  BY <1>3, <1>5, <1>6 DEF Has, PaymentLen, PubkeyHashLen, AmountLen
<1>9. /\ Has(2) /\ PaymentCount(U16(offset)) /\ offset + 2 + PaymentLen * U16(offset) <= Size
      /\ offset + 2 + PaymentLen * U16(offset) = Size
  BY <1>5, <1>7, <1>8
<1> QED BY <1>9 DEF ReadTransfer, Read

LEMMA BurnGoesOn ==
  ASSUME ReadInv, Wanted, ReadBurn
  PROVE  stage' # "refused"
<1> DEFINE t == payload.sent
<1>1. stage = "burn"
  BY DEF ReadBurn, Read
<1>2. payload \in Payloads /\ SentIsRead(t)
  BY <1>1, SentWhenRead
<1>3. offset = HeaderLen + MemoLen /\ Asset = "burn" /\ offset \in Nat
  BY <1>1, ReadStages DEF ReadInv, Inv, ParserInv, ParserTypeOK
<1> HIDE DEF t
<1>4. t.asset = "burn"
  BY <1>2, <1>3 DEF SentIsRead
<1>5. Size = offset + 8
  BY <1>2, <1>3, <1>4, SentSingle DEF SingleIsThere
<1>6. offset + AmountLen <= Size /\ offset + AmountLen = Size
  BY <1>3, <1>5 DEF AmountLen
<1> QED BY <1>6 DEF ReadBurn, Read

LEMMA VoteCountGoesOn ==
  ASSUME ReadInv, Wanted, ReadVoteCount
  PROVE  stage' # "refused"
<1> DEFINE t == payload.sent
           n == Len(t.records)
<1>1. stage = "voteCount"
  BY DEF ReadVoteCount, Read
<1>2. payload \in Payloads /\ SentIsRead(t) /\ (t.asset = "vote" => VotesWanted(t.records))
  BY <1>1, SentWhenRead
<1>3. offset = HeaderLen + MemoLen /\ Asset = "vote" /\ offset \in Nat
  BY <1>1, ReadStages DEF ReadInv, Inv, ParserInv, ParserTypeOK
<1> HIDE DEF t
<1>4. t.asset = "vote"
  BY <1>2, <1>3 DEF SentIsRead
<1>5. Byte(offset) = n /\ n \in 0..255 /\ t.asset = "vote" /\ SentIsRead(t) /\ Size = offset + Len(AssetBytes(t))
  BY <1>2, <1>3, <1>4, SentVotes DEF VotesAreThere, SentIsRead
<1>6. n <= 53
  BY <1>2, <1>4 DEF VotesWanted, LegalVotes
<1>7. Len(AssetBytes(t)) \in Nat /\ Len(AssetBytes(t)) >= 1
  <2> DEFINE l == ListBytes(t)
  <2>1. t \in Transactions /\ t.asset # "message"
    BY <1>2, <1>4 DEF SentIsRead
  <2>2. AssetBytes(t) = U8(n) \o l /\ l \in Seq(0..255) /\ Octets(U8(n), 1)
    BY <1>4, <2>1, AssetBytesType, ListsType
  <2> HIDE DEF l
  <2>3. Len(l) \in Nat /\ Octets(l, Len(l)) /\ 1 \in Nat
    BY <2>2, LenProperties DEF Octets
  <2>4. Octets(AssetBytes(t), 1 + Len(l))
    BY <2>2, <2>3, OctetsConcat
  <2> QED BY <2>3, <2>4 DEF Octets
<1> HIDE DEF n
<1>8. Has(1)
  BY <1>3, <1>5, <1>7 DEF Has
<1>9. Has(1) /\ Byte(offset) <= VoteCountMax
  BY <1>5, <1>6, <1>8 DEF VoteCountMax
<1> QED BY <1>9 DEF ReadVoteCount, Read

\* The votes read so far are the first ones that were sent.
LEMMA StartsAreSent ==
  ASSUME ReadInv, NEW t, VotesAreThere(t), tx.at = HeaderLen + MemoLen + 1,
         Len(starts) <= Len(t.records)
  PROVE  /\ \A k \in 1..Len(starts) : starts[k] = VoteAt(t, k)
         /\ starts # <<>> => offset = VoteAt(t, Len(starts) + 1)
<1> DEFINE n == Len(starts)
           S == {k \in Nat : k + 1 <= n => starts[k + 1] = VoteAt(t, k + 1)}
<1>1. starts \in Seq(Nat) /\ n \in Nat /\ (n = 0 => starts = <<>>)
  <2>1. starts \in Seq(Nat)
    BY DEF ReadInv, Inv, ParserInv, ParserTypeOK
  <2> QED BY <2>1, LenProperties, EmptySeq
<1>2. /\ \A k \in 1..n - 1 : starts[k + 1] = VoteEnd(starts[k])
      /\ starts # <<>> => starts[1] = tx.at /\ VoteEnd(starts[n]) = offset
  BY DEF ReadInv, Inv, ParserInv, VotesLinked
<1>3. Len(t.records) \in Nat
  BY DEF VotesAreThere
<1>4. /\ \A k \in 1..Len(t.records) : VoteEnd(VoteAt(t, k)) = VoteAt(t, k + 1)
      /\ VoteAt(t, 1) = HeaderLen + MemoLen + 1
  BY DEF VotesAreThere
<1>5. 0 \in S
  <2> SUFFICES ASSUME 1 <= n PROVE starts[1] = VoteAt(t, 1)
    OBVIOUS
  <2>1. starts # <<>>
    OBVIOUS
  <2> QED BY <2>1, <1>2, <1>4
<1>6. ASSUME NEW k \in Nat, k \in S PROVE k + 1 \in S
  <2> DEFINE j == k + 1
  <2> SUFFICES ASSUME j + 1 <= n PROVE starts[j + 1] = VoteAt(t, j + 1)
    OBVIOUS
  <2>1. starts[j] = VoteAt(t, j) /\ j \in 1..n - 1 /\ j \in 1..Len(t.records)
    BY <1>1, <1>3, <1>6
  <2> HIDE DEF j
  <2> QED BY <2>1, <1>2, <1>4
<1> HIDE DEF S
<1>7. \A k \in Nat : k \in S
  BY <1>5, <1>6, Induction
<1>8. \A k \in 1..n : starts[k] = VoteAt(t, k)
  <2> SUFFICES ASSUME NEW k \in 1..n PROVE starts[k] = VoteAt(t, k)
    OBVIOUS
  <2> DEFINE j == k - 1
  <2>1. j \in Nat /\ j + 1 <= n /\ j + 1 = k
    BY <1>1
  <2> HIDE DEF j
  <2>2. j \in S
    BY <2>1, <1>7
  <2> QED BY <2>1, <2>2 DEF S
<1>9. ASSUME starts # <<>> PROVE offset = VoteAt(t, n + 1)
  <2>1. n \in 1..n /\ n \in 1..Len(t.records)
    BY <1>1, <1>3, <1>9
  <2>2. VoteEnd(starts[n]) = offset /\ starts[n] = VoteAt(t, n)
    BY <2>1, <1>2, <1>8, <1>9
  <2> QED BY <2>1, <2>2, <1>4
<1> QED BY <1>8, <1>9

LEMMA VotesStage ==
  ASSUME ReadInv, NEW t, SentIsRead(t), stage = "votes"
  PROVE  /\ t.asset = "vote" /\ VotesAreThere(t) /\ tx.at = HeaderLen + MemoLen + 1
         /\ tx.count = Len(t.records) /\ tx.count \in 1..VoteCountMax /\ Len(starts) <= tx.count
         /\ starts \in Seq(Nat) /\ Len(starts) \in Nat /\ payload \in Payloads
         /\ offset = VoteAt(t, Len(starts) + 1) /\ offset \in Nat
         /\ \A k \in 1..Len(starts) : starts[k] = VoteAt(t, k)
<1>1. /\ CommonIsRead /\ tx.asset = "vote" /\ tx.count = Byte(MemoEnd) /\ tx.at = MemoEnd + 1
      /\ tx.count \in 1..VoteCountMax /\ Len(starts) <= tx.count
      /\ starts \in Seq(Nat) /\ payload \in Payloads /\ offset \in Nat
      /\ starts = <<>> => offset = tx.at
  BY DEF ReadInv, CommonRead, AssetRead, Inv, ParserInv, ParserTypeOK, StageBegins
<1>2. MemoEnd = HeaderLen + MemoLen
  BY <1>1 DEF CommonIsRead, MemoEnd
<1>3. t.asset = "vote"
  BY <1>1 DEF CommonIsRead, SentIsRead
<1>4. VotesAreThere(t)
  BY <1>1, <1>3, SentVotes
<1>5. Byte(HeaderLen + MemoLen) = Len(t.records) /\ VoteAt(t, 1) = HeaderLen + MemoLen + 1
  BY <1>4 DEF VotesAreThere
<1>6. tx.count = Len(t.records) /\ tx.at = HeaderLen + MemoLen + 1
  BY <1>1, <1>2, <1>5
<1>7. Len(starts) \in Nat /\ (starts = <<>> => Len(starts) = 0)
  BY <1>1, LenProperties
<1>8. /\ \A k \in 1..Len(starts) : starts[k] = VoteAt(t, k)
      /\ starts # <<>> => offset = VoteAt(t, Len(starts) + 1)
  BY <1>1, <1>4, <1>6, StartsAreSent
<1>9. starts = <<>> => offset = VoteAt(t, Len(starts) + 1)
  <2>1. 0 + 1 = 1
    OBVIOUS
  <2> QED BY <2>1, <1>1, <1>5, <1>6, <1>7
<1> QED BY <1>1, <1>3, <1>4, <1>6, <1>7, <1>8, <1>9

LEMMA VoteGoesOn ==
  ASSUME ReadInv, Wanted, ReadVote
  PROVE  stage' # "refused"
<1> DEFINE t == payload.sent
           k == Len(starts) + 1
           v == t.records[k]
<1>1. stage = "votes" /\ Len(starts) < tx.count
  BY DEF ReadVote, Read
<1>2. payload \in Payloads /\ SentIsRead(t) /\ (t.asset = "vote" => VotesWanted(t.records))
  BY <1>1, SentWhenRead
<1> HIDE DEF t
<1>3. /\ t.asset = "vote" /\ VotesAreThere(t) /\ tx.count = Len(t.records)
      /\ tx.count \in 1..VoteCountMax /\ Len(starts) \in Nat
      /\ offset = VoteAt(t, k) /\ offset \in Nat
  BY <1>1, <1>2, VotesStage
<1>4. k \in 1..Len(t.records)
  <2>1. tx.count \in Nat
    BY <1>3
  <2> QED BY <2>1, <1>1, <1>3
<1> HIDE DEF k
<1>5. /\ Byte(offset) = Len(v.name) /\ Field(offset + 1, Byte(offset)) = v.name
      /\ U16(offset + 1 + Byte(offset)) = v.percent /\ VoteEnd(offset) <= Size
  BY <1>3, <1>4 DEF VotesAreThere
<1>6. LegalVote(v)
  BY <1>2, <1>3, <1>4 DEF VotesWanted, LegalVotes
<1> HIDE DEF v
<1>7. Len(v.name) \in 1..20 /\ Printable(v.name) /\ v.percent \in 1..Hundred
  BY <1>6 DEF LegalVote
<1>8. NameLen = Len(v.name) /\ Percent = v.percent
  BY <1>5 DEF NameLen, Percent
<1>9. Has(1) /\ Has(1 + NameLen) /\ Has(3 + NameLen)
  <2> DEFINE m == Len(v.name)
  <2>1. m \in Nat /\ m = NameLen /\ offset + 3 + m <= Size /\ Size \in Nat
    BY <1>2, <1>5, <1>7, <1>8, PayloadType DEF VoteEnd
  <2> HIDE DEF m
  <2> QED BY <2>1, <1>3 DEF Has
<1>10. Ascii(offset + 1, NameLen, FALSE)
  <2> DEFINE m == v.name
             n == Len(m)
             o == offset + 1
             f == Field(o, n)
  <2>1. f = m /\ n \in Nat /\ o \in Nat /\ payload \in Payloads /\ Printable(m) /\ NameLen = n
    BY <1>2, <1>3, <1>5, <1>7, <1>8
  <2>2. \A j \in 1..n : f[j] = Byte(o + j - 1)
    <3> HIDE DEF n, o
    <3> QED BY <2>1, FieldType, Zenon
  <2> HIDE DEF f, o
  <2>3. \A j \in 1..n : Byte(o + j - 1) = m[j]
    BY <2>1, <2>2
  <2> HIDE DEF m
  <2>4. Ascii(o, n, FALSE)
    BY <2>1, <2>3, TextIsAscii, Zenon
  <2> QED BY <2>1, <2>4 DEF o
<1>11. NameLen \in 1..20 /\ Percent \in 1..PercentageMax
  BY <1>7, <1>8, HundredIs
<1>12. ValidVote
  BY <1>9, <1>10, <1>11 DEF ValidVote
<1> QED BY <1>1, <1>12 DEF ReadVote, Read

\* When all votes are read, their sum is the one that was sent.
\* The sum is that of a list with the percentages that were read.
LEMMA SumOfList ==
  ASSUME ReadInv, NEW records, Len(starts) = Len(records),
         \A k \in 1..Len(starts) : VotePercent(starts[k]) = records[k].percent
  PROVE  sum = PercentSum(records)
<1> DEFINE n == Len(starts)
           list == [k \in 1..Len(records) |-> records[k].percent]
<1>1. payload \in Payloads /\ starts \in Seq(Nat) /\ sum = SumTo(Percents, n)
  BY DEF ReadInv, Inv, ParserInv, ParserTypeOK, VotesRead
<1>2. n \in Nat
  BY <1>1, LenProperties
<1>3. \A k \in 1..n : Percents[k] \in Nat /\ Percents[k] = VotePercent(starts[k])
  BY <1>1, PercentType
<1>4. \A k \in 1..n : list[k] = records[k].percent
  OBVIOUS
<1>5. Len(list) = n
  BY <1>2
<1>6. PercentSum(records) = SumTo(list, n)
  BY <1>5 DEF PercentSum, SumOf
<1> HIDE DEF list, n
<1>7. \A k \in 1..n : Percents[k] \in Nat /\ Percents[k] = list[k]
  BY <1>3, <1>4 DEF n
<1>8. SumTo(Percents, n) = SumTo(list, n)
  BY <1>2, <1>7, SumOfSame
<1> QED BY <1>1, <1>6, <1>8

LEMMA SumIsSent ==
  ASSUME ReadInv, NEW t, VotesAreThere(t), Len(starts) = Len(t.records),
         \A k \in 1..Len(starts) : starts[k] = VoteAt(t, k)
  PROVE  sum = PercentSum(t.records)
<1>1. \A k \in 1..Len(starts) : VotePercent(VoteAt(t, k)) = t.records[k].percent
  BY DEF VotesAreThere, VotePercent
<1> QED BY <1>1, SumOfList

LEMMA VotesEnd ==
  ASSUME ReadInv, Wanted, EndVotes
  PROVE  stage' # "refused"
<1> DEFINE t == payload.sent
<1>1. stage = "votes" /\ Len(starts) = tx.count
  BY DEF EndVotes, Read
<1>2. payload \in Payloads /\ SentIsRead(t) /\ (t.asset = "vote" => VotesWanted(t.records))
  BY <1>1, SentWhenRead
<1> HIDE DEF t
<1>3. /\ t.asset = "vote" /\ VotesAreThere(t) /\ tx.count = Len(t.records)
      /\ tx.count \in 1..VoteCountMax
      /\ offset = VoteAt(t, Len(starts) + 1)
      /\ \A k \in 1..Len(starts) : starts[k] = VoteAt(t, k)
  BY <1>1, <1>2, VotesStage
<1>4. offset = Size
  <2>1. VoteAt(t, Len(t.records) + 1) = Size
    BY <1>3 DEF VotesAreThere
  <2> QED BY <2>1, <1>1, <1>3
<1>5. sum = PercentSum(t.records)
  BY <1>1, <1>3, SumIsSent
<1>6. t.records # <<>>
  <2>1. Len(t.records) # 0
    BY <1>3
  <2> QED BY <2>1
<1>7. PercentSum(t.records) % TwoTo16 = Hundred
  BY <1>2, <1>3, <1>6 DEF VotesWanted
<1>8. total = sum % TwoTo16
  BY DEF ReadInv, VotesRead
<1>9. total = PercentageMax
  BY <1>5, <1>7, <1>8, HundredIs
<1> QED BY <1>4, <1>9 DEF EndVotes, Read

\* The lines of a message are ASCII to the device, and the other way round.
LEMMA LinesAreAscii ==
  ASSUME payload \in Payloads, NEW s, Len(s) \in Nat,
         \A k \in 1..Len(s) : Byte(2 + k - 1) = s[k]
  PROVE  Lines(s) <=> Ascii(2, Len(s), TRUE)
<1> DEFINE n == Len(s)
<1>1. \A k \in 1..n : Byte(k + 1) = s[k]
  <2> SUFFICES ASSUME NEW k \in 1..n PROVE Byte(k + 1) = s[k]
    OBVIOUS
  <2>1. 2 + k - 1 = k + 1
    OBVIOUS
  <2> QED BY <2>1
<1>2. n \in Nat
  OBVIOUS
<1> DEFINE line(k) == \/ s[k] \in (32..126) \cup {10}
                      \/ s[k] = 13 /\ k < n /\ s[k + 1] = 10
           ascii(o) == \/ Byte(o) \in 32..126
                       \/ TRUE /\ Byte(o) = LF
                       \/ TRUE /\ Byte(o) = CR /\ o + 1 < 2 + n /\ Byte(o + 1) = LF
<1>3. Lines(s) <=> \A k \in 1..n : line(k)
  BY DEF Lines
<1>4. Ascii(2, n, TRUE) <=> \A o \in 2..2 + n - 1 : ascii(o)
  BY DEF Ascii
<1>5. ASSUME NEW k \in 1..n PROVE line(k) <=> ascii(k + 1)
  <2>1. Byte(k + 1) = s[k]
    BY <1>1
  <2>2. k + 1 + 1 < 2 + n <=> k < n
    BY <1>2
  <2>3. ASSUME k < n PROVE Byte(k + 1 + 1) = s[k + 1]
    <3> DEFINE j == k + 1
    <3>1. j \in 1..n
      BY <1>2, <2>3
    <3> HIDE DEF j
    <3>2. Byte(j + 1) = s[j]
      BY <3>1, <1>1
    <3> QED BY <3>2 DEF j
  <2> QED BY <2>1, <2>2, <2>3 DEF LF, CR
<1> HIDE DEF line, ascii, n
<1>6. \A o \in 2..2 + n - 1 : o - 1 \in 1..n /\ o - 1 + 1 = o
  BY <1>2
<1>7. \A k \in 1..n : k + 1 \in 2..2 + n - 1
  BY <1>2
<1>8. ASSUME \A k \in 1..n : line(k), NEW o \in 2..2 + n - 1 PROVE ascii(o)
  <2> DEFINE k == o - 1
  <2>1. k \in 1..n /\ k + 1 = o
    BY <1>6
  <2> HIDE DEF k
  <2>2. ascii(k + 1)
    BY <2>1, <1>5, <1>8
  <2> QED BY <2>1, <2>2
<1>9. ASSUME \A o \in 2..2 + n - 1 : ascii(o), NEW k \in 1..n PROVE line(k)
  <2>1. ascii(k + 1)
    BY <1>7, <1>9
  <2> QED BY <2>1, <1>5
<1> QED BY <1>3, <1>4, <1>8, <1>9 DEF n

LEMMA MessageGoesOn ==
  ASSUME ReadInv, Wanted, ReadMessage
  PROVE  stage' # "refused"
<1> DEFINE t == payload.sent
           r == t.records[1]
           n == Len(r)
<1>1. /\ stage = "message" /\ offset = 0 /\ payload \in Payloads /\ payload.kind = "message"
  BY DEF ReadMessage, Read, ReadInv, Inv, ParserInv, StageBegins, ParserTypeOK, KindIsRight
<1>2. t.asset = "message"
  BY <1>1, SentAssumption
<1>3. MessageIsThere(t)
  BY <1>1, <1>2, SentMessage DEF Wanted
<1>4. r # <<>> /\ Lines(r)
  <2>1. Legal(t)
    BY <1>2 DEF Wanted, SumWraps
  <2> QED BY <2>1, <1>2 DEF Legal, LegalAsset
<1> HIDE DEF t
<1>5. /\ n \in Nat /\ U16(0) = n /\ Size = 2 + n /\ r \in Seq(0..255)
      /\ \A k \in 1..n : Byte(2 + k - 1) = r[k]
  BY <1>3 DEF MessageIsThere
<1> HIDE DEF r
<1>6. Ascii(2, n, TRUE)
  BY <1>1, <1>4, <1>5, LinesAreAscii
<1>7. n # 0
  BY <1>4, <1>5, EmptySeq
<1>8. Size <= TxLenMax /\ TxLenMax \in Nat
  BY <1>1, PayloadAssumption DEF Size, TxLenMax
<1> HIDE DEF n
<1>9. n \in 1..MessageMaxLen
  BY <1>5, <1>7, <1>8 DEF MessageMaxLen
<1>10. offset + 2 = 2 /\ U16(offset) = n
  BY <1>1, <1>5
<1>11. Has(2) /\ offset + 2 + U16(offset) <= Size /\ offset + 2 + U16(offset) = Size
  BY <1>1, <1>5, <1>10 DEF Has
<1>12. /\ Has(2) /\ U16(offset) \in 1..MessageMaxLen
       /\ offset + 2 + U16(offset) <= Size /\ Ascii(offset + 2, U16(offset), TRUE)
       /\ offset + 2 + U16(offset) = Size
  BY <1>6, <1>9, <1>10, <1>11
<1> QED BY <1>12 DEF ReadMessage, Read

WantedInv == ReadInv /\ NoneRefused

LEMMA WantedInitially == Init => WantedInv
BY ReadInitially DEF Init, ParserInit, WantedInv, NoneRefused

LEMMA WantedInductive == WantedInv /\ [Next]_vars => WantedInv'
<1> SUFFICES ASSUME WantedInv, [Next]_vars PROVE WantedInv'
  OBVIOUS
<1>1. ReadInv' /\ ReadInv
  BY ReadInductive DEF WantedInv
<1>2. payload' = payload
  BY DEF Next, Parse, GetItem, SearchVote, FoundVote, vars, parser, ParserNext, ReadCommon, ReadIpfs,
         ReadTransfer, ReadBurn, ReadVoteCount, ReadVote, EndVotes, ReadMessage, Read
<1> SUFFICES ASSUME Wanted PROVE stage' # "refused"
  BY <1>1, <1>2 DEF WantedInv, NoneRefused, Wanted, Undamaged
<1>3. CASE UNCHANGED parser
  BY <1>3 DEF WantedInv, NoneRefused, Wanted, parser
<1>4. CASE Parse
  <2>1. CASE ReadCommon BY <1>1, <2>1, CommonGoesOn
  <2>2. CASE ReadIpfs BY <1>1, <2>2, IpfsGoesOn
  <2>3. CASE ReadTransfer BY <1>1, <2>3, TransferGoesOn
  <2>4. CASE ReadBurn BY <1>1, <2>4, BurnGoesOn
  <2>5. CASE ReadVoteCount BY <1>1, <2>5, VoteCountGoesOn
  <2>6. CASE ReadVote BY <1>1, <2>6, VoteGoesOn
  <2>7. CASE EndVotes BY <1>1, <2>7, VotesEnd
  <2>8. CASE ReadMessage BY <1>1, <2>8, MessageGoesOn
  <2> QED BY <1>4, <2>1, <2>2, <2>3, <2>4, <2>5, <2>6, <2>7, <2>8 DEF Parse, ParserNext
<1> QED BY <1>3, <1>4 DEF Next, GetItem, SearchVote, FoundVote, vars

LEMMA WantedAlways == Spec => []WantedInv
BY WantedInitially, WantedInductive, PTL DEF Spec

-----------------------------------------------------------------------------
(* The text of a message.                                                  *)

\* Where the text ends: behind the payload is a zero, be it in the buffer or, behind
\* a payload that fills the buffer, the low byte of its length.
LEMMA ZeroBehind ==
  ASSUME payload \in Payloads
  PROVE  Byte(Size) = 0
<1>1. Size \in Nat /\ Size <= 4096 /\ ~(Size < Size)
  BY PayloadType
<1>2. CASE Size < 4096
  BY <1>1, <1>2 DEF Byte, TxLenMax
<1>3. CASE Size = 4096
  <2>1. Size % 256 = 0
    BY <1>3
  <2> QED BY <1>1, <1>3, <2>1 DEF Byte, TxLenMax
<1> QED BY <1>1, <1>2, <1>3

LEMMA AsciiIsNotZero ==
  ASSUME payload \in Payloads, NEW o \in Nat, NEW n \in Nat, Ascii(o, n, TRUE), NEW k \in 0..n - 1
  PROVE  Byte(o + k) # 0
<1>1. o + k \in o..o + n - 1
  OBVIOUS
<1>2. Byte(o + k) \in 32..126 \/ Byte(o + k) = 10 \/ Byte(o + k) = 13
  BY <1>1 DEF Ascii, LF, CR
<1> QED BY <1>2

LEMMA MessageAccepted ==
  ASSUME ReadInv, Accepted, tx.asset = "message"
  PROVE  /\ payload \in Payloads /\ tx.at = 2 /\ tx.count \in Nat
         /\ tx.count \in 1..MessageMaxLen /\ tx.count = U16(0) /\ Size = 2 + tx.count /\ Ascii(2, tx.count, TRUE)
<1>1. payload \in Payloads /\ tx.at = 2 /\ tx.at + tx.count = Size
  BY DEF ReadInv, Inv, ParserInv, ParserTypeOK, RecordsFillPayload
<1>2. tx.count = U16(0) /\ Ascii(2, tx.count, TRUE) /\ tx.count \in 1..MessageMaxLen
  BY DEF ReadInv, AssetRead
<1>3. tx.count \in Nat
  <2>1. \A n \in 1..MessageMaxLen : n \in Nat
    BY DEF MessageMaxLen
  <2> QED BY <1>2, <2>1, Zenon
<1>4. Size = 2 + tx.count
  BY <1>1
<1> QED BY <1>1, <1>2, <1>3, <1>4, Zenon

LEMMA TextEnds ==
  ASSUME ReadInv, Accepted, tx.asset = "message"
  PROVE  tx.count = CHOOSE n \in 0..TxLenMax :
                      /\ Byte(MessageTextOffset + n) = 0
                      /\ \A k \in 0..n - 1 : Byte(MessageTextOffset + k) # 0
<1> DEFINE Ends(n) == /\ Byte(MessageTextOffset + n) = 0
                      /\ \A k \in 0..n - 1 : Byte(MessageTextOffset + k) # 0
           c == tx.count
<1>1. /\ payload \in Payloads /\ c \in Nat /\ c \in 1..MessageMaxLen
      /\ Size = 2 + c /\ Ascii(2, c, TRUE)
  BY MessageAccepted, Zenon
<1>2. c \in 0..TxLenMax /\ MessageTextOffset = 2 /\ 2 \in Nat
  <2>1. TxLenMax \in Nat
    BY DEF TxLenMax
  <2>2. c <= TxLenMax - 1
    BY <1>1 DEF MessageMaxLen
  <2> QED BY <1>1, <2>1, <2>2 DEF MessageTextOffset
<1> HIDE DEF c
<1>3. Byte(2 + c) = 0
  BY <1>1, ZeroBehind
<1>4. \A k \in 0..c - 1 : Byte(2 + k) # 0
  BY <1>1, <1>2, AsciiIsNotZero, Zenon
<1>5. Ends(c)
  BY <1>2, <1>3, <1>4
<1>6. ASSUME NEW n \in 0..TxLenMax, Ends(n) PROVE n = c
  <2>1. Byte(2 + n) = 0 /\ \A k \in 0..n - 1 : Byte(2 + k) # 0
    BY <1>2, <1>6
  <2>2. n \in Nat
    <3>1. TxLenMax \in Nat
      BY DEF TxLenMax
    <3> QED BY <3>1
  <2>3. ~(n < c)
    <3>1. n < c => n \in 0..c - 1
      BY <1>1, <2>2
    <3> QED BY <3>1, <2>1, <1>4
  <2>4. ~(c < n)
    <3>1. c < n => c \in 0..n - 1
      BY <1>1, <2>2
    <3> QED BY <3>1, <2>1, <1>3
  <2>5. c \in Nat /\ n \in Nat
    BY <1>1, <2>2
  <2> QED BY <2>3, <2>4, <2>5
<1> HIDE DEF Ends
<1>7. c = CHOOSE n \in 0..TxLenMax : Ends(n)
  BY <1>2, <1>5, <1>6
<1> QED BY <1>7 DEF Ends, c

\* The bytes of an accepted message.
LEMMA MessageBytes ==
  ASSUME ReadInv, Accepted, tx.asset = "message"
  PROVE  /\ Field(2, tx.count) \in Seq(0..255) /\ Len(Field(2, tx.count)) = tx.count
         /\ payload.bytes = Serialised([asset |-> "message", records |-> <<Field(2, tx.count)>>])
<1> DEFINE c == tx.count
           text == Field(2, c)
           t == [asset |-> "message", records |-> <<text>>]
<1>1. payload \in Payloads /\ c \in Nat /\ c = U16(0) /\ Size = 2 + c /\ 2 \in Nat /\ 0 \in Nat
  BY MessageAccepted, Zenon
<1>2. text \in Seq(0..255) /\ Len(text) = c
  <2> HIDE DEF c
  <2> QED BY <1>1, FieldType
<1>3. U16LE(c) = Field(0, 2)
  BY <1>1, SmallFields
<1>4. Field(0, 2) \o Field(2, c) = Field(0, Size)
  <2>1. 0 + 2 = 2
    OBVIOUS
  <2> HIDE DEF c
  <2>2. Field(0, 2) \o Field(0 + 2, c) = Field(0, 2 + c)
    BY <1>1, FieldJoin, Zenon
  <2> QED BY <1>1, <2>1, <2>2
<1>5. payload.bytes = U16LE(c) \o text
  BY <1>1, <1>3, <1>4, FieldOfAll
<1>6. Serialised(t) = U16LE(Len(text)) \o text
  <2> HIDE DEF text
  <2>1. t.asset = "message" /\ t.records[1] = text
    OBVIOUS
  <2> HIDE DEF t
  <2> QED BY <2>1 DEF Serialised
<1> QED BY <1>2, <1>5, <1>6

LEMMA FieldsStay ==
  ASSUME payload' = payload
  PROVE  \A o, n : Field(o, n)' = Field(o, n)
<1>1. \A o : Byte(o)' = Byte(o)
  BY BytesStay
<1> QED BY <1>1 DEF Field

TextInv == ReadInv /\ ShownInv /\ TextReceived

LEMMA TextStays ==
  ASSUME TextReceived, UNCHANGED <<parser, shown>>
  PROVE  TextReceived'
<1>1. stage' = stage /\ tx' = tx /\ payload' = payload /\ shown' = shown
  BY DEF parser
<1>2. Field(2, tx.count)' = Field(2, tx.count)
  BY <1>1, FieldsStay
<1> QED BY <1>1, <1>2 DEF TextReceived, Accepted

LEMMA TextIsShown ==
  ASSUME ReadInv, Accepted, DisplayMessage, UNCHANGED parser
  PROVE  TextReceived'
<1>1. stage' = stage /\ tx' = tx /\ payload' = payload /\ tx.asset = "message"
  BY DEF parser, DisplayMessage
<1>2. MessageTextOffset = 2
  BY DEF MessageTextOffset
<1>3. shown' = [kind |-> "message", index |-> 0, item |-> Item("Message", Field(2, tx.count))]
  BY <1>1, <1>2, TextEnds, Zenon DEF DisplayMessage, Show
<1>4. Field(2, tx.count)' = Field(2, tx.count)
  BY <1>1, FieldsStay
<1>5. shown'.item = Item("Message", Field(2, tx.count))
  BY <1>3
<1>6. Item("Message", Field(2, tx.count))' = Item("Message", Field(2, tx.count))
  BY <1>4 DEF Item
<1> QED BY <1>1, <1>5, <1>6 DEF TextReceived, Accepted

LEMMA TextInductive == TextInv /\ [Next]_vars => TextInv'
<1> SUFFICES ASSUME TextInv, [Next]_vars PROVE TextInv'
  OBVIOUS
<1>1. ReadInv' /\ ShownInv'
  BY ReadInductive, ShownInductive DEF TextInv
<1>2. ReadInv /\ ShownInv /\ TextReceived
  BY DEF TextInv
<1>3. CASE Parse
  <2>1. ~Accepted
    BY <1>3, ParserEnds DEF Parse
  <2>2. shown = None /\ shown' = shown
    BY <1>2, <1>3, <2>1 DEF ShownInv, NothingShownBefore, Parse
  <2> QED BY <1>1, <2>2 DEF TextInv, TextReceived
<1>4. CASE GetItem
  <2>1. Accepted /\ UNCHANGED parser
    BY <1>4 DEF GetItem
  <2>2. CASE DisplayMessage
    BY <1>1, <1>2, <2>1, <2>2, TextIsShown DEF TextInv
  <2>3. CASE ~DisplayMessage
    <3>1. tx.asset # "message" \/ \E index \in Indices : GetVoteRecord(index)
      BY <1>4, <2>3 DEF GetItem, GetIpfsRecord, GetBurnRecord, GetPaymentRecord, SetFee, SetMemo
    <3>2. tx.asset # "message"
      BY <3>1 DEF GetVoteRecord
    <3>3. tx' = tx
      BY <2>1 DEF parser
    <3> QED BY <1>1, <3>2, <3>3 DEF TextInv, TextReceived
  <2> QED BY <2>2, <2>3
<1>5. CASE SearchVote
  BY <1>1, <1>2, <1>5, TextStays DEF TextInv, SearchVote
<1>6. CASE FoundVote
  <2>1. search # None /\ UNCHANGED parser
    BY <1>6 DEF FoundVote
  <2>2. tx.asset = "vote" /\ tx' = tx
    BY <1>2, <2>1 DEF ReadInv, Inv, SearchRetracesParser, parser
  <2> QED BY <1>1, <2>2 DEF TextInv, TextReceived
<1>7. CASE UNCHANGED vars
  BY <1>1, <1>2, <1>7, TextStays DEF TextInv, vars
<1> QED BY <1>3, <1>4, <1>5, <1>6, <1>7 DEF Next

LEMMA TextInitially == Init => TextInv
<1> SUFFICES ASSUME Init PROVE TextInv
  OBVIOUS
<1>1. shown = None
  BY DEF Init
<1>2. ReadInv /\ Inv
  BY ReadInitially DEF ReadInv
<1>3. EveryPartShown /\ NothingShownBefore /\ TextReceived
  BY <1>1 DEF EveryPartShown, NothingShownBefore, TextReceived
<1> QED BY <1>2, <1>3 DEF TextInv, ShownInv

LEMMA TextAlways == Spec => []TextInv
BY TextInitially, TextInductive, PTL DEF Spec

\* The string on the display is the whole message that is signed, also where it ends
\* with the buffer and the zero behind it is the low byte of the payload's length.
THEOREM DisplayedTextIsRight == Spec => []DisplayedTextIsMessage
<1>1. TextInv => DisplayedTextIsMessage
  <2> SUFFICES ASSUME TextInv, shown # None, tx.asset = "message"
               PROVE  payload.bytes = Serialised([asset |-> "message", records |-> <<shown.item.value>>])
    BY DEF DisplayedTextIsMessage
  <2>1. ReadInv /\ Accepted /\ shown.item = Item("Message", Field(2, tx.count))
    BY DEF TextInv, TextReceived
  <2>2. shown.item.value = Field(2, tx.count)
    BY <2>1 DEF Item
  <2> QED BY <2>1, <2>2, MessageBytes
<1> QED BY <1>1, TextAlways, PTL

-----------------------------------------------------------------------------
(* What a client makes of the transaction that was received.               *)

\* Fields from the first byte on.
Grows(m, n, k) == Field(0, m) \o Field(m, n) = Field(0, k)

LEMMA FieldGrows ==
  ASSUME payload \in Payloads, NEW m \in Nat, NEW n \in Nat, NEW k, k = m + n
  PROVE  Grows(m, n, k)
<1>1. 0 \in Nat /\ 0 + m = m
  OBVIOUS
<1>2. Field(0, m) \o Field(0 + m, n) = Field(0, m + n)
  BY <1>1, FieldJoin, Zenon
<1> QED BY <1>1, <1>2 DEF Grows

CommonIsField(t, k) == Common(t) = Field(0, k)

LEMMA CommonOfFields ==
  ASSUME payload \in Payloads, NEW t, HeaderOf(t), NEW n \in Nat, n = Len(t.memo), NEW k, k = 59 + n
  PROVE  CommonIsField(t, k)
<1>1. /\ <<255, 3, t.network>> = Field(0, 3) /\ TypeOf(t.asset) = Field(3, 6)
      /\ t.nonce = Field(9, 8) /\ t.senderPkey = Field(17, 33) /\ t.fee = Field(50, 8)
      /\ Len(t.memo) = Byte(58) /\ t.memo = Field(59, n)
  BY DEF HeaderOf
<1>2. U8(Len(t.memo)) = Field(58, 1)
  <2>1. 58 \in Nat
    OBVIOUS
  <2>2. U8(Byte(58)) = Field(58, 1)
    BY <2>1, SmallFields, Zenon
  <2> QED BY <1>1, <2>2
<1>3. Head2(t) = Field(0, 9)
  <2>1. 3 \in Nat /\ 6 \in Nat /\ 9 = 3 + 6
    OBVIOUS
  <2>2. Grows(3, 6, 9)
    BY <2>1, FieldGrows
  <2> QED BY <2>2, <1>1 DEF Head2, Grows
<1>4. Head3(t) = Field(0, 17)
  <2>1. 9 \in Nat /\ 8 \in Nat /\ 17 = 9 + 8
    OBVIOUS
  <2>2. Grows(9, 8, 17)
    BY <2>1, FieldGrows
  <2> QED BY <2>2, <1>1, <1>3 DEF Head3, Grows
<1>5. Head4(t) = Field(0, 50)
  <2>1. 17 \in Nat /\ 33 \in Nat /\ 50 = 17 + 33
    OBVIOUS
  <2>2. Grows(17, 33, 50)
    BY <2>1, FieldGrows
  <2> QED BY <2>2, <1>1, <1>4 DEF Head4, Grows
<1>6. Head5(t) = Field(0, 58)
  <2>1. 50 \in Nat /\ 8 \in Nat /\ 58 = 50 + 8
    OBVIOUS
  <2>2. Grows(50, 8, 58)
    BY <2>1, FieldGrows
  <2> QED BY <2>2, <1>1, <1>5 DEF Head5, Grows
<1>7. Head6(t) = Field(0, 59)
  <2>1. 58 \in Nat /\ 1 \in Nat /\ 59 = 58 + 1
    OBVIOUS
  <2>2. Grows(58, 1, 59)
    BY <2>1, FieldGrows
  <2> QED BY <2>2, <1>2, <1>6 DEF Head6, Grows
<1>8. Grows(59, n, k)
  <2>1. 59 \in Nat
    OBVIOUS
  <2> QED BY <2>1, FieldGrows
<1>9. Common(t) = Head6(t) \o t.memo
  BY DEF Common, Head6, Head5, Head4, Head3, Head2
<1> QED BY <1>1, <1>7, <1>8, <1>9 DEF Grows, CommonIsField

\* Fields one behind the other, each of which begins where the one before it ends.
AreFields(parts, ends, n) ==
  /\ \A k \in 0..n : ends[k] \in Nat
  /\ \A k \in 1..n : /\ ends[k - 1] <= ends[k]
                     /\ parts[k] = Field(ends[k - 1], ends[k] - ends[k - 1])
AreField(parts, ends, n) ==
  ends[0] <= ends[n] /\ JoinTo(parts, n) = Field(ends[0], ends[n] - ends[0])

LEMMA FieldsJoin ==
  ASSUME payload \in Payloads, NEW n \in Nat, NEW parts, NEW ends, AreFields(parts, ends, n)
  PROVE  AreField(parts, ends, n)
<1>0. /\ \A k \in 0..n : ends[k] \in Nat
      /\ \A k \in 1..n : /\ ends[k - 1] <= ends[k]
                         /\ parts[k] = Field(ends[k - 1], ends[k] - ends[k - 1])
  BY DEF AreFields
<1> DEFINE S == {k \in Nat : k <= n => /\ ends[0] <= ends[k]
                                       /\ JoinTo(parts, k) = Field(ends[0], ends[k] - ends[0])}
<1>1. \A k \in 1..n : parts[k] \in Seq(0..255)
  <2> SUFFICES ASSUME NEW k \in 1..n PROVE parts[k] \in Seq(0..255)
    OBVIOUS
  <2> DEFINE p == k - 1
             m == ends[k] - ends[p]
  <2>1. p \in 0..n /\ k \in 0..n
    OBVIOUS
  <2>2. ends[p] \in Nat /\ m \in Nat
    BY <2>1, <1>0
  <2>3. parts[k] = Field(ends[p], m)
    BY <1>0
  <2> HIDE DEF p, m
  <2> DEFINE o == ends[p]
  <2>4. o \in Nat
    BY <2>2
  <2> HIDE DEF o
  <2>5. Field(o, m) \in Seq(0..255)
    BY <2>2, <2>4, FieldType
  <2> QED BY <2>3, <2>5 DEF o
<1>2. /\ JoinTo(parts, 0) = <<>>
      /\ \A k \in 1..n : JoinTo(parts, k) = JoinTo(parts, k - 1) \o parts[k]
  <2>1. 0 \in Nat /\ \A i \in 1..0 : parts[i] \in Seq(0..255)
    OBVIOUS
  <2>2. JoinTo(parts, 0) = <<>>
    BY <2>1, JoinEquations
  <2> QED BY <2>2, <1>1, JoinStep
<1>3. 0 \in S
  <2>1. ends[0] \in Nat
    BY <1>0
  <2>2. ends[0] - ends[0] = 0 /\ ends[0] <= ends[0]
    BY <2>1
  <2>3. Field(ends[0], 0) = <<>>
    <3>1. 0 \in Nat
      OBVIOUS
    <3>2. Field(ends[0], 0) \in Seq(0..255) /\ Len(Field(ends[0], 0)) = 0
      BY <2>1, <3>1, FieldType, ZenonT(40)
    <3> QED BY <3>2, EmptySeq
  <2>4. 0 \in Nat
    OBVIOUS
  <2> QED BY <2>2, <2>3, <2>4, <1>2
<1>4. ASSUME NEW k \in Nat, k \in S PROVE k + 1 \in S
  <2> SUFFICES ASSUME k + 1 <= n
               PROVE  /\ ends[0] <= ends[k + 1]
                      /\ JoinTo(parts, k + 1) = Field(ends[0], ends[k + 1] - ends[0])
    OBVIOUS
  <2> DEFINE j == k + 1
             a == ends[0]
             b == ends[k]
             c == ends[j]
  <2>1. k \in 0..n /\ j \in 0..n /\ 0 \in 0..n /\ j \in 1..n /\ j - 1 = k
    OBVIOUS
  <2>2. a \in Nat /\ b \in Nat /\ c \in Nat
    BY <2>1, <1>0
  <2>3. a <= b /\ JoinTo(parts, k) = Field(a, b - a)
    BY <2>1, <1>4
  <2>4. b <= c /\ parts[j] = Field(b, c - b)
    BY <2>1, <1>0
  <2>5. JoinTo(parts, j) = JoinTo(parts, k) \o parts[j]
    BY <2>1, <1>2
  <2> HIDE DEF j, a, b, c
  <2> DEFINE x == b - a
             y == c - b
  <2>6. x \in Nat /\ y \in Nat /\ a + x = b /\ x + y = c - a /\ a <= c
    BY <2>2, <2>3, <2>4
  <2>7. JoinTo(parts, k) = Field(a, x) /\ parts[j] = Field(b, y)
    BY <2>3, <2>4
  <2> HIDE DEF x, y
  <2>8. Field(a, x) \o Field(a + x, y) = Field(a, x + y)
    BY <2>2, <2>6, FieldJoin, ZenonT(40)
  <2>9. JoinTo(parts, j) = Field(a, c - a)
    BY <2>5, <2>6, <2>7, <2>8
  <2> QED BY <2>6, <2>9 DEF j, a, c
<1> HIDE DEF S
<1>5. \A k \in Nat : k \in S
  BY <1>3, <1>4, Induction
<1> QED BY <1>5 DEF S, AreField

FieldIs(o, n) == Field(o, n) \in BytesOf(n) /\ Octets(Field(o, n), n)

LEMMA FieldOctets ==
  ASSUME payload \in Payloads, NEW o \in Nat, NEW n \in Nat
  PROVE  FieldIs(o, n)
BY FieldType, ZenonT(40) DEF FieldIs, BytesOf, Octets

LEMMA AcceptedCommon ==
  ASSUME ReadInv, Accepted, tx.asset # "message"
  PROVE  /\ payload \in Payloads /\ tx.asset \in {"vote", "transfer", "burn", "ipfs"}
         /\ tx.asset = Asset /\ tx.memoLen \in 0..255 /\ tx.memoLen = MemoLen
         /\ MemoEnd = 59 + tx.memoLen /\ MemoEnd \in Nat /\ MemoEnd <= Size
         /\ Byte(0) = 255 /\ Byte(1) = 3 /\ Byte(2) \in {63, 30}
         /\ Ascii(59, tx.memoLen, FALSE)
<1>1. payload \in Payloads /\ tx \in TxTypes
  BY DEF ReadInv, Inv, ParserInv, ParserTypeOK
<1>2. CommonIsRead
  BY DEF ReadInv, CommonRead
<1>3. tx.asset \in {"vote", "transfer", "burn", "ipfs"} /\ tx.asset = Asset
  BY <1>2, AssetType DEF CommonIsRead
<1>4. tx.memoLen \in 0..255 /\ tx.memoLen = MemoLen
  BY <1>1, <1>2, TxFields DEF CommonIsRead
<1>5. MemoEnd = 59 + tx.memoLen /\ MemoEnd \in Nat
  BY <1>4 DEF MemoEnd, HeaderLen
<1>6. Ascii(59, tx.memoLen, FALSE)
  BY <1>2, <1>4 DEF CommonIsRead, HeaderLen
<1> QED BY <1>1, <1>2, <1>3, <1>4, <1>5, <1>6, Zenon DEF CommonIsRead

LEMMA ReceivedFields ==
  ASSUME tx.asset # "message"
  PROVE  /\ WholeRecord(Received)
         /\ Received.asset = tx.asset /\ Received.network = Byte(2)
         /\ Received.nonce = Field(9, 8) /\ Received.senderPkey = Field(17, 33)
         /\ Received.fee = Field(50, 8) /\ Received.memo = Field(59, tx.memoLen)
         /\ Received.records = ReceivedRecords
<1>1. AmountLen = 8 /\ FeeAt = 50 /\ HeaderLen = 59
  BY DEF AmountLen, FeeAt, HeaderLen
<1>2. Received = [asset |-> tx.asset, network |-> Byte(2), nonce |-> Field(9, 8),
        senderPkey |-> Field(17, 33), fee |-> Field(50, 8),
        memo |-> Field(59, tx.memoLen), records |-> ReceivedRecords]
  BY <1>1 DEF Received
<1> QED BY <1>2 DEF WholeRecord

ReceivedCommon(r) ==
  /\ WholeRecord(r) /\ HeaderOf(r) /\ CommonTypes(r) /\ Common(r) = Field(0, MemoEnd)
  /\ r.asset = tx.asset /\ r.network = Byte(2) /\ r.records = ReceivedRecords
  /\ r.memo = Field(59, tx.memoLen) /\ Len(r.memo) = tx.memoLen

LEMMA CommonIsReceived ==
  ASSUME ReadInv, Accepted, tx.asset # "message"
  PROVE  ReceivedCommon(Received)
<1> DEFINE r == Received
           n == tx.memoLen
<1>1. /\ payload \in Payloads /\ tx.asset \in {"vote", "transfer", "burn", "ipfs"}
      /\ tx.asset = Asset /\ n \in 0..255 /\ n = MemoLen
      /\ MemoEnd = 59 + n /\ Byte(0) = 255 /\ Byte(1) = 3
  BY AcceptedCommon
<1>2. /\ WholeRecord(r) /\ r.asset = tx.asset /\ r.network = Byte(2) /\ r.nonce = Field(9, 8)
      /\ r.senderPkey = Field(17, 33) /\ r.fee = Field(50, 8) /\ r.memo = Field(59, n)
      /\ r.records = ReceivedRecords
  BY ReceivedFields
<1> HIDE DEF r, n
<1>3. n \in Nat /\ 59 \in Nat /\ 8 \in Nat /\ 9 \in Nat /\ 17 \in Nat /\ 33 \in Nat /\ 50 \in Nat
  BY <1>1
<1>4. Field(59, n) \in Seq(0..255) /\ Len(Field(59, n)) = n
  <2>1. FieldIs(59, n)
    BY <1>1, <1>3, FieldOctets
  <2> QED BY <2>1 DEF FieldIs, Octets
<1>5. Field(3, 6) = TypeOf(r.asset)
  BY <1>1, <1>2, AssetIsRead
<1>6. Field(0, 3) = <<255, 3, r.network>>
  <2>1. <<Byte(0), Byte(1), Byte(2)>> = Field(0, 3)
    BY <1>1, SmallFields
  <2> QED BY <2>1, <1>1, <1>2
<1>7. Byte(58) = Len(r.memo)
  BY <1>1, <1>2, <1>4 DEF MemoLen
<1>8. HeaderOf(r)
  BY <1>2, <1>4, <1>5, <1>6, <1>7, Zenon DEF HeaderOf
<1>9. CommonTypes(r)
  <2>1. r.network \in 0..255
    <3>1. 2 \in Nat
      OBVIOUS
    <3> QED BY <3>1, <1>1, <1>2, ByteType
  <2>2. r.nonce \in BytesOf(8) /\ r.senderPkey \in BytesOf(33) /\ r.fee \in BytesOf(8)
    <3>1. FieldIs(9, 8) /\ FieldIs(17, 33) /\ FieldIs(50, 8)
      BY <1>1, <1>3, FieldOctets
    <3> QED BY <3>1, <1>2 DEF FieldIs
  <2>3. r.memo \in UpTo(255, 0..255)
    <3>1. n <= 255
      BY <1>1
    <3>2. \A s \in Seq(0..255) : Len(s) = n => s \in UpTo(255, 0..255)
      BY <3>1 DEF UpTo
    <3> QED BY <3>2, <1>2, <1>4
  <2> QED BY <2>1, <2>2, <2>3, Zenon DEF CommonTypes
<1>10. Common(r) = Field(0, MemoEnd)
  <2> DEFINE k == MemoEnd
  <2>1. payload \in Payloads /\ n \in Nat /\ k = 59 + n /\ n = Len(r.memo)
    BY <1>1, <1>2, <1>3, <1>4
  <2> HIDE DEF k
  <2>2. CommonIsField(r, k)
    BY <2>1, <1>8, CommonOfFields
  <2> QED BY <2>2 DEF k, CommonIsField
<1>11. Len(r.memo) = n
  BY <1>2, <1>4
<1> QED BY <1>2, <1>8, <1>9, <1>10, <1>11, Zenon DEF ReceivedCommon, r, n

\* The one record of a burn or an ipfs transaction.
SingleIsReceived(r, n) ==
  /\ r.records = <<Field(MemoEnd, n)>> /\ tx.at = MemoEnd /\ Size = MemoEnd + n /\ n \in Nat

LEMMA SingleReceived ==
  ASSUME ReadInv, Accepted, tx.asset \in {"burn", "ipfs"}
  PROVE  /\ tx.asset = "burn" => SingleIsReceived(Received, 8)
         /\ tx.asset = "ipfs" => SingleIsReceived(Received, tx.count)
<1>1. /\ tx.asset = "ipfs" => tx.at = MemoEnd /\ tx.at + tx.count = Size
      /\ tx.asset = "burn" => tx.at = MemoEnd /\ tx.at + AmountLen = Size
  BY DEF ReadInv, Inv, ParserInv, RecordsFillPayload
<1>2. Received.records = ReceivedRecords
  BY ReceivedFields
<1>3. AmountLen = 8 /\ 8 \in Nat
  BY DEF AmountLen
<1>4. CASE tx.asset = "burn"
  <2>1. ReceivedRecords = <<Field(tx.at, 8)>>
    BY <1>3, <1>4 DEF ReceivedRecords
  <2> QED BY <2>1, <1>1, <1>2, <1>3, <1>4 DEF SingleIsReceived
<1>5. CASE tx.asset = "ipfs"
  <2>1. ReceivedRecords = <<Field(tx.at, tx.count)>>
    BY <1>5 DEF ReceivedRecords
  <2>2. tx.count \in Nat
    <3>1. tx.count \in 0..UInt16Max
      BY TxFields DEF ReadInv, Inv, ParserInv, ParserTypeOK
    <3> QED BY <3>1, UInt16Bound
  <2> QED BY <2>1, <2>2, <1>1, <1>2, <1>5 DEF SingleIsReceived
<1> QED BY <1>4, <1>5

LEMMA SingleBytes ==
  ASSUME ReadInv, Accepted, tx.asset \in {"burn", "ipfs"}
  PROVE  payload.bytes = Serialised(Received)
<1> DEFINE r == Received
           m == MemoEnd
<1>1. ReceivedCommon(r)
  BY CommonIsReceived
<1>2. PICK n : SingleIsReceived(r, n)
  BY SingleReceived
<1>3. payload \in Payloads /\ m \in Nat
  BY AcceptedCommon
<1>4. r.asset \in {"burn", "ipfs"} /\ Common(r) = Field(0, m)
  BY <1>1 DEF ReceivedCommon
<1>5. r.records[1] = Field(m, n) /\ Size = m + n /\ n \in Nat
  BY <1>2 DEF SingleIsReceived
<1> HIDE DEF r, m
<1>6. Serialised(r) = Field(0, m) \o Field(m, n)
  BY <1>4, <1>5 DEF Serialised
<1>7. Grows(m, n, Size)
  BY <1>3, <1>5, FieldGrows
<1> QED BY <1>3, <1>6, <1>7, FieldOfAll DEF Grows, r

\* Payments.
PaymentEnds == [k \in 0..tx.count |-> tx.at + 29 * k]

LEMMA PaymentsReceived ==
  ASSUME ReadInv, Accepted, tx.asset = "transfer"
  PROVE  /\ payload \in Payloads /\ tx.count \in Nat /\ tx.count \in 1..PaymentCountMax
         /\ tx.count = U16(MemoEnd) /\ MemoEnd \in Nat /\ tx.at \in Nat
         /\ tx.at = MemoEnd + 2 /\ tx.at + 29 * tx.count = Size
         /\ Len(Received.records) = tx.count
         /\ \A k \in 1..tx.count :
              Received.records[k] = [amount |-> Field(tx.at + 29 * (k - 1), 8),
                                     recipient |-> Field(tx.at + 29 * (k - 1) + 8, 21)]
<1>1. /\ tx.at = MemoEnd + 2 /\ tx.at + PaymentLen * tx.count = Size
      /\ tx.count \in 1..PaymentCountMax /\ tx.count = U16(MemoEnd)
  BY DEF ReadInv, Inv, ParserInv, RecordsFillPayload, CountInRange, AssetRead
<1>2. payload \in Payloads /\ MemoEnd \in Nat
  BY AcceptedCommon
<1>3. tx.count \in Nat /\ tx.at \in Nat
  BY <1>1, <1>2 DEF PaymentCountMax
<1>4. PaymentLen = 29 /\ AmountLen = 8 /\ PubkeyHashLen = 21
  BY DEF PaymentLen, AmountLen, PubkeyHashLen
<1>5. Received.records = [k \in 1..tx.count |->
                            [amount |-> Field(tx.at + 29 * (k - 1), 8),
                             recipient |-> Field(tx.at + 29 * (k - 1) + 8, 21)]]
  <2>1. Received.records = ReceivedRecords
    BY ReceivedFields
  <2>2. ReceivedRecords = [k \in 1..tx.count |-> ReceivedPayment(tx.at + PaymentLen * (k - 1))]
    BY DEF ReceivedRecords
  <2> QED BY <2>1, <2>2, <1>4 DEF ReceivedPayment
<1>6. Len(Received.records) = tx.count
  BY <1>3, <1>5
<1>7. tx.at + 29 * tx.count = Size
  BY <1>1, <1>4
<1> QED BY <1>1, <1>2, <1>3, <1>5, <1>6, <1>7, Zenon

LEMMA PaymentField ==
  ASSUME payload \in Payloads, NEW o \in Nat
  PROVE  Field(o, 8) \o Field(o + 8, 21) = Field(o, 29)
<1>1. 8 \in Nat /\ 21 \in Nat /\ 8 + 21 = 29
  OBVIOUS
<1>2. Field(o, 8) \o Field(o + 8, 21) = Field(o, 8 + 21)
  BY <1>1, FieldJoin
<1> QED BY <1>1, <1>2

LEMMA PaymentsBytes ==
  ASSUME ReadInv, Accepted, tx.asset = "transfer"
  PROVE  payload.bytes = Serialised(Received)
<1> DEFINE r == Received
           n == tx.count
           at == tx.at
           m == MemoEnd
           parts == PaymentParts(r.records)
           ends == PaymentEnds
<1>1. ReceivedCommon(r)
  BY CommonIsReceived
<1>2. /\ payload \in Payloads /\ n \in Nat /\ n = U16(m) /\ m \in Nat /\ at \in Nat
      /\ at = m + 2 /\ at + 29 * n = Size /\ Len(r.records) = n
      /\ \A k \in 1..n :
           r.records[k] = [amount |-> Field(at + 29 * (k - 1), 8),
                           recipient |-> Field(at + 29 * (k - 1) + 8, 21)]
  BY PaymentsReceived, Zenon
<1>3. r.asset = "transfer" /\ Common(r) = Field(0, m)
  BY <1>1 DEF ReceivedCommon
<1>4. ends = [k \in 0..n |-> at + 29 * k]
  BY DEF PaymentEnds
<1> HIDE DEF r, n, at, m, ends
<1>5. Len(parts) = n /\ \A k \in 1..n : parts[k] = r.records[k].amount \o r.records[k].recipient
  <2>1. n \in Nat /\ Len(r.records) = n
    BY <1>2
  <2>2. parts = [k \in 1..n |-> r.records[k].amount \o r.records[k].recipient]
    BY <2>1 DEF PaymentParts, PaymentBytes
  <2> HIDE DEF parts
  <2>3. Len(parts) = n
    BY <2>1, <2>2
  <2>4. \A k \in 1..n : parts[k] = r.records[k].amount \o r.records[k].recipient
    BY <2>2
  <2> QED BY <2>3, <2>4
<1>6. ASSUME NEW k \in 1..n
      PROVE  parts[k] = Field(at + 29 * (k - 1), 29)
  <2> DEFINE o == at + 29 * (k - 1)
  <2>1. o \in Nat
    BY <1>2
  <2>2. r.records[k] = [amount |-> Field(o, 8), recipient |-> Field(o + 8, 21)]
    BY <1>2
  <2> HIDE DEF o
  <2>3. r.records[k].amount = Field(o, 8) /\ r.records[k].recipient = Field(o + 8, 21)
    BY <2>2
  <2>4. Field(o, 8) \o Field(o + 8, 21) = Field(o, 29)
    BY <1>2, <2>1, PaymentField
  <2> QED BY <1>5, <2>3, <2>4 DEF o
<1> HIDE DEF parts
<1>7. \A k \in 0..n : ends[k] \in Nat
  BY <1>2, <1>4
<1>8. \A k \in 1..n : /\ ends[k - 1] <= ends[k]
                      /\ parts[k] = Field(ends[k - 1], ends[k] - ends[k - 1])
  <2> SUFFICES ASSUME NEW k \in 1..n
               PROVE  /\ ends[k - 1] <= ends[k]
                      /\ parts[k] = Field(ends[k - 1], ends[k] - ends[k - 1])
    OBVIOUS
  <2>1. k \in 0..n /\ k - 1 \in 0..n /\ 29 * k = 29 * (k - 1) + 29
    BY <1>2
  <2>2. ends[k] = at + 29 * k /\ ends[k - 1] = at + 29 * (k - 1)
    BY <2>1, <1>4
  <2>3. ends[k] - ends[k - 1] = 29 /\ ends[k - 1] <= ends[k]
    BY <2>1, <2>2, <1>2
  <2> QED BY <2>2, <2>3, <1>6
<1>9. JoinTo(parts, n) = Field(ends[0], ends[n] - ends[0])
  <2>1. AreFields(parts, ends, n)
    BY <1>7, <1>8, Zenon DEF AreFields
  <2>2. AreField(parts, ends, n)
    BY <2>1, <1>2, FieldsJoin
  <2> QED BY <2>2 DEF AreField
<1>10. ends[0] = at /\ ends[n] - ends[0] = Size - at
  BY <1>2, <1>4
<1>11. Serialised(r) = Common(r) \o U16LE(n) \o JoinTo(parts, n)
  BY <1>2, <1>3, <1>5 DEF Serialised, Joined, parts
<1>12. Field(m, 2) = U16LE(n)
  BY <1>2, SmallFields
<1>13. Field(0, m) \o Field(m, 2) = Field(0, at)
  <2>1. 2 \in Nat
    OBVIOUS
  <2>2. Grows(m, 2, at)
    BY <2>1, <1>2, FieldGrows
  <2> QED BY <2>2 DEF Grows
<1>14. Field(0, at) \o Field(at, Size - at) = Field(0, Size)
  <2> DEFINE d == Size - at
  <2>1. d \in Nat /\ Size = at + d
    BY <1>2
  <2> HIDE DEF d
  <2>2. Grows(at, d, Size)
    BY <2>1, <1>2, FieldGrows
  <2> QED BY <2>2 DEF Grows, d
<1>15. Serialised(r) = Field(0, Size)
  BY <1>3, <1>9, <1>10, <1>11, <1>12, <1>13, <1>14
<1> QED BY <1>2, <1>15, FieldOfAll DEF r

\* Votes.
VoteEnds == [k \in 0..tx.count |-> IF k = 0 THEN tx.at ELSE VoteEnd(starts[k])]

VotesAreReceived(r) ==
  /\ payload \in Payloads /\ tx.count \in Nat /\ tx.count <= VoteCountMax
  /\ tx.count = Byte(MemoEnd) /\ MemoEnd \in Nat /\ tx.at \in Nat
  /\ tx.at = MemoEnd + 1 /\ tx.at <= Size
  /\ Len(starts) = tx.count /\ \A k \in 1..tx.count : starts[k] \in Nat
  /\ tx.count # 0 => VoteEnd(starts[tx.count]) = Size
  /\ \A k \in 1..tx.count : starts[k] = VoteEnds[k - 1]
  /\ Len(r.records) = tx.count
  /\ \A k \in 1..tx.count : r.records[k] = ReceivedVote(starts[k])

LEMMA VotesReceived ==
  ASSUME ReadInv, Accepted, tx.asset = "vote"
  PROVE  VotesAreReceived(Received)
<1> DEFINE n == tx.count
<1>1. /\ starts \in Seq(Nat) /\ VotesLinked /\ tx.at = MemoEnd + 1 /\ tx.at <= Size
      /\ Len(starts) = n /\ (n # 0 => VoteEnd(starts[n]) = Size)
      /\ n \in 0..VoteCountMax /\ n = Byte(MemoEnd)
  BY DEF ReadInv, Inv, ParserInv, ParserTypeOK, RecordsFillPayload, CountInRange, AssetRead
<1>2. payload \in Payloads /\ MemoEnd \in Nat
  BY AcceptedCommon
<1>3. n \in Nat /\ n <= VoteCountMax /\ tx.at \in Nat
  <2>1. \A k \in 0..VoteCountMax : k \in Nat /\ k <= VoteCountMax
    BY DEF VoteCountMax
  <2>2. n \in Nat /\ n <= VoteCountMax
    BY <2>1, <1>1, Zenon
  <2>3. tx.at \in Nat
    BY <1>1, <1>2
  <2> QED BY <2>2, <2>3
<1>4. \A k \in 1..n : starts[k] \in Nat
  BY <1>1, ElementOfSeq
<1>5. /\ \A k \in 1..n - 1 : starts[k + 1] = VoteEnd(starts[k])
      /\ n # 0 => starts[1] = tx.at
  BY <1>1, <1>3, EmptySeq DEF VotesLinked
<1>6. VoteEnds = [k \in 0..n |-> IF k = 0 THEN tx.at ELSE VoteEnd(starts[k])]
  BY DEF VoteEnds
<1>7. Received.records = [k \in 1..n |-> ReceivedVote(starts[k])]
  BY <1>1, ReceivedFields DEF ReceivedRecords
<1> HIDE DEF n
<1>8. \A k \in 1..n : starts[k] = VoteEnds[k - 1]
  <2> SUFFICES ASSUME NEW k \in 1..n PROVE starts[k] = VoteEnds[k - 1]
    OBVIOUS
  <2>1. CASE k = 1
    BY <2>1, <1>3, <1>5, <1>6
  <2>2. CASE k # 1
    <3> DEFINE p == k - 1
    <3>1. p \in 1..n - 1 /\ p \in 0..n /\ p # 0 /\ p + 1 = k
      BY <2>2, <1>3
    <3> HIDE DEF p
    <3>2. starts[p + 1] = VoteEnd(starts[p]) /\ VoteEnds[p] = VoteEnd(starts[p])
      BY <3>1, <1>5, <1>6
    <3> QED BY <3>1, <3>2 DEF p
  <2> QED BY <2>1, <2>2
<1>9. Len(Received.records) = n /\ \A k \in 1..n : Received.records[k] = ReceivedVote(starts[k])
  <2> DEFINE l == Received.records
  <2> HIDE DEF l
  <2>1. l = [k \in 1..n |-> ReceivedVote(starts[k])]
    BY <1>7 DEF l
  <2>2. Len(l) = n /\ \A k \in 1..n : l[k] = ReceivedVote(starts[k])
    BY <2>1, <1>3
  <2> QED BY <2>2 DEF l
<1> QED BY <1>1, <1>2, <1>3, <1>4, <1>8, <1>9, Zenon DEF VotesAreReceived, n

LEMMA VoteField ==
  ASSUME payload \in Payloads, NEW o \in Nat
  PROVE  /\ VoteBytes(ReceivedVote(o)) = Field(o, VoteEnd(o) - o)
         /\ VoteEnd(o) \in Nat /\ o <= VoteEnd(o) /\ Byte(o) \in Nat
<1> DEFINE b == Byte(o)
           name == Field(o + 1, b)
           u == U16(o + 1 + b)
<1>1. b \in Nat /\ 1 \in Nat /\ 2 \in Nat /\ o + 1 \in Nat /\ 1 + b \in Nat
  <2>1. b \in 0..255
    BY ByteType
  <2> QED BY <2>1
<1>2. VoteEnd(o) = o + 3 + b
  BY DEF VoteEnd
<1>3. ReceivedVote(o) = [name |-> name, percent |-> u]
  BY DEF ReceivedVote
<1> HIDE DEF b, name, u
<1>4. name \in Seq(0..255) /\ Len(name) = b
  BY <1>1, FieldType DEF name
<1>5. U8(b) = Field(o, 1)
  BY SmallFields DEF b
<1>6. U16LE(u) = Field(o + (1 + b), 2)
  <2>1. o + (1 + b) \in Nat /\ o + (1 + b) = o + 1 + b
    BY <1>1
  <2> QED BY <2>1, SmallFields DEF u
<1>7. Field(o, 1) \o name = Field(o, 1 + b)
  BY <1>1, FieldJoin, ZenonT(40) DEF name
<1>8. Field(o, 1 + b) \o Field(o + (1 + b), 2) = Field(o, (1 + b) + 2)
  BY <1>1, FieldJoin, ZenonT(40)
<1>9. VoteBytes(ReceivedVote(o)) = U8(b) \o name \o U16LE(u)
  <2> DEFINE v == ReceivedVote(o)
  <2>1. v.name = name /\ v.percent = u
    BY <1>3
  <2> HIDE DEF v
  <2>2. VoteBytes(v) = U8(Len(name)) \o name \o U16LE(u)
    BY <2>1, Zenon DEF VoteBytes
  <2> QED BY <2>2, <1>4 DEF v
<1>10. VoteBytes(ReceivedVote(o)) = Field(o, (1 + b) + 2)
  BY <1>5, <1>6, <1>7, <1>8, <1>9
<1>11. (1 + b) + 2 = VoteEnd(o) - o
  BY <1>1, <1>2
<1>12. VoteEnd(o) \in Nat /\ o <= VoteEnd(o)
  BY <1>1, <1>2
<1> QED BY <1>1, <1>10, <1>11, <1>12 DEF b

\* The payload up to the last vote.
LEMMA VotesBytes ==
  ASSUME ReadInv, Accepted, tx.asset = "vote"
  PROVE  LET n == tx.count
             end == IF n = 0 THEN MemoEnd + 1 ELSE Size
         IN  end \in Nat /\ end <= Size /\ Serialised(Received) = Field(0, end)
<1> DEFINE r == Received
           n == tx.count
           at == tx.at
           m == MemoEnd
           parts == VoteParts(r.records)
           ends == VoteEnds
           end == IF n = 0 THEN m + 1 ELSE Size
<1>1. ReceivedCommon(r)
  BY CommonIsReceived
<1>2. VotesAreReceived(r)
  BY VotesReceived
<1>3. /\ payload \in Payloads /\ n \in Nat /\ n = Byte(m) /\ m \in Nat /\ at \in Nat
      /\ at = m + 1 /\ at <= Size /\ Len(r.records) = n
      /\ (n # 0 => VoteEnd(starts[n]) = Size)
      /\ \A k \in 1..n : starts[k] \in Nat /\ starts[k] = ends[k - 1]
      /\ \A k \in 1..n : r.records[k] = ReceivedVote(starts[k])
  BY <1>2, Zenon DEF VotesAreReceived
<1>4. r.asset = "vote" /\ Common(r) = Field(0, m)
  BY <1>1 DEF ReceivedCommon
<1>5. ends = [k \in 0..n |-> IF k = 0 THEN at ELSE VoteEnd(starts[k])]
  BY DEF VoteEnds
<1>6. Size \in Nat
  BY <1>3, PayloadType
<1> HIDE DEF r, n, at, m, ends
<1>7. Len(parts) = n /\ \A k \in 1..n : parts[k] = VoteBytes(ReceivedVote(starts[k]))
  <2>1. parts = [k \in 1..n |-> VoteBytes(r.records[k])]
    BY <1>3 DEF VoteParts
  <2> HIDE DEF parts
  <2>2. Len(parts) = n /\ \A k \in 1..n : parts[k] = VoteBytes(r.records[k])
    BY <2>1, <1>3
  <2> QED BY <2>2, <1>3
<1> HIDE DEF parts
<1>8. \A k \in 1..n : /\ VoteEnd(starts[k]) \in Nat /\ starts[k] <= VoteEnd(starts[k])
                      /\ parts[k] = Field(starts[k], VoteEnd(starts[k]) - starts[k])
  BY <1>3, <1>7, VoteField
<1>9. \A k \in 0..n : ends[k] \in Nat
  <2> SUFFICES ASSUME NEW k \in 0..n PROVE ends[k] \in Nat
    OBVIOUS
  <2>1. CASE k = 0
    BY <2>1, <1>3, <1>5
  <2>2. CASE k # 0
    <3>1. k \in 1..n
      BY <2>2, <1>3
    <3> QED BY <2>2, <3>1, <1>5, <1>8
  <2> QED BY <2>1, <2>2
<1>10. \A k \in 1..n : ends[k] = VoteEnd(starts[k])
  BY <1>3, <1>5
<1>11. AreFields(parts, ends, n)
  <2>1. \A k \in 1..n : /\ ends[k - 1] <= ends[k]
                        /\ parts[k] = Field(ends[k - 1], ends[k] - ends[k - 1])
    <3> SUFFICES ASSUME NEW k \in 1..n
                 PROVE  /\ ends[k - 1] <= ends[k]
                        /\ parts[k] = Field(ends[k - 1], ends[k] - ends[k - 1])
      OBVIOUS
    <3>1. ends[k - 1] = starts[k] /\ ends[k] = VoteEnd(starts[k])
      BY <1>3, <1>10
    <3> QED BY <3>1, <1>8
  <2> QED BY <2>1, <1>9, Zenon DEF AreFields
<1>12. JoinTo(parts, n) = Field(at, ends[n] - at) /\ at <= ends[n]
  <2>1. AreField(parts, ends, n)
    BY <1>3, <1>11, FieldsJoin
  <2>2. ends[0] = at
    BY <1>3, <1>5
  <2> QED BY <2>1, <2>2 DEF AreField
<1>13. ends[n] = end /\ end \in Nat /\ end <= Size
  BY <1>3, <1>5, <1>6, <1>10
<1>14. Serialised(r) = Common(r) \o U8(n) \o JoinTo(parts, n)
  BY <1>3, <1>4, <1>7 DEF Serialised, Joined, parts
<1>15. Field(m, 1) = U8(n)
  BY <1>3, SmallFields
<1>16. Field(0, m) \o Field(m, 1) = Field(0, at)
  <2>1. 1 \in Nat
    OBVIOUS
  <2>2. Grows(m, 1, at)
    BY <2>1, <1>3, FieldGrows
  <2> QED BY <2>2 DEF Grows
<1> HIDE DEF end
<1>17. Field(0, at) \o Field(at, end - at) = Field(0, end)
  <2> DEFINE d == end - at
  <2>1. d \in Nat /\ end = at + d
    BY <1>3, <1>12, <1>13
  <2> HIDE DEF d
  <2>2. Grows(at, d, end)
    BY <2>1, <1>3, FieldGrows
  <2> QED BY <2>2 DEF Grows, d
<1>18. Serialised(r) = Field(0, end)
  BY <1>4, <1>12, <1>13, <1>14, <1>15, <1>16, <1>17
<1> QED BY <1>13, <1>18 DEF r, end, n, m

-----------------------------------------------------------------------------
(* What was received is what the documents allow.                          *)

LEMMA AsciiIsText ==
  ASSUME payload \in Payloads, NEW o \in Nat, NEW n \in Nat, Ascii(o, n, FALSE)
  PROVE  Printable(Field(o, n))
<1>1. Len(Field(o, n)) = n /\ \A k \in 1..n : Field(o, n)[k] = Byte(o + k - 1)
  BY FieldType
<1> SUFFICES ASSUME NEW k \in 1..n PROVE Field(o, n)[k] \in 32..126
  BY <1>1 DEF Printable
<1> DEFINE i == o + k - 1
<1>2. i \in o..o + n - 1
  OBVIOUS
<1> HIDE DEF i
<1>3. Byte(i) \in 32..126
  BY <1>2 DEF Ascii
<1> QED BY <1>1, <1>3 DEF i

LEMMA CommonIsLegal ==
  ASSUME ReadInv, Accepted, tx.asset # "message"
  PROVE  LegalCommon(Received)
<1> DEFINE r == Received
<1>1. /\ payload \in Payloads /\ tx.memoLen \in 0..255 /\ Byte(2) \in {63, 30}
      /\ Ascii(59, tx.memoLen, FALSE)
  BY AcceptedCommon
<1>2. r.network = Byte(2) /\ r.memo = Field(59, tx.memoLen)
  BY ReceivedFields
<1>3. Printable(Field(59, tx.memoLen))
  <2>1. tx.memoLen \in Nat /\ 59 \in Nat
    BY <1>1
  <2> QED BY <2>1, <1>1, AsciiIsText
<1> HIDE DEF r
<1> QED BY <1>1, <1>2, <1>3 DEF LegalCommon, r

LEMMA VotesAreLegal ==
  ASSUME ReadInv, Accepted, tx.asset = "vote"
  PROVE  VotesWanted(Received.records) /\ Len(Received.records) = tx.count
<1> DEFINE l == Received.records
           n == tx.count
<1>1. VotesAreReceived(Received)
  BY VotesReceived
<1>2. /\ payload \in Payloads /\ n \in Nat /\ n <= VoteCountMax /\ Len(starts) = n
      /\ Len(l) = n /\ \A k \in 1..n : starts[k] \in Nat /\ l[k] = ReceivedVote(starts[k])
  BY <1>1, Zenon DEF VotesAreReceived
<1>3. /\ \A k \in 1..n : VoteIsRead(starts[k])
      /\ total = sum % TwoTo16 /\ (n = 0 \/ total = PercentageMax)
  BY <1>2 DEF ReadInv, VotesRead, AssetRead
<1> HIDE DEF l, n
<1>4. ASSUME NEW k \in 1..n
      PROVE  LegalVote(l[k]) /\ VotePercent(starts[k]) = l[k].percent
  <2> DEFINE o == starts[k]
             b == Byte(o)
             v == l[k]
  <2>1. o \in Nat /\ v = ReceivedVote(o) /\ VoteIsRead(o)
    BY <1>2, <1>3
  <2> HIDE DEF o, v
  <2>2. v.name = Field(o + 1, b) /\ v.percent = VotePercent(o)
    BY <2>1 DEF ReceivedVote, VotePercent
  <2>3. b \in 1..20 /\ Ascii(o + 1, b, FALSE) /\ VotePercent(o) \in 1..Hundred
    BY <2>1, HundredIs DEF VoteIsRead
  <2>4. b \in Nat /\ o + 1 \in Nat
    BY <2>1, <2>3
  <2> HIDE DEF b
  <2>5. Len(v.name) = b
    BY <1>2, <2>2, <2>4, FieldType
  <2>6. Printable(v.name)
    <3> DEFINE p == o + 1
    <3>1. p \in Nat /\ Ascii(p, b, FALSE)
      BY <2>3, <2>4
    <3> HIDE DEF p
    <3>2. Printable(Field(p, b))
      BY <1>2, <2>4, <3>1, AsciiIsText
    <3> QED BY <2>2, <3>2 DEF p
  <2>7. LegalVote(v)
    BY <2>2, <2>3, <2>5, <2>6 DEF LegalVote
  <2> QED BY <2>2, <2>7 DEF o, v
<1>5. LegalVotes(l)
  <2>1. Len(l) <= 53
    BY <1>2 DEF VoteCountMax
  <2> QED BY <2>1, <1>2, <1>4 DEF LegalVotes
<1>6. sum = PercentSum(l)
  BY <1>2, <1>4, SumOfList
<1>7. l # <<>> => n # 0
  <2>1. Len(l) = 0 => l = <<>>
    <3>1. l = [k \in 1..n |-> ReceivedVote(starts[k])]
      <4>1. Received.records = ReceivedRecords
        BY ReceivedFields
      <4>2. ReceivedRecords = [k \in 1..Len(starts) |-> ReceivedVote(starts[k])]
        BY DEF ReceivedRecords
      <4> QED BY <4>1, <4>2, <1>2 DEF l
    <3>2. \A f : n = 0 => [k \in 1..n |-> f[k]] = <<>>
      OBVIOUS
    <3>3. n = 0 => l = <<>>
      BY <3>1
    <3> QED BY <3>3, <1>2
  <2> QED BY <2>1, <1>2
<1>8. l # <<>> => PercentSum(l) % TwoTo16 = Hundred
  BY <1>3, <1>6, <1>7, HundredIs
<1>9. VotesWanted(l) /\ Len(l) = n
  BY <1>2, <1>5, <1>8 DEF VotesWanted
<1> QED BY <1>9 DEF l, n

LEMMA TransactionIsLegal ==
  ASSUME ReadInv, Accepted, tx.asset # "message"
  PROVE  Legal(Received) \/ SumWraps(Received)
<1> DEFINE r == Received
<1>1. tx.asset \in {"vote", "transfer", "burn", "ipfs"} /\ payload \in Payloads
  BY AcceptedCommon
<1>2. r.asset = tx.asset
  BY ReceivedFields
<1>3. LegalCommon(r)
  BY CommonIsLegal
<1> HIDE DEF r
<1>4. CASE tx.asset = "vote"
  <2>1. VotesWanted(r.records)
    BY <1>4, VotesAreLegal DEF r
  <2>2. CASE r.records = <<>>
    <3>1. LegalAsset(r)
      BY <1>2, <1>4, <2>1, <2>2 DEF LegalAsset, VotesWanted
    <3> QED BY <3>1, <1>3 DEF Legal, r
  <2>3. CASE r.records # <<>>
    <3>1. SumWraps(r)
      BY <1>2, <1>3, <1>4, <2>1, <2>3 DEF SumWraps, VotesWanted
    <3> QED BY <3>1 DEF r
  <2> QED BY <2>2, <2>3
<1>5. CASE tx.asset = "transfer"
  <2>1. Len(r.records) = tx.count /\ tx.count \in 1..PaymentCountMax
    BY <1>5, PaymentsReceived, Zenon DEF r
  <2>2. LegalAsset(r)
    BY <1>2, <1>5, <2>1 DEF LegalAsset, PaymentCountMax
  <2> QED BY <2>2, <1>3 DEF Legal, r
<1>6. CASE tx.asset = "burn"
  <2>1. LegalAsset(r)
    BY <1>2, <1>6 DEF LegalAsset
  <2> QED BY <2>1, <1>3 DEF Legal, r
<1>7. CASE tx.asset = "ipfs"
  <2> DEFINE h == r.records[1]
             n == tx.count
             m == MemoEnd
  <2>1. SingleIsReceived(r, n)
    BY <1>7, SingleReceived DEF r
  <2>2. h = Field(m, n) /\ n \in Nat
    BY <2>1 DEF SingleIsReceived
  <2>3. m \in Nat
    BY <1>7, AcceptedCommon
  <2>4. Byte(m + 1) \in 1..64 /\ n = Byte(m + 1) + 2
    BY <1>7 DEF ReadInv, AssetRead
  <2> HIDE DEF h, n, m
  <2>5. Len(h) = n /\ \A k \in 1..n : h[k] = Byte(m + k - 1)
    BY <1>1, <2>2, <2>3, FieldType, ZenonT(40)
  <2>6. 2 \in 1..n /\ m + 2 - 1 = m + 1 /\ n \in 3..66
    BY <2>2, <2>3, <2>4
  <2>7. h[2] = n - 2
    <3>1. h[2] = Byte(m + 1)
      BY <2>5, <2>6
    <3> QED BY <3>1, <2>4
  <2>8. LegalAsset(r)
    BY <1>2, <1>7, <2>5, <2>6, <2>7 DEF LegalAsset, h
  <2> QED BY <2>8, <1>3 DEF Legal, r
<1> QED BY <1>1, <1>4, <1>5, <1>6, <1>7

LEMMA MessageReceived ==
  ASSUME ReadInv, Accepted, tx.asset = "message"
  PROVE  /\ Received = [asset |-> "message", records |-> <<Field(2, tx.count)>>]
         /\ Legal(Received)
<1> DEFINE n == tx.count
           text == Field(2, n)
<1>1. /\ payload \in Payloads /\ tx.at = 2 /\ n \in Nat /\ n \in 1..MessageMaxLen
      /\ Ascii(2, n, TRUE)
  BY MessageAccepted, Zenon
<1>2. Received = [asset |-> "message", records |-> <<text>>]
  BY <1>1 DEF Received, ReceivedRecords
<1> HIDE DEF n
<1>3. text \in Seq(0..255) /\ Len(text) = n /\ \A k \in 1..n : text[k] = Byte(2 + k - 1)
  <2>1. 2 \in Nat
    OBVIOUS
  <2> QED BY <2>1, <1>1, FieldType, ZenonT(40)
<1> HIDE DEF text
<1>4. Lines(text)
  <2>1. Len(text) \in Nat /\ \A k \in 1..Len(text) : Byte(2 + k - 1) = text[k]
    BY <1>1, <1>3
  <2> QED BY <2>1, <1>1, <1>3, LinesAreAscii
<1>5. text # <<>>
  <2>1. n # 0
    BY <1>1 DEF MessageMaxLen
  <2> QED BY <2>1, <1>3
<1>6. Legal([asset |-> "message", records |-> <<text>>])
  <2> DEFINE t == [asset |-> "message", records |-> <<text>>]
  <2>1. t.asset = "message" /\ t.records[1] = text
    OBVIOUS
  <2> HIDE DEF t
  <2>2. LegalAsset(t)
    BY <2>1, <1>4, <1>5 DEF LegalAsset
  <2> QED BY <2>1, <2>2 DEF Legal, t
<1> QED BY <1>2, <1>6 DEF text, n

LEMMA FieldBegins ==
  ASSUME payload \in Payloads, NEW n \in Nat, NEW m \in Nat, m <= n
  PROVE  SubSeq(Field(0, n), 1, m) = Field(0, m)
<1> DEFINE f == Field(0, n)
           g == Field(0, m)
           h == SubSeq(f, 1, m)
<1>1. 0 \in Nat
  OBVIOUS
<1>2. f \in Seq(0..255) /\ Len(f) = n /\ \A k \in 1..n : f[k] = Byte(0 + k - 1)
  BY <1>1, FieldType
<1>3. g \in Seq(0..255) /\ Len(g) = m /\ \A k \in 1..m : g[k] = Byte(0 + k - 1)
  BY <1>1, FieldType
<1> HIDE DEF f, g
<1>4. h \in Seq(0..255) /\ Len(h) = m /\ \A k \in 1..m : h[k] = f[k]
  <2>1. h \in Seq(0..255)
    <3>1. 1 \in Int /\ m \in Int /\ \A i \in 1..m : i \in 1..n
      OBVIOUS
    <3>2. \A i \in 1..n : f[i] \in 0..255
      BY <1>2, ElementOfSeq
    <3>3. \A i \in 1..m : f[i] \in 0..255
      BY <3>1, <3>2, Zenon
    <3> QED BY <3>1, <3>3, SubSeqProperties
  <2>2. Len(h) = m
    BY <1>2
  <2>3. \A k \in 1..m : h[k] = f[k]
    BY <1>2
  <2> QED BY <2>1, <2>2, <2>3
<1> HIDE DEF h
<1>5. \A k \in 1..m : f[k] = g[k]
  <2>1. \A k \in 1..m : k \in 1..n
    OBVIOUS
  <2> QED BY <2>1, <1>2, <1>3, Zenon
<1>6. h = g
  BY <1>3, <1>4, <1>5, SeqEqual
<1> QED BY <1>6 DEF f, g, h

\* Whatever a payload is, when the deserialisers accept it, it is byte by byte what a
\* client makes of the transaction they read, and that one is allowed, save the two
\* known divergences.
THEOREM AcceptedAreSerialised == Spec => []AcceptedIsSerialised
<1>1. ReadInv => AcceptedIsSerialised
  <2> SUFFICES ASSUME ReadInv, Accepted
               PROVE  /\ payload.bytes = Serialised(Received) \/ BytesAfterCancelledVote
                      /\ Legal(Received) \/ SumWraps(Received)
    BY DEF AcceptedIsSerialised
  <2>1. CASE tx.asset = "message"
    BY <2>1, MessageReceived, MessageBytes
  <2>2. CASE tx.asset # "message"
    <3>1. Legal(Received) \/ SumWraps(Received)
      BY <2>2, TransactionIsLegal
    <3>2. tx.asset \in {"vote", "transfer", "burn", "ipfs"} /\ payload \in Payloads
      BY <2>2, AcceptedCommon
    <3>3. CASE tx.asset # "vote"
      <4>1. payload.bytes = Serialised(Received)
        BY <3>2, <3>3, SingleBytes, PaymentsBytes
      <4> QED BY <3>1, <4>1
    <3>4. CASE tx.asset = "vote"
      <4> DEFINE end == IF tx.count = 0 THEN MemoEnd + 1 ELSE Size
                 s == Serialised(Received)
      <4>1. end \in Nat /\ end <= Size /\ s = Field(0, end)
        BY <3>4, VotesBytes
      <4>2. payload.bytes = Field(0, Size)
        BY <3>2, FieldOfAll
      <4>3. CASE tx.count # 0
        BY <3>1, <4>1, <4>2, <4>3
      <4>4. CASE tx.count = 0
        <5> HIDE DEF end, s
        <5>1. Len(s) = end
          BY <3>2, <4>1, FieldType
        <5>2. SubSeq(payload.bytes, 1, Len(s)) = s
          <6>1. Size \in Nat
            BY <3>2, PayloadType
          <6>2. SubSeq(Field(0, Size), 1, end) = Field(0, end)
            BY <3>2, <4>1, <6>1, FieldBegins
          <6> QED BY <5>1, <4>1, <4>2, <6>2
        <5>3. BytesAfterCancelledVote
          BY <3>4, <4>4, <5>2 DEF BytesAfterCancelledVote, s
        <5> QED BY <3>1, <5>3
      <4> QED BY <4>3, <4>4
    <3> QED BY <3>3, <3>4
  <2> QED BY <2>1, <2>2
<1> QED BY <1>1, ReadAlways, PTL

-----------------------------------------------------------------------------
(* What was received is what was sent.                                     *)

\* A list is what its length and its members are.
LEMMA ListsEqual ==
  ASSUME NEW S, NEW s \in Seq(S), NEW n \in Nat, NEW l, NEW f, Len(s) = n, l = [k \in 1..n |-> f[k]],
         \A k \in 1..n : f[k] = s[k]
  PROVE  l = s
<1>1. s = [k \in 1..n |-> s[k]]
  OBVIOUS
<1> QED BY <1>1

LEMMA HeaderReceived ==
  ASSUME ReadInv, Accepted, tx.asset # "message", NEW t, SentIsRead(t), t.records = Received.records
  PROVE  Received = t
<1> DEFINE r == Received
<1>1. /\ WholeRecord(r) /\ r.asset = tx.asset /\ r.network = Byte(2)
      /\ r.nonce = Field(9, 8) /\ r.senderPkey = Field(17, 33)
      /\ r.fee = Field(50, 8) /\ r.memo = Field(59, tx.memoLen)
  BY ReceivedFields
<1>2. tx.asset = Asset /\ tx.memoLen = MemoLen
  BY AcceptedCommon
<1> HIDE DEF r
<1>3. /\ HeaderOf(t) /\ Byte(2) = t.network /\ Asset = t.asset /\ MemoLen = Len(t.memo)
      /\ t \in Transactions /\ t.asset \in {"vote", "transfer", "burn", "ipfs"}
  BY DEF SentIsRead
<1>4. t.asset # "message"
  BY <1>3
<1>5. WholeRecord(t)
  BY <1>3, <1>4, TransactionType
<1>6. /\ Field(9, 8) = t.nonce /\ Field(17, 33) = t.senderPkey /\ Field(50, 8) = t.fee
      /\ Field(59, Len(t.memo)) = t.memo
  BY <1>3 DEF HeaderOf
<1>7. /\ r.asset = t.asset /\ r.network = t.network /\ r.nonce = t.nonce
      /\ r.senderPkey = t.senderPkey /\ r.fee = t.fee /\ r.memo = t.memo /\ r.records = t.records
  BY <1>1, <1>2, <1>3, <1>6 DEF r
<1>8. /\ r = [asset |-> t.asset, network |-> t.network, nonce |-> t.nonce,
               senderPkey |-> t.senderPkey, fee |-> t.fee, memo |-> t.memo, records |-> t.records]
  BY <1>1, <1>7 DEF WholeRecord
<1> QED BY <1>5, <1>8 DEF WholeRecord, r

LEMMA SingleIsSent ==
  ASSUME ReadInv, Accepted, tx.asset \in {"burn", "ipfs"}, NEW t, SentIsRead(t), t.asset = tx.asset
  PROVE  Received.records = t.records
<1> DEFINE h == t.records[1]
           m == MemoEnd
<1>1. PICK n : SingleIsReceived(Received, n)
  BY SingleReceived
<1>2. Received.records = <<Field(m, n)>> /\ Size = m + n /\ n \in Nat
  BY <1>1 DEF SingleIsReceived
<1>3. payload \in Payloads /\ m = HeaderLen + MemoLen /\ m \in Nat
  BY AcceptedCommon DEF HeaderLen
<1>4. SingleIsThere(t)
  BY <1>3, SentSingle
<1>5. t.records = <<h>> /\ Size = m + Len(h) /\ Field(m, Len(h)) = h /\ Len(h) \in Nat
  BY <1>3, <1>4 DEF SingleIsThere
<1> HIDE DEF h, m
<1>6. n = Len(h)
  BY <1>2, <1>3, <1>5
<1> QED BY <1>2, <1>5, <1>6

LEMMA PaymentsAreSent ==
  ASSUME ReadInv, Accepted, tx.asset = "transfer", NEW t, SentIsRead(t), t.asset = "transfer"
  PROVE  Received.records = t.records
<1> DEFINE n == tx.count
           l == Received.records
           f == [k \in 1..n |-> ReceivedPayment(tx.at + PaymentLen * (k - 1))]
<1>1. /\ payload \in Payloads /\ n \in Nat /\ n = U16(MemoEnd) /\ tx.at = MemoEnd + 2
  BY PaymentsReceived, Zenon
<1>2. MemoEnd = HeaderLen + MemoLen
  BY AcceptedCommon DEF HeaderLen
<1>3. PaymentsAreThere(t)
  BY <1>1, SentPayments
<1>4. t.records \in Seq([amount : BytesOf(8), recipient : BytesOf(21)]) /\ PaymentTypes(t.records)
  <2>1. t \in Transactions
    BY DEF SentIsRead
  <2> QED BY <2>1, TransactionType, PaymentListType
<1>5. Len(t.records) = n
  BY <1>1, <1>2, <1>3 DEF PaymentsAreThere
<1>6. l = [k \in 1..n |-> f[k]]
  <2>1. l = ReceivedRecords
    BY ReceivedFields
  <2>2. ReceivedRecords = f
    BY DEF ReceivedRecords
  <2> QED BY <2>1, <2>2
<1>7. ASSUME NEW k \in 1..n PROVE f[k] = t.records[k]
  <2> DEFINE o == tx.at + PaymentLen * (k - 1)
  <2>1. f[k] = ReceivedPayment(o)
    OBVIOUS
  <2>2. o = PaymentAt(k)
    BY <1>1, <1>2 DEF PaymentAt
  <2> HIDE DEF o, f
  <2>3. f[k] = [amount |-> Field(o, 8), recipient |-> Field(o + 8, 21)]
    BY <2>1 DEF ReceivedPayment, AmountLen, PubkeyHashLen
  <2>4. Field(o, 8) = t.records[k].amount /\ Field(o + 8, 21) = t.records[k].recipient
    BY <2>2, <1>3, <1>5 DEF PaymentsAreThere
  <2>5. t.records[k] = [amount |-> t.records[k].amount, recipient |-> t.records[k].recipient]
    BY <1>4, <1>5 DEF PaymentTypes
  <2> QED BY <2>3, <2>4, <2>5
<1> HIDE DEF f, n, l
<1>8. l = t.records
  BY <1>1, <1>4, <1>5, <1>6, <1>7, ListsEqual, SMTT(40)
<1> QED BY <1>8 DEF l

LEMMA VotesAreSent ==
  ASSUME ReadInv, Accepted, tx.asset = "vote", NEW t, SentIsRead(t), t.asset = "vote"
  PROVE  Received.records = t.records
<1> DEFINE n == tx.count
           l == Received.records
           f == [k \in 1..n |-> ReceivedVote(starts[k])]
<1>1. VotesAreReceived(Received)
  BY VotesReceived
<1>2. /\ payload \in Payloads /\ n \in Nat /\ n = Byte(MemoEnd) /\ tx.at = MemoEnd + 1
      /\ Len(starts) = n /\ n <= n
  BY <1>1 DEF VotesAreReceived
<1>3. MemoEnd = HeaderLen + MemoLen
  BY AcceptedCommon DEF HeaderLen
<1>4. VotesAreThere(t)
  BY <1>2, SentVotes
<1>5. t.records \in Seq([name : UpTo(255, 0..255), percent : 0..TwoTo16 - 1]) /\ VoteTypes(t.records)
  <2>1. t \in Transactions
    BY DEF SentIsRead
  <2> QED BY <2>1, TransactionType, VoteListType
<1>6. Len(t.records) = n
  BY <1>2, <1>3, <1>4 DEF VotesAreThere
<1>7. l = [k \in 1..n |-> f[k]]
  <2>1. l = ReceivedRecords
    BY ReceivedFields
  <2>2. ReceivedRecords = f
    BY <1>2 DEF ReceivedRecords
  <2> QED BY <2>1, <2>2
<1>8. \A k \in 1..n : starts[k] = VoteAt(t, k)
  <2>1. tx.at = HeaderLen + MemoLen + 1 /\ Len(starts) <= Len(t.records)
    BY <1>2, <1>3, <1>6
  <2>2. \A k \in 1..Len(starts) : starts[k] = VoteAt(t, k)
    BY <2>1, <1>4, StartsAreSent, Zenon
  <2> QED BY <2>2, <1>2
<1>9. ASSUME NEW k \in 1..n PROVE f[k] = t.records[k]
  <2> DEFINE o == starts[k]
             v == t.records[k]
  <2>1. f[k] = ReceivedVote(o)
    OBVIOUS
  <2>2. o = VoteAt(t, k)
    BY <1>8
  <2> HIDE DEF f
  <2>3. Field(o + 1, Byte(o)) = v.name /\ U16(o + 1 + Byte(o)) = v.percent
    BY <2>2, <1>4, <1>6 DEF VotesAreThere
  <2>4. v = [name |-> v.name, percent |-> v.percent]
    BY <1>5, <1>6 DEF VoteTypes
  <2> HIDE DEF o, v
  <2>5. f[k] = v
    BY <2>1, <2>3, <2>4 DEF ReceivedVote
  <2> QED BY <2>5 DEF v
<1> DEFINE V == [name : UpTo(255, 0..255), percent : 0..TwoTo16 - 1]
<1>10. t.records \in Seq(V)
  BY <1>5
<1> HIDE DEF f, n, l, V
<1>11. n \in Nat /\ \A k \in 1..n : f[k] = t.records[k]
  BY <1>2, <1>9
<1>12. l = t.records
  BY <1>6, <1>7, <1>10, <1>11, ListsEqual
<1> QED BY <1>12 DEF l

LEMMA ReceivedIsSent ==
  ASSUME ReadInv, Accepted, Undamaged
  PROVE  Received = payload.sent
<1> DEFINE t == payload.sent
<1>1. payload \in Payloads /\ (tx.asset = "message" <=> payload.kind = "message")
  BY DEF ReadInv, Inv, ParserInv, ParserTypeOK, KindIsRight
<1>2. tx.asset = "message" <=> t.asset = "message"
  BY <1>1, SentAssumption
<1>3. CASE tx.asset = "message"
  <2> DEFINE h == t.records[1]
  <2>1. MessageIsThere(t)
    BY <1>1, <1>2, <1>3, SentMessage
  <2>2. t = [asset |-> "message", records |-> <<h>>] /\ U16(0) = Len(h) /\ Field(2, Len(h)) = h
    BY <2>1 DEF MessageIsThere
  <2>3. tx.count = U16(0)
    BY <1>3, MessageAccepted, Zenon
  <2>4. Received = [asset |-> "message", records |-> <<Field(2, tx.count)>>]
    BY <1>3, MessageReceived
  <2> QED BY <2>2, <2>3, <2>4
<1>4. CASE tx.asset # "message"
  <2>1. SentIsRead(t)
    BY <1>1, <1>2, <1>4, SentIsThere
  <2>2. tx.asset \in {"vote", "transfer", "burn", "ipfs"} /\ tx.asset = Asset
    BY <1>4, AcceptedCommon
  <2>3. t.asset = tx.asset
    BY <2>1, <2>2 DEF SentIsRead
  <2> HIDE DEF t
  <2>4. Received.records = t.records
    BY <2>1, <2>2, <2>3, SingleIsSent, PaymentsAreSent, VotesAreSent
  <2>5. Received = t
    BY <1>4, <2>1, <2>4, HeaderReceived
  <2> QED BY <2>5 DEF t
<1> QED BY <1>3, <1>4

\* The transaction that the deserialisers read is the one that the client serialised.
THEOREM ReceivesAsSent == Spec => []ReceivesWhatWasSent
<1>1. ReadInv => ReceivesWhatWasSent
  BY ReceivedIsSent DEF ReceivesWhatWasSent
<1> QED BY <1>1, ReadAlways, PTL

\* The parse of what a client serialised ends with the verdict of the documents: all
\* that they allow is accepted, and nothing else, save sums that wrap.
THEOREM AcceptsAllThatIsLegal == Spec => []AcceptsTheLegal
<1>1. WantedInv => AcceptsTheLegal
  <2> SUFFICES ASSUME WantedInv, Decided, Undamaged
               PROVE  Accepted <=> (Legal(payload.sent) \/ SumWraps(payload.sent))
    BY DEF AcceptsTheLegal
  <2>1. ReadInv /\ NoneRefused
    BY DEF WantedInv
  <2>2. ASSUME Accepted PROVE Legal(payload.sent) \/ SumWraps(payload.sent)
    <3>1. Received = payload.sent
      BY <2>1, <2>2, ReceivedIsSent
    <3>2. Legal(Received) \/ SumWraps(Received)
      BY <2>1, <2>2, MessageReceived, TransactionIsLegal
    <3> QED BY <3>1, <3>2
  <2>3. ASSUME Legal(payload.sent) \/ SumWraps(payload.sent) PROVE Accepted
    BY <2>1, <2>3 DEF NoneRefused, Decided, Accepted
  <2> QED BY <2>2, <2>3
<1> QED BY <1>1, WantedAlways, PTL

-----------------------------------------------------------------------------
(* The review shows the transaction that was received.                     *)

LEMMA ReceivedStays ==
  ASSUME UNCHANGED parser
  PROVE  Received' = Received /\ tx' = tx /\ (Accepted' <=> Accepted)
<1>1. payload' = payload /\ tx' = tx /\ starts' = starts /\ stage' = stage
  BY DEF parser, votes
<1>2. \A o, n : Field(o, n)' = Field(o, n)
  BY <1>1, FieldsStay
<1>3. \A o : Byte(o)' = Byte(o) /\ U16(o)' = U16(o)
  BY <1>1, ReadsStay
<1>4. \A o : ReceivedVote(o)' = ReceivedVote(o) /\ ReceivedPayment(o)' = ReceivedPayment(o)
  BY <1>2, <1>3 DEF ReceivedVote, ReceivedPayment
<1>5. ReceivedRecords' = ReceivedRecords
  BY <1>1, <1>2, <1>4 DEF ReceivedRecords
<1>6. Received' = Received
  BY <1>1, <1>2, <1>3, <1>5 DEF Received
<1> QED BY <1>1, <1>6 DEF Accepted

\* No label is cut.
LEMMA LabelIs ==
  ASSUME NEW word \in {"Address", "Amount", "Vote", "Percent"}, NEW index, NEW count
  PROVE  Label(word, index, count) = <<word>> \o <<index \div 2 + 1, count>>
<1> DEFINE position == index \div 2 + 1
<1>1. \A n : Digits(n) \in 1..3
  BY DEF Digits
<1>2. WordLen[word] \in 4..7
  BY DEF WordLen
<1>3. MaxItemLen = 16
  BY DEF MaxItemLen
<1> HIDE DEF position
<1>4. ~(WordLen[word] + 2 + Digits(position) + Digits(count) >= MaxItemLen)
  <2>1. Digits(position) \in 1..3 /\ Digits(count) \in 1..3
    BY <1>1
  <2> QED BY <2>1, <1>2, <1>3
<1>5. Label(word, index, count) = <<word, position, count>>
  BY <1>4, Zenon DEF Label, position
<1>6. <<word>> \o <<position, count>> = <<word, position, count>>
  <2> DEFINE V == {word, position, count}
             both == <<word>> \o <<position, count>>
  <2>1. word \in V /\ position \in V /\ count \in V
    OBVIOUS
  <2> HIDE DEF V
  <2>2. <<word>> \in Seq(V) /\ <<position, count>> \in Seq(V)
    BY <2>1
  <2>3. <<word, position, count>> \in Seq(V)
    BY <2>1
  <2>4. Len(<<word>>) = 1 /\ Len(<<position, count>>) = 2
    OBVIOUS
  <2>5. both \in Seq(V) /\ Len(both) = 3
    BY <2>2, <2>4, ConcatProperties
  <2>6. \A i \in 1..3 : both[i] = IF i <= 1 THEN <<word>>[i] ELSE <<position, count>>[i - 1]
    BY <2>2, <2>4, ConcatProperties
  <2> HIDE DEF both
  <2>7. both[1] = word /\ both[2] = position /\ both[3] = count
    BY <2>6
  <2>8. both = <<word, position, count>>
    <3> DEFINE three == <<word, position, count>>
    <3>1. three[1] = word /\ three[2] = position /\ three[3] = count /\ Len(three) = 3
      OBVIOUS
    <3>2. three \in Seq(V)
      BY <2>3
    <3> HIDE DEF three
    <3>3. \A i \in 1..3 : i = 1 \/ i = 2 \/ i = 3
      OBVIOUS
    <3>4. \A i \in 1..Len(both) : both[i] = three[i]
      BY <2>5, <2>7, <3>1, <3>3
    <3>5. both = three
      BY <2>5, <3>1, <3>2, <3>4, SeqEqual
    <3> QED BY <3>5 DEF three
  <2> QED BY <2>8 DEF both
<1> QED BY <1>5, <1>6 DEF position

\* An amount on the display denotes the bytes it was made of.
AmountSays(item, label, bytes) ==
  item = Item(label, item.value) /\ item.label = label /\ DenotesSxp(item.value, bytes)

LEMMA AmountIsSaid ==
  ASSUME payload \in Payloads, NEW label, NEW at \in Nat
  PROVE  AmountSays(Amount(label, at), label, Field(at, 8))
<1> DEFINE text == FormatAmountSxp(MaxValueLen, Field(at, 8))
<1>1. MaxValueLen \in Nat /\ MaxValueLen >= 27 /\ AmountLen = 8
  BY DEF MaxValueLen, AmountLen
<1>2. text # NoText
  BY <1>1, AmountsAreShown
<1>3. Field(at, 8) \in BytesOf(8)
  <2>1. 8 \in Nat
    OBVIOUS
  <2> QED BY <2>1, FieldOctets DEF FieldIs
<1>4. DenotesSxp(text, Field(at, 8))
  BY <1>1, <1>3, AmountsAreRight
<1>5. Amount(label, at) = Item(label, text)
  BY <1>1, <1>2 DEF Amount
<1> HIDE DEF text
<1>6. Item(label, text).label = label /\ Item(label, text).value = text
  BY DEF Item
<1> QED BY <1>4, <1>5, <1>6 DEF AmountSays

\* And a percentage its two bytes.
LEMMA PercentIsSaid ==
  ASSUME payload \in Payloads, NEW o \in Nat
  PROVE  /\ FormatPercent(MaxValueLen, Field(o, 2), 2) # NoText
         /\ DenotesPercent(FormatPercent(MaxValueLen, Field(o, 2), 2), U16(o))
<1>1. MaxValueLen \in Nat /\ MaxValueLen >= 30
  BY DEF MaxValueLen
<1>2. Field(o, 2) \in BytesOf(2)
  <2>1. 2 \in Nat
    OBVIOUS
  <2> QED BY <2>1, FieldOctets DEF FieldIs
<1>3. Field(o, 2)[1] + 256 * Field(o, 2)[2] = U16(o)
  <2>1. Field(o, 2)[1] = Byte(o + 1 - 1) /\ Field(o, 2)[2] = Byte(o + 2 - 1)
    BY DEF Field
  <2>2. o + 1 - 1 = o /\ o + 2 - 1 = o + 1
    OBVIOUS
  <2> QED BY <2>1, <2>2 DEF U16
<1> QED BY <1>1, <1>2, <1>3, PercentsAreShown, PercentsAreRight

\* What a review should say of a part, by asset.
LEMMA PartsSay ==
  ASSUME NEW item, NEW t, NEW index \in 0..255
  PROVE  /\ t.asset = "ipfs" /\ item.value = ContentId(t.records[1]) => SaysPart(item, t, index)
         /\ t.asset = "burn" /\ DenotesSxp(item.value, t.records[1]) => SaysPart(item, t, index)
         /\ t.asset = "transfer" /\ index % 2 = 0
              /\ item = [label |-> <<"Address">> \o <<index \div 2 + 1, Len(t.records)>>,
                         value |-> AddressOf(t.records[index \div 2 + 1].recipient)]
              => SaysPart(item, t, index)
         /\ t.asset = "transfer" /\ index % 2 = 1
              /\ item.label = <<"Amount">> \o <<index \div 2 + 1, Len(t.records)>>
              /\ DenotesSxp(item.value, t.records[index \div 2 + 1].amount)
              => SaysPart(item, t, index)
         /\ t.asset = "vote" /\ index % 2 = 0
              /\ item = [label |-> <<"Vote">> \o <<index \div 2 + 1, Len(t.records)>>,
                         value |-> t.records[index \div 2 + 1].name]
              => SaysPart(item, t, index)
         /\ t.asset = "vote" /\ index % 2 = 1
              /\ item.label = <<"Percent">> \o <<index \div 2 + 1, Len(t.records)>>
              /\ DenotesPercent(item.value, t.records[index \div 2 + 1].percent)
              => SaysPart(item, t, index)
<1> DEFINE even == index % 2 = 0
           odd == index % 2 = 1
           label == <<index \div 2 + 1, Len(t.records)>>
           r == t.records[index \div 2 + 1]
           Ipfs == item.value = ContentId(t.records[1])
           Burn == DenotesSxp(item.value, t.records[1])
           Recipient == item = [label |-> <<"Address">> \o label,
                                value |-> AddressOf(r.recipient)]
           Paid == item.label = <<"Amount">> \o label /\ DenotesSxp(item.value, r.amount)
           Name == item = [label |-> <<"Vote">> \o label, value |-> r.name]
           Share == /\ item.label = <<"Percent">> \o label
                    /\ DenotesPercent(item.value, r.percent)
<1>1. SaysPart(item, t, index) =
        CASE t.asset = "ipfs" -> Ipfs
          [] t.asset = "burn" -> Burn
          [] t.asset = "transfer" /\ even -> Recipient
          [] t.asset = "transfer" /\ odd -> Paid
          [] t.asset = "vote" /\ even -> Name
          [] t.asset = "vote" /\ odd -> Share
  BY Zenon DEF SaysPart
<1>2. ~(even /\ odd)
  OBVIOUS
<1> DEFINE says == SaysPart(item, t, index)
<1> HIDE DEF even, odd, label, r, Ipfs, Burn, Recipient, Paid, Name, Share, says
<1>3. /\ t.asset = "ipfs" /\ Ipfs => says
      /\ t.asset = "burn" /\ Burn => says
      /\ t.asset = "transfer" /\ even /\ Recipient => says
      /\ t.asset = "transfer" /\ odd /\ Paid => says
      /\ t.asset = "vote" /\ even /\ Name => says
      /\ t.asset = "vote" /\ odd /\ Share => says
  BY <1>1, <1>2 DEF says
<1> QED
  BY <1>3, Zenon DEF even, odd, label, r, Ipfs, Burn, Recipient, Paid, Name, Share, says

PartSaid(index, item) == item = NoItem \/ SaysPart(item, Received, index)

LEMMA IpfsSays ==
  ASSUME ReadInv, Accepted, NEW index \in Indices, GetIpfsRecord(index)
  PROVE  \E item : /\ shown' = [kind |-> "part", index |-> index, item |-> item]
                   /\ PartSaid(index, item)
<1> DEFINE item == Item("Content ID", Base58(Field(tx.at, tx.count)))
           r == Received
<1>1. tx.asset = "ipfs" /\ index \in 0..255
  BY RecordsAssumption DEF GetIpfsRecord
<1>2. shown' = [kind |-> "part", index |-> index, item |-> IF index # 0 THEN NoItem ELSE item]
  BY Zenon DEF GetIpfsRecord, ShowPart, Show
<1>3. r.asset = "ipfs"
  BY <1>1, ReceivedFields
<1>4. SingleIsReceived(r, tx.count)
  BY <1>1, SingleReceived
<1>5. item.value = ContentId(r.records[1])
  <2>1. r.records[1] = Field(tx.at, tx.count)
    BY <1>4 DEF SingleIsReceived
  <2>2. item.value = Base58(Field(tx.at, tx.count))
    BY DEF Item
  <2> QED BY <2>1, <2>2 DEF Base58, ContentId
<1> HIDE DEF item, r
<1>6. SaysPart(item, r, index)
  BY <1>1, <1>3, <1>5, PartsSay, Zenon
<1>7. PartSaid(index, IF index # 0 THEN NoItem ELSE item)
  BY <1>6 DEF PartSaid, r
<1> QED BY <1>2, <1>7

LEMMA BurnSays ==
  ASSUME ReadInv, Accepted, NEW index \in Indices, GetBurnRecord(index)
  PROVE  \E item : /\ shown' = [kind |-> "part", index |-> index, item |-> item]
                   /\ PartSaid(index, item)
<1> DEFINE item == Amount("Amount", tx.at)
           r == Received
<1>1. tx.asset = "burn" /\ index \in 0..255
  BY RecordsAssumption DEF GetBurnRecord
<1>2. shown' = [kind |-> "part", index |-> index, item |-> IF index # 0 THEN NoItem ELSE item]
  BY Zenon DEF GetBurnRecord, ShowPart, Show
<1>3. r.asset = "burn"
  BY <1>1, ReceivedFields
<1>4. SingleIsReceived(r, 8)
  BY <1>1, SingleReceived
<1>5. payload \in Payloads /\ MemoEnd \in Nat
  BY <1>1, AcceptedCommon
<1>6. r.records[1] = Field(tx.at, 8) /\ tx.at \in Nat
  BY <1>4, <1>5 DEF SingleIsReceived
<1>7. AmountSays(item, "Amount", r.records[1])
  BY <1>5, <1>6, AmountIsSaid
<1> HIDE DEF item, r
<1>8. SaysPart(item, r, index)
  BY <1>1, <1>3, <1>7, PartsSay, Zenon DEF AmountSays
<1>9. PartSaid(index, IF index # 0 THEN NoItem ELSE item)
  BY <1>8 DEF PartSaid, r
<1> QED BY <1>2, <1>9

LEMMA PaymentSays ==
  ASSUME ReadInv, Accepted, NEW index \in Indices, GetPaymentRecord(index)
  PROVE  \E item : /\ shown' = [kind |-> "part", index |-> index, item |-> item]
                   /\ PartSaid(index, item)
<1> DEFINE payment == tx.at + PaymentLen * (index \div 2)
           k == index \div 2 + 1
           hash == Field(RecipientAt(payment), PubkeyHashLen)
           address == Item(Label("Address", index, tx.count), AddressFromPubkeyHash(hash))
           amount == Amount(Label("Amount", index, tx.count), payment)
           r == Received
<1>1. tx.asset = "transfer" /\ index \in 0..255
  BY RecordsAssumption DEF GetPaymentRecord
<1>2. r.asset = "transfer"
  BY <1>1, ReceivedFields
<1>3. /\ payload \in Payloads /\ tx.count \in Nat /\ tx.at \in Nat /\ Len(r.records) = tx.count
      /\ \A j \in 1..tx.count :
           r.records[j] = [amount |-> Field(tx.at + 29 * (j - 1), 8),
                           recipient |-> Field(tx.at + 29 * (j - 1) + 8, 21)]
  BY <1>1, PaymentsReceived, Zenon
<1> HIDE DEF r
<1>4. CASE index \div 2 >= tx.count
  <2>1. shown' = [kind |-> "part", index |-> index, item |-> NoItem]
    <3>1. ~(index \div 2 < tx.count)
      BY <1>1, <1>3, <1>4
    <3> QED BY <3>1, Zenon DEF GetPaymentRecord, ShowPart, Show
  <2> QED BY <2>1 DEF PartSaid
<1>5. CASE ~(index \div 2 >= tx.count)
  <2>1. /\ k \in 1..tx.count /\ k - 1 = index \div 2
        /\ payment = tx.at + 29 * (k - 1) /\ payment \in Nat
        /\ RecipientAt(payment) = payment + 8 /\ PubkeyHashLen = 21
    <3> DEFINE half == index \div 2
    <3>1. half \in Nat /\ k = half + 1 /\ half = index \div 2
      BY <1>1
    <3> HIDE DEF half
    <3>2. half + 1 \in 1..tx.count /\ half + 1 - 1 = half
      BY <3>1, <1>3, <1>5 DEF half
    <3>3. PaymentLen = 29 /\ AmountLen = 8 /\ PubkeyHashLen = 21
      BY DEF PaymentLen, AmountLen, PubkeyHashLen
    <3>4. payment = tx.at + 29 * half
      BY <3>3 DEF half
    <3> HIDE DEF payment, k
    <3>5. payment \in Nat /\ payment = tx.at + 29 * (k - 1)
      BY <3>1, <3>2, <3>4, <1>3
    <3>6. RecipientAt(payment) = payment + 8
      BY <3>3 DEF RecipientAt
    <3>7. k \in 1..tx.count /\ k - 1 = index \div 2
      BY <3>1, <3>2
    <3> QED BY <3>3, <3>5, <3>6, <3>7, Zenon
  <2>2. r.records[k].amount = Field(payment, 8) /\ r.records[k].recipient = hash
    <3> HIDE DEF k, payment
    <3>1. r.records[k] = [amount |-> Field(payment, 8), recipient |-> Field(payment + 8, 21)]
      BY <2>1, <1>3
    <3> QED BY <3>1, <2>1
  <2>3. CASE index % 2 = 0
    <3>1. PICK hashed \in Outcomes :
            shown' = [kind |-> "part", index |-> index,
                      item |-> IF ~hashed THEN NoItem ELSE address]
      <4>1. index % 2 # 1
        BY <2>3
      <4> QED BY <4>1, <1>5, Zenon DEF GetPaymentRecord, ShowPart, Show
    <3>2. address = [label |-> <<"Address">> \o <<k, Len(r.records)>>,
                     value |-> AddressOf(r.records[k].recipient)]
      <4>1. Label("Address", index, tx.count) = <<"Address">> \o <<k, tx.count>>
        BY LabelIs
      <4>2. AddressFromPubkeyHash(hash) = AddressOf(hash)
        BY DEF AddressFromPubkeyHash, Base58, Checksum, AddressOf
      <4> HIDE DEF hash, k
      <4> QED BY <1>3, <2>2, <4>1, <4>2 DEF Item
    <3> HIDE DEF address
    <3>3. SaysPart(address, r, index)
      BY <1>1, <1>2, <2>3, <3>2, PartsSay, Zenon
    <3>4. PartSaid(index, IF ~hashed THEN NoItem ELSE address)
      BY <3>3 DEF PartSaid, r
    <3> QED BY <3>1, <3>4
  <2>4. CASE index % 2 # 0
    <3>1. index % 2 = 1
      BY <1>1, <2>4
    <3>2. shown' = [kind |-> "part", index |-> index, item |-> amount]
      BY <1>5, <2>4, Zenon DEF GetPaymentRecord, ShowPart, Show
    <3>3. AmountSays(amount, Label("Amount", index, tx.count), r.records[k].amount)
      <4> HIDE DEF payment, k
      <4> QED BY <1>3, <2>1, <2>2, AmountIsSaid
    <3>4. /\ amount.label = <<"Amount">> \o <<k, Len(r.records)>>
          /\ DenotesSxp(amount.value, r.records[k].amount)
      <4>1. Label("Amount", index, tx.count) = <<"Amount">> \o <<k, tx.count>>
        BY LabelIs
      <4> HIDE DEF amount, k
      <4> QED BY <4>1, <1>3, <3>3 DEF AmountSays
    <3> HIDE DEF amount
    <3>5. SaysPart(amount, r, index)
      BY <1>1, <1>2, <3>1, <3>4, PartsSay, Zenon
    <3> QED BY <3>2, <3>5 DEF PartSaid, r
  <2> QED BY <2>3, <2>4
<1> QED BY <1>4, <1>5

\* A vote's search that has passed all votes before it is at the vote.
LEMMA FoundIsReceived ==
  ASSUME ReadInv, FoundVote
  PROVE  /\ Accepted /\ tx.asset = "vote" /\ search.index \in 0..255
         /\ payload \in Payloads /\ search.at \in Nat
         /\ Received.records[search.index \div 2 + 1] = ReceivedVote(search.at)
         /\ Len(Received.records) = tx.count
<1> DEFINE half == search.index \div 2
<1>1. search # None /\ search.left = 0
  BY DEF FoundVote
<1>2. /\ Accepted /\ tx.asset = "vote" /\ half < tx.count
      /\ search.at = starts[half - search.left + 1] /\ search.index \in Indices
  BY <1>1 DEF ReadInv, Inv, SearchRetracesParser, SearchType
<1>3. search.index \in 0..255 /\ half \in Nat
  <2>1. search.index \in 0..255
    BY <1>2, RecordsAssumption
  <2> QED BY <2>1
<1>4. VotesAreReceived(Received)
  BY <1>2, VotesReceived
<1> HIDE DEF half
<1>5. search.at = starts[half + 1]
  BY <1>1, <1>2, <1>3
<1>6. tx.count \in Nat
  <2>1. tx.count \in 0..UInt16Max
    BY TxFields DEF ReadInv, Inv, ParserInv, ParserTypeOK
  <2> QED BY <2>1, UInt16Bound
<1>7. half + 1 \in 1..tx.count
  BY <1>2, <1>3, <1>6
<1>8. /\ payload \in Payloads /\ Len(Received.records) = tx.count
      /\ starts[half + 1] \in Nat
      /\ Received.records[half + 1] = ReceivedVote(starts[half + 1])
  BY <1>4, <1>7, Zenon DEF VotesAreReceived
<1> QED BY <1>2, <1>3, <1>5, <1>8, Zenon DEF half

LEMMA VoteSays ==
  ASSUME ReadInv, FoundVote
  PROVE  \E item : /\ shown' = [kind |-> "part", index |-> search.index, item |-> item]
                   /\ PartSaid(search.index, item)
<1> DEFINE index == search.index
           o == search.at
           b == Byte(o)
           percent == FormatPercent(MaxValueLen, Field(o + 1 + b, 2), 2)
           name == Item(Label("Vote", index, tx.count), Field(o + 1, b))
           share == Item(Label("Percent", index, tx.count), percent)
           r == Received
           k == index \div 2 + 1
<1>1. shown' = [kind |-> "part", index |-> index,
                item |-> IF index % 2 = 0 THEN name
                         ELSE IF percent = NoText THEN NoItem ELSE share]
  BY Zenon DEF FoundVote
<1>2. /\ Accepted /\ tx.asset = "vote" /\ index \in 0..255 /\ payload \in Payloads
      /\ o \in Nat /\ r.records[k] = ReceivedVote(o) /\ Len(r.records) = tx.count
  BY FoundIsReceived, Zenon
<1>3. r.asset = "vote"
  BY <1>2, ReceivedFields
<1>4. ReceivedVote(o).name = Field(o + 1, b) /\ ReceivedVote(o).percent = U16(o + 1 + b)
  BY DEF ReceivedVote
<1>5. DenotesPercent(percent, U16(o + 1 + b))
  <2>1. b \in 0..255 /\ o \in Nat
    BY <1>2, ByteType
  <2> HIDE DEF b, o
  <2>2. o + 1 + b \in Nat
    BY <2>1
  <2> QED BY <1>2, <2>2, PercentIsSaid
<1>6. /\ Label("Vote", index, tx.count) = <<"Vote">> \o <<k, tx.count>>
      /\ Label("Percent", index, tx.count) = <<"Percent">> \o <<k, tx.count>>
  BY LabelIs
<1> HIDE DEF r, k, percent, o, b
<1>7. name = [label |-> <<"Vote">> \o <<k, Len(r.records)>>, value |-> r.records[k].name]
  BY <1>2, <1>4, <1>6 DEF Item
<1>8. /\ share.label = <<"Percent">> \o <<k, Len(r.records)>>
      /\ DenotesPercent(share.value, r.records[k].percent)
  <2>1. share.label = Label("Percent", index, tx.count) /\ share.value = percent
    BY DEF Item
  <2> HIDE DEF share
  <2> QED BY <2>1, <1>2, <1>4, <1>5, <1>6
<1> HIDE DEF name, share, index
<1>9. index % 2 = 0 => SaysPart(name, r, index)
  BY <1>2, <1>3, <1>7, PartsSay, Zenon DEF k
<1>10. index % 2 # 0 => SaysPart(share, r, index)
  <2>1. index % 2 # 0 => index % 2 = 1
    BY <1>2
  <2> QED BY <2>1, <1>2, <1>3, <1>8, PartsSay, Zenon DEF k
<1>11. PartSaid(index, IF index % 2 = 0 THEN name
                       ELSE IF percent = NoText THEN NoItem ELSE share)
  <2> DEFINE even == index % 2 = 0
  <2>1. even => PartSaid(index, name)
    BY <1>9 DEF PartSaid, r
  <2>2. ~even => PartSaid(index, share)
    BY <1>10 DEF PartSaid, r
  <2>3. PartSaid(index, NoItem)
    BY DEF PartSaid
  <2> HIDE DEF even
  <2>4. PartSaid(index, IF even THEN name ELSE IF percent = NoText THEN NoItem ELSE share)
    BY <2>1, <2>2, <2>3
  <2> QED BY <2>4 DEF even
<1> QED BY <1>1, <1>11 DEF index

\* Fee and memo.
LEMMA FeeSays ==
  ASSUME ReadInv, Accepted, SetFee
  PROVE  \E item : /\ shown' = [kind |-> "fee", index |-> 0, item |-> item]
                   /\ DenotesSxp(item.value, Received.fee)
<1>1. tx.asset # "message" /\ FeeAt = 50 /\ 50 \in Nat
  BY DEF SetFee, FeeAt
<1>2. shown' = [kind |-> "fee", index |-> 0, item |-> Amount("Fee", FeeAt)]
  BY Zenon DEF SetFee, Show
<1>3. payload \in Payloads
  BY <1>1, AcceptedCommon
<1>4. Received.fee = Field(50, 8)
  BY <1>1, ReceivedFields
<1>5. AmountSays(Amount("Fee", FeeAt), "Fee", Field(50, 8))
  BY <1>1, <1>3, AmountIsSaid
<1>6. DenotesSxp(Amount("Fee", FeeAt).value, Received.fee)
  BY <1>4, <1>5 DEF AmountSays
<1> QED BY <1>2, <1>6

LEMMA MemoSays ==
  ASSUME ReadInv, Accepted, SetMemo
  PROVE  \E item : /\ shown' = [kind |-> "memo", index |-> 0, item |-> item]
                   /\ item.value = Received.memo
<1> DEFINE item == Item("Memo", Field(HeaderLen, tx.memoLen))
<1>1. tx.asset # "message" /\ HeaderLen = 59
  BY DEF SetMemo, HeaderLen
<1>2. shown' = [kind |-> "memo", index |-> 0, item |-> item]
  BY Zenon DEF SetMemo, Show
<1>3. Received.memo = Field(HeaderLen, tx.memoLen)
  BY <1>1, ReceivedFields
<1>4. item.value = Received.memo
  BY <1>3 DEF Item
<1> HIDE DEF item
<1> QED BY <1>2, <1>4

\* A step of the review shows something that the transaction says.
LEMMA StepSays ==
  ASSUME Accepted, UNCHANGED parser, NEW kind, NEW index, NEW item,
         item = NoItem \/ SaysOf(Received, kind, index, item),
         shown' = [kind |-> kind, index |-> index, item |-> item]
  PROVE  SaysReceived'
<1>1. Received' = Received /\ Accepted'
  BY ReceivedStays
<1>2. shown'.kind = kind /\ shown'.index = index /\ shown'.item = item
  OBVIOUS
<1>3. shown'.item # NoItem => SaysOf(Received', shown'.kind, shown'.index, shown'.item)
  BY <1>1, <1>2
<1> QED BY <1>1, <1>3 DEF SaysReceived, SaysOf, NoItem

LEMMA PartsSaid ==
  ASSUME Accepted, UNCHANGED parser, NEW index,
         \E item : /\ shown' = [kind |-> "part", index |-> index, item |-> item]
                   /\ PartSaid(index, item)
  PROVE  SaysReceived'
<1>1. PICK item : /\ shown' = [kind |-> "part", index |-> index, item |-> item]
                  /\ PartSaid(index, item)
  OBVIOUS
<1>2. item = NoItem \/ SaysOf(Received, "part", index, item)
  <2> DEFINE says == SaysPart(item, Received, index)
  <2>1. item = NoItem \/ says
    BY <1>1 DEF PartSaid
  <2>2. says => SaysOf(Received, "part", index, item)
    BY DEF SaysOf
  <2> QED BY <2>1, <2>2
<1> QED BY <1>1, <1>2, StepSays

LEMMA GetItemSays ==
  ASSUME ReadInv, GetItem
  PROVE  SaysReceived'
<1>1. Accepted /\ UNCHANGED parser
  BY DEF GetItem
<1>2. CASE SetFee
  <2>1. PICK item : /\ shown' = [kind |-> "fee", index |-> 0, item |-> item]
                    /\ DenotesSxp(item.value, Received.fee)
    BY <1>1, <1>2, FeeSays
  <2>2. SaysOf(Received, "fee", 0, item)
    BY <2>1 DEF SaysOf
  <2> QED BY <1>1, <2>1, <2>2, StepSays
<1>3. CASE SetMemo
  <2>1. PICK item : /\ shown' = [kind |-> "memo", index |-> 0, item |-> item]
                    /\ item.value = Received.memo
    BY <1>1, <1>3, MemoSays
  <2>2. SaysOf(Received, "memo", 0, item)
    BY <2>1 DEF SaysOf
  <2> QED BY <1>1, <2>1, <2>2, StepSays
<1>4. CASE DisplayMessage
  <2>1. tx'.asset = "message"
    BY <1>1, <1>4 DEF DisplayMessage, parser
  <2> QED BY <2>1 DEF SaysReceived
<1>5. ASSUME NEW index \in Indices, GetIpfsRecord(index) PROVE SaysReceived'
  BY <1>1, <1>5, IpfsSays, PartsSaid
<1>6. ASSUME NEW index \in Indices, GetBurnRecord(index) PROVE SaysReceived'
  BY <1>1, <1>6, BurnSays, PartsSaid
<1>7. ASSUME NEW index \in Indices, GetPaymentRecord(index) PROVE SaysReceived'
  BY <1>1, <1>7, PaymentSays, PartsSaid
<1>8. ASSUME NEW index \in Indices, GetVoteRecord(index) PROVE SaysReceived'
  <2>1. CASE shown' = None
    BY <2>1 DEF SaysReceived
  <2>2. CASE shown' # None
    <3>1. shown' = [kind |-> "part", index |-> index, item |-> NoItem]
      BY <1>8, <2>2, Zenon DEF GetVoteRecord, ShowPart, Show
    <3>2. NoItem = NoItem
      OBVIOUS
    <3> QED BY <1>1, <3>1, <3>2, StepSays
  <2> QED BY <2>1, <2>2
<1> QED BY <1>2, <1>3, <1>4, <1>5, <1>6, <1>7, <1>8 DEF GetItem

SaysInv == TextInv /\ SaysReceived

LEMMA SaysInductive == SaysInv /\ [Next]_vars => SaysInv'
<1> SUFFICES ASSUME SaysInv, [Next]_vars PROVE SaysInv'
  OBVIOUS
<1>1. TextInv' /\ ReadInv /\ ShownInv /\ SaysReceived
  BY TextInductive DEF SaysInv, TextInv
<1> SUFFICES SaysReceived'
  BY <1>1 DEF SaysInv
<1>2. CASE Parse
  <2>1. shown' = None
    BY <1>1, <1>2, ParserEnds DEF Parse, ShownInv, NothingShownBefore
  <2> QED BY <2>1 DEF SaysReceived
<1>3. CASE GetItem
  BY <1>1, <1>3, GetItemSays
<1>4. CASE FoundVote
  <2>1. UNCHANGED parser /\ Accepted
    BY <1>1, <1>4, FoundIsReceived DEF FoundVote
  <2> QED BY <1>1, <1>4, <2>1, VoteSays, PartsSaid
<1>5. CASE SearchVote \/ UNCHANGED vars
  <2>1. UNCHANGED parser /\ shown' = shown
    BY <1>5 DEF SearchVote, vars
  <2>2. Received' = Received /\ tx' = tx /\ (Accepted' <=> Accepted)
    BY <2>1, ReceivedStays
  <2> QED BY <1>1, <2>1, <2>2 DEF SaysReceived, SaysOf, NoItem
<1> QED BY <1>2, <1>3, <1>4, <1>5 DEF Next

LEMMA SaysAlways == Spec => []SaysInv
<1>1. Init => SaysInv
  <2> SUFFICES ASSUME Init PROVE SaysInv
    OBVIOUS
  <2>1. shown = None
    BY DEF Init
  <2>2. TextInv
    BY TextInitially
  <2> QED BY <2>1, <2>2 DEF SaysInv, SaysReceived
<1> QED BY <1>1, SaysInductive, PTL DEF Spec

\* What the review shows of a transaction is what the client put in: every part of
\* every record under its position in the list, every amount and percentage as the
\* number that its bytes are, and fee and memo.
THEOREM ShowsAsSent == Spec => []ShowsWhatWasSent
<1>1. SaysInv => ShowsWhatWasSent
  <2> SUFFICES ASSUME SaysInv, shown # None, shown.item # NoItem, Undamaged,
                      tx.asset # "message"
               PROVE  SaysOf(payload.sent, shown.kind, shown.index, shown.item)
    BY DEF ShowsWhatWasSent, SaysOf
  <2>1. ReadInv /\ Accepted /\ SaysOf(Received, shown.kind, shown.index, shown.item)
    BY DEF SaysInv, SaysReceived, TextInv
  <2>2. Received = payload.sent
    BY <2>1, ReceivedIsSent
  <2> QED BY <2>1, <2>2
<1> QED BY <1>1, SaysAlways, PTL

=============================================================================
