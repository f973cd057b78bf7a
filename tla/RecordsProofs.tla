---------------------------- MODULE RecordsProofs ---------------------------
(***************************************************************************)
(* Proofs about the deserialisers and the providers of records.  Parser-   *)
(* Inv says of every stage what the deserialisers before it established:   *)
(* where the cursor is, and that the votes read so far lie one behind the  *)
(* other.  With it the search of a provider, which counts on the lengths   *)
(* in the payload without a look at its size, retraces the deserialiser.   *)
(***************************************************************************)
EXTENDS Records, AmountsProofs, SequenceTheorems, TLAPS

-----------------------------------------------------------------------------
(* The invariant.                                                          *)

\* The votes read so far lie one behind the other from the first to the cursor.
VotesLinked ==
  /\ \A k \in 1..Len(starts) - 1 : starts[k + 1] = VoteEnd(starts[k])
  /\ starts # <<>> =>
       /\ starts[1] = tx.at
       /\ VoteEnd(starts[Len(starts)]) = offset

\* Where a stage begins.
StageBegins ==
  /\ stage \in {"common", "message"} => offset = 0 /\ starts = <<>>
  /\ stage \in {"ipfs", "transfer", "burn"} =>
       tx.asset = stage /\ offset = MemoEnd /\ starts = <<>>
  /\ stage = "voteCount" => tx.asset = "vote" /\ offset = MemoEnd /\ starts = <<>>
  /\ stage = "votes" =>
       /\ tx.asset = "vote" /\ tx.count \in 1..VoteCountMax /\ tx.at = MemoEnd + 1
       /\ Len(starts) <= tx.count /\ tx.at <= offset
       /\ starts = <<>> => offset = tx.at

\* How many records an accepted transaction may have.
CountInRange ==
  Accepted =>
    /\ tx.asset = "transfer" => tx.count \in 1..PaymentCountMax
    /\ tx.asset = "vote" => tx.count \in 0..VoteCountMax

ParserInv ==
  /\ ParserTypeOK /\ CursorInside /\ VotesLinked
  /\ StageBegins /\ RecordsFillPayload /\ CountInRange

-----------------------------------------------------------------------------
(* Reading.                                                                *)

LEMMA PayloadType ==
  ASSUME payload \in Payloads
  PROVE  /\ Size \in Nat /\ Size <= 4096
         /\ \A k \in 1..Size : payload.bytes[k] \in 0..255
<1>1. payload.bytes \in Seq(0..255)
  BY PayloadAssumption
<1>2. Len(payload.bytes) <= 4096
  BY PayloadAssumption DEF TxLenMax
<1>3. Len(payload.bytes) \in Nat
  BY <1>1, LenProperties
<1>4. \A k \in 1..Len(payload.bytes) : payload.bytes[k] \in 0..255
  BY <1>1, ElementOfSeq
<1> QED BY <1>2, <1>3, <1>4 DEF Size

LEMMA ByteType ==
  ASSUME payload \in Payloads
  PROVE  \A o \in Nat : Byte(o) \in 0..255
<1>1. /\ Size \in Nat /\ Size <= 4096
      /\ \A k \in 1..Size : payload.bytes[k] \in 0..255
  BY PayloadType
<1>2. ASSUME NEW o \in Nat PROVE Byte(o) \in 0..255
  <2>1. CASE o < Size
    <3>1. o + 1 \in 1..Size
      BY <2>1, <1>1
    <3> QED BY <2>1, <3>1, <1>1 DEF Byte
  <2>2. CASE ~(o < Size) /\ o < 4096
    BY <2>2 DEF Byte, TxLenMax
  <2>3. CASE ~(o < Size) /\ o = 4096
    <3>1. Byte(o) = Size % 256
      BY <2>3 DEF Byte, TxLenMax
    <3> QED BY <3>1, <1>1
  <2>4. CASE ~(o < Size) /\ o = 4097
    <3>1. Byte(o) = Size \div 256
      BY <2>4 DEF Byte, TxLenMax
    <3> QED BY <3>1, <1>1
  <2>5. CASE ~(o < Size) /\ o > 4097
    BY <2>5 DEF Byte, TxLenMax
  <2> QED BY <2>1, <2>2, <2>3, <2>4, <2>5, <1>1
<1> QED BY <1>2

\* A step reads the same bytes before and after.
LEMMA BytesStay ==
  ASSUME payload' = payload
  PROVE  /\ Size' = Size
         /\ \A o : Byte(o)' = Byte(o)
         /\ \A o : VoteEnd(o)' = VoteEnd(o)
<1>1. Size' = Size
  BY DEF Size
<1>2. \A o : Byte(o)' = Byte(o)
  BY <1>1 DEF Byte
<1>3. \A o : VoteEnd(o)' = VoteEnd(o)
  BY <1>2 DEF VoteEnd
<1> QED BY <1>1, <1>2, <1>3

LEMMA UInt16Bound == UInt16Max \in Nat /\ UInt16Max > 65534
BY DEF UInt16Max

LEMMA TwoBytes == \A a, b \in 0..255 : a + 256 * b \in 0..UInt16Max
<1>1. \A a, b \in 0..255 : a + 256 * b \in Nat /\ a + 256 * b <= 65535
  OBVIOUS
<1> QED BY <1>1, UInt16Bound

LEMMA U16Type ==
  ASSUME payload \in Payloads, NEW o \in Nat
  PROVE  U16(o) \in 0..UInt16Max
<1>1. Byte(o) \in 0..255 /\ Byte(o + 1) \in 0..255
  BY ByteType
<1>2. \A a, b \in 0..255 : a + 256 * b \in 0..UInt16Max
  BY TwoBytes
<1> QED BY <1>1, <1>2 DEF U16

LEMMA AssetType == Asset \in {"ipfs", "transfer", "burn", "vote", "unknown"}
BY Zenon DEF Asset

LEMMA TxFields ==
  ASSUME NEW t \in TxTypes
  PROVE  t.asset \in Assets /\ t.memoLen \in 0..255 /\ t.at \in Nat /\ t.count \in 0..UInt16Max
BY DEF TxTypes

-----------------------------------------------------------------------------
(* Steps.                                                                  *)

\* A step of another component.
LEMMA ParserStutter ==
  ASSUME ParserInv, UNCHANGED parser
  PROVE  ParserInv'
<1>1. /\ payload' = payload /\ stage' = stage /\ offset' = offset /\ tx' = tx
      /\ total' = total /\ starts' = starts /\ sum' = sum
  BY DEF parser, votes
<1>2. Size' = Size /\ \A o : Byte(o)' = Byte(o) /\ VoteEnd(o)' = VoteEnd(o)
  BY <1>1, BytesStay
<1>3. ParserTypeOK' /\ CursorInside'
  BY <1>1, <1>2 DEF ParserInv, ParserTypeOK, CursorInside
<1>4. VotesLinked'
  BY <1>1, <1>2 DEF ParserInv, VotesLinked
<1>5. StageBegins' /\ CountInRange'
  BY <1>1, <1>2 DEF ParserInv, StageBegins, CountInRange, Accepted, MemoEnd
<1>6. RecordsFillPayload'
  BY <1>1, <1>2 DEF ParserInv, RecordsFillPayload, Accepted, MemoEnd
<1> QED BY <1>3, <1>4, <1>5, <1>6 DEF ParserInv

\* A payload is refused.
LEMMA Refusal ==
  ASSUME ParserInv, stage' = "refused", UNCHANGED <<payload, offset, tx, votes>>
  PROVE  ParserInv'
<1>1. /\ payload' = payload /\ offset' = offset /\ tx' = tx
      /\ total' = total /\ starts' = starts /\ sum' = sum
  BY DEF votes
<1>2. Size' = Size /\ \A o : VoteEnd(o)' = VoteEnd(o)
  BY <1>1, BytesStay
<1>3. ParserTypeOK' /\ CursorInside'
  BY <1>1, <1>2 DEF ParserInv, ParserTypeOK, CursorInside, Stages
<1>4. VotesLinked'
  BY <1>1, <1>2 DEF ParserInv, VotesLinked
<1>5. StageBegins' /\ CountInRange' /\ RecordsFillPayload'
  BY DEF StageBegins, CountInRange, RecordsFillPayload, Accepted
<1> QED BY <1>3, <1>4, <1>5 DEF ParserInv

\* A deserialiser without votes goes on.
LEMMA GoingOn ==
  ASSUME ParserInv, starts = <<>>, UNCHANGED <<payload, votes>>,
         stage' \in Stages, offset' \in Nat, offset' <= Size, tx' \in TxTypes,
         StageBegins', RecordsFillPayload', CountInRange'
  PROVE  ParserInv'
<1>1. payload' = payload /\ total' = total /\ starts' = starts /\ sum' = sum
  BY DEF votes
<1>2. Size' = Size
  BY <1>1, BytesStay
<1>3. ParserTypeOK' /\ CursorInside'
  BY <1>1, <1>2 DEF ParserInv, ParserTypeOK, CursorInside
<1>4. VotesLinked'
  <2>1. Len(starts') = 0
    BY <1>1
  <2> QED BY <1>1, <2>1 DEF VotesLinked
<1> QED BY <1>3, <1>4 DEF ParserInv

LEMMA ReadCommonKeeps ==
  ASSUME ParserInv, ReadCommon
  PROVE  ParserInv'
<1>1. /\ stage = "common" /\ offset = 0 /\ starts = <<>>
      /\ payload \in Payloads /\ tx \in TxTypes
  BY DEF ReadCommon, Read, ParserInv, StageBegins, ParserTypeOK
<1>2. UNCHANGED <<payload, votes>>
  BY DEF ReadCommon, Read
<1>3. CASE ~ValidHeader
  <2>1. stage' = "refused" /\ UNCHANGED <<offset, tx>>
    BY <1>3 DEF ReadCommon, Read
  <2> QED BY <2>1, <1>2, Refusal
<1>4. CASE ValidHeader
  <2>1. /\ stage' = IF Asset = "vote" THEN "voteCount" ELSE Asset
        /\ offset' = HeaderLen + MemoLen
        /\ tx' = [tx EXCEPT !.asset = Asset, !.memoLen = MemoLen]
    BY <1>4 DEF ReadCommon, Read
  <2>2. Asset \in {"ipfs", "transfer", "burn", "vote"}
    BY <1>4, AssetType DEF ValidHeader
  <2>3. MemoLen \in 0..255
    BY <1>1, ByteType DEF MemoLen
  <2>4. tx' \in TxTypes /\ tx'.asset = Asset /\ tx'.memoLen = MemoLen
    <3>1. Asset \in Assets
      BY <2>2 DEF Assets
    <3>2. tx' = [tx EXCEPT !.asset = Asset, !.memoLen = MemoLen] /\ tx \in TxTypes
      BY <2>1, <1>1
    <3> QED BY <3>1, <3>2, <2>3 DEF TxTypes
  <2>5. offset' \in Nat /\ offset' <= Size
    <3>1. offset + (HeaderLen + MemoLen) <= Size
      BY <1>4 DEF ValidHeader, Has
    <3>2. HeaderLen + MemoLen \in Nat
      BY <2>3 DEF HeaderLen
    <3>3. offset' = HeaderLen + MemoLen /\ offset = 0
      BY <2>1, <1>1
    <3> QED BY <3>1, <3>2, <3>3
  <2>6. stage' \in {"ipfs", "transfer", "burn", "voteCount"}
    BY <2>1, <2>2
  <2>7. StageBegins'
    BY <2>1, <2>2, <2>4, <2>6, <1>1, <1>2 DEF StageBegins, MemoEnd, votes
  <2>8. RecordsFillPayload' /\ CountInRange'
    BY <2>6 DEF RecordsFillPayload, CountInRange, Accepted
  <2>9. stage' \in Stages
    BY <2>6 DEF Stages
  <2> QED BY <1>1, <1>2, <2>4, <2>5, <2>7, <2>8, <2>9, GoingOn
<1> QED BY <1>3, <1>4

LEMMA ReadIpfsKeeps ==
  ASSUME ParserInv, ReadIpfs
  PROVE  ParserInv'
<1> DEFINE end == offset + 2 + Byte(offset + 1)
           valid == Has(2) /\ Byte(offset + 1) \in 1..64 /\ end <= Size /\ end = Size
<1>1. /\ stage = "ipfs" /\ starts = <<>> /\ tx.asset = "ipfs" /\ offset = MemoEnd
      /\ payload \in Payloads /\ tx \in TxTypes /\ offset \in Nat
  BY DEF ReadIpfs, Read, ParserInv, StageBegins, ParserTypeOK
<1>2. UNCHANGED <<payload, votes>>
  BY DEF ReadIpfs, Read
<1>3. CASE ~valid
  <2>1. stage' = "refused" /\ UNCHANGED <<offset, tx>>
    BY <1>3 DEF ReadIpfs, Read
  <2> QED BY <2>1, <1>2, Refusal
<1>4. CASE valid
  <2>1. /\ stage' = "accepted" /\ offset' = end
        /\ tx' = [tx EXCEPT !.at = offset, !.count = HashLen]
    BY <1>4 DEF ReadIpfs, Read
  <2>2. HashLen \in 0..UInt16Max /\ HashLen = Byte(offset + 1) + 2 /\ end \in Nat /\ end = Size
    <3>1. HashLen = Byte(offset + 1) + 2
      BY DEF HashLen
    <3>2. Byte(offset + 1) \in 1..64 /\ end = Size
      BY <1>4
    <3>3. offset \in Nat
      BY <1>1
    <3> QED BY <3>1, <3>2, <3>3, UInt16Bound
  <2>3. /\ tx' \in TxTypes /\ tx'.asset = "ipfs" /\ tx'.memoLen = tx.memoLen
        /\ tx'.at = offset /\ tx'.count = HashLen
    <3>1. offset \in Nat /\ HashLen \in 0..UInt16Max /\ tx \in TxTypes /\ tx.asset = "ipfs"
      BY <2>2, <1>1
    <3>2. tx' = [tx EXCEPT !.at = offset, !.count = HashLen]
      BY <2>1
    <3> QED BY <3>1, <3>2 DEF TxTypes
  <2>4. Size' = Size
    BY <1>2, BytesStay
  <2>5. StageBegins' /\ CountInRange' /\ stage' \in Stages
    BY <2>1, <2>3 DEF StageBegins, CountInRange, Stages
  <2>6. tx'.at = MemoEnd' /\ tx'.at + tx'.count = Size'
    <3>1. MemoEnd' = MemoEnd
      BY <2>3 DEF MemoEnd
    <3>2. offset = MemoEnd /\ offset \in Nat /\ Byte(offset + 1) \in 1..64
      BY <1>1, <1>4
    <3>3. /\ tx'.at = offset /\ tx'.count = Byte(offset + 1) + 2
          /\ Size' = offset + 2 + Byte(offset + 1)
      BY <2>2, <2>3, <2>4
    <3> QED BY <3>1, <3>2, <3>3
  <2>7. RecordsFillPayload'
    BY <2>3, <2>6 DEF RecordsFillPayload
  <2> HIDE DEF end, valid
  <2>8. offset' \in Nat /\ offset' <= Size
    BY <2>1, <2>2
  <2> QED BY <1>1, <1>2, <2>3, <2>5, <2>7, <2>8, GoingOn
<1> QED BY <1>3, <1>4

LEMMA ReadTransferKeeps ==
  ASSUME ParserInv, ReadTransfer
  PROVE  ParserInv'
<1> DEFINE count == U16(offset)
           end == offset + 2 + PaymentLen * count
           valid == Has(2) /\ PaymentCount(count) /\ end <= Size /\ end = Size
<1>1. /\ stage = "transfer" /\ starts = <<>> /\ tx.asset = "transfer" /\ offset = MemoEnd
      /\ payload \in Payloads /\ tx \in TxTypes /\ offset \in Nat
  BY DEF ReadTransfer, Read, ParserInv, StageBegins, ParserTypeOK
<1>2. UNCHANGED <<payload, votes>>
  BY DEF ReadTransfer, Read
<1>3. CASE ~valid
  <2>1. stage' = "refused" /\ UNCHANGED <<offset, tx>>
    BY <1>3 DEF ReadTransfer, Read
  <2> QED BY <2>1, <1>2, Refusal
<1>4. CASE valid
  <2>1. /\ stage' = "accepted" /\ offset' = end
        /\ tx' = [tx EXCEPT !.at = offset + 2, !.count = count]
    BY <1>4 DEF ReadTransfer, Read
  <2>2. count \in 1..PaymentCountMax /\ end = Size
    BY <1>4 DEF PaymentCount
  <2>3. count \in 0..UInt16Max
    BY <1>1, U16Type
  <2> HIDE DEF count, valid
  <2>4. /\ tx' \in TxTypes /\ tx'.asset = "transfer" /\ tx'.memoLen = tx.memoLen
        /\ tx'.at = offset + 2 /\ tx'.count = count
    <3>1. offset + 2 \in Nat /\ tx \in TxTypes /\ tx.asset = "transfer"
      BY <1>1
    <3>2. tx' = [tx EXCEPT !.at = offset + 2, !.count = count]
      BY <2>1
    <3> QED BY <3>1, <3>2, <2>3 DEF TxTypes
  <2>5. Size' = Size
    BY <1>2, BytesStay
  <2>6. StageBegins' /\ CountInRange' /\ stage' \in Stages
    BY <2>1, <2>2, <2>4 DEF StageBegins, CountInRange, Stages
  <2>7. tx'.at = MemoEnd' + 2 /\ tx'.at + PaymentLen * tx'.count = Size'
    BY <2>2, <2>4, <2>5, <1>1 DEF MemoEnd
  <2>8. RecordsFillPayload'
    BY <2>4, <2>7 DEF RecordsFillPayload
  <2>9. end \in Nat
    BY <2>3, <1>1, UInt16Bound DEF PaymentLen, PubkeyHashLen, AmountLen
  <2> HIDE DEF end
  <2>10. offset' \in Nat /\ offset' <= Size
    BY <2>1, <2>2, <2>9
  <2> QED BY <1>1, <1>2, <2>4, <2>6, <2>8, <2>10, GoingOn
<1> QED BY <1>3, <1>4

LEMMA ReadBurnKeeps ==
  ASSUME ParserInv, ReadBurn
  PROVE  ParserInv'
<1> DEFINE end == offset + AmountLen
           valid == end <= Size /\ end = Size
<1>1. /\ stage = "burn" /\ starts = <<>> /\ tx.asset = "burn" /\ offset = MemoEnd
      /\ payload \in Payloads /\ tx \in TxTypes /\ offset \in Nat
  BY DEF ReadBurn, Read, ParserInv, StageBegins, ParserTypeOK
<1>2. UNCHANGED <<payload, votes>>
  BY DEF ReadBurn, Read
<1>3. CASE ~valid
  <2>1. stage' = "refused" /\ UNCHANGED <<offset, tx>>
    BY <1>3 DEF ReadBurn, Read
  <2> QED BY <2>1, <1>2, Refusal
<1>4. CASE valid
  <2>1. /\ stage' = "accepted" /\ offset' = end
        /\ tx' = [tx EXCEPT !.at = offset, !.count = 1]
    BY <1>4 DEF ReadBurn, Read
  <2>2. end \in Nat /\ end = Size
    BY <1>1, <1>4 DEF AmountLen
  <2>3. /\ tx' \in TxTypes /\ tx'.asset = "burn" /\ tx'.memoLen = tx.memoLen
        /\ tx'.at = offset
    <3>1. 1 \in 0..UInt16Max /\ offset \in Nat /\ tx \in TxTypes /\ tx.asset = "burn"
      BY <1>1, UInt16Bound
    <3>2. tx' = [tx EXCEPT !.at = offset, !.count = 1]
      BY <2>1
    <3> QED BY <3>1, <3>2 DEF TxTypes
  <2>4. Size' = Size
    BY <1>2, BytesStay
  <2>5. StageBegins' /\ CountInRange' /\ stage' \in Stages
    BY <2>1, <2>3 DEF StageBegins, CountInRange, Stages
  <2>6. tx'.at = MemoEnd' /\ tx'.at + AmountLen = Size'
    BY <2>2, <2>3, <2>4, <1>1 DEF MemoEnd
  <2>7. RecordsFillPayload'
    BY <2>3, <2>6 DEF RecordsFillPayload
  <2> HIDE DEF end, valid
  <2>8. offset' \in Nat /\ offset' <= Size
    BY <2>1, <2>2
  <2> QED BY <1>1, <1>2, <2>3, <2>5, <2>7, <2>8, GoingOn
<1> QED BY <1>3, <1>4

LEMMA ReadMessageKeeps ==
  ASSUME ParserInv, ReadMessage
  PROVE  ParserInv'
<1> DEFINE length == U16(offset)
           end == offset + 2 + length
           valid == /\ Has(2) /\ length \in 1..MessageMaxLen
                    /\ end <= Size /\ Ascii(offset + 2, length, TRUE) /\ end = Size
<1>1. /\ stage = "message" /\ starts = <<>> /\ offset = 0
      /\ payload \in Payloads /\ tx \in TxTypes
  BY DEF ReadMessage, Read, ParserInv, StageBegins, ParserTypeOK
<1>2. UNCHANGED <<payload, votes>>
  BY DEF ReadMessage, Read
<1>3. CASE ~valid
  <2>1. stage' = "refused" /\ UNCHANGED <<offset, tx>>
    BY <1>3 DEF ReadMessage, Read
  <2> QED BY <2>1, <1>2, Refusal
<1>4. CASE valid
  <2>1. /\ stage' = "accepted" /\ offset' = end
        /\ tx' = [tx EXCEPT !.asset = "message", !.at = offset + 2, !.count = length]
    BY <1>4 DEF ReadMessage, Read
  <2>2. end = Size
    BY <1>4
  <2>3. length \in 0..UInt16Max
    <3>1. offset \in Nat
      BY <1>1
    <3> QED BY <1>1, <3>1, U16Type
  <2> HIDE DEF length, valid
  <2>4. tx' \in TxTypes /\ tx'.asset = "message" /\ tx'.at = 2 /\ tx'.count = length
    <3>1. "message" \in Assets
      BY DEF Assets
    <3>2. tx' = [tx EXCEPT !.asset = "message", !.at = 2, !.count = length] /\ tx \in TxTypes
      BY <2>1, <1>1
    <3> QED BY <3>1, <3>2, <2>3 DEF TxTypes
  <2>5. Size' = Size
    BY <1>2, BytesStay
  <2>6. StageBegins' /\ CountInRange' /\ stage' \in Stages
    BY <2>1, <2>4 DEF StageBegins, CountInRange, Stages
  <2>7. end = 2 + length /\ end \in Nat
    BY <2>3, <1>1, UInt16Bound
  <2> HIDE DEF end
  <2>8. RecordsFillPayload'
    BY <2>2, <2>4, <2>5, <2>7 DEF RecordsFillPayload
  <2>9. offset' \in Nat /\ offset' <= Size
    BY <2>1, <2>2, <2>7
  <2> QED BY <1>1, <1>2, <2>4, <2>6, <2>8, <2>9, GoingOn
<1> QED BY <1>3, <1>4

LEMMA ReadVoteCountKeeps ==
  ASSUME ParserInv, ReadVoteCount
  PROVE  ParserInv'
<1> DEFINE count == Byte(offset)
           valid == Has(1) /\ count <= VoteCountMax
<1>1. /\ stage = "voteCount" /\ starts = <<>> /\ tx.asset = "vote" /\ offset = MemoEnd
      /\ payload \in Payloads /\ tx \in TxTypes /\ offset \in Nat
  BY DEF ReadVoteCount, Read, ParserInv, StageBegins, ParserTypeOK
<1>2. UNCHANGED <<payload, votes>>
  BY DEF ReadVoteCount, Read
<1>3. CASE ~valid
  <2>1. stage' = "refused" /\ UNCHANGED <<offset, tx>>
    BY <1>3 DEF ReadVoteCount, Read
  <2> QED BY <2>1, <1>2, Refusal
<1>4. CASE valid
  <2>1. /\ stage' = (IF count = 0 THEN "accepted" ELSE "votes") /\ offset' = offset + 1
        /\ tx' = [tx EXCEPT !.at = offset + 1, !.count = count]
    BY <1>4 DEF ReadVoteCount, Read
  <2>2. count \in 0..VoteCountMax /\ count \in 0..UInt16Max
    <3>1. count \in 0..255
      BY <1>1, ByteType
    <3> QED BY <3>1, <1>4, UInt16Bound DEF VoteCountMax
  <2>3. offset + 1 <= Size
    BY <1>4 DEF Has
  <2> HIDE DEF count, valid
  <2>4. /\ tx' \in TxTypes /\ tx'.asset = "vote" /\ tx'.memoLen = tx.memoLen
        /\ tx'.at = offset + 1 /\ tx'.count = count
    <3>1. offset + 1 \in Nat /\ tx \in TxTypes /\ tx.asset = "vote"
      BY <1>1
    <3>2. tx' = [tx EXCEPT !.at = offset + 1, !.count = count]
      BY <2>1
    <3> QED BY <3>1, <3>2, <2>2 DEF TxTypes
  <2>5. Size' = Size /\ MemoEnd' = MemoEnd /\ starts' = <<>> /\ Len(starts') = 0
    BY <1>1, <1>2, <2>4, BytesStay DEF MemoEnd, votes
  <2>6. stage' \in Stages /\ offset' \in Nat /\ offset' <= Size
    BY <2>1, <2>3, <1>1 DEF Stages
  <2>7. CountInRange'
    BY <2>2, <2>4 DEF CountInRange
  <2>8. tx'.at = MemoEnd' + 1 /\ offset' = tx'.at /\ tx'.at <= Size'
    BY <2>1, <2>3, <2>4, <2>5, <1>1
  <2>9. StageBegins'
    <3>1. CASE count = 0
      BY <3>1, <2>1 DEF StageBegins
    <3>2. CASE count # 0
      <4>1. tx'.count \in 1..VoteCountMax /\ Len(starts') <= tx'.count
        BY <3>2, <2>2, <2>4, <2>5 DEF VoteCountMax
      <4>2. tx'.at = MemoEnd' + 1 /\ offset' = tx'.at /\ tx'.at <= offset'
        BY <2>1, <2>4, <2>8, <1>1
      <4> QED BY <4>1, <4>2, <3>2, <2>1, <2>4 DEF StageBegins
    <3> QED BY <3>1, <3>2
  <2>10. RecordsFillPayload'
    <3>1. CASE count = 0
      BY <3>1, <2>4, <2>5, <2>8 DEF RecordsFillPayload
    <3>2. CASE count # 0
      BY <3>2, <2>1 DEF RecordsFillPayload, Accepted
    <3> QED BY <3>1, <3>2
  <2> QED BY <1>1, <1>2, <2>4, <2>6, <2>7, <2>9, <2>10, GoingOn
<1> QED BY <1>3, <1>4

\* One more vote lies behind the others.
LEMMA OneMoreVote ==
  ASSUME payload \in Payloads, starts \in Seq(Nat), offset \in Nat, VotesLinked,
         starts = <<>> => offset = tx.at,
         NEW s, s = Append(starts, offset)
  PROVE  /\ s \in Seq(Nat) /\ Len(s) = Len(starts) + 1 /\ s # <<>>
         /\ \A k \in 1..Len(s) - 1 : s[k + 1] = VoteEnd(s[k])
         /\ s[1] = tx.at /\ s[Len(s)] = offset
<1>1. Len(starts) \in Nat /\ (Len(starts) = 0 => starts = <<>>)
  BY LenProperties, EmptySeq
<1>2. /\ s \in Seq(Nat) /\ Len(s) = Len(starts) + 1
      /\ \A k \in 1..Len(starts) : s[k] = starts[k]
      /\ s[Len(starts) + 1] = offset
  BY AppendProperties
<1>3. s # <<>>
  BY <1>1, <1>2
<1>4. ASSUME NEW k \in 1..Len(s) - 1 PROVE s[k + 1] = VoteEnd(s[k])
  <2>1. k \in 1..Len(starts) /\ s[k] = starts[k]
    BY <1>1, <1>2
  <2>2. CASE k < Len(starts)
    <3>1. k \in 1..Len(starts) - 1 /\ k + 1 \in 1..Len(starts)
      BY <2>1, <2>2, <1>1
    <3>2. s[k + 1] = starts[k + 1]
      BY <3>1, <1>2
    <3>3. starts[k + 1] = VoteEnd(starts[k])
      BY <3>1 DEF VotesLinked
    <3> QED BY <3>2, <3>3, <2>1
  <2>3. CASE k = Len(starts)
    <3>1. starts # <<>>
      BY <2>1, <2>3, <1>1
    <3>2. VoteEnd(starts[k]) = offset
      BY <3>1, <2>3 DEF VotesLinked
    <3> QED BY <3>2, <2>1, <2>3, <1>2
  <2> QED BY <2>1, <2>2, <2>3, <1>1
<1>5. s[1] = tx.at
  <2>1. CASE starts = <<>>
    BY <2>1, <1>2
  <2>2. CASE starts # <<>>
    <3>1. 1 \in 1..Len(starts)
      BY <2>2, <1>1
    <3> QED BY <3>1, <2>2, <1>2 DEF VotesLinked
  <2> QED BY <2>1, <2>2
<1> QED BY <1>2, <1>3, <1>4, <1>5

LEMMA ReadVoteKeeps ==
  ASSUME ParserInv, ReadVote
  PROVE  ParserInv'
<1> DEFINE end == offset + 3 + NameLen
<1>1. /\ stage = "votes" /\ tx.asset = "vote" /\ tx.at = MemoEnd + 1
      /\ tx.count \in 1..VoteCountMax /\ Len(starts) < tx.count
      /\ (starts = <<>> => offset = tx.at)
  BY DEF ReadVote, Read, ParserInv, StageBegins
<1>2. /\ payload \in Payloads /\ tx \in TxTypes /\ offset \in Nat
      /\ total \in 0..UInt16Max /\ starts \in Seq(Nat) /\ sum \in Nat /\ VotesLinked
  BY DEF ParserInv, ParserTypeOK
<1>3. payload' = payload
  BY DEF ReadVote, Read
<1>4. CASE ~ValidVote
  <2>1. stage' = "refused" /\ UNCHANGED <<payload, offset, tx, votes>>
    BY <1>4 DEF ReadVote, Read
  <2> QED BY <2>1, Refusal
<1>5. CASE ValidVote
  <2>1. /\ stage' = "votes" /\ offset' = end /\ tx' = tx
        /\ total' = Plus(Percent) /\ starts' = Append(starts, offset) /\ sum' = sum + Percent
    BY <1>5 DEF ReadVote, Read
  <2>2. NameLen \in 0..255
    BY <1>2, ByteType DEF NameLen
  <2>3. end \in Nat /\ end <= Size
    <3>1. offset + (3 + NameLen) <= Size
      BY <1>5 DEF ValidVote, Has
    <3> QED BY <3>1, <2>2, <1>2
  <2>4. Percent \in 0..UInt16Max
    <3>1. offset + 1 + NameLen \in Nat
      BY <1>2, <2>2
    <3> QED BY <3>1, <1>2, U16Type DEF Percent
  <2>5. sum' \in Nat
    BY <2>1, <2>4, <1>2, UInt16Bound
  <2>6. total' \in 0..UInt16Max
    <3>1. \A t, u \in 0..UInt16Max : (t + u) % (UInt16Max + 1) \in 0..UInt16Max
      BY UInt16Bound
    <3> QED BY <3>1, <2>1, <2>4, <1>2 DEF Plus
  <2>7. /\ starts' \in Seq(Nat) /\ Len(starts') = Len(starts) + 1 /\ starts' # <<>>
        /\ \A k \in 1..Len(starts') - 1 : starts'[k + 1] = VoteEnd(starts'[k])
        /\ starts'[1] = tx.at /\ starts'[Len(starts')] = offset
    <3>1. starts' = Append(starts, offset) /\ (starts = <<>> => offset = tx.at)
      BY <2>1, <1>1
    <3> QED BY <3>1, <1>2, OneMoreVote
  <2>8. Size' = Size /\ \A o : VoteEnd(o)' = VoteEnd(o)
    BY <1>3, BytesStay
  <2> HIDE DEF end
  <2>9. ParserTypeOK' /\ CursorInside'
    BY <2>1, <2>3, <2>5, <2>6, <2>7, <2>8, <1>2, <1>3 DEF ParserTypeOK, CursorInside, Stages
  <2>10. VotesLinked'
    <3>1. VoteEnd(offset) = offset'
      BY <2>1, <1>2, <2>2 DEF VoteEnd, NameLen, end
    <3> QED BY <3>1, <2>1, <2>7, <2>8 DEF VotesLinked
  <2>11. MemoEnd' = MemoEnd
    BY <2>1 DEF MemoEnd
  <2>12. Len(starts') <= tx.count
    <3>1. Len(starts) \in Nat /\ Len(starts) < tx.count /\ tx.count \in Nat
      <4>1. Len(starts) \in Nat
        BY <1>2, LenProperties
      <4>2. tx.count \in 0..UInt16Max
        BY <1>2, TxFields
      <4> QED BY <4>1, <4>2, <1>1
    <3>2. Len(starts') = Len(starts) + 1
      BY <2>7
    <3> QED BY <3>1, <3>2
  <2>13. StageBegins'
    <3>1. tx.at <= offset'
      <4>1. tx.at <= offset /\ tx.at \in Nat
        BY <1>1, <1>2, TxFields DEF ParserInv, StageBegins
      <4> QED BY <4>1, <2>1, <2>2, <1>2 DEF end
    <3> QED BY <3>1, <2>1, <2>7, <2>11, <2>12, <1>1 DEF StageBegins
  <2>14. RecordsFillPayload' /\ CountInRange'
    BY <2>1 DEF RecordsFillPayload, CountInRange, Accepted
  <2> QED BY <2>9, <2>10, <2>13, <2>14 DEF ParserInv
<1> QED BY <1>4, <1>5

LEMMA EndVotesKeeps ==
  ASSUME ParserInv, EndVotes
  PROVE  ParserInv'
<1> DEFINE valid == total = PercentageMax /\ offset = Size
<1>1. /\ stage = "votes" /\ tx.asset = "vote" /\ tx.at = MemoEnd + 1
      /\ tx.count \in 1..VoteCountMax /\ Len(starts) = tx.count
  BY DEF EndVotes, Read, ParserInv, StageBegins
<1>2. /\ payload \in Payloads /\ tx \in TxTypes /\ offset \in Nat
      /\ starts \in Seq(Nat) /\ VotesLinked
  BY DEF ParserInv, ParserTypeOK
<1>3. UNCHANGED <<payload, votes, offset, tx>>
  BY DEF EndVotes, Read
<1>4. CASE ~valid
  <2>1. stage' = "refused"
    BY <1>4 DEF EndVotes, Read
  <2> QED BY <2>1, <1>3, Refusal
<1>5. CASE valid
  <2>1. stage' = "accepted" /\ offset = Size
    BY <1>5 DEF EndVotes, Read
  <2>2. Size' = Size /\ MemoEnd' = MemoEnd /\ \A o : VoteEnd(o)' = VoteEnd(o)
    <3>1. payload' = payload /\ tx' = tx
      BY <1>3
    <3> QED BY <3>1, BytesStay DEF MemoEnd
  <2>3. offset' = offset /\ tx' = tx /\ starts' = starts
    BY <1>3 DEF votes
  <2>4. ParserTypeOK' /\ CursorInside'
    BY <2>1, <2>2, <1>3 DEF ParserInv, ParserTypeOK, CursorInside, Stages, votes
  <2>5. VotesLinked'
    BY <2>2, <2>3, <1>2 DEF VotesLinked
  <2>6. StageBegins'
    BY <2>1 DEF StageBegins
  <2>7. CountInRange'
    <3>1. tx.count \in 0..VoteCountMax
      BY <1>1 DEF VoteCountMax
    <3> QED BY <3>1, <2>3, <1>1 DEF CountInRange
  <2>8. VoteEnd(starts[tx.count]) = Size /\ tx.at <= Size
    <3>1. Len(starts) \in 1..VoteCountMax /\ starts # <<>>
      BY <1>1
    <3>2. VoteEnd(starts[Len(starts)]) = Size
      BY <3>1, <1>2, <2>1 DEF VotesLinked
    <3>3. tx.at <= Size
      BY <1>1, <2>1 DEF ParserInv, StageBegins
    <3> QED BY <3>2, <3>3, <1>1
  <2>9. RecordsFillPayload'
    BY <2>2, <2>3, <2>8, <1>1 DEF RecordsFillPayload
  <2> QED BY <2>4, <2>5, <2>6, <2>7, <2>9 DEF ParserInv
<1> QED BY <1>4, <1>5

LEMMA ParserInitInv ==
  ASSUME ParserInit
  PROVE  ParserInv
<1>1. /\ payload \in Payloads /\ stage \in {"message", "common"} /\ offset = 0
      /\ total = 0 /\ starts = <<>> /\ sum = 0
      /\ tx = [asset |-> "none", memoLen |-> 0, at |-> 0, count |-> 0]
  BY DEF ParserInit
<1>2. Size \in Nat
  BY <1>1, PayloadType
<1>3. tx \in TxTypes
  <2>1. "none" \in Assets /\ 0 \in 0..255 /\ 0 \in 0..UInt16Max
    BY UInt16Bound DEF Assets
  <2> QED BY <2>1, <1>1 DEF TxTypes
<1>4. ParserTypeOK
  <2>1. 0 \in 0..UInt16Max /\ starts \in Seq(Nat)
    BY <1>1, UInt16Bound
  <2> QED BY <2>1, <1>1, <1>3 DEF ParserTypeOK, Stages
<1>5. CursorInside
  BY <1>1, <1>2 DEF CursorInside
<1>6. VotesLinked
  <2>1. Len(starts) = 0
    BY <1>1
  <2> QED BY <2>1, <1>1 DEF VotesLinked
<1>7. StageBegins /\ RecordsFillPayload /\ CountInRange
  BY <1>1 DEF StageBegins, RecordsFillPayload, CountInRange, Accepted
<1> QED BY <1>4, <1>5, <1>6, <1>7 DEF ParserInv

LEMMA ParserStep ==
  ASSUME ParserInv, ParserNext
  PROVE  ParserInv'
<1>1. CASE ReadCommon BY <1>1, ReadCommonKeeps
<1>2. CASE ReadIpfs BY <1>2, ReadIpfsKeeps
<1>3. CASE ReadTransfer BY <1>3, ReadTransferKeeps
<1>4. CASE ReadBurn BY <1>4, ReadBurnKeeps
<1>5. CASE ReadVoteCount BY <1>5, ReadVoteCountKeeps
<1>6. CASE ReadVote BY <1>6, ReadVoteKeeps
<1>7. CASE EndVotes BY <1>7, EndVotesKeeps
<1>8. CASE ReadMessage BY <1>8, ReadMessageKeeps
<1> QED BY <1>1, <1>2, <1>3, <1>4, <1>5, <1>6, <1>7, <1>8 DEF ParserNext

\* No deserialiser reads on when a payload is accepted.
LEMMA ParserEnds ==
  ASSUME Accepted
  PROVE  ~ParserNext
BY DEF Accepted, ParserNext, ReadCommon, ReadIpfs, ReadTransfer, ReadBurn, ReadVoteCount,
       ReadVote, EndVotes, ReadMessage, Read

-----------------------------------------------------------------------------
(* The search of a provider.                                               *)

SearchType == search = None \/ search \in [index : Indices, left : Nat, at : Nat]

Inv == ParserInv /\ SearchType /\ SearchRetracesParser

\* A new search starts at the first vote.
LEMMA GetVoteKeeps ==
  ASSUME Inv, Accepted, UNCHANGED parser, NEW index \in Indices, tx.asset = "vote",
         index \div 2 < tx.count,
         search' = [index |-> index, left |-> index \div 2, at |-> tx.at]
  PROVE  SearchType' /\ SearchRetracesParser'
<1>1. stage' = stage /\ tx' = tx /\ starts' = starts
  BY DEF parser, votes
<1>2. index \in 0..255
  BY RecordsAssumption
<1>3. index \div 2 \in Nat
  BY <1>2
<1>4. tx \in TxTypes /\ tx.at \in Nat /\ tx.count \in Nat /\ starts \in Seq(Nat)
  <2>1. tx \in TxTypes /\ starts \in Seq(Nat)
    BY DEF Inv, ParserInv, ParserTypeOK
  <2>2. tx.at \in Nat /\ tx.count \in 0..UInt16Max
    BY <2>1, TxFields
  <2> QED BY <2>1, <2>2
<1>5. SearchType'
  <2>1. search' \in [index : Indices, left : Nat, at : Nat]
    BY <1>3, <1>4
  <2> QED BY <2>1 DEF SearchType
<1>6. starts[1] = tx.at
  <2>1. Len(starts) = tx.count
    BY DEF Inv, ParserInv, RecordsFillPayload
  <2>2. starts # <<>>
    BY <2>1, <1>3, <1>4
  <2> QED BY <2>2 DEF Inv, ParserInv, VotesLinked
<1>7. search'.index = index /\ search'.left = index \div 2 /\ search'.at = tx.at
  OBVIOUS
<1>8. search'.index \div 2 - search'.left + 1 = 1
  BY <1>3, <1>7
<1> QED BY <1>1, <1>3, <1>5, <1>6, <1>7, <1>8 DEF SearchRetracesParser, Accepted

\* A vote passed is followed by the next one that the deserialiser read.
LEMMA SearchVoteKeeps ==
  ASSUME Inv, SearchVote
  PROVE  SearchType' /\ SearchRetracesParser'
<1>1. /\ payload' = payload /\ stage' = stage /\ tx' = tx /\ starts' = starts
      /\ search' = [search EXCEPT !.left = @ - 1, !.at = PassVote]
  BY DEF SearchVote, parser, votes
<1>2. search # None /\ search.left > 0 /\ search \in [index : Indices, left : Nat, at : Nat]
  BY DEF SearchVote, Inv, SearchType
<1>3. /\ Accepted /\ tx.asset = "vote" /\ search.index \div 2 < tx.count
      /\ search.left <= search.index \div 2
      /\ search.at = starts[search.index \div 2 - search.left + 1]
  BY <1>2 DEF Inv, SearchRetracesParser
<1> DEFINE vote == search.index \div 2
           left == search.left
<1>4. vote \in Nat /\ left \in Nat /\ search.at \in Nat
  <2>1. search.index \in 0..255
    BY <1>2, RecordsAssumption
  <2> QED BY <2>1, <1>2
<1>5. payload \in Payloads /\ starts \in Seq(Nat) /\ Len(starts) = tx.count /\ tx.count \in Nat
  <2>1. payload \in Payloads /\ tx \in TxTypes /\ starts \in Seq(Nat)
    BY DEF Inv, ParserInv, ParserTypeOK
  <2>2. tx.count \in 0..UInt16Max
    BY <2>1, TxFields
  <2> QED BY <2>1, <2>2, <1>3 DEF Inv, ParserInv, RecordsFillPayload
<1>6. Byte(search.at) \in 0..255
  BY <1>4, <1>5, ByteType
<1>7. PassVote = VoteEnd(search.at) /\ PassVote \in Nat
  BY <1>4, <1>6 DEF PassVote, VoteEnd
<1>8. starts[vote - left + 2] = VoteEnd(search.at)
  <2>1. vote - left + 1 \in 1..Len(starts) - 1
    BY <1>2, <1>3, <1>4, <1>5, SMTT(40)
  <2>2. starts[(vote - left + 1) + 1] = VoteEnd(starts[vote - left + 1])
    BY <2>1 DEF Inv, ParserInv, VotesLinked
  <2>3. (vote - left + 1) + 1 = vote - left + 2
    BY <1>4
  <2> QED BY <2>2, <2>3, <1>3
<1>9. left - 1 \in Nat
  BY <1>2, <1>4
<1>10. /\ search' \in [index : Indices, left : Nat, at : Nat]
       /\ search'.index = search.index /\ search'.left = left - 1 /\ search'.at = PassVote
  <2>1. search' = [search EXCEPT !.left = left - 1, !.at = PassVote]
    BY <1>1
  <2> QED BY <2>1, <1>2, <1>7, <1>9
<1>11. vote - (left - 1) + 1 = vote - left + 2 /\ left - 1 <= vote
  BY <1>3, <1>4
<1>12. SearchRetracesParser'
  BY <1>1, <1>3, <1>7, <1>8, <1>10, <1>11 DEF SearchRetracesParser, Accepted
<1> QED BY <1>10, <1>12 DEF SearchType

LEMMA GetItemKeeps ==
  ASSUME Inv, GetItem
  PROVE  SearchType' /\ SearchRetracesParser'
<1>1. Accepted /\ search = None /\ UNCHANGED parser
  BY DEF GetItem
<1>2. CASE search' = search
  BY <1>1, <1>2 DEF SearchType, SearchRetracesParser
<1>3. CASE search' # search
  <2>1. PICK index \in Indices : GetVoteRecord(index)
    BY <1>3 DEF GetItem, GetIpfsRecord, GetBurnRecord, GetPaymentRecord, SetFee, SetMemo,
                DisplayMessage, ShowPart, Show
  <2>2. /\ tx.asset = "vote" /\ index \div 2 < tx.count
        /\ search' = [index |-> index, left |-> index \div 2, at |-> tx.at]
    BY <2>1, <1>3 DEF GetVoteRecord, ShowPart, Show
  <2> QED BY <2>2, <1>1, GetVoteKeeps
<1> QED BY <1>2, <1>3

LEMMA Initially == Init => Inv
<1> SUFFICES ASSUME Init PROVE Inv
  OBVIOUS
<1>1. ParserInv /\ search = None
  BY ParserInitInv DEF Init
<1> QED BY <1>1 DEF Inv, SearchType, SearchRetracesParser

LEMMA Inductive == Inv /\ [Next]_vars => Inv'
<1> SUFFICES ASSUME Inv, [Next]_vars PROVE Inv'
  OBVIOUS
<1>1. CASE Parse
  <2>1. ParserNext /\ search' = search
    BY <1>1 DEF Parse
  <2>2. ParserInv'
    BY <2>1, ParserStep DEF Inv
  <2>3. ~Accepted
    BY <2>1, ParserEnds
  <2>4. search = None
    BY <2>3 DEF Inv, SearchRetracesParser
  <2> QED BY <2>1, <2>2, <2>4 DEF Inv, SearchType, SearchRetracesParser
<1>2. CASE GetItem
  <2>1. ParserInv'
    BY <1>2, ParserStutter DEF GetItem, Inv
  <2> QED BY <2>1, <1>2, GetItemKeeps DEF Inv
<1>3. CASE SearchVote
  <2>1. ParserInv'
    BY <1>3, ParserStutter DEF SearchVote, Inv
  <2> QED BY <2>1, <1>3, SearchVoteKeeps DEF Inv
<1>4. CASE FoundVote
  <2>1. ParserInv' /\ search' = None
    BY <1>4, ParserStutter DEF FoundVote, Inv
  <2> QED BY <2>1 DEF Inv, SearchType, SearchRetracesParser
<1>5. CASE UNCHANGED vars
  <2>1. UNCHANGED parser /\ search' = search
    BY <1>5 DEF vars
  <2>2. ParserInv'
    BY <2>1, ParserStutter DEF Inv
  <2>3. SearchType' /\ SearchRetracesParser'
    BY <2>1 DEF Inv, SearchType, SearchRetracesParser, Accepted, parser, votes
  <2> QED BY <2>2, <2>3 DEF Inv
<1> QED BY <1>1, <1>2, <1>3, <1>4, <1>5 DEF Next

\* The parts of the invariant hold together in every state: of the deserialisers,
\* of vote_search and of what the two share.
THEOREM InvAlways == Spec => []Inv
BY Initially, Inductive, PTL DEF Spec

-----------------------------------------------------------------------------
(* What the runs check, for every set of payloads and indices.             *)

\* The variables have their types at every step.
THEOREM TypesHold == Spec => []TypeOK
<1>1. Inv => TypeOK
  BY DEF Inv, ParserInv, SearchType, TypeOK
<1> QED BY <1>1, InvAlways, PTL

\* No deserialiser moves the cursor out of the payload, whatever the payload is.
THEOREM CursorStaysInside == Spec => []CursorInside
<1>1. Inv => CursorInside
  BY DEF Inv, ParserInv
<1> QED BY <1>1, InvAlways, PTL

\* An accepted payload is filled to its last byte with what the review shows, save
\* after a cancelled vote.
THEOREM RecordsFill == Spec => []RecordsFillPayload
<1>1. Inv => RecordsFillPayload
  BY DEF Inv, ParserInv
<1> QED BY <1>1, InvAlways, PTL

\* The search of a vote, which does not look at the size of the payload, retraces
\* the deserialiser that did.
THEOREM SearchIsRight == Spec => []SearchRetracesParser
<1>1. Inv => SearchRetracesParser
  BY DEF Inv
<1> QED BY <1>1, InvAlways, PTL

LEMMA RecordTypes ==
  /\ tx.asset \in {"ipfs", "burn"} => RecordType = "single"
  /\ tx.asset = "transfer" => RecordType = "pair"
  /\ tx.asset = "vote" /\ tx.count = 0 => RecordType = "none"
  /\ tx.asset = "vote" /\ tx.count # 0 => RecordType = "pair"
<1>1. tx.asset \in {"ipfs", "burn"} => RecordType = "single"
  BY DEF RecordType
<1>2. tx.asset = "transfer" => RecordType = "pair"
  BY DEF RecordType
<1>3. tx.asset = "vote" => RecordType = IF tx.count = 0 THEN "none" ELSE "pair"
  BY DEF RecordType
<1> QED BY <1>1, <1>2, <1>3

\* The strategy of a review knows every accepted asset, and its counters hold all
\* the fields.
THEOREM ReviewsFit == Spec => []FitsTheReviews
<1>1. ASSUME Inv, Accepted, tx.asset # "message"
      PROVE  /\ RecordType # "unknown"
             /\ RecordType = "pair" => RecordCount > 0
             /\ 2 * RecordCount + 1 <= 255
  <2>1. tx \in TxTypes /\ tx.asset # "none"
    BY <1>1 DEF Inv, ParserInv, ParserTypeOK, RecordsFillPayload
  <2>2. tx.asset \in {"ipfs", "transfer", "burn", "vote"}
    BY <1>1, <2>1, TxFields DEF Assets
  <2>3. CASE tx.asset \in {"ipfs", "burn"}
    BY <2>3, RecordTypes DEF RecordCount
  <2>4. CASE tx.asset = "transfer"
    <3>1. tx.count \in 1..127
      BY <1>1, <2>4 DEF Inv, ParserInv, CountInRange, PaymentCountMax
    <3>2. RecordCount = tx.count
      BY <2>4 DEF RecordCount
    <3> QED BY <3>1, <3>2, <2>4, RecordTypes
  <2>5. CASE tx.asset = "vote"
    <3>1. tx.count \in 0..53
      BY <1>1, <2>5 DEF Inv, ParserInv, CountInRange, VoteCountMax
    <3>2. RecordCount = tx.count
      BY <2>5 DEF RecordCount
    <3>3. CASE tx.count = 0
      BY <3>2, <3>3, <2>5, RecordTypes
    <3>4. CASE tx.count # 0
      BY <3>1, <3>2, <3>4, <2>5, RecordTypes
    <3> QED BY <3>3, <3>4
  <2> QED BY <2>2, <2>3, <2>4, <2>5
<1>2. Inv => FitsTheReviews
  BY <1>1 DEF FitsTheReviews
<1> QED BY <1>2, InvAlways, PTL

-----------------------------------------------------------------------------
(* Every part of every record.                                             *)

LEMMA ItemIsShown == \A label, value : Item(label, value) # NoItem
<1> TAKE label, value
<1>1. "value" \in DOMAIN Item(label, value)
  BY DEF Item
<1>2. DOMAIN NoItem = {"label"} /\ "value" # "label"
  BY DEF NoItem
<1> QED BY <1>1, <1>2

LEMMA AmountIsShown == \A label, at : Amount(label, at) # NoItem
<1> TAKE label, at
<1>1. FormatAmountSxp(MaxValueLen, Field(at, AmountLen)) # NoText
  <2>1. MaxValueLen \in Nat /\ MaxValueLen >= 27
    BY DEF MaxValueLen
  <2> QED BY <2>1, AmountsAreShown
<1>2. Amount(label, at) = Item(label, FormatAmountSxp(MaxValueLen, Field(at, AmountLen)))
  BY <1>1 DEF Amount
<1> QED BY <1>2, ItemIsShown

\* What a provider may make of an index.
PartIsRight(index, item) ==
  IF index >= PartCount THEN item = NoItem
  ELSE item = NoItem => tx.asset = "transfer" /\ index % 2 = 0

NothingShownBefore == ~Accepted => shown = None

ShownInv == Inv /\ EveryPartShown /\ NothingShownBefore

\* How many parts an asset has.
LEMMA PartCounts ==
  ASSUME tx \in TxTypes
  PROVE  /\ tx.asset \in {"ipfs", "burn"} => PartCount = 1
         /\ tx.asset \in {"transfer", "vote"} => PartCount = 2 * tx.count
<1>1. tx.count \in Nat
  <2>1. tx.count \in 0..UInt16Max
    BY TxFields
  <2> QED BY <2>1
<1>2. ASSUME tx.asset \in {"ipfs", "burn"} PROVE PartCount = 1
  BY <1>2, RecordTypes DEF PartCount, RecordCount
<1>3. ASSUME tx.asset = "transfer" PROVE PartCount = 2 * tx.count
  BY <1>3, RecordTypes DEF PartCount, RecordCount
<1>4. ASSUME tx.asset = "vote", tx.count # 0 PROVE PartCount = 2 * tx.count
  BY <1>4, RecordTypes DEF PartCount, RecordCount
<1>5. ASSUME tx.asset = "vote", tx.count = 0 PROVE PartCount = 2 * tx.count
  BY <1>5, RecordTypes DEF PartCount, RecordCount
<1> QED BY <1>2, <1>3, <1>4, <1>5

\* The providers of the assets that need no search.
LEMMA ProvidersAreRight ==
  ASSUME Inv, Accepted, NEW index \in Indices, NEW item,
         \/ GetIpfsRecord(index) \/ GetBurnRecord(index) \/ GetPaymentRecord(index)
         \/ GetVoteRecord(index) /\ search' = search /\ search = None,
         shown' = [kind |-> "part", index |-> index, item |-> item]
  PROVE  PartIsRight(index, item)
<1>1. index \in 0..255
  BY RecordsAssumption
<1>2. tx \in TxTypes
  BY DEF Inv, ParserInv, ParserTypeOK
<1>3. tx.count \in Nat
  <2>1. tx.count \in 0..UInt16Max
    BY <1>2, TxFields
  <2> QED BY <2>1
<1>4. index \div 2 >= tx.count <=> index >= 2 * tx.count
  BY <1>1, <1>3
<1>5. shown'.item = item
  OBVIOUS
<1>6. CASE GetIpfsRecord(index)
  <2> DEFINE content == Item("Content ID", Base58(Field(tx.at, tx.count)))
  <2>1. /\ tx.asset = "ipfs"
        /\ shown'.item = IF index # 0 THEN NoItem ELSE content
    <3>1. shown' = [kind |-> "part", index |-> index,
                    item |-> IF index # 0 THEN NoItem ELSE content]
      BY <1>6, Zenon DEF GetIpfsRecord, ShowPart, Show
    <3>2. tx.asset = "ipfs"
      BY <1>6 DEF GetIpfsRecord
    <3> HIDE DEF content
    <3> QED BY <3>1, <3>2
  <2>2. PartCount = 1
    BY <2>1, <1>2, PartCounts
  <2>3. index >= 1 <=> index # 0
    BY <1>1
  <2> QED BY <1>5, <2>1, <2>2, <2>3, ItemIsShown DEF PartIsRight
<1>7. CASE GetBurnRecord(index)
  <2>1. /\ tx.asset = "burn"
        /\ shown'.item = IF index # 0 THEN NoItem ELSE Amount("Amount", tx.at)
    BY <1>7 DEF GetBurnRecord, ShowPart, Show
  <2>2. PartCount = 1
    BY <2>1, <1>2, PartCounts
  <2>3. index >= 1 <=> index # 0
    BY <1>1
  <2> QED BY <1>5, <2>1, <2>2, <2>3, AmountIsShown DEF PartIsRight
<1>8. CASE GetPaymentRecord(index)
  <2>1. tx.asset = "transfer"
    BY <1>8 DEF GetPaymentRecord
  <2>2. PartCount = 2 * tx.count
    BY <2>1, <1>2, PartCounts
  <2>3. CASE index \div 2 >= tx.count
    <3>1. shown'.item = NoItem
      BY <1>8, <2>3, <1>1, <1>3 DEF GetPaymentRecord, ShowPart, Show
    <3> QED BY <3>1, <1>4, <1>5, <2>2, <2>3 DEF PartIsRight
  <2>4. CASE ~(index \div 2 >= tx.count) /\ index % 2 = 0
    BY <2>1, <2>2, <2>4, <1>4 DEF PartIsRight
  <2>5. CASE ~(index \div 2 >= tx.count) /\ index % 2 # 0
    <3>1. PICK label, payment : shown'.item = Amount(label, payment)
      BY <1>8, <2>5, <1>1, <1>3 DEF GetPaymentRecord, ShowPart, Show
    <3> QED BY <3>1, <1>4, <1>5, <2>2, <2>5, AmountIsShown DEF PartIsRight
  <2> QED BY <2>3, <2>4, <2>5
<1>9. CASE GetVoteRecord(index) /\ search' = search /\ search = None
  <2>1. tx.asset = "vote"
    BY <1>9 DEF GetVoteRecord
  <2>2. PartCount = 2 * tx.count
    BY <2>1, <1>2, PartCounts
  <2>3. CASE index \div 2 >= tx.count
    <3>1. shown'.item = NoItem
      BY <1>9, <2>3, <1>1, <1>3 DEF GetVoteRecord, ShowPart, Show
    <3> QED BY <3>1, <1>4, <1>5, <2>2, <2>3 DEF PartIsRight
  <2>4. CASE ~(index \div 2 >= tx.count)
    BY <1>9, <2>4 DEF GetVoteRecord
  <2> QED BY <2>3, <2>4
<1> QED BY <1>6, <1>7, <1>8, <1>9

\* A step that shows nothing, or something else than a part.
LEMMA NoPart ==
  ASSUME Accepted', shown' = None \/ shown'.kind # "part"
  PROVE  EveryPartShown' /\ NothingShownBefore'
BY DEF EveryPartShown, NothingShownBefore

\* A step that shows a part as it should.
LEMMA OnePart ==
  ASSUME Accepted, UNCHANGED parser, NEW index, NEW item, PartIsRight(index, item),
         shown' = [kind |-> "part", index |-> index, item |-> item]
  PROVE  EveryPartShown' /\ NothingShownBefore'
<1>1. Accepted' /\ tx' = tx
  BY DEF Accepted, parser
<1>2. PartCount' = PartCount
  BY <1>1 DEF PartCount, RecordType, RecordCount
<1>3. shown'.index = index /\ shown'.item = item
  OBVIOUS
<1>4. EveryPartShown'
  BY <1>1, <1>2, <1>3 DEF EveryPartShown, PartIsRight
<1> QED BY <1>1, <1>4 DEF NothingShownBefore

LEMMA GetItemShows ==
  ASSUME ShownInv, GetItem
  PROVE  EveryPartShown' /\ NothingShownBefore'
<1>1. Accepted /\ search = None /\ UNCHANGED parser
  BY DEF GetItem
<1>2. Accepted'
  BY <1>1 DEF Accepted, parser
<1>3. CASE SetFee \/ SetMemo \/ DisplayMessage
  <2>1. PICK kind, index, item :
          /\ kind # "part"
          /\ shown' = [kind |-> kind, index |-> index, item |-> item]
    <3>1. CASE SetFee BY <3>1, Zenon DEF SetFee, Show
    <3>2. CASE SetMemo BY <3>2, Zenon DEF SetMemo, Show
    <3>3. CASE DisplayMessage BY <3>3, Zenon DEF DisplayMessage, Show
    <3> QED BY <1>3, <3>1, <3>2, <3>3
  <2>2. shown'.kind # "part"
    BY <2>1
  <2> QED BY <2>2, <1>2, NoPart
<1>4. ASSUME NEW index \in Indices,
             \/ GetIpfsRecord(index) \/ GetBurnRecord(index)
             \/ GetPaymentRecord(index) \/ GetVoteRecord(index)
      PROVE  EveryPartShown' /\ NothingShownBefore'
  <2>1. CASE shown' = None
    BY <2>1, <1>2, NoPart
  <2>2. CASE shown' # None
    <3>1. \/ GetIpfsRecord(index) \/ GetBurnRecord(index) \/ GetPaymentRecord(index)
          \/ GetVoteRecord(index) /\ search' = search
      BY <1>4, <2>2 DEF GetVoteRecord, ShowPart, Show
    <3>2. \E item : shown' = [kind |-> "part", index |-> index, item |-> item]
      <4>1. CASE GetIpfsRecord(index)
        BY <4>1, Zenon DEF GetIpfsRecord, ShowPart, Show
      <4>2. CASE GetBurnRecord(index)
        BY <4>2, Zenon DEF GetBurnRecord, ShowPart, Show
      <4>3. CASE GetPaymentRecord(index)
        BY <4>3, Zenon DEF GetPaymentRecord, ShowPart, Show
      <4>4. CASE GetVoteRecord(index)
        BY <4>4, <2>2, Zenon DEF GetVoteRecord, ShowPart, Show
      <4> QED BY <1>4, <4>1, <4>2, <4>3, <4>4
    <3>3. PICK item : shown' = [kind |-> "part", index |-> index, item |-> item]
      BY <3>2
    <3>4. PartIsRight(index, item)
      BY <1>1, <3>1, <3>3, ProvidersAreRight DEF ShownInv
    <3> QED BY <1>1, <3>3, <3>4, OnePart
  <2> QED BY <2>1, <2>2
<1> QED BY <1>3, <1>4 DEF GetItem

LEMMA FoundVoteShows ==
  ASSUME ShownInv, FoundVote
  PROVE  EveryPartShown' /\ NothingShownBefore'
<1> DEFINE index == search.index
           bytes == Field(search.at + 1 + Byte(search.at), 2)
           percent == FormatPercent(MaxValueLen, bytes, 2)
           name == Item(Label("Vote", index, tx.count), Field(search.at + 1, Byte(search.at)))
           share == Item(Label("Percent", index, tx.count), percent)
           item == IF index % 2 = 0 THEN name ELSE IF percent = NoText THEN NoItem ELSE share
<1>1. UNCHANGED parser /\ search # None
  BY DEF FoundVote
<1>2. shown' = [kind |-> "part", index |-> index, item |-> item]
  BY Zenon DEF FoundVote
<1>3. percent # NoText
  <2>1. MaxValueLen \in Nat /\ MaxValueLen >= 30
    BY DEF MaxValueLen
  <2> QED BY <2>1, PercentsAreShown
<1>4. name # NoItem /\ share # NoItem
  BY ItemIsShown
<1> HIDE DEF name, share, percent
<1>5. item # NoItem
  BY <1>3, <1>4
<1>6. Accepted /\ tx.asset = "vote" /\ index \div 2 < tx.count /\ index \in Indices
  BY <1>1 DEF ShownInv, Inv, SearchType, SearchRetracesParser
<1>7. tx \in TxTypes
  BY DEF ShownInv, Inv, ParserInv, ParserTypeOK
<1>8. index \in 0..255 /\ tx.count \in Nat
  <2>1. tx.count \in 0..UInt16Max
    BY <1>7, TxFields
  <2>2. index \in Indices
    BY <1>6
  <2>3. index \in 0..255
    BY <2>2, RecordsAssumption
  <2>4. tx.count \in Nat
    BY <2>1
  <2> QED BY <2>3, <2>4
<1>9. PartCount = 2 * tx.count
  BY <1>6, <1>7, PartCounts
<1>10. ~(index >= 2 * tx.count)
  BY <1>6, <1>8
<1> HIDE DEF item, index
<1>11. PartIsRight(index, item)
  BY <1>5, <1>9, <1>10 DEF PartIsRight
<1> QED BY <1>1, <1>2, <1>6, <1>11, OnePart

LEMMA ShownInductive == ShownInv /\ [Next]_vars => ShownInv'
<1> SUFFICES ASSUME ShownInv, [Next]_vars PROVE ShownInv'
  OBVIOUS
<1>1. Inv'
  BY Inductive DEF ShownInv
<1>2. CASE Parse
  <2>1. ~Accepted /\ shown' = shown
    BY <1>2, ParserEnds DEF Parse
  <2>2. shown' = None
    BY <2>1 DEF ShownInv, NothingShownBefore
  <2> QED BY <1>1, <2>2 DEF ShownInv, EveryPartShown, NothingShownBefore
<1>3. CASE GetItem
  BY <1>1, <1>3, GetItemShows DEF ShownInv
<1>4. CASE FoundVote
  BY <1>1, <1>4, FoundVoteShows DEF ShownInv
<1>5. CASE SearchVote \/ UNCHANGED vars
  <2>1. UNCHANGED <<stage, tx, shown>>
    BY <1>5 DEF SearchVote, vars, parser
  <2>2. PartCount' = PartCount
    BY <2>1 DEF PartCount, RecordType, RecordCount
  <2> QED BY <1>1, <2>1, <2>2 DEF ShownInv, EveryPartShown, NothingShownBefore, Accepted
<1> QED BY <1>2, <1>3, <1>4, <1>5 DEF Next

\* Every part that the review counts can be shown, whatever the amounts, names and
\* percentages are; only a hash that fails leaves a recipient without text.
THEOREM PartsAreShown == Spec => []EveryPartShown
<1>1. Init => ShownInv
  <2> SUFFICES ASSUME Init PROVE ShownInv
    OBVIOUS
  <2>1. shown = None
    BY DEF Init
  <2> QED BY <2>1, Initially DEF ShownInv, EveryPartShown, NothingShownBefore
<1>2. ShownInv => EveryPartShown
  BY DEF ShownInv
<1> QED BY <1>1, <1>2, ShownInductive, PTL DEF Spec
=============================================================================
