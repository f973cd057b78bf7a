------------------------------ MODULE EndToEnd ------------------------------
(***************************************************************************)
(* From the host to the review: what the device makes of a payload, next   *)
(* to the transaction its host put into it.  A payload has the transaction *)
(* with it, as a member of its record that the device never looks at; its  *)
(* bytes may be those of that transaction or, damaged, any others.         *)
(***************************************************************************)
EXTENDS Records, SolarClient

ASSUME SentAssumption ==
  \A p \in Payloads :
    p.sent \in Transactions /\ (p.kind = "message" <=> p.sent.asset = "message")

-----------------------------------------------------------------------------
(* The transaction the device received: the fields of its structure, whose *)
(* pointers are the offsets of tx and starts, and network and nonce, which *)
(* it goes over and does not keep.                                         *)

ReceivedVote(vote) ==
  [name |-> Field(vote + 1, Byte(vote)), percent |-> U16(vote + 1 + Byte(vote))]

ReceivedPayment(payment) ==
  [amount |-> Field(payment, AmountLen),
   recipient |-> Field(payment + AmountLen, PubkeyHashLen)]

ReceivedRecords ==
  CASE tx.asset = "vote" -> [k \in 1..Len(starts) |-> ReceivedVote(starts[k])]
    [] tx.asset = "transfer" ->
         [k \in 1..tx.count |-> ReceivedPayment(tx.at + PaymentLen * (k - 1))]
    [] tx.asset = "burn" -> <<Field(tx.at, AmountLen)>>
    [] tx.asset \in {"ipfs", "message"} -> <<Field(tx.at, tx.count)>>

Received ==
  IF tx.asset = "message" THEN [asset |-> "message", records |-> ReceivedRecords]
  ELSE [asset |-> tx.asset, network |-> Byte(2), nonce |-> Field(9, 8),
        senderPkey |-> Field(17, 33), fee |-> Field(FeeAt, AmountLen),
        memo |-> Field(HeaderLen, tx.memoLen), records |-> ReceivedRecords]

-----------------------------------------------------------------------------
(* Properties.                                                             *)

Undamaged == payload.bytes = Serialised(payload.sent)
Decided == stage \in {"accepted", "refused"}

\* The first known divergence (see the README): the sum of the percentages is right
\* only modulo 2^16.
SumWraps(t) ==
  /\ t.asset = "vote" /\ LegalCommon(t) /\ LegalVotes(t.records)
  /\ t.records # <<>> /\ PercentSum(t.records) % TwoTo16 = Hundred

\* The second one: bytes after a cancelled vote.
BytesAfterCancelledVote ==
  LET bytes == Serialised(Received)
  IN  /\ tx.asset = "vote" /\ tx.count = 0
      /\ SubSeq(payload.bytes, 1, Len(bytes)) = bytes

\* A parse of what a client serialised ends with the verdict of the documents: every
\* transaction they allow is accepted, up to the largest of each kind, and nothing
\* else is, but for sums that wrap.
AcceptsTheLegal ==
  Decided /\ Undamaged =>
    (Accepted <=> (Legal(payload.sent) \/ SumWraps(payload.sent)))

\* Whatever a payload is, damaged or not, when the deserialisers accept it, it is
\* byte by byte what a client makes of the transaction they read, and that is one
\* the documents allow: no two payloads are read as one transaction and nothing
\* that is signed stays unread, but for the known divergences.
AcceptedIsSerialised ==
  Accepted =>
    /\ payload.bytes = Serialised(Received) \/ BytesAfterCancelledVote
    /\ Legal(Received) \/ SumWraps(Received)

\* The transaction the deserialisers read is the one the client serialised.
ReceivesWhatWasSent == Accepted /\ Undamaged => Received = payload.sent

\* What the review shows of a transaction is what the client put in: every part
\* of every record with the position it has in the list, and fee and memo.
ShowsWhatWasSent ==
  shown # None /\ shown.item # NoItem /\ Undamaged /\ tx.asset # "message" =>
    LET t == payload.sent
    IN  CASE shown.kind = "fee" -> DenotesSxp(shown.item.value, t.fee)
          [] shown.kind = "memo" -> shown.item.value = t.memo
          [] OTHER -> SaysPart(shown.item, t, shown.index)

\* The string on the display is the whole message, also where the message ends with
\* the buffer, whose terminator is then the low byte of raw_tx_len: the payload that
\* is signed is the one a client makes of the string, whatever the host sent.
DisplayedTextIsMessage ==
  shown # None /\ tx.asset = "message" =>
    payload.bytes = Serialised([asset |-> "message", records |-> <<shown.item.value>>])
=============================================================================
