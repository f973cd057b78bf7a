----------------------------- MODULE MCRecords ------------------------------
(***************************************************************************)
(* Payloads for TLC, as a host would send them: a transaction the client   *)
(* serialised, whole or damaged.                                           *)
(***************************************************************************)
EXTENDS EndToEnd

CONSTANT Families   (* the families of payloads below, by name               *)

Repeat(x, n) == [k \in 1..n |-> x]
Letters(n) == Repeat(97, n)

None8 == Repeat(0, 8)
All8 == Repeat(255, 8)
OneSxp == <<0, 225, 245, 5, 0, 0, 0, 0>>      \* 100000000
Amounts8 ==
  {None8, All8, OneSxp, <<1, 0, 0, 0, 0, 0, 0, 0>>,
   <<128, 240, 250, 2, 0, 0, 0, 0>>,          \* 0.50
   <<10, 0, 0, 0, 0, 0, 0, 0>>,               \* 0.0000001
   <<0, 202, 154, 59, 0, 0, 0, 0>>,           \* 10.00
   <<0, 0, 0, 0, 0, 0, 0, 128>>}              \* 2^63

Tx(asset, records) ==
  IF asset = "message" THEN [asset |-> asset, records |-> records]
  ELSE [asset |-> asset, network |-> 63, nonce |-> [k \in 1..8 |-> k],
        senderPkey |-> [k \in 1..33 |-> 2 * k], fee |-> OneSxp, memo |-> <<>>,
        records |-> records]
Whole == [kind |-> "none"]
Sent(t) == [tx |-> t, damage |-> Whole]

-----------------------------------------------------------------------------
(* Votes: none, one of every kind, one more; lists the bounds are about.   *)

Vote(n, percent) == [name |-> Letters(n), percent |-> percent]
VoteKinds == [name : {<<>>, Letters(1), <<31>>, Letters(21)},
              percent : {0, 1, 9999, 10000, 10001}]

ShortVotes ==
  {Sent(Tx("vote", <<>>))}
    \cup {Sent(Tx("vote", <<v>>)) : v \in VoteKinds}
    \cup {Sent(Tx("vote", <<v, w>>)) : v \in VoteKinds, w \in {Vote(1, 1), Vote(2, 9999)}}

\* The document's example, three unequal votes, the largest number and one more.
LongVotes ==
  {Sent(Tx("vote", r)) :
     r \in {<<Vote(3, 5000), Vote(10, 2500), Vote(5, 2500)>>,
            <<Vote(1, 1234), Vote(20, 8765), Vote(2, 1)>>,
            <<Vote(3, 2001), Vote(10, 4000), Vote(5, 4000)>>,
            Append([k \in 1..52 |-> Vote((k % 20) + 1, 188)], Vote(7, 224)),
            Append([k \in 1..53 |-> Vote(1, 185)], Vote(1, 195))}}

\* Percentages whose sum is 10000 more than 2^16.
WrappingVotes == {Sent(Tx("vote", Append(Repeat(Vote(1, 10000), 7), Vote(1, 5536))))}

-----------------------------------------------------------------------------
(* The other assets.                                                       *)

Payment(k, amount) ==
  [amount |-> amount, recipient |-> [j \in 1..PubkeyHashLen |-> (k + j) % 256]]
Transfers ==
  {Sent(Tx("transfer", [k \in 1..n |-> Payment(k, <<k, n, 0, 0, 1, 0, 0, 0>>)])) :
     n \in {0, 2, 3, 127, 128}}
    \cup {Sent(Tx("transfer", <<Payment(9, a)>>)) : a \in Amounts8}

Burns == {Sent([Tx("burn", <<a>>) EXCEPT !.fee = f]) : a \in Amounts8, f \in {All8, OneSxp}}

Hashes ==
  {Sent(Tx("ipfs", <<(<<18, n>> \o Letters(m))>>)) :
     n \in {0, 1, 32, 64, 65}, m \in {0, 1, 32, 64, 65}}

Memos ==
  {Sent([Tx("burn", <<OneSxp>>) EXCEPT !.memo = m]) :
     m \in {Letters(1), Repeat(126, 255), <<97, 10, 97>>, <<13, 10>>, <<97, 0, 97>>,
            <<127>>, <<200>>}}

\* The last but one fills the buffer to its last byte; the last does not fit it.
Texts ==
  {Sent(Tx("message", <<text>>)) :
     text \in {<<>>, Letters(1), <<104, 10, 105>>, <<104, 13, 10, 105>>, <<104, 13, 105>>,
               <<104, 13>>, <<10>>, <<104, 0, 105>>, <<255>>,
               Letters(4093), Letters(4094), Letters(4095)}}

-----------------------------------------------------------------------------
(* Damage: the last byte cut off, one too many, or another byte in the     *)
(* header or in the asset's number of records.                             *)

CountAt == [vote |-> {59}, transfer |-> {59, 60}, burn |-> {}, ipfs |-> {60}, message |-> {0, 1}]
HeaderAt(asset) == IF asset = "message" THEN {} ELSE {0, 1, 2, 3, 4, 6, 7, 8, 58}

Damages(asset) ==
  {[kind |-> "cut"], [kind |-> "extra"]}
    \cup {[kind |-> "set", at |-> a, byte |-> b] :
            a \in HeaderAt(asset) \cup CountAt[asset], b \in {0, 1, 2, 6, 30, 255}}

Damaged ==
  UNION {{[tx |-> t, damage |-> d] : d \in Damages(t.asset)} :
     t \in {Tx("vote", <<>>), Tx("vote", <<Vote(3, 9999), Vote(1, 1)>>),
            Tx("transfer", <<Payment(1, OneSxp)>>), Tx("burn", <<OneSxp>>),
            Tx("ipfs", <<(<<18, 32>> \o Letters(32))>>), Tx("message", <<Letters(9)>>)}}

BytesOn(sent) ==
  LET bytes == Serialised(sent.tx)
      d == sent.damage
  IN  CASE d.kind = "none" -> bytes
        [] d.kind = "cut" -> SubSeq(bytes, 1, Len(bytes) - 1)
        [] d.kind = "extra" -> Append(bytes, 0)
        [] d.kind = "set" -> [bytes EXCEPT ![d.at + 1] = d.byte]

\* handle_chunks lets in what fits the buffer.
MCPayloads ==
  LET family ==
        [votes |-> ShortVotes \cup LongVotes, wrapping |-> WrappingVotes,
         transfers |-> Transfers, burns |-> Burns, hashes |-> Hashes, memos |-> Memos,
         messages |-> Texts, damaged |-> Damaged]
      payloads ==
        {[kind |-> IF i.tx.asset = "message" THEN "message" ELSE "transaction",
          bytes |-> BytesOn(i), sent |-> i.tx] : i \in UNION {family[f] : f \in Families}}
  IN  {p \in payloads : Len(p.bytes) <= TxLenMax}
=============================================================================
