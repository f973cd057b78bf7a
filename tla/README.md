# Formal model of the Ledger Solar app

TLA+ specifications of the Solar application for Ledger devices, the TLC
configurations that model-check them and TLAPS proofs about them.  Paths are
relative to the repository root; `src/src/...` is the application's C code as
`PROJECT.json` names it.

The app receives APDU commands from a host, derives keys, shows what is to be
signed or exported on the device's screen, and answers.  Its promise is small and
easy to break: nothing leaves the device that the user did not see and approve,
every command is answered once, and no order of commands, refusals, errors and
button presses changes that.

## Inventory

| Component | Source | State it keeps | Operations | Correct when |
|---|---|---|---|---|
| Main loop and dispatcher | `app_main.c`, `apdu/dispatcher.c`, `handler/get_version.c`, `handler/get_app_name.c` | none | receive, check class / instruction / P1 P2, call a handler | every command is answered or opens a review |
| Context | `context.c`, `app_types.h` | `G_context`: request type, state, request number, path, network, and a union of key data and payload data | reset | the union is never read as what was not stored in it |
| Key handlers | `handler/get_public_key.c`, `handler/get_address.c` | through `G_context` | reset, parse the path, derive, review or answer | what is answered is what this command asked for |
| Signing handler | `handler/sign_tx.c` | through `G_context` | start, further chunk, last chunk (hash, parse, verify, review) | each chunk once and in order; the payload fits; what is reviewed is what is hashed |
| Cryptography | `crypto/crypto.c` | `G_context` | path parsing, derivation, signature, payload verification | a changed payload is not released |
| Answers | `helper/send_response.c` | resets `G_context` | key, address, signature | the secret leaves once and the context with it |
| Decision | `ui/action/validate.c`, `ui/action/choice.c`, `ui/action/ux_approve.h` | the choice context (response type, texts) | approve, reject, ask before rejecting, status screens | one decision, on what is on the screen |
| Transaction review, Nano | `ui/operations/transaction/display_transaction_nano.c` and `types/ui_*.c` | `txreview_ctx` (offset, static or dynamic state, text) and the UX flow | right, left, both buttons | no approval before every page was shown |
| Transaction review, Stax and Flex | `review.c`, `review_context.c`, `display_transaction.c`, `display_error.c`, `helpers/strategy.c` | the review context | page provider of the swipe review | page k shows field k; an unrenderable page ends the review |
| Record tables (modals), Stax and Flex | `modals.c` | page, slot buffers, details view | open, next, previous, tap a row, dismiss | a row shows the record it stands for, a detail the row that was tapped |
| Address, key and message reviews | `ui/operations/{address,public_key,message}/` | the choice context | open | the command stays unanswered until the decision |
| Deserialisers | `transaction/`, `utils/check_ascii.c` | a cursor; `G_context.tx_info.transaction`, which points into the payload | common part, one of four assets, message | what the documents allow is accepted, nothing else; accepted payloads are consumed to their end |
| Record providers | `types/ui_*.c`, `helpers/fee.c`, `helpers/memo.c` | none: each call searches the payload anew | a part of a record by its index, fee, memo | the text of index k is the client's record k / 2 |
| Formatting | `ui/ui_utils.c`, `address.c` | none | amounts, percentages, addresses | output fits and denotes the input |
| The host's client | `tests/functional/` | none | serialise a transaction | - |
| Menus, screens | `ui/display_menu*.c` | none | show, quit | - |
| Toolchain, tests, fuzzing, docs | `tests/`, `tools/`, `doc/`, `Makefile` | - | - | - |

How they interact.  There is one thread.  `app_main` blocks in
`io_recv_command`; while it waits, the I/O library runs the screen's events.  A
command runs a handler to completion.  A handler either answers, or opens a
review and returns without an answer; then only a callback of that review
(`ui_validate`) can answer, and the I/O library accepts no other command until
it has.  All handlers, reviews and callbacks share `G_context`; the review
screens keep further statics (`choice_ctx`, `txreview_ctx`, the modal's slots) and
pointers into the payload buffer of `G_context`.

What is hard.  The order of commands is the host's: a signing session is spread
over many commands, goes on after refusals and errors, and a rejected review leaves
its whole context behind.  The order of screens is the user's.  The decision path
sends up to three answers to one command and relies on only the first being
delivered.  The payload is re-verified because it may be altered by a fault while a
review is open.  The Nano review computes its pages on the way, from an offset
whose meaning depends on the direction it was reached from.

## Modules

| Module | What it is |
|---|---|
| `ApprovalService` | abstract: requests are served at once or put to the user; what is released is the subject that was asked |
| `SolarSession` | dispatcher, handlers, context, cryptography, answers and decision: one action per command and per user choice, plus power loss and faults |
| `SolarService` | the refinement mapping from `SolarSession` to `ApprovalService` |
| `FullReview` | abstract: a review shows screens, can be refused, and can be agreed to once every screen was shown |
| `NanoReview` | the review of a transaction on a Nano: the items, the delimiters, the paging, the buttons; refines `FullReview` |
| `WalletReview` | the review of a transaction on a Stax or Flex and the record tables it opens; refines `FullReview` |
| `Deserialiser` | the deserialisers of transactions and messages, byte by byte, one action each and one per turn of the loop over the votes |
| `Amounts` | the formatters of amounts and percentages, as functions on texts |
| `Records` | extends both: the providers of records, fee, memo and message text, asked in any order for what was accepted |
| `SolarClient` | the other end: how the client of the functional tests serialises a transaction, which ones the documents allow, what a text denotes |
| `Accumulate` | the sums and the concatenations of lists, as recursive functions |
| `EndToEnd` | puts the two ends together: the transaction that was received next to the one that was sent, and what the review shows of it |
| `MCSolarSession`, `MCNanoReview`, `MCWalletReview`, `MCRecords` | instances for TLC |
| `SolarSessionProofs`, `SolarServiceProofs`, `NanoReviewProofs`, `WalletReviewProofs`, `AmountsProofs`, `RecordsProofs`, `EndToEndProofs` | theorems |
| `AccumulateProofs` | the lemmas about `Accumulate`, by induction |

`SolarSession` treats a review as one screen that offers approval; `NanoReview` and
`WalletReview` are what happens inside that screen for a transaction.  They share
no variable in the code either: a review writes only its own statics until it calls
`ui_validate`.  The interfaces are the same on both sides: the review opens after
the second verification (`LastChunk`), ends in an approval (`Approve`; `Press`,
`Sign`), a rejection (`Reject`, `ConfirmReject`) or an error (`ReviewError`;
`Fail`).  `Records` is what lies between the two: the payload that `LastChunk` parses,
and the texts that the reviews' formatters return.  `FitsTheReviews` and
`EveryPartShown` are what the reviews take for granted of it (`ReviewAssumption`,
`WalletAssumption` and a formatter that fails only for lack of a hash).

Definitions commented as slips (`DenyKeepingReview`, `OffsetTwoBack`, ...) are
plausible mistakes in the code.  No specification uses them; each is put in the
place of the definition it varies to see that a property notices.

### SolarSession

| Variable | Code |
|---|---|
| `ctx` | `G_context`: `reqType`, `state`, `reqNum` (`req_num`), `path` (`bip32_path`), `network`; `key` stands for `pk_info`; `raw`, `rawLen`, `mHash`, `tx` for the fields of `tx_info` |
| `pending` | the I/O library's state: a command was received and not answered |
| `screen` | what the display shows: the menu, the intent page of a wallet's key review, a review, its rejection dialog, a status screen |
| `choice` | `choice_ctx.response_type` |
| `running`, `faults` | the app is launched; bounded count of faults |
| `cmd`, `reply`, `session`, `taken`, `refused`, `shown`, `signed` | history: what the host asked and got, which chunks were stored or refused, which payloads the review displayed, what was signed. No guard reads them. |

The host's actions are `GetInfo`, `RefuseCommand`, `GetPublicKey`, `GetAddress`,
`SignStart` and `SignChunk` (refused, too long, stored, last).  The user's are
`Approve`, `Reject`, `RejectSilently`, `AskReject`, `ResumeReview`,
`ConfirmReject`, `Continue`, `LeaveStatus`; `ReviewError` is the wallet review that
rejects by itself.  `Stop`, `Launch` and `Corrupt` are the device's.  Each is the
whole handler or callback: nothing interrupts them in the code.
`ApproveSignature` builds the list of all answers `ui_validate` sends and `Deliver`
keeps the first, as `io_send_response_buffers` does.

### NanoReview

| Variable | Code |
|---|---|
| `state`, `offset` | `txreview_ctx.state`, `txreview_ctx.offset` |
| `text` | `txreview_ctx.text`: the position of the item it was made from, or `None` when it is empty |
| `step`, `page` | the UX flow's index (the delimiters are never on the display) and the paging layout's |
| `tx` | the transaction, as the review sees it: how many records, is there a memo, screens per item, and the items that may fail to be formatted (`fallible`) |
| `decision` | what `ui_validate` was told |
| `seen`, `failed` | history |

A button press that reaches a delimiter runs `display_next_state` and the flow's
next move at once, so `Right` and `Left` are whole presses.  `EnterFromStart` and
`Backward` are `handle_upper_delimiter` in its two states, `EnterFromEnd` and
`Forward` `handle_lower_delimiter`; `NextItem` and `OffsetBack` are
`handle_forward_navigation` and `handle_backward_navigation`, `ShowAgain` is
`bnnn_paging_edgecase`.  The formatter of an item in `fallible` may fail each time
it is called (`Missing`).

### WalletReview

| Variable | Code |
|---|---|
| `tx`, `modalPage` | `G_ui_txreview_ctx`; `None` is the cleared context |
| `page`, `layer` | the review's page, and what is over it: table, details, memo, dialog, status, error page |
| `fields` | `txinfo_pairs` |
| `slots` | `modal_pairs` and `modal_texts`, by slot |
| `rows`, `detail` | the bars and the details on the display |
| `decision` | what `ui_validate` was told |
| `subject`, `tapped`, `screens`, `failed` | history |

`ShowPage` is `review_content_provider`; `DisplayTable` is `display_modal_page` with
everything it calls; `TapBar`, `TapSummary`, `TapMemo`, `Navigate`, `CloseTable`,
`DismissDetails`, `DismissMemo` are the branches of `display_modal` and
`modal_action_callback`.  Positions are kept in bytes as in the code (`Byte`,
`ByteMax` instead of 255).  Once the code reads through a null pointer the model
says nothing more (`layer = "undefined"`).  As on the Nano, `fallible` has the items that may fail to be
formatted; `Outcomes` is what a drawing call may return.

### Deserialiser and Records

| Variable | Code |
|---|---|
| `payload` | `tx_info.raw_tx` and `raw_tx_len`, and whether the command was for a transaction or a message |
| `stage`, `offset` | the deserialiser that reads next, or the result; `buf.offset` |
| `tx` | `tx_info.transaction`: the asset, the memo's length, where the records are and how many |
| `total` | `total_percentage`, 16 bits |
| `starts`, `sum` | history: where each vote starts, the sum without a width. The length of `starts` is the loop's `i`. |
| `search` | the locals of `vote_search` |
| `shown` | the item last asked for and its label and value |

`ReadCommon` is `deserialise_transaction_common` with the choice of the asset;
`ReadIpfs`, `ReadTransfer`, `ReadBurn`, `ReadMessage` are their deserialisers;
`ReadVoteCount`, `ReadVote` and `EndVotes` are `deserialise_vote` before, in and
after its loop.  `GetItem` is a call of a provider or of `ui_set_fee`, `ui_set_memo`;
the user turns back and forth, so any index may come after any other.  A vote is
found by `SearchVote`, one turn of the loop of `vote_search`, and `FoundVote`.

`Byte` is the memory from `raw_tx` on, also behind the payload: that is what an
unchecked read would find, and what ends the text of a message.  The error codes of
the parsers are one result, as `handle_last_chunk` answers all of them alike.  A
hash is the bytes it hashes, a Base58 text the bytes it encodes.  The integers of 64
bits are byte sequences: the formatters' arithmetic is in limbs.

### EndToEnd

A payload of `EndToEnd` carries the transaction its host made it of (`sent`), which
no action reads; its bytes need not be that transaction's (`Undamaged` says when they
are).  `Received` is the transaction as the parsed structure has it: fields at the
offsets of `tx` and `starts`.  `SolarClient` has the third description, `Serialised`,
and `Legal`, what the documents allow.  The properties relate the three:

| Property | Says |
|---|---|
| `AcceptsTheLegal` | undamaged: accepted exactly if legal |
| `ReceivesWhatWasSent` | undamaged and accepted: `Received` is `sent` |
| `AcceptedIsSerialised` | accepted, damaged or not: the bytes are `Serialised(Received)`, and `Received` is legal |
| `ShowsWhatWasSent`, `DisplayedTextIsMessage` | what is shown of it |

## What the runs check

| Run | Instance | What it shows |
|---|---|---|
| `session_wallet` | Stax or Flex; one path, one network, four chunks of 0, 1, 1 and 2 bytes, a buffer of 2, chunk numbers to 3; every cryptographic call may fail; one fault | The bookkeeping of a session survives every order of commands, refusals, errors and decisions: each chunk counted once and in order, payload in its buffer, union not mixed; what is released was shown, verified and asked for; nothing of a released request remains. With a user who decides, a command that opened a review is answered (`CommandAnswered`). |
| `session_nano` | Nano; two networks, chunk numbers to 2; failing cryptography, one fault | Every behaviour is one of the abstract approval service. |
| `nano_review` | up to 3 records and a memo, each item on 1 or 2 screens; any formatter may fail at any time; for `RightReachesEnd`, a user who keeps pressing right | The offset is always the shown item or the one after it, no item is passed over, the approval comes after every screen (unless a formatter failed) and always behind the first item, pressing right arrives, and the abstract review is implemented. |
| `wallet_review` | every record type, up to 7 records in tables of 2 bars, bytes of 4 bits; any formatter and any drawing call may fail at any time | Bars, their details and the slots behind them are of one record; the pages of a table list every record once; the signature comes after all items; the abstract review is implemented. |
| `records` | eight families of payloads (below), every provider asked for sixteen indices in any order; a hash may fail | The device accepts what the documents let a client send; whatever it accepts, damaged or not, is byte by byte a serialisation of what it read, which is what was sent; it is filled to the last byte with what the review shows; every item says what the client put in. |

Some properties need a word.  `SignedWasShown`,
`ReleasedWasVerified` and `ReviewMatchesContext` relate the payload buffer, the
stored hash and the review across commands; they are the reason for the two
re-verifications in the code.  `EveryChunkOnce` relates the chunk counter to the
whole history of the session, including chunks that were counted but refused.
`OfferedAfterAll` and `TableShowsItsPage` relate the display to what was shown or
stored before.  `EndsBehindFirst` is about the first formatter that fails, and
does not except a failure as `OfferedAfterAll` does.

The properties of `records` compare two descriptions that do not know each other:
`SolarClient` builds a payload from records, the device's modules take it apart.
`AcceptsTheLegal` is an equivalence, and `AcceptedIsSerialised` leaves a damaged payload
one way to be accepted: to be what a client makes of another transaction.  The two ways
in which they do not hold are named in them (`SumWraps`, `BytesAfterCancelledVote`) and
are the two runs below.  `ShowsWhatWasSent` reads a text as
the number it denotes and compares it with the client's bytes, so that neither the
parser's offsets, the search, nor the removal of zeros can go wrong together
unnoticed.  `SearchRetracesParser` relates `vote_search`, which checks no bound, to
the deserialiser, which ran many steps before and did.  `DisplayedTextIsMessage` is
the text as a C string: the text of the largest message ends with the buffer, and its
terminator is the low byte of `raw_tx_len`, which is zero exactly then.

Runs that find what the repository says violated by the code:

| Run | Says | Does |
|---|---|---|
| `signs_unverified` | `validate.c:43` "Sign if hash verification passes" | `sign_message` is called after a failed verification; only the I/O library's one-answer rule keeps the signature from the host |
| `status_wrong` | `display_transaction.c:40` "Transaction signed", the text of a status screen | is shown after the review of a transaction although the last verification failed and the host was told so |
| `nano_review_skips` | `display_transaction_nano.c:307` "#n-2 screen: memo (if present)", "#n-1 screen: approve button" | a transfer whose second recipient cannot be formatted goes to the approval, past that payment, the fee and the memo |
| `wallet_review_undefined` | `review.c:120` "gracefully rejected" | the rejection of a long recipient clears the context, and the caller reads through it |
| `wallet_review_incomplete` | `review.c:100` "One asset record pair needs to be displayed." | a payment whose recipient cannot be formatted is shown without it, and can be signed |
| `votes_sum` | `test_transaction_errors.py:310` "when a vote has an invalid vote sum" is refused | a sum of 755.36 % is 100 % modulo 2^16, and is accepted |
| `cancelled_vote` | `TG02_T02_VOTE.md:101` the count is a cancelled vote's last byte | bytes after it are accepted and signed |

What the reviews may fail to format is a constant of their instances.  In the passing
runs it is everything, which is more than the formatters do; in the runs above only
what `EveryPartShown` leaves: a recipient, whose address needs a hash.  In
`wallet_review_undefined` nothing fails.

Four more disagreements are plain to see in the code and have no run:

- Any number of chunks that fits the buffer is accepted, where `COMMANDS.md:190` says "a
  limit of 8 chunks max".
- Errors leave the context, where `CHANGELOG.md:72` says "Applied app context reset on
  sign/error".
- A start that is refused for its path leaves the session open (`sign_tx.c:137`), and
  chunk 1 is accepted after it, where `test_apdu_errors_cmd.py:58` has "invalid APDU
  sequences are properly rejected" and expects `SW_BAD_STATE` of a chunk without a start.
- When a recipient in a table cannot be formatted the transaction is rejected, and the
  table then reads through the null pointer it got (`modals.c:233`), where
  `display_error.c:28` says "It has been securely rejected."

`SolarSession` and `WalletReview` have them as the code does.

### Why the bounds are enough

A session's guards compare chunk numbers and lengths only with the counter and the
buffer's size, so three numbers have a first, a middle and a last, and a buffer of
two units with chunks of zero, one and two units has exact fits and overflows at
its first and at its second byte.  Two chunks of equal size are what a fault needs.
One payload accepted as a transaction is a prefix of another, as a cancelled vote
is of anything that follows it.

The Nano's navigation compares the offset with zero, the fee and the memo only: three
records have a first, a middle and a last, and two screens per item tell entering
from the left from entering from the right.  Seven records in a table of two bars
are three full pages and a short one, and with four-bit bytes 7 is the largest
count whose memo position (15) still fits, as 127 is in the code.

`records` keeps the code's limits and takes payloads on both sides of each: names of
0, 1, 20 and 21 characters, percentages of 0, 1, 9999, 10000 and 10001, lists of 0, 1,
2, 3 and 53 votes with sums of 9999, 10000, 10001 and 75536; 0, 1, 2, 3, 127 and 128
payments; hashes of 0, 1, 32, 64 and 65 bytes, with a length that is right or wrong;
amounts of 0, 1, 2^63 and 2^64 - 1 and with zeros to remove on either side of the
second decimal; memos of 0, 1 and 255 bytes and with control characters; messages of 0
bytes, of one less than fills the buffer and of all of it, and with every kind of line end.  Damaged
payloads lack a byte, have one too many, or have another byte in the header or count.
The indices are the first records, those on either side of the last of 8, 53 and 127,
and the largest byte.

`MaxFaults`, `P1Max` (255 in the code), `TxLenMax` (4096), `ByteMax` (255) and `Bars`
(4 or 5) are the constants that bound the instances; the theorems hold for all of
their values.

### Fairness

`session_wallet` assumes weak fairness of `Decide`: a user eventually approves or
rejects a review that stays open.  Nothing is assumed of the host, of faults or of
power, and a handler needs no fairness because it answers in its own step.
`nano_review` assumes weak fairness of `Right` and states its liveness under the
condition that from some moment the user presses nothing else.  The safety
properties use neither.

## What is proved

The theorems hold for all values of the constants under the assumptions the
modules name: `SessionAssumption` (paths, sizes and limits are of their types; a
cryptographic call may succeed), `NoneAssumption` (no value is `None`),
`SubjectAssumption` in `SolarService`, `ReviewAssumption` in `NanoReview` and
`WalletAssumption` in `WalletReview` (the deserialisers' bounds on the records, and
at least one bar on a page), `PayloadAssumption` in `Deserialiser` (payloads are bytes
and fit the buffer), `RecordsAssumption` in `Records` (indices are bytes, a hash may
succeed) and `SentAssumption` in `EndToEnd` (a host sends what Python can serialise: any
names, texts and hashes, any list whose length fits its field, legal or not).
TLC evaluates them in every run of these modules.

| Module | Theorem | States |
|---|---|---|
| `SolarSessionProofs` | `TypeInvariant` | `TypeOK` |
| | `NoDeadReview`, `ReviewIsFaithful` | `UnansweredIffReviewing`, `ReviewMatchesContext` |
| | `ChunksInOrder`, `PayloadStaysInBuffer`, `UnionIsNeverMixed` | `EveryChunkOnce`, `PayloadFits`, `UnionNotMixed` |
| | `LengthIsRight` | `LengthIsSum` |
| | `ReleaseIsFaithful`, `ReleaseIsVerified`, `AnswerIsAskedFor`, `ReleaseLeavesNothing` | `SignedWasShown`, `ReleasedWasVerified`, `AnswerMatchesCommand`, `ReleaseClearsContext` |
| `SolarServiceProofs` | `SessionImplementsService` | `ImplementsService` |
| `NanoReviewProofs` | `TypeInvariant`, `OffsetIsRight`, `ApprovalComesLast`, `NoItemPassedOver` | `TypeOK`, `OffsetFollowsDisplay`, `OfferedAfterAll`, `StepsToNeighbours` |
| | `FirstComesFirst` | `EndsBehindFirst` |
| | `ReviewImplementsPromise` | `ImplementsFullReview` |
| `WalletReviewProofs` | `WalletTypes` | `TypeOK` |
| | `TablesShowTheirRecords`, `DetailsShowTheirRecord` | `TableShowsItsPage`, `DetailsShowTapped` |
| | `TableListsEveryRecord` | `RowsCoverRecords` |
| | `SignatureAfterTheFields` | `OfferedWhenComplete` |
| | `WalletReviewImplementsPromise` | `ImplementsFullReview` |
| `RecordsProofs` | `TypesHold`, `CursorStaysInside`, `RecordsFill` | `TypeOK`, `CursorInside`, `RecordsFillPayload` |
| | `SearchIsRight` | `SearchRetracesParser` |
| | `ReviewsFit`, `PartsAreShown` | `FitsTheReviews`, `EveryPartShown` |
| `AmountsProofs` | `AmountsAreShown`, `PercentsAreShown` | every amount and every percentage has a text that fits |
| | `AmountsAreRight`, `PercentsAreRight` | and that denotes it |
| `EndToEndProofs` | `ReadAlways` | the inductive invariant `ReadInv` of the deserialisers |
| | `AcceptedAreSerialised`, `ReceivesAsSent` | `AcceptedIsSerialised`, `ReceivesWhatWasSent` |
| | `AcceptsAllThatIsLegal` | `AcceptsTheLegal` |
| | `ShowsAsSent`, `DisplayedTextIsRight` | `ShowsWhatWasSent`, `DisplayedTextIsMessage` |

The argument for the session has three layers, each using the one before.  Types
first.  Then what the context, the review and the chunk counter have to do with one
another: a review is open exactly while a command is pending, and its subject is in
the context.  It must carry facts no property names (the stored hash is in `shown`
while a signing review is open; the session's start command is the one whose path
is in the context), because an approval releases what was set up many commands
before.  Last, the answer: it is composed from a context in which the second
layer held, and after it that context is gone.  The refinement uses the last layer:
every step of the session is one of the service or leaves the service's state alone.

For the Nano, `OfferedAfterAll` is not inductive: it says nothing until the last
step.  `SeenInOrder` says what was seen on the way: every screen of the items
before the one on the display, and of that one the screens up to the current one.
It needs `OffsetFollowsDisplay`, because the offset alone does not tell which item
is on the display.

For the wallet, `TableInv` ties the rows and the slots of a table to its page, and
`ReviewInv` adds that whoever left the first page saw the fields complete, unless a
formatter failed.  A table of more than one page reuses the slots in a ring, so its
lemmas are arithmetic: a page with a bar ends within the records, its byte offset
does not wrap, a whole number of turns does not move a slot, and division with
remainder finds the page and bar of every record.  They hold for any number of bars
on a page, where the runs have two.

For the payload, the invariant of the deserialisers ties each stage to where it begins:
a cursor at the end of what was read before, and the votes read so far linked, each
one starting where the one before it ends (`VotesLinked`).  From the link it follows
that `vote_search`, which computes the same ends from the same length bytes, stands on
`starts[k]` after `k - 1` turns.  That a part can always be shown needs a lemma about
the formatters, whose digits are a `CHOOSE`: `AmountsProofs` bounds the lengths of their
texts (at most 20 digits, a point, and never an empty text after the removal of zeros)
for every eight bytes.  That the text denotes the amount (`AmountsAreRight`) is a matter
of value: the limbs of base 10^4, which the formatter computes from the words of 16 bits,
the digits it takes from the limbs, and the words that `DenotesSxp` computes back from the
digits all have the value of the number, and four words have one value only.  The zeros
that were removed are those that `DenotesSxp` puts back.

For the two ends, `ReadInv` says of each stage which bytes those before it have checked:
the header, the memo, the count, every vote read so far, and that `sum` is the sum of
their percentages and `total` its low 16 bits.  Of an accepted payload it says that of
all bytes, and three arguments use it:

- Towards the client (`AcceptedAreSerialised`): fields that follow each other are one
  field, so the client's parts are laid against the payload from its first byte on; the
  votes need `VotesLinked`, that each begins where the one before it ends.
- From the client (`ReceivesAsSent`): the parts of `Serialised(sent)` are found at the
  offsets where the deserialisers read them, vote by vote by induction, since where a vote
  starts depends on the lengths of those before it.
- `WantedInv` adds to `ReadInv` that no legal payload was refused: at each stage the
  check that the code makes next is one that the documents promise.

`SaysInv` adds what is shown: that each provider's item says what `Received` has at that
index.  It is in terms of `Received`, not of `sent`, so that it also holds of damaged
payloads, and `ReceivesAsSent` turns it into `ShowsWhatWasSent`.  The text of a message
(`TextInv`) ends where the message does because its bytes are not zero and the one after
them is, also where that byte is the first behind the buffer.

Induction over data.  The library's induction theorems take an operator and cannot be
used.  `AccumulateProofs` has induction for a set (a set with 0 and with every number
the next one has all of `Nat`, as a least number outside would have one before it) and,
by it, the equations of the two recursive functions.  Every lemma here over a list of any
length is an instance, `LengthIsSum` included, whose chunks are such a list.

Only model-checked: `CommandAnswered` and `RightReachesEnd` (liveness needs
`ENABLED`), and the runs that expect a violation.

## Not modelled, and why

- Curves, hashes and key derivation are calls of the operating system: they
  succeed or fail.  SHA-256 is taken as injective.
- The I/O library (one answer per command, no command while one is unanswered) and
  the UI libraries (flows, paging, taps, dialogs) are modelled from how the code uses
  them and marked as external.  The error page is assumed to stay on the display.
- SHA-256 and Base58: a hash or text stands for its input.  `format_hex_lower` and the
  fixed labels of a wallet: straight-line code.
- `SolarSession` has the payloads that are accepted as constants, and the
  reviews which items may fail, where `Records` has the providers themselves.
- Menus, icons, build, tests, fuzzing.

## Plan

Built, in this order: the session and its service; the two reviews and the review they
promise; the deserialisers, formatters and providers, and the client at the other end;
the proofs of all invariants and action properties that the passing runs check, and of
the three refinements.

Left:

1. Composition: `SolarSession` with `Deserialiser` instead of the constants `TxPayloads`
   and `MsgPayloads`, and with `NanoReview` or `WalletReview` over `Records` instead of its
   one review screen; the session as an abstraction of the composition.
2. Proofs: the composition's refinement.
