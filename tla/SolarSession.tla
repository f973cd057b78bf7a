---------------------------- MODULE SolarSession ----------------------------
(***************************************************************************)
(* The command session of the Solar app: the APDU dispatcher, its handlers,*)
(* the global context G_context they share, the review screens and the     *)
(* user's decision (ui_validate).                                          *)
(*                                                                         *)
(* The app is one event loop.  A command handler and a screen callback each*)
(* run to completion, so each is one action; what interleaves is the host's*)
(* choice of the next command, the user's choice on the screen, power loss *)
(* and, for the "paranoid" re-hashing of the payload, a fault that alters  *)
(* the payload buffer.  While a review is open the command that opened it  *)
(* is unanswered and the transport takes no other one (the I/O library's   *)
(* rule; variable pending).                                                *)
(*                                                                         *)
(* Abstractions.  A chunk's bytes are one value with a size.  A hash is its*)
(* preimage (SHA-256 is taken as injective) and a public key is the path it*)
(* derives from.  Which payloads the deserialisers accept is a constant.   *)
(* A status word is named by a string.  The pages inside a review belong to*)
(* the review modules: here a review is one screen that offers approval.   *)
(***************************************************************************)
EXTENDS Naturals, Sequences, Accumulate

CONSTANTS
  Paths,           (* BIP32 paths of 2 to MAX_BIP32_PATH elements              *)
  NoPath,          (* the cleared path: no element                             *)
  BadPath,         (* what a refused path argument leaves in the context       *)
  Networks,        (* network bytes GET_ADDRESS accepts                        *)
  Chunks,          (* contents of a data chunk                                 *)
  Size,            (* the number of bytes of each chunk                        *)
  TxLenMax,        (* TRANSACTION_LEN_MAX, the size of the payload buffer      *)
  P1Max,           (* the largest chunk number P1 can carry (a byte: 255)      *)
  TxPayloads,      (* payloads deserialise_transaction accepts                 *)
  MsgPayloads,     (* payloads deserialise_message accepts                     *)
  Wallet,          (* TRUE on Stax and Flex, FALSE on the Nanos                *)
  CryptoOutcomes,  (* results a cryptographic call of the OS may have          *)
  MaxFaults,       (* bound on the faults that alter the payload buffer        *)
  None             (* no value                                                 *)

ASSUME SessionAssumption ==
  /\ NoPath \notin Paths /\ BadPath \notin Paths /\ NoPath # BadPath
  /\ Size \in [Chunks -> Nat]
  /\ TxLenMax \in Nat
  /\ P1Max \in Nat \ {0}
  /\ TxPayloads \subseteq Seq(Chunks)
  /\ MsgPayloads \subseteq Seq(Chunks)
  /\ Wallet \in BOOLEAN
  /\ CryptoOutcomes \subseteq BOOLEAN /\ TRUE \in CryptoOutcomes
  /\ MaxFaults \in Nat
  /\ None \notin Seq(Chunks)
  /\ None \notin Networks

VARIABLES
  running,  (* the app is launched                                         *)
  ctx,      (* G_context                                                   *)
  pending,  (* a command was received and not answered (I/O state WAITING) *)
  screen,   (* what the display shows                                      *)
  choice,   (* the response type the open review was set up with           *)
  faults,   (* number of faults so far                                     *)
  \* History, written by the actions and read by the properties only.
  cmd,      (* the last command received                                   *)
  reply,    (* the answer the host received to it, or None                 *)
  session,  (* the signing start command of the session, or None           *)
  taken,    (* numbers of the chunks stored in the session                 *)
  refused,  (* numbers of its chunks refused for their length              *)
  shown,    (* payloads the review of this command displayed               *)
  signed    (* what sign_message signed for this command, or None          *)

history == <<session, taken, refused>>
vars == <<running, ctx, pending, screen, choice, faults, cmd, reply, history, shown, signed>>

-----------------------------------------------------------------------------
(* The data.                                                               *)

SignTypes == {"transaction", "message"}
KeyTypes  == {"publickey", "address"}
ReqTypes  == SignTypes \cup KeyTypes
Reviewing == {"intent", "review", "dialog"}

\* Data of a command that should hold a path and does not: no length byte, a
\* length out of range, fewer bytes than the length announces.
RefusedPaths == {"empty", "length", "truncated"}

\* Slip: the path is stored as it came.
StoredUnchecked(arg) == arg

StoredPath(arg) ==
  IF arg \in Paths THEN arg ELSE IF arg = "empty" THEN NoPath ELSE BadPath

\* G_context after reset_app_context.  pk_info (key) and tx_info (the payload
\* fields) share their memory in the code; here each has its own field.
NoContext ==
  [reqType |-> "none", state |-> "none", reqNum |-> 0, path |-> NoPath,
   network |-> None, key |-> None,
   raw |-> <<>>, rawLen |-> 0, mHash |-> None, tx |-> None]

NoBody == [kind |-> "none"]

StatusWords ==
  {"OK", "DENY", "WRONG_P1P2", "WRONG_LENGTH", "INS_NOT_SUPPORTED", "CLA_NOT_SUPPORTED",
   "DISPLAY_BIP32_PATH_FAIL", "DISPLAY_ADDRESS_FAIL", "WRONG_TX_LENGTH",
   "TX_PARSING_FAIL", "TX_HASH_FAIL", "BAD_STATE", "SIGNATURE_FAIL", "REQ_ORDER_FAIL",
   "CRYPTO_ERROR", "VALIDATION_HASH_MISMATCH"}

Parses(kind, payload) ==
  payload \in IF kind = "transaction" THEN TxPayloads ELSE MsgPayloads

\* An empty chunk adds no byte to the payload buffer.
AppendBytes(raw, c) == IF Size[c] = 0 THEN raw ELSE Append(raw, c)

\* verify_message_hash: the payload still hashes to the stored digest.
\* Slip: the digests are not compared.
HashesOnly(c, hashOk) == hashOk

Verifies(c, hashOk) == hashOk /\ c.mHash = c.raw

-----------------------------------------------------------------------------
(* Answers.  The I/O library delivers one answer to a command and drops    *)
(* what is sent after it.                                                  *)

Deliver(messages) ==
  /\ pending' = FALSE
  /\ reply' = Head(messages)

Message(sw, body) == [sw |-> sw, body |-> body]
Send(sw) == Deliver(<<Message(sw, NoBody)>>)

KeyBody(c) == [kind |-> "publickey", path |-> c.key.path, option |-> c.key.chain]
AddressBody(c) == [kind |-> "address", path |-> c.key.path, option |-> c.network]
SignatureBody(c) ==
  [kind |-> c.reqType, path |-> c.path, hash |-> c.mHash, raw |-> c.raw]

\* helper_send for a key or an address: the address conversion may fail; the
\* context is reset before the answer leaves.
\* Slip: the context is not reset.
SendKeyKeepingContext(type, c) ==
  /\ ctx' = c
  /\ \/ type = "publickey" /\ Deliver(<<Message("OK", KeyBody(c))>>)
     \/ type = "address" /\ Deliver(<<Message("OK", AddressBody(c))>>)

SendKey(type, c) ==
  /\ ctx' = NoContext
  /\ \/ type = "publickey" /\ Deliver(<<Message("OK", KeyBody(c))>>)
     \/ type = "address" /\ Deliver(<<Message("OK", AddressBody(c))>>)
     \/ type = "address" /\ FALSE \in CryptoOutcomes /\ Send("DISPLAY_ADDRESS_FAIL")

\* Opening a review leaves the command unanswered.  Each ui_display_* function
\* checks request type and state first; its callers have just set both.
\* Slip: the response type of the review before it stays set.
OpenReviewKeepingChoice(c) ==
  /\ ctx' = c
  /\ pending' = TRUE
  /\ reply' = None
  /\ UNCHANGED choice
  /\ screen' = "review"

OpenReview(c) ==
  /\ ctx' = c
  /\ pending' = TRUE
  /\ reply' = None
  /\ choice' = c.reqType
  /\ screen' = IF Wallet /\ c.reqType = "publickey" THEN "intent" ELSE "review"

-----------------------------------------------------------------------------
(* The host's commands.                                                    *)

Receive(c) ==
  /\ running /\ ~pending
  /\ cmd' = c
  /\ signed' = None
  /\ UNCHANGED <<running, faults>>

\* continues: a signing command with a chunk number, not a start.
Command(ins, continues, arg, option, confirm) ==
  [ins |-> ins, continues |-> continues, path |-> StoredPath(arg),
   option |-> option, confirm |-> confirm]
OtherCommand == Command("other", FALSE, "empty", None, FALSE)

\* GET_VERSION and GET_APP_NAME, with P1 = P2 = 0.
GetInfo ==
  /\ Receive(OtherCommand)
  /\ Deliver(<<Message("OK", [kind |-> "info"])>>)
  /\ shown' = {}
  /\ UNCHANGED <<ctx, screen, choice, history>>

\* What app_main and the dispatcher refuse before any handler runs: a command
\* that does not parse, another class, bad parameters, an unknown instruction.
RefuseCommand ==
  /\ Receive(OtherCommand)
  /\ \E sw \in {"WRONG_LENGTH", "CLA_NOT_SUPPORTED", "WRONG_P1P2", "INS_NOT_SUPPORTED"} :
       Send(sw)
  /\ shown' = {}
  /\ UNCHANGED <<ctx, screen, choice, history>>

\* GET_PUBLIC_KEY and GET_ADDRESS.  option is the chain code flag or the
\* network byte.
KeyCommand(type, arg, option, confirm) ==
  LET started == [NoContext EXCEPT !.reqType = type, !.path = StoredPath(arg),
                    !.network = IF type = "address" THEN option ELSE None]
      derived == [started EXCEPT !.key =
                    [path |-> arg, chain |-> IF type = "publickey" THEN option ELSE FALSE]]
  IN  /\ Receive(Command(type, FALSE, arg, option, confirm))
      /\ session' = None /\ taken' = {} /\ refused' = {} /\ shown' = {}
      /\ \/ /\ arg \notin Paths
            /\ ctx' = started
            /\ Send(IF arg = "truncated" THEN "DISPLAY_BIP32_PATH_FAIL" ELSE "WRONG_LENGTH")
            /\ UNCHANGED <<screen, choice>>
         \/ /\ arg \in Paths /\ FALSE \in CryptoOutcomes
            /\ ctx' = started
            /\ Send("CRYPTO_ERROR")
            /\ UNCHANGED <<screen, choice>>
         \/ /\ arg \in Paths /\ confirm
            /\ OpenReview(derived)
         \/ /\ arg \in Paths /\ confirm /\ type = "address" /\ FALSE \in CryptoOutcomes
            /\ ctx' = derived
            /\ choice' = IF Wallet THEN type ELSE choice
            /\ Send("DISPLAY_ADDRESS_FAIL")
            /\ UNCHANGED screen
         \/ /\ arg \in Paths /\ ~confirm
            /\ SendKey(type, derived)
            /\ UNCHANGED <<screen, choice>>

GetPublicKey ==
  \E arg \in Paths \cup RefusedPaths, chain, confirm \in BOOLEAN :
    KeyCommand("publickey", arg, chain, confirm)

GetAddress ==
  \E arg \in Paths \cup RefusedPaths, network \in Networks, confirm \in BOOLEAN :
    KeyCommand("address", arg, network, confirm)

\* Chunk 0 of SIGN_TX and SIGN_MESSAGE: the path.  The request type is set
\* before the path is read and stays set when the path is refused.
\* Slip: the context of the request before it is not reset.
StartedInOldContext(type, arg) ==
  [ctx EXCEPT !.reqType = type, !.reqNum = 0, !.path = StoredPath(arg)]

StartedContext(type, arg) ==
  [NoContext EXCEPT !.reqType = type, !.path = StoredPath(arg)]

SignStart(type, arg) ==
  /\ Receive(Command(type, FALSE, arg, None, TRUE))
  /\ ctx' = StartedContext(type, arg)
  /\ Send(IF arg \in Paths THEN "OK" ELSE "WRONG_LENGTH")
  /\ session' = [type |-> type, path |-> StoredPath(arg)]
  /\ taken' = {} /\ refused' = {} /\ shown' = {}
  /\ UNCHANGED <<screen, choice>>

\* The two checks on a later chunk's request type and number.
\* Slips: any signing session goes on; a chunk may be skipped.
InSigningSession(type) == ctx.reqType \in SignTypes
InLooseOrder(no) == no > ctx.reqNum

InSession(type) == ctx.reqType = type
InOrder(no) == no = ctx.reqNum + 1

\* The context once a chunk's number is counted, and once its bytes are stored.
\* Slips: the length starts anew; the length before the chunk is checked.
StoredLengthReset(c) ==
  [ctx EXCEPT !.reqNum = @ + 1, !.raw = AppendBytes(@, c), !.rawLen = Size[c]]
FitsBefore(c) == ctx.rawLen < TxLenMax

Counted == [ctx EXCEPT !.reqNum = @ + 1]
Stored(c) == [Counted EXCEPT !.raw = AppendBytes(@, c), !.rawLen = @ + Size[c]]
Fits(c) == ctx.rawLen + Size[c] <= TxLenMax

ReceiveChunk(type) ==
  /\ Receive(Command(type, TRUE, "empty", None, TRUE))
  /\ UNCHANGED session

RefuseChunk(type, no) ==
  /\ ReceiveChunk(type)
  /\ \/ ~InSession(type) /\ Send("BAD_STATE")
     \/ InSession(type) /\ ~InOrder(no) /\ Send("REQ_ORDER_FAIL")
  /\ shown' = {}
  /\ UNCHANGED <<ctx, screen, choice, taken, refused>>

\* The number of a chunk that does not fit is counted all the same.
ChunkTooLong(type, no, c) ==
  /\ ReceiveChunk(type)
  /\ InSession(type) /\ InOrder(no) /\ ~Fits(c)
  /\ ctx' = Counted
  /\ refused' = refused \cup {no}
  /\ Send("WRONG_TX_LENGTH")
  /\ shown' = {}
  /\ UNCHANGED <<screen, choice, taken>>

TakeChunk(type, no, c) ==
  /\ ReceiveChunk(type)
  /\ InSession(type) /\ InOrder(no) /\ Fits(c)
  /\ taken' = taken \cup {no}
  /\ UNCHANGED refused

StoreChunk(type, no, c) ==
  /\ TakeChunk(type, no, c)
  /\ ctx' = Stored(c)
  /\ Send("OK")
  /\ shown' = {}
  /\ UNCHANGED <<screen, choice>>

\* What the review draws: the fields point into the payload buffer.
\* Slip: they were read before the last chunk was copied.
DisplayedBefore(c) == ctx.raw
Displayed(c) == c.raw

\* handle_last_chunk: hash, deserialise, verify the hash, then the review
\* function verifies it again and opens the review.
LastChunk(type, no, c) ==
  LET full == Stored(c)
      hashed == [full EXCEPT !.mHash = full.raw]
      parsed == [hashed EXCEPT !.tx = full.raw, !.state = "parsed"]
  IN  /\ TakeChunk(type, no, c)
      /\ \/ /\ FALSE \in CryptoOutcomes
            /\ ctx' = full
            /\ Send("TX_HASH_FAIL")
            /\ shown' = {}
            /\ UNCHANGED <<screen, choice>>
         \/ /\ ~Parses(type, full.raw)
            /\ ctx' = [hashed EXCEPT !.tx = None]
            /\ Send("TX_PARSING_FAIL")
            /\ shown' = {}
            /\ UNCHANGED <<screen, choice>>
         \/ /\ Parses(type, full.raw)
            /\ \E hashOk \in CryptoOutcomes : ~Verifies(parsed, hashOk)
            /\ ctx' = parsed
            /\ Send("VALIDATION_HASH_MISMATCH")
            /\ shown' = {}
            /\ UNCHANGED <<screen, choice>>
         \/ /\ Parses(type, full.raw) /\ Verifies(parsed, TRUE)
            /\ OpenReview(parsed)
            /\ shown' = {Displayed(parsed)}

SignChunk ==
  \E type \in SignTypes, no \in 1..P1Max :
    \/ RefuseChunk(type, no)
    \/ \E c \in Chunks : \/ ChunkTooLong(type, no, c)
                         \/ StoreChunk(type, no, c)
                         \/ LastChunk(type, no, c)

Host ==
  \/ GetInfo
  \/ RefuseCommand
  \/ GetPublicKey
  \/ GetAddress
  \/ \E type \in SignTypes, arg \in Paths \cup RefusedPaths : SignStart(type, arg)
  \/ SignChunk

-----------------------------------------------------------------------------
(* The user's choices.  On a wallet a status screen follows the decision,  *)
(* on a Nano the menu does.                                                *)

Afterwards(status) == IF Wallet THEN status ELSE "menu"

UserActs == UNCHANGED <<running, choice, faults, cmd, history, shown>>

\* ui_validate(SIGNATURE_RESPONSE, true).  Neither the outcome of the last hash
\* verification nor that of the signature ends the function: each failure
\* sends its status word, and the answer with the signature is sent in every
\* case, then SW_SIGNATURE_FAIL if that could not be sent.
ApproveSignature ==
  \E hashOk, signOk \in CryptoOutcomes :
    LET unverified == IF Verifies(ctx, hashOk) THEN <<>>
                      ELSE <<Message("VALIDATION_HASH_MISMATCH", NoBody)>>
        unsigned == IF signOk THEN <<>> ELSE <<Message("SIGNATURE_FAIL", NoBody)>>
        earlier == unverified \o unsigned
        answer == <<Message("OK", SignatureBody(ctx))>>
        undelivered == IF earlier = <<>> THEN <<>> ELSE <<Message("SIGNATURE_FAIL", NoBody)>>
    IN  /\ signed' = IF signOk THEN SignatureBody(ctx) ELSE signed
        /\ ctx' = NoContext
        /\ Deliver(earlier \o answer \o undelivered)

\* The approval of a review: ui_validate(response_type, true), then the
\* "confirmed" status screen, whatever was answered.
Approve ==
  /\ running /\ screen = "review"
  /\ \/ choice \in SignTypes /\ ApproveSignature
     \/ choice \in KeyTypes /\ SendKey(choice, ctx) /\ UNCHANGED signed
  /\ screen' = Afterwards("confirmed")
  /\ UserActs

\* Slips: the review stays on the display; the host gets no answer.
DenyKeepingReview(next) ==
  /\ Send("DENY")
  /\ UNCHANGED <<ctx, signed, screen>>
  /\ UserActs
DenyUnanswered(next) ==
  /\ screen' = next
  /\ UNCHANGED <<ctx, signed, pending, reply>>
  /\ UserActs

\* ui_validate(response_type, false): the context stays as it is.
Deny(next) ==
  /\ Send("DENY")
  /\ screen' = next
  /\ UNCHANGED <<ctx, signed>>
  /\ UserActs

\* Rejecting the review of anything but a wallet's transaction.
Reject ==
  /\ running /\ screen = "review"
  /\ ~Wallet \/ ctx.reqType # "transaction"
  /\ Deny(Afterwards("rejected"))

\* The public key review of a wallet starts with a page of its own, whose
\* rejection shows no status; continuing shows the key.
RejectSilently ==
  /\ running /\ screen = "intent"
  /\ Deny("menu")

Turn(from, to) ==
  /\ running /\ screen = from
  /\ screen' = to
  /\ UNCHANGED <<ctx, pending, reply, signed>>
  /\ UserActs

Continue == Turn("intent", "review")

\* A wallet asks for confirmation before it rejects a transaction.
AskReject == Wallet /\ ctx.reqType = "transaction" /\ Turn("review", "dialog")
ResumeReview == Turn("dialog", "review")
ConfirmReject ==
  /\ running /\ screen = "dialog"
  /\ Deny("rejected")

\* A page of a wallet's transaction review that cannot be laid out rejects the
\* transaction by itself.
ReviewError ==
  /\ Wallet /\ running /\ screen = "review" /\ ctx.reqType = "transaction"
  /\ Deny("rejected")

\* The status screen ends by itself or on a tap.
LeaveStatus == \E status \in {"confirmed", "rejected"} : Turn(status, "menu")

Decide == Approve \/ Reject \/ RejectSilently \/ ConfirmReject
User == Decide \/ Continue \/ AskReject \/ ResumeReview \/ ReviewError \/ LeaveStatus

-----------------------------------------------------------------------------
(* The device.  Everything above lives in RAM.                             *)

Init ==
  /\ running = TRUE /\ faults = 0
  /\ ctx = NoContext
  /\ pending = FALSE /\ screen = "menu" /\ choice = "none"
  /\ cmd = OtherCommand /\ reply = None
  /\ session = None /\ taken = {} /\ refused = {} /\ shown = {} /\ signed = None

\* Quitting from the menu, or power loss at any moment.
Stop ==
  /\ running
  /\ running' = FALSE
  /\ ctx' = NoContext
  /\ pending' = FALSE /\ screen' = "menu" /\ choice' = "none"
  /\ cmd' = OtherCommand /\ reply' = None
  /\ session' = None /\ taken' = {} /\ refused' = {} /\ shown' = {} /\ signed' = None
  /\ UNCHANGED faults

Launch ==
  /\ ~running
  /\ running' = TRUE
  /\ UNCHANGED <<ctx, pending, screen, choice, faults, cmd, reply, history, shown, signed>>

\* A fault alters a stored chunk.  A review that is open may draw the altered
\* bytes: it points into the buffer.
Corrupt ==
  \E i \in DOMAIN ctx.raw, c \in Chunks :
    /\ running /\ faults < MaxFaults
    /\ c # ctx.raw[i] /\ Size[c] = Size[ctx.raw[i]]
    /\ ctx' = [ctx EXCEPT !.raw[i] = c]
    /\ faults' = faults + 1
    /\ shown' = IF pending THEN shown \cup {Displayed(ctx')} ELSE shown
    /\ UNCHANGED <<running, pending, screen, choice, cmd, reply, history, signed>>

Device == Stop \/ Launch \/ Corrupt

Next == Host \/ User \/ Device

Spec == Init /\ [][Next]_vars

\* The user eventually decides on a review that stays open.  Nothing is
\* assumed of the host, and nothing else needs to be: a handler answers in
\* the step that receives the command or opens a review.
FairSpec == Spec /\ WF_vars(Decide)
-----------------------------------------------------------------------------
(* Properties.                                                             *)

Payload == Seq(Chunks)
StoredPaths == Paths \cup {NoPath, BadPath}
Options == BOOLEAN \cup Networks \cup {None}

Keys == [path : StoredPaths, chain : BOOLEAN]

Contexts ==
  [reqType : ReqTypes \cup {"none"}, state : {"none", "parsed", "approved"},
   reqNum : 0..P1Max, path : StoredPaths, network : Networks \cup {None},
   key : Keys \cup {None},
   raw : Payload, rawLen : Nat,
   mHash : Payload \cup {None}, tx : Payload \cup {None}]

Signatures ==
  [kind : SignTypes, path : StoredPaths, hash : Payload, raw : Payload]
Bodies ==
  Signatures \cup [kind : KeyTypes, path : StoredPaths, option : Options]
             \cup [kind : {"none", "info"}]
Replies == [sw : StatusWords, body : Bodies]

Commands ==
  [ins : ReqTypes \cup {"other"}, continues : BOOLEAN, path : StoredPaths,
   option : Options, confirm : BOOLEAN]
Sessions == [type : SignTypes, path : StoredPaths]

ASSUME NoneAssumption ==
  None \notin Keys /\ None \notin Sessions /\ None \notin Replies

\* The type of every variable.
TypeOK ==
  /\ running \in BOOLEAN
  /\ ctx \in Contexts
  /\ pending \in BOOLEAN
  /\ screen \in Reviewing \cup {"menu", "confirmed", "rejected"}
  /\ choice \in ReqTypes \cup {"none"}
  /\ faults \in 0..MaxFaults
  /\ cmd \in Commands
  /\ reply \in Replies \cup {None}
  /\ session \in Sessions \cup {None}
  /\ taken \subseteq 1..P1Max /\ refused \subseteq 1..P1Max
  /\ shown \subseteq Payload
  /\ signed \in Signatures \cup {None}

\* The answer is a signature: its kind is a signing one.
Released == reply # None /\ reply.body.kind \in SignTypes

\* A command is unanswered exactly while a review is on the display: no path
\* through a handler or a callback leaves the host without an answer, answers
\* it under an open review, or leaves a dead review on the screen.
UnansweredIffReviewing ==
  /\ pending <=> screen \in Reviewing
  /\ pending => reply = None

\* What the user is asked about is what the context would release: the review
\* was opened by the pending command and for its request type, a signing review
\* displayed the very payload whose hash would be signed, and (while no fault
\* altered it) that payload is still the stored one.  Sessions survive refusals
\* and errors, so an earlier payload, hash or response type could be left over.
ReviewMatchesContext ==
  pending =>
    /\ choice = ctx.reqType /\ cmd.ins = ctx.reqType
    /\ ctx.reqType \in KeyTypes => ctx.key # None /\ ctx.key.path = cmd.path
    /\ ctx.reqType = "publickey" => ctx.key.chain = cmd.option
    /\ ctx.reqType = "address" => ctx.network = cmd.option
    /\ ctx.reqType \in SignTypes =>
         /\ ctx.state = "parsed" /\ ctx.tx = ctx.mHash
         /\ ctx.mHash \in shown
         /\ Parses(ctx.reqType, ctx.mHash)
         /\ faults = 0 => ctx.raw = ctx.mHash /\ shown = {ctx.raw}

\* Every chunk number up to req_num was used once: for a chunk that was stored
\* or for one refused for its length.  None is skipped, repeated or reordered,
\* whatever the host sends and after whichever error it goes on.
EveryChunkOnce ==
  ctx.reqType \in SignTypes =>
    /\ taken \cup refused = 1..ctx.reqNum
    /\ taken \cap refused = {}

\* The payload never outgrows its buffer, however a session that met an error
\* or a refusal is continued.
PayloadFits == ctx.rawLen <= TxLenMax

\* raw_tx_len counts the bytes of the chunks in the buffer, no more and no less,
\* also after chunks that were refused for their length and were counted all the
\* same: what is hashed and parsed has no bytes of an earlier session behind it.
LengthIsSum ==
  ctx.rawLen = SumOf([k \in 1..Len(ctx.raw) |-> Size[ctx.raw[k]]])

\* A signature that reaches the host is over a payload the user was shown in
\* the review that was approved, and over nothing else that could have been
\* displayed unless a fault altered the buffer during that review.
SignedWasShown ==
  Released =>
    /\ reply.body.hash \in shown
    /\ faults = 0 => shown = {reply.body.hash}

\* A signature that reaches the host was made while the payload buffer still
\* had the hash that was signed: the last verification in ui_validate, though
\* it does not stop the signing, stops the delivery.
ReleasedWasVerified == Released => reply.body.raw = reply.body.hash

\* The answer belongs to the command it answers: a signature is of the kind
\* asked for, under the path of the session's own start command, and a key or
\* an address is for the path, and with the chain code or network, asked for.
AnswerMatchesCommand ==
  reply # None =>
    /\ reply.body.kind \in SignTypes =>
         /\ cmd.ins = reply.body.kind
         /\ session # None
         /\ session.type = reply.body.kind /\ session.path = reply.body.path
    /\ reply.body.kind \in KeyTypes =>
         /\ cmd.ins = reply.body.kind
         /\ cmd.path = reply.body.path /\ cmd.option = reply.body.option

\* Once a key, an address or a signature is released nothing of the request is
\* left in the context: it cannot be asked for again without a new review.
ReleaseClearsContext ==
  reply # None /\ reply.body.kind \in ReqTypes => ctx = NoContext

\* pk_info and tx_info share their memory: while a key is stored there no
\* payload is, and no chunk would be accepted.
UnionNotMixed ==
  ctx.key # None => ctx.raw = <<>> /\ ctx.mHash = None /\ ctx.reqType \notin SignTypes

\* A command that waits for the user is answered, or the app is stopped.
CommandAnswered == pending ~> ~pending

(* What the repository says and the code does otherwise: each is checked to *)
(* be violated, and reported as a finding.                                  *)

\* validate.c: "Sign if hash verification passes".
SignsOnlyVerified == signed # None => signed.raw = signed.hash

\* The status screen after the review of a transaction says "Transaction signed":
\* the command that opened the review was answered with a signature.  (shown is
\* empty again once another command has come.)
StatusTellsOutcome ==
  screen = "confirmed" /\ cmd.ins = "transaction" /\ shown # {} => Released
=============================================================================
