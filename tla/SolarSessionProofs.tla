------------------------- MODULE SolarSessionProofs -------------------------
(***************************************************************************)
(* Proofs about the command session, for every value of its constants.     *)
(***************************************************************************)
EXTENDS SolarSession, AccumulateProofs

-----------------------------------------------------------------------------
(* Types of the values the actions build.                                  *)

LEMMA StoredPathType ==
  ASSUME NEW arg
  PROVE  StoredPath(arg) \in StoredPaths
BY DEF StoredPath, StoredPaths

LEMMA NoContextType == NoContext \in Contexts
<1>1. None \in Networks \cup {None} /\ <<>> \in Payload /\ 0 \in 0..P1Max /\ NoPath \in StoredPaths
  BY SessionAssumption DEF Payload, StoredPaths
<1> QED BY <1>1 DEF NoContext, Contexts

LEMMA CommandType ==
  ASSUME NEW ins \in ReqTypes \cup {"other"}, NEW continues \in BOOLEAN, NEW arg,
         NEW option \in Options, NEW confirm \in BOOLEAN
  PROVE  Command(ins, continues, arg, option, confirm) \in Commands
BY StoredPathType DEF Command, Commands

LEMMA MessageType ==
  ASSUME NEW sw \in StatusWords, NEW body \in Bodies
  PROVE  Message(sw, body) \in Replies
BY DEF Message, Replies

LEMMA StatusType ==
  ASSUME NEW sw \in StatusWords
  PROVE  Message(sw, NoBody) \in Replies
<1>1. NoBody \in Bodies
  BY DEF NoBody, Bodies
<1> QED BY <1>1, MessageType

LEMMA SendDelivers ==
  ASSUME NEW sw \in StatusWords, Send(sw)
  PROVE  pending' = FALSE /\ reply' = Message(sw, NoBody) /\ reply' \in Replies
<1>1. Head(<<Message(sw, NoBody)>>) = Message(sw, NoBody)
  OBVIOUS
<1> QED BY <1>1, StatusType DEF Send, Deliver

\* Updates of the context.
LEMMA StartedType ==
  ASSUME NEW type \in ReqTypes, NEW arg, NEW network \in Networks \cup {None}
  PROVE  [NoContext EXCEPT !.reqType = type, !.path = StoredPath(arg),
            !.network = network] \in Contexts
BY NoContextType, StoredPathType DEF Contexts

LEMMA KeyedType ==
  ASSUME NEW c \in Contexts, NEW key \in Keys
  PROVE  [c EXCEPT !.key = key] \in Contexts
BY DEF Contexts

LEMMA StartedContextType ==
  ASSUME NEW type \in SignTypes, NEW arg
  PROVE  StartedContext(type, arg) \in Contexts
BY NoContextType, StoredPathType DEF Contexts, StartedContext, ReqTypes

LEMMA CountedType ==
  ASSUME ctx \in Contexts, NEW no \in 1..P1Max, InOrder(no)
  PROVE  /\ Counted \in Contexts
         /\ Counted.raw = ctx.raw /\ Counted.rawLen = ctx.rawLen
         /\ Counted.reqNum = no /\ Counted.reqType = ctx.reqType /\ Counted.path = ctx.path
         /\ Counted.key = ctx.key /\ Counted.mHash = ctx.mHash
BY SessionAssumption DEF Counted, Contexts, InOrder

LEMMA AppendType ==
  ASSUME NEW raw \in Payload, NEW c \in Chunks
  PROVE  AppendBytes(raw, c) \in Payload
BY DEF AppendBytes, Payload

LEMMA PayloadUpdate ==
  ASSUME NEW c \in Contexts, NEW raw \in Payload, NEW len \in Nat
  PROVE  [c EXCEPT !.raw = raw, !.rawLen = len] \in Contexts
BY DEF Contexts

LEMMA StoredType ==
  ASSUME ctx \in Contexts, NEW no \in 1..P1Max, InOrder(no), NEW c \in Chunks
  PROVE  /\ Stored(c) \in Contexts
         /\ Stored(c).raw = AppendBytes(ctx.raw, c)
         /\ Stored(c).rawLen = ctx.rawLen + Size[c]
         /\ Stored(c).reqNum = no /\ Stored(c).reqType = ctx.reqType
         /\ Stored(c).path = ctx.path /\ Stored(c).key = ctx.key
         /\ Stored(c).mHash = ctx.mHash
<1> DEFINE raw == AppendBytes(ctx.raw, c)
           len == ctx.rawLen + Size[c]
<1>1. raw \in Payload /\ len \in Nat
  BY AppendType, SessionAssumption DEF Contexts
<1>2. Stored(c) = [Counted EXCEPT !.raw = raw, !.rawLen = len]
  BY CountedType DEF Stored
<1> HIDE DEF raw, len
<1>3. Counted \in Contexts
  BY CountedType
<1>4. Stored(c) \in Contexts
  BY <1>1, <1>2, <1>3, PayloadUpdate
<1>5. /\ Stored(c).raw = raw /\ Stored(c).rawLen = len
      /\ Stored(c).reqNum = no /\ Stored(c).reqType = ctx.reqType
      /\ Stored(c).path = ctx.path /\ Stored(c).key = ctx.key
      /\ Stored(c).mHash = ctx.mHash
  BY <1>2, CountedType DEF Contexts
<1> QED BY <1>5, <1>4 DEF raw, len

LEMMA HashedType ==
  ASSUME NEW c \in Contexts
  PROVE  LET hashed == [c EXCEPT !.mHash = c.raw]
             parsed == [hashed EXCEPT !.tx = c.raw, !.state = "parsed"]
         IN  /\ [hashed EXCEPT !.tx = None] \in Contexts
             /\ parsed \in Contexts
             /\ parsed.mHash = c.raw /\ parsed.raw = c.raw /\ parsed.tx = c.raw
             /\ parsed.state = "parsed" /\ parsed.reqType = c.reqType
             /\ parsed.reqNum = c.reqNum /\ parsed.rawLen = c.rawLen
             /\ parsed.path = c.path /\ parsed.key = c.key
BY DEF Contexts

\* Answers.
LEMMA KeyBodyType ==
  ASSUME NEW c \in Contexts, c.key # None
  PROVE  /\ KeyBody(c) \in Bodies /\ Message("OK", KeyBody(c)) \in Replies
         /\ AddressBody(c) \in Bodies /\ Message("OK", AddressBody(c)) \in Replies
<1>1. c.key \in Keys /\ c.network \in Networks \cup {None}
  BY DEF Contexts, Keys
<1>2. c.key.path \in StoredPaths /\ c.key.chain \in Options /\ c.network \in Options
  BY <1>1 DEF Options, Keys
<1>3. KeyBody(c) \in Bodies /\ AddressBody(c) \in Bodies
  BY <1>2 DEF KeyBody, AddressBody, Bodies, KeyTypes
<1>4. "OK" \in StatusWords
  BY DEF StatusWords
<1> QED BY <1>3, <1>4, MessageType

LEMMA SignatureBodyType ==
  ASSUME ctx \in Contexts, ctx.reqType \in SignTypes, ctx.mHash \in Payload
  PROVE  /\ SignatureBody(ctx) \in Signatures
         /\ Message("OK", SignatureBody(ctx)) \in Replies
<1>1. ctx.path \in StoredPaths /\ ctx.raw \in Payload
  BY DEF Contexts
<1>2. SignatureBody(ctx) \in Signatures
  BY <1>1 DEF SignatureBody, Signatures
<1>3. SignatureBody(ctx) \in Bodies
  BY <1>2 DEF Bodies
<1>4. "OK" \in StatusWords
  BY DEF StatusWords
<1> QED BY <1>2, <1>3, <1>4, MessageType

\* A signing approval delivers one of three answers; the signature only while
\* the payload has the hash.
LEMMA ApproveSignatureDelivers ==
  ASSUME ApproveSignature
  PROVE  /\ ctx' = NoContext /\ pending' = FALSE
         /\ signed' = signed \/ signed' = SignatureBody(ctx)
         /\ \/ reply' = Message("VALIDATION_HASH_MISMATCH", NoBody)
            \/ reply' = Message("SIGNATURE_FAIL", NoBody)
            \/ reply' = Message("OK", SignatureBody(ctx)) /\ ctx.mHash = ctx.raw
<1> DEFINE mismatch == Message("VALIDATION_HASH_MISMATCH", NoBody)
           fail == Message("SIGNATURE_FAIL", NoBody)
           signature == Message("OK", SignatureBody(ctx))
<1>1. PICK hashOk \in CryptoOutcomes, signOk \in CryptoOutcomes :
        LET unverified == IF Verifies(ctx, hashOk) THEN <<>> ELSE <<mismatch>>
            unsigned == IF signOk THEN <<>> ELSE <<fail>>
            earlier == unverified \o unsigned
            undelivered == IF earlier = <<>> THEN <<>> ELSE <<fail>>
        IN  /\ signed' = IF signOk THEN SignatureBody(ctx) ELSE signed
            /\ ctx' = NoContext
            /\ pending' = FALSE
            /\ reply' = Head(earlier \o <<signature>> \o undelivered)
  BY DEF ApproveSignature, Deliver
<1> HIDE DEF mismatch, fail, signature
<1>2. CASE ~Verifies(ctx, hashOk) /\ signOk
  <2>1. Head((<<mismatch>> \o <<>>) \o <<signature>> \o <<fail>>) = mismatch
    OBVIOUS
  <2>2. <<mismatch>> \o <<>> # <<>>
    OBVIOUS
  <2> QED BY <1>1, <1>2, <2>1, <2>2 DEF mismatch
<1>3. CASE ~Verifies(ctx, hashOk) /\ ~signOk
  <2>1. Head((<<mismatch>> \o <<fail>>) \o <<signature>> \o <<fail>>) = mismatch
    OBVIOUS
  <2>2. <<mismatch>> \o <<fail>> # <<>>
    OBVIOUS
  <2> QED BY <1>1, <1>3, <2>1, <2>2 DEF mismatch
<1>4. CASE Verifies(ctx, hashOk) /\ ~signOk
  <2>1. Head((<<>> \o <<fail>>) \o <<signature>> \o <<fail>>) = fail
    OBVIOUS
  <2>2. <<>> \o <<fail>> # <<>>
    OBVIOUS
  <2> QED BY <1>1, <1>4, <2>1, <2>2 DEF fail
<1>5. CASE Verifies(ctx, hashOk) /\ signOk
  <2>1. Head((<<>> \o <<>>) \o <<signature>> \o <<>>) = signature
    OBVIOUS
  <2>2. <<>> \o <<>> = <<>>
    OBVIOUS
  <2> QED BY <1>1, <1>5, <2>1, <2>2 DEF signature, Verifies
<1> QED BY <1>2, <1>3, <1>4, <1>5

LEMMA SendKeyDelivers ==
  ASSUME NEW type, NEW c \in Contexts, c.key # None, SendKey(type, c)
  PROVE  /\ ctx' = NoContext /\ pending' = FALSE /\ reply' \in Replies
         /\ \/ type = "publickey" /\ reply' = Message("OK", KeyBody(c))
            \/ type = "address" /\ reply' = Message("OK", AddressBody(c))
            \/ reply' = Message("DISPLAY_ADDRESS_FAIL", NoBody)
<1>1. Head(<<Message("OK", KeyBody(c))>>) = Message("OK", KeyBody(c))
  OBVIOUS
<1>2. Head(<<Message("OK", AddressBody(c))>>) = Message("OK", AddressBody(c))
  OBVIOUS
<1>3. CASE type = "publickey" /\ Deliver(<<Message("OK", KeyBody(c))>>)
  BY <1>1, <1>3, KeyBodyType DEF SendKey, Deliver
<1>4. CASE type = "address" /\ Deliver(<<Message("OK", AddressBody(c))>>)
  BY <1>2, <1>4, KeyBodyType DEF SendKey, Deliver
<1>5. CASE Send("DISPLAY_ADDRESS_FAIL")
  <2>1. "DISPLAY_ADDRESS_FAIL" \in StatusWords
    BY DEF StatusWords
  <2> QED BY <1>5, <2>1, SendDelivers DEF SendKey
<1>6. \/ type = "publickey" /\ Deliver(<<Message("OK", KeyBody(c))>>)
      \/ type = "address" /\ Deliver(<<Message("OK", AddressBody(c))>>)
      \/ Send("DISPLAY_ADDRESS_FAIL")
  BY DEF SendKey
<1> QED BY <1>3, <1>4, <1>5, <1>6

-----------------------------------------------------------------------------
(* The review invariant.  The type of the answer to an approval depends on *)
(* what the open review was set up with, so the three parts need each other.*)

ReviewInv == TypeOK /\ UnansweredIffReviewing /\ ReviewMatchesContext

LEMMA InitReview == Init => ReviewInv
<1> SUFFICES ASSUME Init PROVE ReviewInv
  OBVIOUS
<1>1. OtherCommand \in Commands
  BY CommandType DEF OtherCommand, Options
<1>2. 0 \in 0..MaxFaults
  BY SessionAssumption
<1>4. TypeOK
  BY <1>1, <1>2, NoContextType DEF Init, TypeOK
<1>3. UnansweredIffReviewing /\ ReviewMatchesContext
  BY DEF Init, UnansweredIffReviewing, ReviewMatchesContext, Reviewing
<1> QED BY <1>3, <1>4 DEF ReviewInv

\* A command that is answered in the step that receives it.
LEMMA AnsweredAtOnce ==
  ASSUME ReviewInv, NEW c \in Commands, Receive(c),
         ctx' \in Contexts, pending' = FALSE, reply' \in Replies, UNCHANGED screen,
         choice' \in ReqTypes \cup {"none"},
         session' \in Sessions \cup {None},
         taken' \subseteq 1..P1Max, refused' \subseteq 1..P1Max, shown' \subseteq Payload
  PROVE  ReviewInv'
<1>1. TypeOK'
  BY DEF ReviewInv, TypeOK, Receive
<1>2. UnansweredIffReviewing'
  BY DEF ReviewInv, UnansweredIffReviewing, Receive
<1>3. ReviewMatchesContext'
  BY DEF ReviewMatchesContext
<1> QED BY <1>1, <1>2, <1>3 DEF ReviewInv

\* What a context that is put to review must hold.
Reviewable(d) ==
  /\ d \in Contexts /\ d.reqType = cmd'.ins /\ d.reqType \in ReqTypes
  /\ d.reqType \in KeyTypes => d.key # None /\ d.key.path = cmd'.path
  /\ d.reqType = "publickey" => d.key.chain = cmd'.option
  /\ d.reqType = "address" => d.network = cmd'.option
  /\ d.reqType \in SignTypes =>
       /\ d.state = "parsed" /\ d.tx = d.mHash /\ d.raw = d.mHash
       /\ shown' = {d.raw}
       /\ Parses(d.reqType, d.mHash)

LEMMA ReviewOpened ==
  ASSUME ReviewInv, NEW c \in Commands, Receive(c), NEW d, Reviewable(d), OpenReview(d),
         session' \in Sessions \cup {None},
         taken' \subseteq 1..P1Max, refused' \subseteq 1..P1Max, shown' \subseteq Payload
  PROVE  ReviewInv'
<1>1. TypeOK'
  BY DEF ReviewInv, TypeOK, Receive, Reviewable, OpenReview, Reviewing
<1>2. UnansweredIffReviewing'
  BY DEF UnansweredIffReviewing, OpenReview, Reviewing
<1>3. ReviewMatchesContext'
  BY DEF ReviewMatchesContext, Reviewable, OpenReview
<1> QED BY <1>1, <1>2, <1>3 DEF ReviewInv

\* The user's decision answers the command and closes the review.
LEMMA Decided ==
  ASSUME ReviewInv, UserActs, ctx' \in Contexts,
         pending' = FALSE, reply' \in Replies,
         screen' \in {"menu", "confirmed", "rejected"},
         signed' \in Signatures \cup {None}
  PROVE  ReviewInv'
<1>1. TypeOK'
  BY DEF ReviewInv, TypeOK, UserActs, history
<1>2. UnansweredIffReviewing'
  BY DEF UnansweredIffReviewing, Reviewing
<1>3. ReviewMatchesContext'
  BY DEF ReviewMatchesContext
<1> QED BY <1>1, <1>2, <1>3 DEF ReviewInv

LEMMA OtherKeepsReview ==
  ASSUME ReviewInv, GetInfo \/ RefuseCommand
  PROVE  ReviewInv'
<1>1. OtherCommand \in Commands
  BY CommandType DEF OtherCommand, Options
<1>2. /\ Receive(OtherCommand) /\ pending' = FALSE /\ reply' \in Replies
      /\ shown' = {} /\ UNCHANGED <<ctx, screen, choice, history>>
  <2>1. CASE GetInfo
    <3>1. [kind |-> "info"] \in Bodies /\ "OK" \in StatusWords
      BY DEF Bodies, StatusWords
    <3>2. Message("OK", [kind |-> "info"]) \in Replies
      BY <3>1, MessageType
    <3>3. Head(<<Message("OK", [kind |-> "info"])>>) = Message("OK", [kind |-> "info"])
      OBVIOUS
    <3> QED BY <2>1, <3>2, <3>3 DEF GetInfo, Deliver
  <2>2. CASE RefuseCommand
    <3>1. {"WRONG_LENGTH", "CLA_NOT_SUPPORTED", "WRONG_P1P2", "INS_NOT_SUPPORTED"}
            \subseteq StatusWords
      BY DEF StatusWords
    <3>2. PICK sw \in StatusWords : Send(sw)
      BY <2>2, <3>1 DEF RefuseCommand
    <3> QED BY <2>2, <3>2, SendDelivers DEF RefuseCommand
  <2> QED BY <2>1, <2>2
<1>3. /\ ctx \in Contexts /\ choice \in ReqTypes \cup {"none"}
      /\ session \in Sessions \cup {None}
      /\ taken \subseteq 1..P1Max /\ refused \subseteq 1..P1Max
  BY DEF ReviewInv, TypeOK
<1> QED BY <1>1, <1>2, <1>3, AnsweredAtOnce DEF history

LEMMA KeyCommandKeepsReview ==
  ASSUME ReviewInv, NEW type \in KeyTypes, NEW arg, NEW option, NEW confirm \in BOOLEAN,
         type = "publickey" => option \in BOOLEAN,
         type = "address" => option \in Networks,
         KeyCommand(type, arg, option, confirm)
  PROVE  ReviewInv'
<1> DEFINE c == Command(type, FALSE, arg, option, confirm)
           started == [NoContext EXCEPT !.reqType = type, !.path = StoredPath(arg),
                         !.network = IF type = "address" THEN option ELSE None]
           key == [path |-> arg, chain |-> IF type = "publickey" THEN option ELSE FALSE]
           derived == [started EXCEPT !.key = key]
<1>1. c \in Commands
  <2>1. option \in Options /\ type \in ReqTypes \cup {"other"}
    BY DEF Options, KeyTypes, ReqTypes
  <2> QED BY <2>1, CommandType
<1>2. started \in Contexts
  <2>1. (IF type = "address" THEN option ELSE None) \in Networks \cup {None}
    OBVIOUS
  <2> QED BY <2>1, StartedType DEF ReqTypes
<1>3. started.reqType = type /\ (type = "address" => started.network = option)
  BY NoContextType DEF Contexts
<1>4. Receive(c)
  BY DEF KeyCommand
<1>5. session' = None /\ taken' = {} /\ refused' = {} /\ shown' = {}
  BY DEF KeyCommand
<1>6. choice \in ReqTypes \cup {"none"}
  BY DEF ReviewInv, TypeOK
<1>7. ASSUME arg \in Paths
      PROVE  /\ derived \in Contexts /\ derived.key = key /\ key # None
             /\ derived.reqType = type /\ derived.network = started.network
             /\ StoredPath(arg) = arg
  <2>1. key \in Keys
    BY <1>7 DEF StoredPaths, KeyTypes, Keys
  <2>2. derived \in Contexts
    BY <2>1, <1>2, KeyedType
  <2>3. derived.key = key /\ derived.reqType = type /\ derived.network = started.network
    BY <1>2, <1>3 DEF Contexts
  <2> QED BY <2>1, <2>2, <2>3, <1>7, NoneAssumption DEF StoredPath
<1> HIDE DEF c, started, derived
<1>8. CASE /\ ctx' = started
           /\ \E sw \in StatusWords : Send(sw)
           /\ UNCHANGED <<screen, choice>>
  BY <1>1, <1>2, <1>4, <1>5, <1>6, <1>8, SendDelivers, AnsweredAtOnce
<1>9. CASE arg \in Paths /\ OpenReview(derived)
  <2>1. /\ c.ins = type /\ c.path = StoredPath(arg) /\ c.option = option
    BY DEF c, Command
  <2>2. cmd' = c
    BY <1>4 DEF Receive
  <2>3. key # None
    BY <1>7, <1>9
  <2>4. key.path = arg /\ (type = "publickey" => key.chain = option)
    OBVIOUS
  <2>5. Reviewable(derived)
    BY <1>3, <1>7, <1>9, <2>1, <2>2, <2>3, <2>4 DEF Reviewable, ReqTypes, KeyTypes, SignTypes
  <2> QED BY <1>1, <1>4, <1>5, <1>9, <2>5, ReviewOpened
<1>10. CASE /\ arg \in Paths
            /\ ctx' = derived
            /\ choice' \in {type, choice}
            /\ Send("DISPLAY_ADDRESS_FAIL")
            /\ UNCHANGED screen
  <2>1. "DISPLAY_ADDRESS_FAIL" \in StatusWords
    BY DEF StatusWords
  <2>2. choice' \in ReqTypes \cup {"none"}
    BY <1>6, <1>10 DEF ReqTypes
  <2> QED BY <1>1, <1>4, <1>5, <1>7, <1>10, <2>1, <2>2, SendDelivers, AnsweredAtOnce
<1>11. CASE arg \in Paths /\ SendKey(type, derived) /\ UNCHANGED <<screen, choice>>
  <2>1. derived.key # None
    BY <1>7, <1>11
  <2>2. ctx' \in Contexts /\ pending' = FALSE /\ reply' \in Replies
    BY <1>7, <1>11, <2>1, SendKeyDelivers, NoContextType
  <2> QED BY <1>1, <1>4, <1>5, <1>6, <1>11, <2>2, AnsweredAtOnce
<1>12. {"DISPLAY_BIP32_PATH_FAIL", "WRONG_LENGTH", "CRYPTO_ERROR"} \subseteq StatusWords
  BY DEF StatusWords
<1> QED BY <1>8, <1>9, <1>10, <1>11, <1>12 DEF KeyCommand, started, derived

LEMMA SignStartKeepsReview ==
  ASSUME ReviewInv, NEW type \in SignTypes, NEW arg, SignStart(type, arg)
  PROVE  ReviewInv'
<1> DEFINE c == Command(type, FALSE, arg, None, TRUE)
<1>1. c \in Commands
  BY CommandType DEF Options, ReqTypes
<1>2. {"OK", "WRONG_LENGTH"} \subseteq StatusWords
  BY DEF StatusWords
<1>3. PICK sw \in StatusWords : Send(sw)
  BY <1>2 DEF SignStart
<1>4. session' \in Sessions
  BY StoredPathType DEF SignStart, Sessions
<1>5. choice \in ReqTypes \cup {"none"}
  BY DEF ReviewInv, TypeOK
<1>6. /\ Receive(c) /\ UNCHANGED <<screen, choice>>
      /\ taken' = {} /\ refused' = {} /\ shown' = {}
      /\ ctx' = StartedContext(type, arg)
  BY DEF SignStart
<1> HIDE DEF c
<1> QED BY <1>1, <1>3, <1>4, <1>5, <1>6, SendDelivers, StartedContextType, AnsweredAtOnce

\* A chunk that opens no review.
LEMMA ChunkAnswered ==
  ASSUME ReviewInv, NEW type \in SignTypes, NEW no \in 1..P1Max, ReceiveChunk(type),
         ctx' \in Contexts, NEW sw \in StatusWords, Send(sw), UNCHANGED <<screen, choice>>,
         taken' \in {taken, taken \cup {no}}, refused' \in {refused, refused \cup {no}},
         shown' = {}
  PROVE  ReviewInv'
<1> DEFINE c == Command(type, TRUE, "empty", None, TRUE)
<1>1. c \in Commands
  BY CommandType DEF Options, ReqTypes
<1>2. Receive(c) /\ UNCHANGED session
  BY DEF ReceiveChunk
<1>3. /\ choice \in ReqTypes \cup {"none"} /\ session \in Sessions \cup {None}
      /\ taken \subseteq 1..P1Max /\ refused \subseteq 1..P1Max
  BY DEF ReviewInv, TypeOK
<1> HIDE DEF c
<1>4. taken' \subseteq 1..P1Max /\ refused' \subseteq 1..P1Max
  BY <1>3
<1> QED BY <1>1, <1>2, <1>3, <1>4, SendDelivers, AnsweredAtOnce

LEMMA SignChunkKeepsReview ==
  ASSUME ReviewInv, SignChunk
  PROVE  ReviewInv'
<1>1. PICK type \in SignTypes, no \in 1..P1Max :
        \/ RefuseChunk(type, no)
        \/ \E c \in Chunks : \/ ChunkTooLong(type, no, c)
                             \/ StoreChunk(type, no, c)
                             \/ LastChunk(type, no, c)
  BY DEF SignChunk
<1>2. ctx \in Contexts
  BY DEF ReviewInv, TypeOK
<1>3. {"OK", "BAD_STATE", "REQ_ORDER_FAIL", "WRONG_TX_LENGTH", "TX_HASH_FAIL",
       "TX_PARSING_FAIL", "VALIDATION_HASH_MISMATCH"} \subseteq StatusWords
  BY DEF StatusWords
<1>4. CASE RefuseChunk(type, no)
  <2>1. PICK sw \in StatusWords : Send(sw)
    BY <1>3, <1>4 DEF RefuseChunk
  <2> QED BY <1>2, <1>4, <2>1, ChunkAnswered DEF RefuseChunk
<1>5. ASSUME NEW c \in Chunks, ChunkTooLong(type, no, c)
      PROVE  ReviewInv'
  <2>1. ctx' \in Contexts
    BY <1>2, <1>5, CountedType DEF ChunkTooLong
  <2> QED BY <1>3, <1>5, <2>1, ChunkAnswered DEF ChunkTooLong
<1>6. ASSUME NEW c \in Chunks, StoreChunk(type, no, c)
      PROVE  ReviewInv'
  <2>1. ctx' \in Contexts
    BY <1>2, <1>6, StoredType DEF StoreChunk, TakeChunk
  <2> QED BY <1>3, <1>6, <2>1, ChunkAnswered DEF StoreChunk, TakeChunk
<1>7. ASSUME NEW c \in Chunks, LastChunk(type, no, c)
      PROVE  ReviewInv'
  <2> DEFINE full == Stored(c)
             hashed == [full EXCEPT !.mHash = full.raw]
             parsed == [hashed EXCEPT !.tx = full.raw, !.state = "parsed"]
  <2>1. ReceiveChunk(type) /\ InSession(type) /\ InOrder(no)
        /\ taken' = taken \cup {no} /\ refused' = refused
    BY <1>7 DEF LastChunk, TakeChunk
  <2>2. full \in Contexts /\ full.reqType = type
    BY <1>2, <2>1, StoredType DEF InSession
  <2> HIDE DEF full
  <2>3. /\ [hashed EXCEPT !.tx = None] \in Contexts /\ parsed \in Contexts
        /\ parsed.mHash = full.raw /\ parsed.raw = full.raw /\ parsed.tx = full.raw
        /\ parsed.state = "parsed" /\ parsed.reqType = type
    BY <2>2, HashedType
  <2>4. \/ /\ \E d \in Contexts : ctx' = d
           /\ \E sw \in StatusWords : Send(sw)
           /\ shown' = {} /\ UNCHANGED <<screen, choice>>
        \/ Parses(type, full.raw) /\ OpenReview(parsed) /\ shown' = {parsed.raw}
    <3>1. ctx' = full => ctx' \in Contexts
      BY <2>2
    <3>2. ctx' = [hashed EXCEPT !.tx = None] => ctx' \in Contexts
      BY <2>3
    <3>3. ctx' = parsed => ctx' \in Contexts
      BY <2>3
    <3> HIDE DEF hashed, parsed
    <3> QED BY <1>3, <1>7, <3>1, <3>2, <3>3 DEF LastChunk, Displayed, full, hashed, parsed
  <2>5. CASE /\ \E d \in Contexts : ctx' = d
             /\ \E sw \in StatusWords : Send(sw)
             /\ shown' = {} /\ UNCHANGED <<screen, choice>>
    <3>1. PICK sw \in StatusWords : Send(sw)
      BY <2>5
    <3> QED BY <2>1, <2>5, <3>1, ChunkAnswered
  <2>6. CASE Parses(type, full.raw) /\ OpenReview(parsed) /\ shown' = {parsed.raw}
    <3> DEFINE command == Command(type, TRUE, "empty", None, TRUE)
    <3>1. command \in Commands
      BY CommandType DEF Options, ReqTypes
    <3>2. Receive(command) /\ UNCHANGED session
      BY <2>1 DEF ReceiveChunk
    <3>3. cmd'.ins = type
      BY <3>2 DEF Receive, Command
    <3> HIDE DEF parsed, command
    <3>4. Reviewable(parsed)
      BY <2>3, <2>6, <3>3 DEF Reviewable, ReqTypes, SignTypes, KeyTypes
    <3>5. /\ session' \in Sessions \cup {None}
          /\ taken' \subseteq 1..P1Max /\ refused' \subseteq 1..P1Max
      BY <2>1, <3>2 DEF ReviewInv, TypeOK
    <3>6. shown' \subseteq Payload
      BY <2>3, <2>6 DEF Contexts
    <3> QED BY <2>6, <3>1, <3>2, <3>4, <3>5, <3>6, ReviewOpened
  <2> QED BY <2>4, <2>5, <2>6
<1> QED BY <1>1, <1>4, <1>5, <1>6, <1>7

LEMMA HostKeepsReview ==
  ASSUME ReviewInv, Host
  PROVE  ReviewInv'
<1>1. CASE GetPublicKey
  <2>1. PICK arg \in Paths \cup RefusedPaths, chain \in BOOLEAN, confirm \in BOOLEAN :
          KeyCommand("publickey", arg, chain, confirm)
    BY <1>1 DEF GetPublicKey
  <2> QED BY <2>1, KeyCommandKeepsReview DEF KeyTypes
<1>2. CASE GetAddress
  <2>1. PICK arg \in Paths \cup RefusedPaths, network \in Networks, confirm \in BOOLEAN :
          KeyCommand("address", arg, network, confirm)
    BY <1>2 DEF GetAddress
  <2> QED BY <2>1, KeyCommandKeepsReview DEF KeyTypes
<1>3. CASE \E type \in SignTypes, arg \in Paths \cup RefusedPaths : SignStart(type, arg)
  BY <1>3, SignStartKeepsReview
<1> QED BY <1>1, <1>2, <1>3, OtherKeepsReview, SignChunkKeepsReview DEF Host

LEMMA DenyKeepsReview ==
  ASSUME ReviewInv, NEW next \in {"menu", "rejected"}, Deny(next)
  PROVE  ReviewInv'
<1>1. "DENY" \in StatusWords
  BY DEF StatusWords
<1>2. ctx' \in Contexts /\ signed' \in Signatures \cup {None}
  BY DEF ReviewInv, TypeOK, Deny
<1> QED BY <1>1, <1>2, SendDelivers, Decided DEF Deny

LEMMA ApproveKeepsReview ==
  ASSUME ReviewInv, Approve
  PROVE  ReviewInv'
<1>1. /\ ctx \in Contexts /\ signed \in Signatures \cup {None}
      /\ pending /\ choice = ctx.reqType
  BY DEF ReviewInv, TypeOK, UnansweredIffReviewing, ReviewMatchesContext, Approve, Reviewing
<1>2. screen' \in {"menu", "confirmed", "rejected"} /\ UserActs
  BY DEF Approve, Afterwards
<1>3. CASE choice \in SignTypes /\ ApproveSignature
  <2>1. ctx.mHash \in Payload
    BY <1>1, <1>3 DEF ReviewInv, TypeOK, ReviewMatchesContext
  <2>2. SignatureBody(ctx) \in Signatures /\ Message("OK", SignatureBody(ctx)) \in Replies
    BY <1>1, <1>3, <2>1, SignatureBodyType
  <2>3. /\ Message("VALIDATION_HASH_MISMATCH", NoBody) \in Replies
        /\ Message("SIGNATURE_FAIL", NoBody) \in Replies
    BY StatusType DEF StatusWords
  <2>4. reply' \in Replies /\ signed' \in Signatures \cup {None}
    BY <1>1, <1>3, <2>2, <2>3, ApproveSignatureDelivers
  <2> QED BY <1>2, <1>3, <2>4, ApproveSignatureDelivers, NoContextType, Decided
<1>4. CASE choice \in KeyTypes /\ SendKey(choice, ctx) /\ UNCHANGED signed
  <2>1. ctx.key # None
    BY <1>1, <1>4 DEF ReviewInv, ReviewMatchesContext
  <2> QED BY <1>1, <1>2, <1>4, <2>1, SendKeyDelivers, NoContextType, Decided
<1> QED BY <1>3, <1>4 DEF Approve

\* Turning a page inside the review, or leaving a status screen.
LEMMA TurnKeepsReview ==
  ASSUME ReviewInv, NEW from, NEW to, Turn(from, to),
         to \in Reviewing \cup {"menu"}, from \in Reviewing <=> to \in Reviewing
  PROVE  ReviewInv'
<1>1. /\ screen = from /\ screen' = to
      /\ UNCHANGED <<running, ctx, pending, choice, faults, cmd, reply,
                     session, taken, refused, shown, signed>>
  BY DEF Turn, UserActs, history
<1>2. TypeOK'
  BY <1>1 DEF ReviewInv, TypeOK
<1>3. UnansweredIffReviewing'
  BY <1>1 DEF ReviewInv, UnansweredIffReviewing
<1>4. ReviewMatchesContext'
  BY <1>1 DEF ReviewInv, ReviewMatchesContext
<1> QED BY <1>2, <1>3, <1>4 DEF ReviewInv

LEMMA UserKeepsReview ==
  ASSUME ReviewInv, User
  PROVE  ReviewInv'
<1>1. CASE \E next \in {"menu", "rejected"} : Deny(next)
  BY <1>1, DenyKeepsReview
<1>2. CASE Continue \/ AskReject \/ ResumeReview \/ LeaveStatus
  BY <1>2, TurnKeepsReview DEF Continue, AskReject, ResumeReview, LeaveStatus, Reviewing
<1> QED BY <1>1, <1>2, ApproveKeepsReview
        DEF User, Decide, Reject, RejectSilently, ConfirmReject, ReviewError, Afterwards

LEMMA CorruptKeepsReview ==
  ASSUME ReviewInv, Corrupt
  PROVE  ReviewInv'
<1>1. PICK i \in DOMAIN ctx.raw, c \in Chunks :
        /\ faults < MaxFaults /\ faults' = faults + 1
        /\ ctx' = [ctx EXCEPT !.raw[i] = c]
        /\ shown' = IF pending THEN shown \cup {ctx'.raw} ELSE shown
        /\ UNCHANGED <<running, pending, screen, choice, cmd, reply, session, taken,
                       refused, signed>>
  BY DEF Corrupt, Displayed, history
<1>2. ctx \in Contexts /\ faults \in 0..MaxFaults
  BY DEF ReviewInv, TypeOK
<1> DEFINE raw == [ctx.raw EXCEPT ![i] = c]
<1>3. raw \in Payload
  BY <1>2 DEF Contexts, Payload
<1>4. ctx' = [ctx EXCEPT !.raw = raw]
  BY <1>1, <1>2
<1> HIDE DEF raw
<1>5. /\ ctx' \in Contexts /\ ctx'.raw = raw
      /\ ctx'.reqType = ctx.reqType /\ ctx'.state = ctx.state /\ ctx'.key = ctx.key
      /\ ctx'.network = ctx.network /\ ctx'.tx = ctx.tx /\ ctx'.mHash = ctx.mHash
  BY <1>2, <1>3, <1>4 DEF Contexts
<1>6. faults' \in 0..MaxFaults /\ faults' # 0
  BY <1>1, <1>2, SessionAssumption
<1>7. shown \subseteq shown'
  BY <1>1
<1>8. TypeOK'
  <2>1. shown' \subseteq Payload
    BY <1>1, <1>3, <1>5 DEF ReviewInv, TypeOK
  <2> QED BY <1>1, <1>5, <1>6, <2>1 DEF ReviewInv, TypeOK
<1>9. UnansweredIffReviewing'
  BY <1>1 DEF ReviewInv, UnansweredIffReviewing
<1>10. ReviewMatchesContext'
  BY <1>1, <1>5, <1>6, <1>7 DEF ReviewInv, ReviewMatchesContext
<1> QED BY <1>8, <1>9, <1>10 DEF ReviewInv

LEMMA StopKeepsReview ==
  ASSUME ReviewInv, Stop
  PROVE  ReviewInv'
<1>1. OtherCommand \in Commands
  BY CommandType DEF OtherCommand, Options
<1>2. TypeOK'
  BY <1>1, NoContextType DEF ReviewInv, TypeOK, Stop
<1>3. UnansweredIffReviewing' /\ ReviewMatchesContext'
  BY DEF UnansweredIffReviewing, ReviewMatchesContext, Stop, Reviewing
<1> QED BY <1>2, <1>3 DEF ReviewInv

LEMMA IdleKeepsReview ==
  ASSUME ReviewInv, running' \in BOOLEAN,
         UNCHANGED <<ctx, pending, screen, choice, faults, cmd, reply, history, shown, signed>>
  PROVE  ReviewInv'
<1>1. TypeOK'
  BY DEF ReviewInv, TypeOK, history
<1>2. UnansweredIffReviewing'
  BY DEF ReviewInv, UnansweredIffReviewing
<1>3. ReviewMatchesContext'
  BY DEF ReviewInv, ReviewMatchesContext
<1> QED BY <1>1, <1>2, <1>3 DEF ReviewInv

LEMMA NextKeepsReview == ReviewInv /\ [Next]_vars => ReviewInv'
<1> SUFFICES ASSUME ReviewInv, [Next]_vars PROVE ReviewInv'
  OBVIOUS
<1>1. CASE Launch
  BY <1>1, IdleKeepsReview DEF Launch
<1>2. CASE UNCHANGED vars
  <2>1. running' \in BOOLEAN
    BY <1>2 DEF vars, ReviewInv, TypeOK
  <2> QED BY <1>2, <2>1, IdleKeepsReview DEF vars
<1> QED BY <1>1, <1>2, HostKeepsReview, UserKeepsReview, StopKeepsReview, CorruptKeepsReview
        DEF Next, Device

\* The types of all variables, that a command is unanswered exactly while its
\* review is open, and that the open review is about what the context would
\* release: in every state the app can reach.
THEOREM ReviewInvariant == Spec => []ReviewInv
<1> QED BY InitReview, NextKeepsReview, PTL DEF Spec

\* Every variable keeps its type.
THEOREM TypeInvariant == Spec => []TypeOK
<1>1. ReviewInv => TypeOK
  BY DEF ReviewInv
<1> QED BY <1>1, ReviewInvariant, PTL

\* handler/*.c, ui/action/*.c: a command is unanswered exactly while its review is
\* on the display.
THEOREM NoDeadReview == Spec => []UnansweredIffReviewing
<1>1. ReviewInv => UnansweredIffReviewing
  BY DEF ReviewInv
<1> QED BY <1>1, ReviewInvariant, PTL

\* choice.c, sign_tx.c: the open review is about what the context would release.
THEOREM ReviewIsFaithful == Spec => []ReviewMatchesContext
<1>1. ReviewInv => ReviewMatchesContext
  BY DEF ReviewInv
<1> QED BY <1>1, ReviewInvariant, PTL

-----------------------------------------------------------------------------
(* The context invariant: how every step leaves G_context and its history. *)

\* A signing context belongs to the session its start command opened.
SessionOfContext ==
  ctx.reqType \in SignTypes =>
    session # None /\ session.type = ctx.reqType /\ session.path = ctx.path

ContextInv == EveryChunkOnce /\ PayloadFits /\ UnionNotMixed /\ SessionOfContext

\* The ways a step can leave the context.
ContextKept == UNCHANGED <<ctx, session, taken, refused>>
ContextOfKey ==
  /\ ctx'.reqType \in KeyTypes /\ ctx'.rawLen = 0
  /\ ctx'.raw = <<>> /\ ctx'.mHash = None
ContextOfSession(type, arg) ==
  /\ ctx' = StartedContext(type, arg)
  /\ session' = [type |-> type, path |-> StoredPath(arg)]
  /\ taken' = {} /\ refused' = {}
ContextOfChunk(no) ==
  /\ ctx.reqType \in SignTypes /\ InOrder(no)
  /\ ctx'.reqType = ctx.reqType /\ ctx'.path = ctx.path /\ ctx'.key = ctx.key
  /\ ctx'.reqNum = no
  /\ ctx'.rawLen = ctx.rawLen \/ ctx'.rawLen <= TxLenMax
  /\ \/ ctx'.raw = ctx.raw /\ ctx'.rawLen = ctx.rawLen
     \/ \E c \in Chunks :
          ctx'.raw = AppendBytes(ctx.raw, c) /\ ctx'.rawLen = ctx.rawLen + Size[c]
  /\ UNCHANGED session
  /\ \/ taken' = taken \cup {no} /\ refused' = refused
     \/ taken' = taken /\ refused' = refused \cup {no}
ContextAltered ==
  /\ ctx.raw # <<>>
  /\ \E i \in DOMAIN ctx.raw, c \in Chunks :
       Size[c] = Size[ctx.raw[i]] /\ ctx'.raw = [ctx.raw EXCEPT ![i] = c]
  /\ ctx'.reqType = ctx.reqType /\ ctx'.path = ctx.path /\ ctx'.key = ctx.key
  /\ ctx'.reqNum = ctx.reqNum /\ ctx'.rawLen = ctx.rawLen
  /\ UNCHANGED <<session, taken, refused>>

LEMMA KeyCommandContext ==
  ASSUME NEW type \in KeyTypes, NEW arg, NEW option, NEW confirm,
         KeyCommand(type, arg, option, confirm)
  PROVE  ctx' = NoContext \/ ContextOfKey
<1> DEFINE started == [NoContext EXCEPT !.reqType = type, !.path = StoredPath(arg),
                         !.network = IF type = "address" THEN option ELSE None]
           derived == [started EXCEPT !.key =
                         [path |-> arg, chain |-> IF type = "publickey" THEN option ELSE FALSE]]
<1>1. ctx' \in {started, derived, NoContext}
  BY DEF KeyCommand, OpenReview, SendKey
<1>2. /\ started.reqType = type /\ started.rawLen = 0
      /\ started.raw = <<>> /\ started.mHash = None
  BY DEF NoContext
<1>3. /\ derived.reqType = type /\ derived.rawLen = 0
      /\ derived.raw = <<>> /\ derived.mHash = None
  BY DEF NoContext
<1> HIDE DEF started, derived
<1> QED BY <1>1, <1>2, <1>3 DEF ContextOfKey

LEMMA SignChunkContext ==
  ASSUME ctx \in Contexts, SignChunk
  PROVE  ContextKept \/ \E no \in 1..P1Max : ContextOfChunk(no)
<1>1. PICK type \in SignTypes, no \in 1..P1Max :
        \/ RefuseChunk(type, no)
        \/ \E c \in Chunks : \/ ChunkTooLong(type, no, c)
                             \/ StoreChunk(type, no, c)
                             \/ LastChunk(type, no, c)
  BY DEF SignChunk
<1>2. CASE RefuseChunk(type, no)
  BY <1>2 DEF RefuseChunk, ReceiveChunk, ContextKept
<1>3. ASSUME NEW c \in Chunks, ChunkTooLong(type, no, c)
      PROVE  ContextOfChunk(no)
  BY <1>3, CountedType DEF ChunkTooLong, ReceiveChunk, InSession, ContextOfChunk
<1>4. ASSUME NEW c \in Chunks, TakeChunk(type, no, c),
             NEW d, ctx' = d, d.reqType = Stored(c).reqType, d.path = Stored(c).path,
             d.key = Stored(c).key, d.reqNum = Stored(c).reqNum,
             d.rawLen = Stored(c).rawLen, d.raw = Stored(c).raw
      PROVE  ContextOfChunk(no)
  BY <1>4, StoredType DEF TakeChunk, ReceiveChunk, InSession, Fits, ContextOfChunk
<1>5. ASSUME NEW c \in Chunks, LastChunk(type, no, c)
      PROVE  ContextOfChunk(no)
  <2> DEFINE full == Stored(c)
             hashed == [full EXCEPT !.mHash = full.raw]
             parsed == [hashed EXCEPT !.tx = full.raw, !.state = "parsed"]
             unparsed == [hashed EXCEPT !.tx = None]
  <2>1. full \in Contexts
    BY <1>5, StoredType DEF LastChunk, TakeChunk
  <2>2. TakeChunk(type, no, c)
    BY <1>5 DEF LastChunk
  <2> HIDE DEF full
  <2>3. \A d \in {full, unparsed, parsed} :
          /\ d.reqType = full.reqType /\ d.path = full.path /\ d.key = full.key
          /\ d.reqNum = full.reqNum /\ d.rawLen = full.rawLen /\ d.raw = full.raw
    BY <2>1 DEF Contexts
  <2>4. ctx' \in {full, unparsed, parsed}
    BY <1>5 DEF LastChunk, OpenReview, full
  <2> HIDE DEF hashed, parsed, unparsed
  <2> QED BY <1>4, <2>2, <2>3, <2>4 DEF full
<1> QED BY <1>1, <1>2, <1>3, <1>4, <1>5 DEF StoreChunk

LEMMA CorruptContext ==
  ASSUME ctx \in Contexts, Corrupt
  PROVE  ContextAltered
<1>1. PICK i \in DOMAIN ctx.raw, c \in Chunks :
        Size[c] = Size[ctx.raw[i]] /\ ctx' = [ctx EXCEPT !.raw[i] = c]
  BY DEF Corrupt
<1>2. ctx.raw # <<>>
  BY <1>1
<1>4. ctx'.raw = [ctx.raw EXCEPT ![i] = c]
  BY <1>1 DEF Contexts
<1>3. /\ ctx'.reqType = ctx.reqType /\ ctx'.path = ctx.path /\ ctx'.key = ctx.key
      /\ ctx'.reqNum = ctx.reqNum /\ ctx'.rawLen = ctx.rawLen
  BY <1>1 DEF Contexts
<1> QED BY <1>1, <1>2, <1>3, <1>4 DEF Corrupt, ContextAltered, history

LEMMA ContextSteps ==
  ASSUME ReviewInv, [Next]_vars
  PROVE  \/ ContextKept
         \/ ctx' = NoContext
         \/ ContextOfKey
         \/ \E type \in SignTypes, arg \in Paths \cup RefusedPaths : ContextOfSession(type, arg)
         \/ \E no \in 1..P1Max : ContextOfChunk(no)
         \/ ContextAltered
<1>1. ctx \in Contexts
  BY DEF ReviewInv, TypeOK
<1>2. CASE Host
  <2>1. CASE GetInfo \/ RefuseCommand
    BY <2>1 DEF GetInfo, RefuseCommand, ContextKept, history
  <2>2. CASE GetPublicKey \/ GetAddress
    <3>1. PICK type, arg, option, confirm :
              type \in KeyTypes /\ KeyCommand(type, arg, option, confirm)
      BY <2>2 DEF GetPublicKey, GetAddress, KeyTypes
    <3> QED BY <3>1, KeyCommandContext
  <2>3. CASE \E type \in SignTypes, arg \in Paths \cup RefusedPaths : SignStart(type, arg)
    BY <2>3 DEF SignStart, ContextOfSession
  <2> QED BY <1>1, <1>2, <2>1, <2>2, <2>3, SignChunkContext DEF Host
<1>3. CASE User
  <2>1. CASE \E next : Deny(next)
    BY <2>1 DEF Deny, UserActs, ContextKept, history
  <2>2. CASE Approve
    BY <2>2, ApproveSignatureDelivers DEF Approve, SendKey
  <2>3. CASE \E from, to : Turn(from, to)
    BY <2>3 DEF Turn, UserActs, ContextKept, history
  <2> QED BY <1>3, <2>1, <2>2, <2>3
          DEF User, Decide, Reject, RejectSilently, ConfirmReject, ReviewError,
              Continue, AskReject, ResumeReview, LeaveStatus
<1>4. CASE Stop
  BY <1>4 DEF Stop
<1>5. CASE Launch \/ UNCHANGED vars
  BY <1>5 DEF Launch, vars, ContextKept, history
<1> QED BY <1>1, <1>2, <1>3, <1>4, <1>5, CorruptContext DEF Next, Device

LEMMA NextKeepsContext == ReviewInv /\ ContextInv /\ [Next]_vars => ContextInv'
<1> SUFFICES ASSUME ReviewInv, ContextInv, [Next]_vars PROVE ContextInv'
  OBVIOUS
<1>1. CASE ContextKept
  BY <1>1 DEF ContextKept, ContextInv, EveryChunkOnce, PayloadFits, UnionNotMixed, SessionOfContext
<1>2. CASE ctx' = NoContext
  BY <1>2, SessionAssumption DEF NoContext, ContextInv, EveryChunkOnce, PayloadFits, UnionNotMixed,
        SessionOfContext, SignTypes
<1>3. CASE ContextOfKey
  BY <1>3, SessionAssumption DEF ContextOfKey, ContextInv, EveryChunkOnce, PayloadFits,
        UnionNotMixed, SessionOfContext, SignTypes, KeyTypes
<1>4. ASSUME NEW type \in SignTypes, NEW arg, ContextOfSession(type, arg)
      PROVE  ContextInv'
  <2>1. /\ ctx'.reqType = type /\ ctx'.path = StoredPath(arg) /\ ctx'.reqNum = 0
        /\ ctx'.rawLen = 0 /\ ctx'.key = None
    BY <1>4 DEF ContextOfSession, StartedContext, NoContext
  <2>2. session' \in Sessions /\ session'.type = type /\ session'.path = StoredPath(arg)
    BY <1>4, StoredPathType DEF ContextOfSession, Sessions
  <2>3. SessionOfContext'
    BY <2>1, <2>2, NoneAssumption DEF SessionOfContext
  <2>4. EveryChunkOnce'
    BY <1>4, <2>1 DEF EveryChunkOnce, ContextOfSession
  <2> QED BY <2>1, <2>3, <2>4, SessionAssumption DEF ContextInv, PayloadFits, UnionNotMixed
<1>5. ASSUME NEW no \in 1..P1Max, ContextOfChunk(no)
      PROVE  ContextInv'
  <2>1. ctx.reqNum \in 0..P1Max /\ ctx'.reqNum = ctx.reqNum + 1 /\ no = ctx.reqNum + 1
    BY <1>5 DEF ReviewInv, TypeOK, Contexts, ContextOfChunk, InOrder
  <2>2. taken \cup refused = 1..ctx.reqNum /\ taken \cap refused = {}
    BY <1>5 DEF ContextInv, EveryChunkOnce, ContextOfChunk
  <2>3. 1..ctx'.reqNum = (1..ctx.reqNum) \cup {no} /\ no \notin 1..ctx.reqNum
    BY <2>1, SessionAssumption
  <2>4. EveryChunkOnce'
    BY <1>5, <2>2, <2>3 DEF EveryChunkOnce, ContextOfChunk
  <2> QED BY <1>5, <2>4 DEF ContextOfChunk, ContextInv, PayloadFits, UnionNotMixed, SessionOfContext
<1>6. CASE ContextAltered
  BY <1>6 DEF ContextAltered, ContextInv, EveryChunkOnce, PayloadFits, UnionNotMixed, SessionOfContext
<1> QED BY <1>1, <1>2, <1>3, <1>4, <1>5, <1>6, ContextSteps

\* Whatever the host sends and whichever errors it meets, chunk numbers are
\* counted without gap or repetition, the payload stays inside its buffer, a
\* key never shares its memory with a payload, and a signing context has the
\* path its own start command named.
THEOREM ContextInvariant == Spec => []ContextInv
<1>1. Init => ContextInv
  BY SessionAssumption
     DEF Init, NoContext, ContextInv, EveryChunkOnce, PayloadFits, UnionNotMixed,
         SessionOfContext, SignTypes
<1> QED BY <1>1, NextKeepsContext, ReviewInvariant, PTL DEF Spec

\* handler_sign_tx: the numbers of the chunks have no gap and no repetition.
THEOREM ChunksInOrder == Spec => []EveryChunkOnce
<1>1. ContextInv => EveryChunkOnce
  BY DEF ContextInv
<1> QED BY <1>1, ContextInvariant, PTL

\* handle_chunks: the payload stays inside raw_tx.
THEOREM PayloadStaysInBuffer == Spec => []PayloadFits
<1>1. ContextInv => PayloadFits
  BY DEF ContextInv
<1> QED BY <1>1, ContextInvariant, PTL

\* global_ctx_t: a key and a payload are never in their shared memory together.
THEOREM UnionIsNeverMixed == Spec => []UnionNotMixed
<1>1. ContextInv => UnionNotMixed
  BY DEF ContextInv
<1> QED BY <1>1, ContextInvariant, PTL

\* The sizes of the chunks in a buffer.
Sizes(raw) == [k \in 1..Len(raw) |-> Size[raw[k]]]

LEMMA SizesType ==
  ASSUME NEW raw \in Payload
  PROVE  Len(raw) \in Nat /\ \A k \in 1..Len(raw) : Sizes(raw)[k] = Size[raw[k]] /\ Size[raw[k]] \in Nat
BY SessionAssumption DEF Sizes, Payload

LEMMA SumOfSizes ==
  ASSUME NEW raw \in Payload
  PROVE  SumOf(Sizes(raw)) = SumTo(Sizes(raw), Len(raw))
<1>1. Len(Sizes(raw)) = Len(raw)
  BY SizesType DEF Sizes
<1> QED BY <1>1 DEF SumOf

\* One chunk more.
LEMMA SumAppended ==
  ASSUME NEW raw \in Payload, NEW c \in Chunks
  PROVE  SumOf(Sizes(AppendBytes(raw, c))) = SumOf(Sizes(raw)) + Size[c]
<1>1. Size[c] \in Nat
  BY SessionAssumption
<1>2. SumOf(Sizes(raw)) \in Nat
  <2>1. \A k \in 1..Len(raw) : Sizes(raw)[k] \in Nat
    BY SizesType
  <2> QED BY <2>1, SizesType, SumOfSizes, SumEquations
<1>3. CASE Size[c] = 0
  BY <1>2, <1>3 DEF AppendBytes
<1>4. CASE Size[c] # 0
  <2> DEFINE more == Append(raw, c)
             n == Len(raw) + 1
  <2>1. AppendBytes(raw, c) = more /\ more \in Payload
    BY <1>4 DEF AppendBytes, Payload
  <2>2. /\ Len(more) = n /\ n \in Nat /\ n # 0 /\ n - 1 = Len(raw) /\ more[n] = c
        /\ \A k \in 1..Len(raw) : more[k] = raw[k]
    BY AppendProperties DEF Payload
  <2> HIDE DEF more, n
  <2>3. \A k \in 1..n : Sizes(more)[k] = Size[more[k]] /\ Size[more[k]] \in Nat
    BY <2>1, <2>2, SizesType
  <2>4. SumTo(Sizes(more), n) = SumTo(Sizes(more), n - 1) + Sizes(more)[n]
    BY <2>2, <2>3, SumEquations
  <2>5. SumTo(Sizes(more), Len(raw)) = SumTo(Sizes(raw), Len(raw))
    <3>1. Len(raw) \in Nat /\ \A k \in 1..Len(raw) : Sizes(raw)[k] = Size[raw[k]] /\ Size[raw[k]] \in Nat
      BY SizesType
    <3>2. \A k \in 1..Len(raw) : k \in 1..n
      BY <2>2, <3>1
    <3>3. \A k \in 1..Len(raw) : Sizes(more)[k] \in Nat /\ Sizes(more)[k] = Sizes(raw)[k]
      BY <2>2, <2>3, <3>1, <3>2
    <3> QED BY <3>1, <3>3, SumOfSame
  <2>6. Sizes(more)[n] = Size[c]
    <3>1. n \in 1..n
      BY <2>2
    <3> QED BY <2>2, <2>3, <3>1
  <2> QED BY <2>1, <2>2, <2>4, <2>5, <2>6, SumOfSizes
<1> QED BY <1>3, <1>4

\* A chunk of the same size in the place of another.
LEMMA SumReplaced ==
  ASSUME NEW raw \in Payload, NEW i \in DOMAIN raw, NEW c \in Chunks, Size[c] = Size[raw[i]]
  PROVE  SumOf(Sizes([raw EXCEPT ![i] = c])) = SumOf(Sizes(raw))
<1> DEFINE other == [raw EXCEPT ![i] = c]
<1>1. /\ other \in Payload /\ Len(other) = Len(raw)
      /\ \A k \in 1..Len(raw) : other[k] = IF k = i THEN c ELSE raw[k]
  BY DEF Payload
<1>2. Sizes(other) = Sizes(raw)
  BY <1>1 DEF Sizes
<1> QED BY <1>2

\* handle_chunks and reset_app_context: raw_tx_len is the number of bytes stored.
THEOREM LengthIsRight == Spec => []LengthIsSum
<1>1. LengthIsSum <=> ctx.rawLen = SumOf(Sizes(ctx.raw))
  BY DEF LengthIsSum, Sizes
<1>2. SumOf(Sizes(<<>>)) = 0
  <2>1. <<>> \in Payload /\ Len(<<>>) = 0
    BY DEF Payload
  <2> QED BY <2>1, SumOfSizes, SizesType, SumEquations
<1>3. Init => LengthIsSum
  BY <1>1, <1>2 DEF Init, NoContext
<1>4. ASSUME ReviewInv, LengthIsSum, [Next]_vars
      PROVE  LengthIsSum'
  <2>1. ctx \in Contexts /\ ctx' \in Contexts
    BY <1>4, NextKeepsReview DEF ReviewInv, TypeOK
  <2>2. ctx.raw \in Payload /\ ctx.rawLen = SumOf(Sizes(ctx.raw))
    BY <1>1, <1>4, <2>1 DEF Contexts
  <2> SUFFICES ctx'.rawLen = SumOf(Sizes(ctx'.raw))
    BY DEF LengthIsSum, Sizes
  <2>3. CASE ctx' = ctx
    BY <2>2, <2>3
  <2>4. CASE ctx'.raw = <<>> /\ ctx'.rawLen = 0
    BY <1>2, <2>4
  <2>5. ASSUME NEW no \in 1..P1Max, ContextOfChunk(no)
        PROVE  ctx'.rawLen = SumOf(Sizes(ctx'.raw))
    <3>1. CASE ctx'.raw = ctx.raw /\ ctx'.rawLen = ctx.rawLen
      BY <2>2, <3>1
    <3>2. ASSUME NEW c \in Chunks, ctx'.raw = AppendBytes(ctx.raw, c),
                 ctx'.rawLen = ctx.rawLen + Size[c]
          PROVE  ctx'.rawLen = SumOf(Sizes(ctx'.raw))
      BY <2>2, <3>2, SumAppended
    <3> QED BY <2>5, <3>1, <3>2 DEF ContextOfChunk
  <2>6. CASE ContextAltered
    BY <2>2, <2>6, SumReplaced DEF ContextAltered
  <2>7. CASE ctx' = NoContext
    BY <2>4, <2>7 DEF NoContext
  <2>8. CASE ContextOfKey
    BY <2>4, <2>8 DEF ContextOfKey
  <2>9. ASSUME NEW type \in SignTypes, NEW arg, ContextOfSession(type, arg)
        PROVE  ctx'.raw = <<>> /\ ctx'.rawLen = 0
    BY <2>9 DEF ContextOfSession, StartedContext, NoContext
  <2>10. CASE ContextKept
    BY <2>3, <2>10 DEF ContextKept
  <2> QED BY <1>4, <2>4, <2>5, <2>6, <2>7, <2>8, <2>9, <2>10, ContextSteps
<1> QED BY <1>3, <1>4, ReviewInvariant, PTL DEF Spec

-----------------------------------------------------------------------------
(* The answer invariant: what reaches the host.                            *)

AnswerInv ==
  SignedWasShown /\ ReleasedWasVerified /\ AnswerMatchesCommand /\ ReleaseClearsContext

\* No answer yet, or one that releases nothing.
LEMMA NothingReleased ==
  ASSUME reply' # None => reply'.body.kind \notin ReqTypes
  PROVE  AnswerInv'
BY DEF AnswerInv, SignedWasShown, ReleasedWasVerified, AnswerMatchesCommand,
       ReleaseClearsContext, Released, ReqTypes

LEMMA StatusReleasesNothing ==
  ASSUME NEW sw \in StatusWords, Send(sw)
  PROVE  AnswerInv'
<1>1. reply' = Message(sw, NoBody)
  BY SendDelivers
<1>2. reply'.body.kind = "none"
  BY <1>1 DEF Message, NoBody
<1> QED BY <1>2, NothingReleased DEF ReqTypes, SignTypes, KeyTypes

LEMMA KeyReleased ==
  ASSUME NEW type \in KeyTypes, NEW path, NEW option, NEW sw,
         reply' = Message(sw, [kind |-> type, path |-> path, option |-> option]),
         cmd'.ins = type, cmd'.path = path, cmd'.option = option, ctx' = NoContext
  PROVE  AnswerInv'
<1>1. reply'.body.kind = type /\ reply'.body.path = path /\ reply'.body.option = option
  BY DEF Message
<1>2. type \notin SignTypes
  BY DEF SignTypes, KeyTypes
<1> QED
  BY <1>1, <1>2
  DEF AnswerInv, SignedWasShown, ReleasedWasVerified, AnswerMatchesCommand,
      ReleaseClearsContext, Released

LEMMA AnswerKept ==
  ASSUME AnswerInv, UNCHANGED <<ctx, cmd, reply, session, faults, shown>>
  PROVE  AnswerInv'
BY DEF AnswerInv, SignedWasShown, ReleasedWasVerified, AnswerMatchesCommand,
       ReleaseClearsContext, Released

LEMMA KeyCommandAnswer ==
  ASSUME NEW type \in KeyTypes, NEW arg, NEW option, NEW confirm,
         type = "publickey" => option \in BOOLEAN,
         type = "address" => option \in Networks,
         KeyCommand(type, arg, option, confirm)
  PROVE  AnswerInv'
<1> DEFINE started == [NoContext EXCEPT !.reqType = type, !.path = StoredPath(arg),
                         !.network = IF type = "address" THEN option ELSE None]
           key == [path |-> arg, chain |-> IF type = "publickey" THEN option ELSE FALSE]
           derived == [started EXCEPT !.key = key]
<1>1. CASE \E sw \in StatusWords : Send(sw)
  BY <1>1, StatusReleasesNothing
<1>2. CASE reply' = None
  BY <1>2, NothingReleased
<1>3. CASE arg \in Paths /\ SendKey(type, derived)
  <2>1. /\ cmd'.ins = type /\ cmd'.path = StoredPath(arg) /\ cmd'.option = option
    BY DEF KeyCommand, Receive, Command
  <2>2. StoredPath(arg) = arg
    BY <1>3 DEF StoredPath
  <2>3. (IF type = "address" THEN option ELSE None) \in Networks \cup {None}
    OBVIOUS
  <2>4. started \in Contexts
    BY <2>3, StartedType DEF KeyTypes, ReqTypes
  <2>5. key \in Keys
    BY <1>3 DEF StoredPaths, KeyTypes, Keys
  <2>6. derived.key = key /\ (type = "address" => derived.network = option)
    BY <2>4 DEF Contexts
  <2>7. derived \in Contexts
    BY <2>4, <2>5, KeyedType
  <2>8. key.path = arg /\ (type = "publickey" => key.chain = option)
    OBVIOUS
  <2> HIDE DEF derived, key
  <2>9. /\ KeyBody(derived) = [kind |-> "publickey", path |-> key.path, option |-> key.chain]
        /\ AddressBody(derived) =
             [kind |-> "address", path |-> key.path, option |-> derived.network]
    BY <2>6 DEF KeyBody, AddressBody
  <2>10. CASE reply' = Message("DISPLAY_ADDRESS_FAIL", NoBody)
    BY <2>10, NothingReleased DEF Message, NoBody, ReqTypes, SignTypes, KeyTypes
  <2>11. derived.key # None
    BY <2>5, <2>6, NoneAssumption
  <2>12. /\ ctx' = NoContext
         /\ \/ type = "publickey" /\ reply' = Message("OK", KeyBody(derived))
            \/ type = "address" /\ reply' = Message("OK", AddressBody(derived))
            \/ reply' = Message("DISPLAY_ADDRESS_FAIL", NoBody)
    BY <1>3, <2>7, <2>11, SendKeyDelivers
  <2> QED BY <2>1, <2>2, <2>6, <2>8, <2>9, <2>10, <2>12, KeyReleased
<1>4. {"DISPLAY_BIP32_PATH_FAIL", "WRONG_LENGTH", "CRYPTO_ERROR", "DISPLAY_ADDRESS_FAIL"}
        \subseteq StatusWords
  BY DEF StatusWords
<1> QED BY <1>1, <1>2, <1>3, <1>4 DEF KeyCommand, OpenReview

LEMMA HostAnswer ==
  ASSUME Host
  PROVE  AnswerInv'
<1>1. {"OK", "WRONG_LENGTH", "CLA_NOT_SUPPORTED", "WRONG_P1P2", "INS_NOT_SUPPORTED", "BAD_STATE",
       "REQ_ORDER_FAIL", "WRONG_TX_LENGTH", "TX_HASH_FAIL", "TX_PARSING_FAIL",
       "VALIDATION_HASH_MISMATCH"} \subseteq StatusWords
  BY DEF StatusWords
<1>2. CASE GetInfo
  <2>1. Head(<<Message("OK", [kind |-> "info"])>>) = Message("OK", [kind |-> "info"])
    OBVIOUS
  <2>2. reply' = Message("OK", [kind |-> "info"])
    BY <1>2, <2>1 DEF GetInfo, Deliver
  <2>3. reply'.body.kind = "info"
    BY <2>2 DEF Message
  <2> QED BY <2>3, NothingReleased DEF ReqTypes, SignTypes, KeyTypes
<1>3. CASE RefuseCommand \/ \E type \in SignTypes, arg \in Paths \cup RefusedPaths :
                              SignStart(type, arg)
  BY <1>1, <1>3, StatusReleasesNothing DEF RefuseCommand, SignStart
<1>4. CASE GetPublicKey
  <2>1. PICK arg \in Paths \cup RefusedPaths, chain \in BOOLEAN, confirm \in BOOLEAN :
          KeyCommand("publickey", arg, chain, confirm)
    BY <1>4 DEF GetPublicKey
  <2> QED BY <2>1, KeyCommandAnswer DEF KeyTypes
<1>5. CASE GetAddress
  <2>1. PICK arg \in Paths \cup RefusedPaths, network \in Networks, confirm \in BOOLEAN :
          KeyCommand("address", arg, network, confirm)
    BY <1>5 DEF GetAddress
  <2> QED BY <2>1, KeyCommandAnswer DEF KeyTypes
<1>6. CASE SignChunk
  <2>1. (\E sw \in StatusWords : Send(sw)) \/ reply' = None
    BY <1>1, <1>6, ZenonT(40)
    DEF SignChunk, RefuseChunk, ChunkTooLong, StoreChunk, LastChunk, OpenReview
  <2> QED BY <2>1, StatusReleasesNothing, NothingReleased
<1> QED BY <1>2, <1>3, <1>4, <1>5, <1>6 DEF Host

LEMMA ApproveAnswer ==
  ASSUME ReviewInv, ContextInv, Approve
  PROVE  AnswerInv'
<1>1. ctx \in Contexts /\ pending /\ choice = ctx.reqType /\ cmd.ins = ctx.reqType
  BY DEF ReviewInv, TypeOK, UnansweredIffReviewing, ReviewMatchesContext, Approve, Reviewing
<1>2. UNCHANGED <<faults, cmd, session, shown>>
  BY DEF Approve, UserActs, history
<1>3. CASE choice \in SignTypes /\ ApproveSignature
  <2>1. CASE \/ reply' = Message("VALIDATION_HASH_MISMATCH", NoBody)
             \/ reply' = Message("SIGNATURE_FAIL", NoBody)
    BY <2>1, NothingReleased DEF Message, NoBody, ReqTypes, SignTypes, KeyTypes
  <2>2. CASE reply' = Message("OK", SignatureBody(ctx)) /\ ctx.mHash = ctx.raw
    <3>1. /\ reply'.body.kind = ctx.reqType /\ reply'.body.path = ctx.path
          /\ reply'.body.hash = ctx.mHash /\ reply'.body.raw = ctx.raw
      BY <2>2 DEF Message, SignatureBody
    <3>2. /\ ctx.mHash \in shown
          /\ faults = 0 => shown = {ctx.raw}
      BY <1>1, <1>3 DEF ReviewInv, ReviewMatchesContext
    <3>3. session # None /\ session.type = ctx.reqType /\ session.path = ctx.path
      BY <1>1, <1>3 DEF ContextInv, SessionOfContext
    <3>4. ctx' = NoContext
      BY <1>3, ApproveSignatureDelivers
    <3>5. ctx.reqType \notin KeyTypes
      BY <1>1, <1>3 DEF SignTypes, KeyTypes
    <3>6. SignedWasShown' /\ ReleasedWasVerified'
      BY <1>2, <2>2, <3>1, <3>2 DEF SignedWasShown, ReleasedWasVerified, Released
    <3>7. AnswerMatchesCommand' /\ ReleaseClearsContext'
      BY <1>1, <1>2, <3>1, <3>3, <3>4, <3>5 DEF AnswerMatchesCommand, ReleaseClearsContext
    <3> QED BY <3>6, <3>7 DEF AnswerInv
  <2> QED BY <1>3, <2>1, <2>2, ApproveSignatureDelivers
<1>4. CASE choice \in KeyTypes /\ SendKey(choice, ctx)
  <2>1. /\ ctx.key # None /\ ctx.key.path = cmd.path
        /\ ctx.reqType = "publickey" => ctx.key.chain = cmd.option
        /\ ctx.reqType = "address" => ctx.network = cmd.option
    BY <1>1, <1>4 DEF ReviewInv, ReviewMatchesContext
  <2>2. CASE reply' = Message("DISPLAY_ADDRESS_FAIL", NoBody)
    BY <2>2, NothingReleased DEF Message, NoBody, ReqTypes, SignTypes, KeyTypes
  <2>3. /\ ctx' = NoContext
        /\ \/ choice = "publickey" /\ reply' = Message("OK", KeyBody(ctx))
           \/ choice = "address" /\ reply' = Message("OK", AddressBody(ctx))
           \/ reply' = Message("DISPLAY_ADDRESS_FAIL", NoBody)
    BY <1>1, <1>4, <2>1, SendKeyDelivers
  <2> QED BY <1>1, <1>2, <1>4, <2>1, <2>2, <2>3, KeyReleased DEF KeyBody, AddressBody
<1> QED BY <1>3, <1>4 DEF Approve

LEMMA CorruptAnswer ==
  ASSUME ReviewInv, AnswerInv, Corrupt
  PROVE  AnswerInv'
<1>1. ctx.raw # <<>>
  BY CorruptContext DEF ContextAltered, ReviewInv, TypeOK
<1>2. UNCHANGED <<cmd, reply, session>> /\ faults' = faults + 1
  BY DEF Corrupt, history
<1>3. faults' # 0
  BY <1>2, SessionAssumption DEF ReviewInv, TypeOK
<1>4. reply # None => UNCHANGED shown
  BY DEF Corrupt, ReviewInv, UnansweredIffReviewing
<1>5. ReleaseClearsContext'
  BY <1>1, <1>2 DEF AnswerInv, ReleaseClearsContext, NoContext
<1> QED
  BY <1>2, <1>3, <1>4, <1>5
  DEF AnswerInv, SignedWasShown, ReleasedWasVerified, AnswerMatchesCommand, Released

LEMMA NextKeepsAnswer ==
  ReviewInv /\ ContextInv /\ AnswerInv /\ [Next]_vars => AnswerInv'
<1> SUFFICES ASSUME ReviewInv, ContextInv, AnswerInv, [Next]_vars PROVE AnswerInv'
  OBVIOUS
<1>1. CASE User
  <2>1. CASE \E next : Deny(next)
    BY <2>1, StatusReleasesNothing DEF Deny, StatusWords
  <2>2. CASE \E from, to : Turn(from, to)
    BY <2>2, AnswerKept DEF Turn, UserActs, history
  <2> QED BY <1>1, <2>1, <2>2, ApproveAnswer
          DEF User, Decide, Reject, RejectSilently, ConfirmReject, ReviewError,
              Continue, AskReject, ResumeReview, LeaveStatus
<1>2. CASE Stop
  BY <1>2, NothingReleased DEF Stop
<1>3. CASE Launch \/ UNCHANGED vars
  BY <1>3, AnswerKept DEF Launch, vars, history
<1> QED BY <1>1, <1>2, <1>3, HostAnswer, CorruptAnswer DEF Next, Device

\* What reaches the host: a signature only over a payload the user was shown,
\* still hashing to what was signed; only an answer to the command that asked
\* for it; and nothing of the request survives a release.
THEOREM AnswerInvariant == Spec => []AnswerInv
<1>1. Init => AnswerInv
  BY DEF Init, AnswerInv, SignedWasShown, ReleasedWasVerified, AnswerMatchesCommand,
         ReleaseClearsContext, Released
<1> QED BY <1>1, NextKeepsAnswer, ReviewInvariant, ContextInvariant, PTL DEF Spec

\* ui_validate: a released signature is over a payload the user was shown.
THEOREM ReleaseIsFaithful == Spec => []SignedWasShown
<1>1. AnswerInv => SignedWasShown
  BY DEF AnswerInv
<1> QED BY <1>1, AnswerInvariant, PTL

\* ui_validate: nothing is released whose last verification failed.
THEOREM ReleaseIsVerified == Spec => []ReleasedWasVerified
<1>1. AnswerInv => ReleasedWasVerified
  BY DEF AnswerInv
<1> QED BY <1>1, AnswerInvariant, PTL

\* send_response.c: an answer is of the kind and for the path its command named.
THEOREM AnswerIsAskedFor == Spec => []AnswerMatchesCommand
<1>1. AnswerInv => AnswerMatchesCommand
  BY DEF AnswerInv
<1> QED BY <1>1, AnswerInvariant, PTL

\* reset_app_context: a release leaves nothing of its request behind.
THEOREM ReleaseLeavesNothing == Spec => []ReleaseClearsContext
<1>1. AnswerInv => ReleaseClearsContext
  BY DEF AnswerInv
<1> QED BY <1>1, AnswerInvariant, PTL
=============================================================================
