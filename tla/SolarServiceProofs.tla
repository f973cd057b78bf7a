------------------------- MODULE SolarServiceProofs -------------------------
(***************************************************************************)
(* The command session implements the approval service, for every value of *)
(* the constants.                                                          *)
(***************************************************************************)
EXTENDS SolarService, SolarSessionProofs

Asked == IF pending THEN AskedSubject ELSE None
Answer ==
  IF reply = None THEN None
  ELSE IF reply.body.kind \in ReqTypes THEN ReleasedSubject(reply.body)
  ELSE [kind |-> "status"]

-----------------------------------------------------------------------------
(* What the refinement mapping makes of an answer and of an open review.   *)

LEMMA StatusAnswer ==
  ASSUME NEW sw \in StatusWords, reply' = Message(sw, NoBody)
  PROVE  Answer' = Service!Status
<1>1. reply' \in Replies
  BY StatusType
<1>2. reply'.body.kind = "none"
  BY DEF Message, NoBody
<1> QED BY <1>1, <1>2, NoneAssumption
        DEF Answer, Service!Status, ReqTypes, SignTypes, KeyTypes

LEMMA SentStatusAnswer ==
  ASSUME NEW sw \in StatusWords, Send(sw)
  PROVE  Answer' = Service!Status /\ Asked' = None
<1>1. reply' = Message(sw, NoBody) /\ pending' = FALSE
  BY SendDelivers
<1> QED BY <1>1, StatusAnswer DEF Asked

LEMMA ReleaseAnswer ==
  ASSUME NEW body \in Bodies, body.kind \in ReqTypes, reply' = Message("OK", body)
  PROVE  Answer' = ReleasedSubject(body)
<1>1. "OK" \in StatusWords
  BY DEF StatusWords
<1>2. reply' \in Replies
  BY <1>1, MessageType
<1>3. reply'.body = body
  BY DEF Message
<1> QED BY <1>2, <1>3, NoneAssumption DEF Answer

\* The open review asks for a subject.
LEMMA AskedType ==
  ReviewInv /\ pending => AskedSubject \in SignSubjects \/ AskedSubject \in KeySubjects
<1> SUFFICES ASSUME ReviewInv, pending
             PROVE  AskedSubject \in SignSubjects \/ AskedSubject \in KeySubjects
  OBVIOUS
<1>1. ctx \in Contexts /\ choice = ctx.reqType /\ cmd.ins = ctx.reqType
  BY DEF ReviewInv, TypeOK, ReviewMatchesContext
<1>2. CASE ctx.reqType \in SignTypes
  <2>1. ctx.mHash \in Payload /\ ctx.path \in StoredPaths
    BY <1>1, <1>2 DEF ReviewInv, TypeOK, ReviewMatchesContext, Contexts
  <2> QED BY <1>2, <2>1 DEF AskedSubject, Subject, SignSubjects
<1>3. CASE ctx.reqType \in KeyTypes
  <2>1. ctx.key \in Keys /\ ctx.network \in Networks \cup {None}
    BY <1>1, <1>3 DEF ReviewInv, ReviewMatchesContext, Contexts
  <2>2. /\ ctx.key.path \in StoredPaths /\ ctx.key.chain \in Options /\ ctx.network \in Options
        /\ ctx.reqType \notin SignTypes
    BY <1>3, <2>1 DEF Keys, Options, KeyTypes, SignTypes
  <2> QED BY <2>2 DEF AskedSubject, Subject, KeySubjects, KeyTypes
<1>4. ctx.reqType \in ReqTypes
  <2>1. screen \in Reviewing
    BY DEF ReviewInv, UnansweredIffReviewing
  <2>2. ctx.reqType # "none"
    BY <1>1 DEF ReviewInv, TypeOK, Commands, ReqTypes, SignTypes, KeyTypes
  <2> QED BY <1>1, <2>2 DEF Contexts
<1> QED BY <1>2, <1>3, <1>4 DEF ReqTypes

LEMMA AskedTypeNext ==
  (ReviewInv /\ pending => AskedSubject \in SignSubjects \/ AskedSubject \in KeySubjects)'
BY AskedType, PTL

LEMMA CommandConfirm ==
  ASSUME NEW ins, NEW continues, NEW arg, NEW option, NEW confirm,
         Receive(Command(ins, continues, arg, option, confirm))
  PROVE  cmd'.confirm = confirm /\ ~pending /\ Asked = None
BY DEF Receive, Command, Asked

-----------------------------------------------------------------------------
(* Steps.                                                                  *)

ServiceStep ==
  \/ /\ Asked = None /\ Asked' = None
     /\ cmd'.confirm \in BOOLEAN
     /\ \/ Answer' = Service!Status
        \/ ~cmd'.confirm /\ Answer' \in KeySubjects
  \/ /\ Asked = None
     /\ Asked' \in SignSubjects \/ Asked' \in KeySubjects
     /\ cmd'.confirm = TRUE
     /\ Answer' = None
  \/ /\ Asked # None
     /\ Answer' = Asked \/ Answer' = Service!Status
     /\ Asked' = None
     /\ cmd'.confirm = cmd.confirm
  \/ Asked' = None /\ cmd'.confirm = FALSE /\ Answer' = None
  \/ UNCHANGED <<Asked, cmd.confirm, Answer>>

\* A command that is answered with a status word.
LEMMA StatusServed ==
  ASSUME NEW ins, NEW continues, NEW arg, NEW option, NEW confirm \in BOOLEAN,
         Receive(Command(ins, continues, arg, option, confirm)),
         NEW sw \in StatusWords, Send(sw)
  PROVE  ServiceStep
BY CommandConfirm, SentStatusAnswer DEF ServiceStep

\* A command that opens a review.
LEMMA ReviewAsked ==
  ASSUME NEW ins, NEW continues, NEW arg, NEW option,
         Receive(Command(ins, continues, arg, option, TRUE)),
         NEW d, OpenReview(d), ReviewInv'
  PROVE  ServiceStep
<1>1. Asked = None /\ cmd'.confirm = TRUE
  BY CommandConfirm
<1>2. pending' = TRUE /\ reply' = None
  BY DEF OpenReview
<1>3. (AskedSubject \in SignSubjects \/ AskedSubject \in KeySubjects)'
  BY <1>2, AskedTypeNext
<1> QED BY <1>1, <1>2, <1>3 DEF ServiceStep, Asked, Answer

LEMMA KeyCommandServed ==
  ASSUME NEW type \in KeyTypes, NEW arg, NEW option, NEW confirm \in BOOLEAN,
         type = "publickey" => option \in BOOLEAN,
         type = "address" => option \in Networks,
         KeyCommand(type, arg, option, confirm), ReviewInv'
  PROVE  ServiceStep
<1> DEFINE started == [NoContext EXCEPT !.reqType = type, !.path = StoredPath(arg),
                         !.network = IF type = "address" THEN option ELSE None]
           key == [path |-> arg, chain |-> IF type = "publickey" THEN option ELSE FALSE]
           derived == [started EXCEPT !.key = key]
<1>1. Receive(Command(type, FALSE, arg, option, confirm))
  BY DEF KeyCommand
<1>2. CASE \E sw \in StatusWords : Send(sw)
  BY <1>1, <1>2, StatusServed
<1>3. CASE confirm /\ OpenReview(derived)
  BY <1>1, <1>3, ReviewAsked
<1>4. CASE arg \in Paths /\ ~confirm /\ SendKey(type, derived)
  <2>1. (IF type = "address" THEN option ELSE None) \in Networks \cup {None}
    OBVIOUS
  <2>2. started \in Contexts
    BY <2>1, StartedType DEF KeyTypes, ReqTypes
  <2>3. key \in Keys
    BY <1>4 DEF StoredPaths, KeyTypes, Keys
  <2>4. derived \in Contexts
    BY <2>2, <2>3, KeyedType
  <2>5. derived.key = key
    BY <2>2 DEF Contexts
  <2>6. derived.key \in Keys /\ derived.key # None /\ derived.network \in Networks \cup {None}
    BY <2>3, <2>4, <2>5, NoneAssumption DEF Contexts
  <2> HIDE DEF derived, started, key
  <2>7. /\ pending' = FALSE
        /\ \/ type = "publickey" /\ reply' = Message("OK", KeyBody(derived))
           \/ type = "address" /\ reply' = Message("OK", AddressBody(derived))
           \/ reply' = Message("DISPLAY_ADDRESS_FAIL", NoBody)
    BY <1>4, <2>4, <2>6, SendKeyDelivers
  <2>8. /\ KeyBody(derived) \in Bodies /\ AddressBody(derived) \in Bodies
        /\ KeyBody(derived).kind = "publickey" /\ AddressBody(derived).kind = "address"
    BY <2>4, <2>6, KeyBodyType DEF KeyBody, AddressBody
  <2>9. /\ ReleasedSubject(KeyBody(derived)) \in KeySubjects
        /\ ReleasedSubject(AddressBody(derived)) \in KeySubjects
    <3>1. /\ derived.key.path \in StoredPaths /\ derived.key.chain \in Options
          /\ derived.network \in Options
      BY <2>6 DEF Keys, Options
    <3> QED BY <3>1 DEF ReleasedSubject, KeyBody, AddressBody, Subject, KeySubjects,
                        KeyTypes, SignTypes
  <2>10. Answer' = Service!Status \/ Answer' \in KeySubjects
    BY <2>7, <2>8, <2>9, StatusAnswer, ReleaseAnswer
       DEF StatusWords, ReqTypes, KeyTypes
  <2> QED BY <1>1, <1>4, <2>7, <2>10, CommandConfirm DEF ServiceStep, Asked
<1>5. {"DISPLAY_BIP32_PATH_FAIL", "WRONG_LENGTH", "CRYPTO_ERROR", "DISPLAY_ADDRESS_FAIL"}
        \subseteq StatusWords
  BY DEF StatusWords
<1> QED BY <1>2, <1>3, <1>4, <1>5 DEF KeyCommand

LEMMA HostServed ==
  ASSUME Host, ReviewInv'
  PROVE  ServiceStep
<1>1. {"OK", "WRONG_LENGTH", "CLA_NOT_SUPPORTED", "WRONG_P1P2", "INS_NOT_SUPPORTED", "BAD_STATE",
       "REQ_ORDER_FAIL", "WRONG_TX_LENGTH", "TX_HASH_FAIL", "TX_PARSING_FAIL",
       "VALIDATION_HASH_MISMATCH"} \subseteq StatusWords
  BY DEF StatusWords
<1>2. CASE GetInfo
  <2>1. Head(<<Message("OK", [kind |-> "info"])>>) = Message("OK", [kind |-> "info"])
    OBVIOUS
  <2>2. reply' = Message("OK", [kind |-> "info"]) /\ pending' = FALSE
    BY <1>2, <2>1 DEF GetInfo, Deliver
  <2>3. reply'.body.kind = "info"
    BY <2>2 DEF Message
  <2>4. reply' \in Replies
    <3>1. [kind |-> "info"] \in Bodies
      BY DEF Bodies
    <3> QED BY <1>1, <2>2, <3>1, MessageType
  <2>5. Answer' = Service!Status
    BY <2>3, <2>4, NoneAssumption DEF Answer, Service!Status, ReqTypes, SignTypes, KeyTypes
  <2>6. Receive(Command("other", FALSE, "empty", None, FALSE))
    BY <1>2 DEF GetInfo, OtherCommand
  <2> QED BY <2>2, <2>5, <2>6, CommandConfirm DEF ServiceStep, Asked
<1>3. CASE RefuseCommand
  BY <1>1, <1>3, StatusServed DEF RefuseCommand, OtherCommand
<1>4. CASE GetPublicKey
  <2>1. PICK arg \in Paths \cup RefusedPaths, chain \in BOOLEAN, confirm \in BOOLEAN :
          KeyCommand("publickey", arg, chain, confirm)
    BY <1>4 DEF GetPublicKey
  <2> QED BY <2>1, KeyCommandServed DEF KeyTypes
<1>5. CASE GetAddress
  <2>1. PICK arg \in Paths \cup RefusedPaths, network \in Networks, confirm \in BOOLEAN :
          KeyCommand("address", arg, network, confirm)
    BY <1>5 DEF GetAddress
  <2> QED BY <2>1, KeyCommandServed DEF KeyTypes
<1>6. CASE \E type \in SignTypes, arg \in Paths \cup RefusedPaths : SignStart(type, arg)
  BY <1>1, <1>6, StatusServed DEF SignStart
<1>7. CASE SignChunk
  <2>1. PICK type \in SignTypes : Receive(Command(type, TRUE, "empty", None, TRUE))
    BY <1>7, ZenonT(40) DEF SignChunk, RefuseChunk, ChunkTooLong, StoreChunk, LastChunk, TakeChunk,
                ReceiveChunk
  <2>2. (\E sw \in StatusWords : Send(sw)) \/ \E d : OpenReview(d)
    BY <1>1, <1>7, ZenonT(40) DEF SignChunk, RefuseChunk, ChunkTooLong, StoreChunk, LastChunk
  <2> QED BY <2>1, <2>2, StatusServed, ReviewAsked
<1> QED BY <1>2, <1>3, <1>4, <1>5, <1>6, <1>7 DEF Host

LEMMA AskedSomething ==
  ASSUME ReviewInv, screen \in Reviewing
  PROVE  pending /\ Asked = AskedSubject /\ Asked # None
<1>1. pending
  BY DEF ReviewInv, UnansweredIffReviewing
<1> QED BY <1>1, AskedType, SubjectAssumption DEF Asked

LEMMA DenyServed ==
  ASSUME ReviewInv, screen \in Reviewing, NEW next, Deny(next)
  PROVE  ServiceStep
<1>1. "DENY" \in StatusWords
  BY DEF StatusWords
<1> QED BY <1>1, AskedSomething, SentStatusAnswer DEF ServiceStep, Deny, UserActs

LEMMA ApproveServed ==
  ASSUME ReviewInv, Approve
  PROVE  ServiceStep
<1>1. ctx \in Contexts /\ choice = ctx.reqType
  BY DEF ReviewInv, TypeOK, UnansweredIffReviewing, ReviewMatchesContext, Approve, Reviewing
<1>2. Asked # None /\ Asked = AskedSubject
  BY AskedSomething DEF Approve, Reviewing
<1>3. cmd' = cmd
  BY DEF Approve, UserActs
<1>4. {"VALIDATION_HASH_MISMATCH", "SIGNATURE_FAIL", "DISPLAY_ADDRESS_FAIL"} \subseteq StatusWords
  BY DEF StatusWords
<1>5. CASE choice \in SignTypes /\ ApproveSignature
  <2>1. ctx.mHash \in Payload
    BY <1>1, <1>5, AskedSomething DEF ReviewInv, TypeOK, ReviewMatchesContext, Approve, Reviewing
  <2>2. SignatureBody(ctx) \in Bodies
    BY <1>1, <1>5, <2>1, SignatureBodyType DEF Bodies
  <2>3. /\ SignatureBody(ctx).kind \in ReqTypes
        /\ ReleasedSubject(SignatureBody(ctx)) = AskedSubject
    BY <1>1, <1>5 DEF SignatureBody, ReleasedSubject, AskedSubject, Subject, ReqTypes
  <2>4. Answer' = AskedSubject \/ Answer' = Service!Status
    BY <1>4, <1>5, <2>2, <2>3, ApproveSignatureDelivers, ReleaseAnswer, StatusAnswer
  <2> QED BY <1>2, <1>3, <1>5, <2>4, ApproveSignatureDelivers DEF ServiceStep, Asked
<1>6. CASE choice \in KeyTypes /\ SendKey(choice, ctx)
  <2>1. ctx.key # None
    BY <1>1, <1>6, AskedSomething DEF ReviewInv, ReviewMatchesContext, Approve, Reviewing
  <2>2. /\ KeyBody(ctx) \in Bodies /\ AddressBody(ctx) \in Bodies
        /\ KeyBody(ctx).kind = "publickey" /\ AddressBody(ctx).kind = "address"
    BY <1>1, <2>1, KeyBodyType DEF KeyBody, AddressBody
  <2>3. /\ choice = "publickey" => ReleasedSubject(KeyBody(ctx)) = AskedSubject
        /\ choice = "address" => ReleasedSubject(AddressBody(ctx)) = AskedSubject
    BY <1>1, <1>6 DEF KeyBody, AddressBody, ReleasedSubject, AskedSubject, Subject,
                      SignTypes, KeyTypes
  <2>4. PICK type \in KeyTypes : choice = type /\ SendKey(type, ctx)
    BY <1>6
  <2>5. /\ pending' = FALSE
        /\ \/ choice = "publickey" /\ reply' = Message("OK", KeyBody(ctx))
           \/ choice = "address" /\ reply' = Message("OK", AddressBody(ctx))
           \/ reply' = Message("DISPLAY_ADDRESS_FAIL", NoBody)
    <3>1. ctx \in Contexts
      BY <1>1
    <3>2. SendKey(type, ctx)
      BY <2>4
    <3>3. /\ pending' = FALSE
          /\ \/ type = "publickey" /\ reply' = Message("OK", KeyBody(ctx))
             \/ type = "address" /\ reply' = Message("OK", AddressBody(ctx))
             \/ reply' = Message("DISPLAY_ADDRESS_FAIL", NoBody)
      BY <2>1, <3>1, <3>2, SendKeyDelivers
    <3> QED BY <2>4, <3>3
  <2>6. Answer' = AskedSubject \/ Answer' = Service!Status
    BY <1>4, <2>2, <2>3, <2>5, ReleaseAnswer, StatusAnswer DEF ReqTypes, KeyTypes
  <2> QED BY <1>2, <1>3, <2>5, <2>6 DEF ServiceStep, Asked
<1> QED BY <1>5, <1>6 DEF Approve

LEMMA TurnServed ==
  ASSUME NEW from, NEW to, Turn(from, to)
  PROVE  ServiceStep
BY DEF Turn, UserActs, ServiceStep, Asked, Answer, AskedSubject

LEMMA CorruptServed ==
  ASSUME ReviewInv, Corrupt
  PROVE  ServiceStep
<1>1. PICK i \in DOMAIN ctx.raw, c \in Chunks : ctx' = [ctx EXCEPT !.raw[i] = c]
  BY DEF Corrupt
<1>2. /\ ctx'.reqType = ctx.reqType /\ ctx'.path = ctx.path /\ ctx'.mHash = ctx.mHash
      /\ ctx'.key = ctx.key /\ ctx'.network = ctx.network
  BY <1>1 DEF ReviewInv, TypeOK, Contexts
<1>3. UNCHANGED <<pending, cmd, reply>>
  BY DEF Corrupt
<1> QED BY <1>2, <1>3 DEF ServiceStep, Asked, Answer, AskedSubject

LEMMA StepServed == ReviewInv /\ ReviewInv' /\ [Next]_vars => ServiceStep
<1> SUFFICES ASSUME ReviewInv, ReviewInv', [Next]_vars PROVE ServiceStep
  OBVIOUS
<1>1. CASE User
  <2>1. CASE screen \in Reviewing /\ \E next : Deny(next)
    BY <2>1, DenyServed
  <2>2. CASE \E from, to : Turn(from, to)
    BY <2>2, TurnServed
  <2> QED BY <1>1, <2>1, <2>2, ApproveServed
          DEF User, Decide, Reject, RejectSilently, ConfirmReject, ReviewError,
              Continue, AskReject, ResumeReview, LeaveStatus, Reviewing
<1>2. CASE Stop
  BY <1>2 DEF Stop, ServiceStep, Asked, Answer, OtherCommand, Command
<1>3. CASE Launch \/ UNCHANGED vars
  BY <1>3 DEF Launch, vars, ServiceStep, Asked, Answer, AskedSubject
<1> QED BY <1>1, <1>2, <1>3, HostServed, CorruptServed DEF Next, Device

\* Every behaviour of the app is one of the approval service: what only the
\* user can release leaves the app by the user's decision on that subject and
\* in no other way.
THEOREM SessionImplementsService == Spec => ImplementsService
<1>1. Init => Service!AInit
  BY DEF Init, Service!AInit, OtherCommand, Command
<1>2. ReviewInv /\ ReviewInv' /\ [Next]_vars => [Service!ANext]_(Service!avars)
  BY StepServed
  DEF ServiceStep, Asked, Answer, Service!ANext, Service!avars, Service!Serve, Service!Ask,
      Service!Decide, Service!Stop
<1> QED BY <1>1, <1>2, ReviewInvariant, PTL DEF Spec, ImplementsService, Service!ASpec
=============================================================================
