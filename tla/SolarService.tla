---------------------------- MODULE SolarService ----------------------------
(***************************************************************************)
(* The command session implements the approval service: what is asked is   *)
(* read off the context of the open review, what is answered off the body  *)
(* of the answer.                                                          *)
(***************************************************************************)
EXTENDS SolarSession

Subject(kind, path, what) == [kind |-> kind, path |-> path, what |-> what]

SignSubjects == [kind : SignTypes, path : StoredPaths, what : Payload]
KeySubjects == [kind : KeyTypes, path : StoredPaths, what : Options]

ASSUME SubjectAssumption == None \notin SignSubjects /\ None \notin KeySubjects

\* What the open review offers: a signature over the stored hash, or the key
\* with the chain code flag or the network it was asked with.
AskedSubject ==
  IF ctx.reqType \in SignTypes THEN Subject(ctx.reqType, ctx.path, ctx.mHash)
  ELSE IF ctx.reqType = "publickey"
       THEN Subject("publickey", ctx.key.path, ctx.key.chain)
       ELSE Subject("address", ctx.key.path, ctx.network)

ReleasedSubject(body) ==
  IF body.kind \in SignTypes THEN Subject(body.kind, body.path, body.hash)
  ELSE Subject(body.kind, body.path, body.option)

Service ==
  INSTANCE ApprovalService WITH
    asked <- IF pending THEN AskedSubject ELSE None,
    guarded <- cmd.confirm,
    answer <- IF reply = None THEN None
              ELSE IF reply.body.kind \in ReqTypes THEN ReleasedSubject(reply.body)
              ELSE [kind |-> "status"]

\* Every step of the app is a step of the approval service or invisible to it:
\* a signature, or a key or address that needs approval, leaves the app only by
\* the user's decision on exactly that subject, whatever the host sends, the
\* cryptography does and the faults alter.
ImplementsService == Service!ASpec
=============================================================================
