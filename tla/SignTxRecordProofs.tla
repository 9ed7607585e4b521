------------------------- MODULE SignTxRecordProofs -------------------------
(***************************************************************************)
(* Proofs about what the SignTx handler leaves behind: the session store,  *)
(* the answer to the caller and the audit record of an attempt agree, for  *)
(* any calls, requests, replies and configurations.                        *)
(***************************************************************************)
EXTENDS SignTxProofs, AuditEmitterProofs

\* SMT proves the leaves that name no other prover.
USE SMTT(60)

-----------------------------------------------------------------------------
(* Types.                                                                  *)

\* Every token of a request has an id and an expiry the store can hold.
LEMMA EntryType ==
    ASSUME NEW q \in Request
    PROVE  [token_id |-> q.token.token_id, expires_at |-> q.token.expires_at]
               \in UsedEntry
BY DEF UsedEntry, TokenId, Expiry

\* No engine error is reported as success.
LEMMA ErrorCodes ==
    ASSUME NEW err \in EngineError
    PROVE  grpc_code[err] \in Code /\ grpc_code[err] # "Ok"
BY DEF EngineError, grpc_code, Code

\* The end of an attempt keeps every type.
LEMMA ConcludeType ==
    ASSUME TypeOK, NEW c \in Session, NEW status \in Terminal, NEW code \in Code,
           Conclude(c, status, code)
    PROVE  /\ EmitterTypeOK'
           /\ pc' = [pc EXCEPT ![c] = "done"]
           /\ sessions' = [sessions EXCEPT ![c] = status]
           /\ answer' = [answer EXCEPT ![c] = code]
           /\ emitted' = Append(emitted, [session |-> c, result |-> status])
<1>1. [session |-> c, result |-> status] \in AuditRecord
  BY DEF AuditRecord, AuditResult, Terminal
<1>2. Emit([session |-> c, result |-> status])
  BY DEF Conclude
<1>3. EmitterTypeOK'
  BY <1>1, <1>2, EmitType DEF TypeOK
<1>4. emitted' = Append(emitted, [session |-> c, result |-> status])
  BY <1>2 DEF Emit
<1> QED BY <1>3, <1>4 DEF Conclude, Goto, update_status

\* A step of the handler is the end of an attempt or leaves the emitter alone.
Ends(c, status, code) ==
    /\ pc[c] \in Active
    /\ Conclude(c, status, code)
    /\ (status = "Signed") <=> (code = "Ok")
    /\ status = "Signed" => c \in produced
    /\ status = "Denied" => c \notin dispatched
    /\ UNCHANGED <<cfg, now, req, produced, dispatched, past>>

Quiet ==
    /\ UNCHANGED emitterVars
    /\ produced \subseteq produced'
    /\ past' = past
    /\ \A d \in Session : pc[d] = "done" =>
           /\ pc'[d] = "done" /\ answer'[d] = answer[d]
           /\ sessions'[d] = sessions[d]
           /\ d \in dispatched' => d \in dispatched
    /\ \A d \in Session : (pc[d] # "done" /\ pc'[d] = "done") =>
           answer'[d] = "InvalidArgument"

RecordInv == TypeOK /\ RecordsTellOutcome /\ AnsweredAttemptsSettled

\* The end of an attempt keeps every type.
LEMMA EndsType ==
    ASSUME TypeOK, NEW c \in Session, NEW status \in Terminal, NEW code \in Code,
           Ends(c, status, code),
           used' \subseteq UsedEntry, checked' \in [Session -> Instant],
           granted' \subseteq Session, bound' \subseteq Session
    PROVE  TypeOK'
<1>1. /\ EmitterTypeOK'
      /\ pc' = [pc EXCEPT ![c] = "done"]
      /\ sessions' = [sessions EXCEPT ![c] = status]
      /\ answer' = [answer EXCEPT ![c] = code]
      /\ UNCHANGED <<cfg, now, req, produced, dispatched, past>>
  BY ConcludeType, ZenonT(60) DEF Ends
<1>2. /\ pc' \in [Session -> Active \cup {"idle", "done", "dropped"}]
      /\ \A d \in Session : pc'[d] \in Active => pc[d] \in Active
      /\ sessions' \in [Session -> SessionStatus]
      /\ answer' \in [Session -> Code]
  BY <1>1 DEF TypeOK, Active, Terminal, SessionStatus
<1> QED BY <1>1, <1>2 DEF TypeOK

\* What is emitted are records of sessions.
LEMMA RecordTypes ==
    ASSUME EmitterTypeOK
    PROVE  \A rec \in ToSet(emitted) : rec \in AuditRecord /\ rec.session \in Session
<1>1. ToSet(emitted) \subseteq AuditRecord
  BY DEF EmitterTypeOK, ToSet
<1> QED BY <1>1 DEF AuditRecord

\* A token's verdict ends the attempt as a denial, before any dispatch.
LEMMA CheckTokenEffect ==
    ASSUME IInv, TypeOK, NEW c \in Session, CheckToken(c)
    PROVE  /\ \/ Ends(c, "Denied", "FailedPrecondition") \/ Quiet
           /\ TypeOK'
<1> USE DEF CheckToken
<1>1. c \notin dispatched /\ pc[c] \in Active
  BY DEF IInv, Passed, Active
<1>2. \/ Ends(c, "Denied", "FailedPrecondition")
      \/ (Proceed(c, "wallet") \/ Proceed(c, "try_use"))
  BY <1>1 DEF Ends, deny
<1>3. checked' \in [Session -> Instant]
  BY DEF TypeOK
<1>4. UNCHANGED <<cfg, now, req, used, granted, bound, dispatched, produced, past>>
  OBVIOUS
<1> HIDE DEF CheckToken
<1>5. ASSUME Ends(c, "Denied", "FailedPrecondition")
      PROVE  TypeOK'
  BY <1>3, <1>4, <1>5, EndsType DEF TypeOK, Code, Terminal
<1>6. ASSUME NEW place \in {"wallet", "try_use"}, Proceed(c, place)
      PROVE  Quiet /\ TypeOK'
  <2>1. /\ pc' = [pc EXCEPT ![c] = place]
        /\ UNCHANGED <<sessions, answer, emitterVars>>
    BY <1>6 DEF Proceed, Goto
  <2>2. Quiet
    BY <1>1, <1>4, <2>1 DEF Quiet, TypeOK, Active
  <2>3. TypeOK'
    BY <1>1, <1>3, <1>4, <2>1 DEF TypeOK, EmitterTypeOK, emitterVars, Active
  <2> QED BY <2>2, <2>3
<1> QED BY <1>2, <1>5, <1>6

\* A request that is not valid is answered without a session or a record.
LEMMA ArriveEffect ==
    ASSUME IInv, TypeOK, NEW c \in Session, NEW q \in Request, Arrive(c, q)
    PROVE  Quiet /\ TypeOK'
<1>1. /\ pc[c] = "idle" /\ req' = [req EXCEPT ![c] = q]
      /\ \/ /\ pc' = [pc EXCEPT ![c] = "policy"]
            /\ sessions' = [sessions EXCEPT ![c] = "Pending"]
            /\ answer' = answer
         \/ /\ pc' = [pc EXCEPT ![c] = "done"]
            /\ answer' = [answer EXCEPT ![c] = "InvalidArgument"]
            /\ sessions' = sessions
      /\ UNCHANGED <<cfg, now, used, checked, granted, bound, dispatched,
                     produced, past, emitterVars>>
  BY DEF Arrive, Goto, update_status, history
<1>2. Quiet
  BY <1>1 DEF Quiet, TypeOK
<1>3. TypeOK'
  BY <1>1 DEF TypeOK, EmitterTypeOK, emitterVars, Active, Code, Terminal,
              SessionStatus
<1> QED BY <1>2, <1>3

\* A token already used ends the attempt as a denial.
LEMMA TryUseEffect ==
    ASSUME IInv, TypeOK, NEW c \in Session, TryUse(c)
    PROVE  /\ \/ Ends(c, "Denied", "FailedPrecondition") \/ Quiet
           /\ TypeOK'
<1>1. c \notin dispatched /\ pc[c] \in Active /\ req[c] \in Request
  BY DEF IInv, Passed, Active, TypeOK, TryUse
<1>2. UNCHANGED <<cfg, now, req, checked, bound, dispatched, produced, past>>
  BY DEF TryUse
<1>3. \/ Ends(c, "Denied", "FailedPrecondition") /\ UNCHANGED <<used, granted>>
      \/ Proceed(c, "wallet")
  BY <1>1, <1>2 DEF Ends, deny, TryUse
<1>4. used' \subseteq UsedEntry /\ granted' \subseteq Session
  <2>1. \/ used' = used /\ granted' = granted
        \/ /\ used' = used \cup {[token_id |-> req[c].token.token_id,
                                  expires_at |-> req[c].token.expires_at]}
           /\ granted' = granted \cup {c}
    BY DEF TryUse
  <2> QED BY <1>1, <2>1, EntryType DEF TypeOK
<1>5. ASSUME Ends(c, "Denied", "FailedPrecondition")
      PROVE  TypeOK'
  BY <1>2, <1>4, <1>5, EndsType DEF TypeOK, Code, Terminal
<1>6. ASSUME Proceed(c, "wallet")
      PROVE  Quiet /\ TypeOK'
  <2>1. /\ pc' = [pc EXCEPT ![c] = "wallet"]
        /\ UNCHANGED <<sessions, answer, emitterVars>>
    BY <1>6 DEF Proceed, Goto
  <2>2. Quiet
    BY <1>1, <1>2, <2>1 DEF Quiet, TypeOK, Active
  <2>3. TypeOK'
    BY <1>1, <1>2, <1>4, <2>1 DEF TypeOK, EmitterTypeOK, emitterVars, Active
  <2> QED BY <2>2, <2>3
<1> QED BY <1>3, <1>5, <1>6

\* The wallet check lets the call through to the engine or denies it.
LEMMA WalletEffect ==
    ASSUME IInv, TypeOK, NEW c \in Session,
           SkipWallet(c) \/ \E reply \in WalletReply : WalletAnswers(c, reply)
    PROVE  /\ \/ \E code \in Code : Ends(c, "Denied", code)
              \/ Quiet
           /\ TypeOK'
<1>1. c \notin dispatched /\ pc[c] = "wallet"
  BY DEF IInv, Passed, SkipWallet, WalletAnswers, AwaitsWallet
<1>2. /\ UNCHANGED <<cfg, now, req, used, checked, granted, produced, past>>
      /\ bound' \subseteq Session
      /\ \/ Dispatch(c)
         \/ /\ dispatched' = dispatched
            /\ deny(c, "FailedPrecondition") \/ deny(c, "Unavailable")
  <2>1. CASE SkipWallet(c)
    BY <2>1 DEF SkipWallet, TypeOK
  <2>2. ASSUME NEW reply \in WalletReply, WalletAnswers(c, reply)
        PROVE  /\ UNCHANGED <<cfg, now, req, used, checked, granted, produced, past>>
               /\ bound' \subseteq Session
               /\ \/ Dispatch(c)
                  \/ /\ dispatched' = dispatched
                     /\ deny(c, "FailedPrecondition") \/ deny(c, "Unavailable")
    <3>1. /\ UNCHANGED <<cfg, now, req, used, checked, granted, produced, past>>
          /\ bound' \subseteq Session
      BY <2>2 DEF WalletAnswers, TypeOK
    <3>2. \/ Dispatch(c)
          \/ /\ dispatched' = dispatched
             /\ deny(c, "FailedPrecondition") \/ deny(c, "Unavailable")
      BY <2>2 DEF WalletAnswers
    <3> QED BY <3>1, <3>2
  <2> QED BY <2>1, <2>2
<1>3. ASSUME NEW code \in Code, code # "Ok", deny(c, code), dispatched' = dispatched
      PROVE  Ends(c, "Denied", code) /\ TypeOK'
  <2>1. Ends(c, "Denied", code)
    BY <1>1, <1>2, <1>3 DEF Ends, deny, Active
  <2>2. TypeOK'
    BY <1>2, <1>3, <2>1, EndsType DEF TypeOK, Terminal
  <2> QED BY <2>1, <2>2
<1>4. ASSUME Dispatch(c)
      PROVE  Quiet /\ TypeOK'
  <2>1. /\ pc' = [pc EXCEPT ![c] = "engine"]
        /\ sessions' = [sessions EXCEPT ![c] = "Signing"]
        /\ dispatched' = dispatched \cup {c}
        /\ UNCHANGED <<answer, emitterVars>>
    BY <1>4 DEF Dispatch, Goto, update_status
  <2>2. Quiet
    BY <1>1, <1>2, <2>1 DEF Quiet, TypeOK
  <2>3. TypeOK'
    BY <1>1, <1>2, <2>1 DEF TypeOK, EmitterTypeOK, emitterVars, Active,
                            Terminal, SessionStatus
  <2> QED BY <2>2, <2>3
<1>5. "FailedPrecondition" \in Code /\ "Unavailable" \in Code
  BY DEF Code
<1> QED BY <1>2, <1>3, <1>4, <1>5

\* The engine's answer is recorded as what it is.
LEMMA EngineReturnsEffect ==
    ASSUME IInv, TypeOK, NEW c \in Session, EngineReturns(c)
    PROVE  /\ \E status \in Terminal, code \in Code : Ends(c, status, code)
           /\ TypeOK'
<1>1. pc[c] = "engine" /\ c \in dispatched
  BY DEF EngineReturns, IInv, Passed
<1>2. UNCHANGED <<cfg, now, req, used, checked, granted, bound, dispatched,
                  produced, past>>
  BY DEF EngineReturns, history
<1>3. \E status \in Terminal, code \in Code : Ends(c, status, code)
  <2>1. CASE c \in produced /\ Conclude(c, "Signed", "Ok")
    BY <1>1, <1>2, <2>1 DEF Ends, Active, Terminal, Code
  <2>2. ASSUME NEW err \in EngineError, Conclude(c, "Failed", grpc_code[err])
        PROVE  Ends(c, "Failed", grpc_code[err])
    BY <1>1, <1>2, <2>2, ErrorCodes DEF Ends, Active
  <2> QED BY <2>1, <2>2, ErrorCodes DEF EngineReturns, Terminal
<1>4. ASSUME NEW status \in Terminal, NEW code \in Code, Ends(c, status, code)
      PROVE  TypeOK'
  BY <1>2, <1>4, EndsType DEF TypeOK
<1> QED BY <1>3, <1>4

\* What happens around the handler emits nothing; the delivery task only
\* moves what was emitted.
LEMMA AroundEffect ==
    ASSUME TypeOK,
           \/ \E c \in Session : EngineProduces(c) \/ DropCall(c)
           \/ ClockStep \/ UNCHANGED vars
    PROVE  Quiet /\ TypeOK'
<1>1. ASSUME NEW c \in Session, EngineProduces(c)
      PROVE  Quiet /\ TypeOK'
  BY <1>1 DEF EngineProduces, Quiet, TypeOK, EmitterTypeOK, emitterVars
<1>2. ASSUME NEW c \in Session, DropCall(c)
      PROVE  Quiet /\ TypeOK'
  <2>1. /\ pc[c] \in {"wallet", "engine"} /\ pc' = [pc EXCEPT ![c] = "dropped"]
        /\ UNCHANGED <<cfg, now, req, sessions, used, answer, checked, granted,
                       bound, dispatched, produced, past, emitterVars>>
    BY <1>2 DEF DropCall, AwaitsWallet, Goto, history
  <2>2. Quiet
    BY <2>1 DEF Quiet, TypeOK
  <2>3. TypeOK'
    BY <2>1 DEF TypeOK, EmitterTypeOK, emitterVars, Active
  <2> QED BY <2>2, <2>3
<1>3. CASE ClockStep
  BY <1>3 DEF ClockStep, history, Quiet, TypeOK, EmitterTypeOK, emitterVars
<1>4. CASE UNCHANGED vars
  BY <1>4 DEF vars, history, Quiet, TypeOK, EmitterTypeOK, emitterVars
<1> QED BY <1>1, <1>2, <1>3, <1>4

\* The delivery task and the log leave everything but the emitter alone.
LEMMA WorkerEffect ==
    ASSUME TypeOK, AuditWorker \/ AuditLog
    PROVE  /\ TypeOK' /\ emitted' = emitted
           /\ UNCHANGED <<pc, sessions, answer, produced, dispatched, past>>
<1>1. EmitterTypeOK' /\ emitted' = emitted
  <2>1. CASE Receive
    BY <2>1, ReceiveType DEF TypeOK, Receive
  <2>2. CASE Deliver
    BY <2>2, DeliverType, DeliverEffect DEF TypeOK
  <2>3. CASE BrokerStores
    BY <2>3, BrokerType DEF TypeOK, BrokerStores
  <2> QED BY <2>1, <2>2, <2>3 DEF AuditWorker, AuditLog, Worker, Deliver
<1>2. UNCHANGED <<cfg, now, pc, req, sessions, used, answer, checked, granted,
                  bound, dispatched, produced, past>>
  BY DEF AuditWorker, AuditLog, history
<1> QED BY <1>1, <1>2 DEF TypeOK

-----------------------------------------------------------------------------
(* Records, answers and sessions agree.                                    *)

\* A step that ends no attempt disturbs none that has ended.
LEMMA QuietKeeps ==
    ASSUME RecordInv, Quiet, TypeOK'
    PROVE  RecordInv'
<1>1. emitted' = emitted /\ past' = past
  BY DEF Quiet, emitterVars
<1>2. \A rec \in ToSet(emitted) : rec.session \in Session
  BY RecordTypes DEF RecordInv, TypeOK
<1>3. RecordsTellOutcome'
  BY <1>1, <1>2 DEF Quiet, RecordInv, RecordsTellOutcome
<1>4. AnsweredAttemptsSettled'
  BY <1>1 DEF Quiet, RecordInv, AnsweredAttemptsSettled
<1> QED BY <1>3, <1>4 DEF RecordInv

\* The end of an attempt adds the one record that tells it.
LEMMA EndsKeeps ==
    ASSUME RecordInv, NEW c \in Session, NEW status \in Terminal, NEW code \in Code,
           Ends(c, status, code), TypeOK'
    PROVE  RecordInv'
<1> DEFINE rec == [session |-> c, result |-> status]
<1>1. /\ pc' = [pc EXCEPT ![c] = "done"] /\ pc[c] # "done"
      /\ sessions' = [sessions EXCEPT ![c] = status]
      /\ answer' = [answer EXCEPT ![c] = code]
      /\ emitted' = Append(emitted, rec)
      /\ UNCHANGED <<produced, dispatched, past>>
  BY ConcludeType DEF Ends, RecordInv, Active
<1>2. /\ pc \in [Session -> Active \cup {"idle", "done", "dropped"}]
      /\ sessions \in [Session -> SessionStatus] /\ answer \in [Session -> Code]
      /\ emitted \in Seq(AuditRecord) /\ rec \in AuditRecord
  BY DEF RecordInv, TypeOK, EmitterTypeOK, AuditRecord, AuditResult, Terminal
<1>3. ToSet(emitted)' = ToSet(emitted) \cup {rec}
  BY <1>1, <1>2, ToSetAppend
<1>4. \A r \in ToSet(emitted) : r.session \in Session /\ r.session # c
  <2>1. \A r \in ToSet(emitted) : r.session \in Session /\ pc[r.session] = "done"
    BY RecordTypes DEF RecordInv, RecordsTellOutcome, TypeOK
  <2> QED BY <1>1, <2>1
<1>5. \A i, j \in DOMAIN emitted' :
          emitted'[i].session = emitted'[j].session => i = j
  <2>1. \A i \in DOMAIN emitted : emitted[i].session # rec.session
    BY <1>4 DEF ToSet
  <2>2. /\ DOMAIN emitted' = 1..(Len(emitted) + 1) /\ DOMAIN emitted = 1..Len(emitted)
        /\ Len(emitted) \in Nat
        /\ \A i \in 1..Len(emitted) : emitted'[i] = emitted[i]
        /\ emitted'[Len(emitted) + 1] = rec
    BY <1>1, <1>2, <2>1, EmitOrder
  <2> HIDE DEF rec
  <2>3. \A i, j \in 1..Len(emitted) : emitted[i].session = emitted[j].session => i = j
    BY <2>2 DEF RecordInv, RecordsTellOutcome
  <2>4. \A i \in DOMAIN emitted' : i \in 1..Len(emitted) \/ i = Len(emitted) + 1
    BY <2>2
  <2> QED BY <2>1, <2>2, <2>3, <2>4
<1>6. \A r \in ToSet(emitted)' :
          /\ pc'[r.session] = "done"
          /\ (r.result = "Signed") <=> (answer'[r.session] = "Ok")
          /\ r.result = "Signed" => r.session \in produced'
          /\ r.result = "Denied" => r.session \notin dispatched'
  <2>1. ASSUME NEW r \in ToSet(emitted)
        PROVE  /\ pc'[r.session] = "done"
               /\ (r.result = "Signed") <=> (answer'[r.session] = "Ok")
               /\ r.result = "Signed" => r.session \in produced'
               /\ r.result = "Denied" => r.session \notin dispatched'
    BY <1>1, <1>2, <1>4 DEF RecordInv, RecordsTellOutcome
  <2>2. /\ pc'[c] = "done" /\ answer'[c] = code
        /\ (status = "Signed") <=> (code = "Ok")
        /\ status = "Signed" => c \in produced'
        /\ status = "Denied" => c \notin dispatched'
    BY <1>1, <1>2 DEF Ends
  <2> QED BY <1>3, <2>1, <2>2
<1>7. AnsweredAttemptsSettled'
  BY <1>1, <1>2, <1>3 DEF RecordInv, AnsweredAttemptsSettled
<1> QED BY <1>5, <1>6, <1>7 DEF RecordInv, RecordsTellOutcome

\* A restart empties the store but takes no record and no answer back.
LEMMA RestartKeeps ==
    ASSUME RecordInv, Restart
    PROVE  RecordInv'
<1>1. /\ pc' = [c \in Session |-> IF pc[c] \in Active THEN "dropped" ELSE pc[c]]
      /\ past' = {c \in Session : pc[c] # "idle"}
      /\ sessions' = [c \in Session |-> "none"] /\ used' = {}
      /\ UNCHANGED <<cfg, now, req, answer, checked, granted, bound, dispatched,
                     produced>>
      /\ EmitterCrash
  BY DEF Restart
<1>2. EmitterTypeOK' /\ emitted' = emitted
  BY <1>1, CrashType DEF RecordInv, TypeOK, EmitterCrash
<1>3. TypeOK'
  BY <1>1, <1>2 DEF RecordInv, TypeOK, Active, SessionStatus
<1>4. \A rec \in ToSet(emitted) : rec.session \in Session
  BY RecordTypes DEF RecordInv, TypeOK
<1>5. RecordsTellOutcome'
  BY <1>1, <1>2, <1>4 DEF RecordInv, RecordsTellOutcome, Active
<1>6. AnsweredAttemptsSettled'
  BY <1>1 DEF AnsweredAttemptsSettled, Active
<1> QED BY <1>3, <1>5, <1>6 DEF RecordInv

\* Nothing has happened at first.
LEMMA RecordInit == Init => RecordInv
<1> SUFFICES ASSUME Init PROVE RecordInv
  OBVIOUS
<1>1. EmitterTypeOK
  BY EmitterInitInv DEF Init, EmitterInv
<1>2. cfg \in Config /\ 0 \in Instant
  BY ServiceParams, ClockParams DEF Init, Instant
<1>3. TypeOK
  BY <1>1, <1>2 DEF Init, TypeOK, Active, SessionStatus, Code
<1>4. RecordsTellOutcome /\ AnsweredAttemptsSettled
  BY ToSetOne DEF Init, EmitterInit, RecordsTellOutcome, AnsweredAttemptsSettled
<1> QED BY <1>3, <1>4 DEF RecordInv

\* Every step of the service is one of these.
LEMMA RecordStep == IInv /\ RecordInv /\ [Next]_vars => RecordInv'
<1> SUFFICES ASSUME IInv, RecordInv, [Next]_vars PROVE RecordInv'
  OBVIOUS
<1>1. TypeOK /\ "Denied" \in Terminal /\ "FailedPrecondition" \in Code
  BY DEF RecordInv, Terminal, Code
<1>2. ASSUME NEW c \in Session, NEW q \in Request, Arrive(c, q)
      PROVE  RecordInv'
  BY <1>1, <1>2, ArriveEffect, QuietKeeps
<1>3. ASSUME NEW c \in Session, CheckToken(c)
      PROVE  RecordInv'
  BY <1>1, <1>3, CheckTokenEffect, QuietKeeps, EndsKeeps
<1>4. ASSUME NEW c \in Session, TryUse(c)
      PROVE  RecordInv'
  BY <1>1, <1>4, TryUseEffect, QuietKeeps, EndsKeeps
<1>5. ASSUME NEW c \in Session,
             SkipWallet(c) \/ \E reply \in WalletReply : WalletAnswers(c, reply)
      PROVE  RecordInv'
  BY <1>1, <1>5, WalletEffect, QuietKeeps, EndsKeeps
<1>6. ASSUME NEW c \in Session, EngineReturns(c)
      PROVE  RecordInv'
  BY <1>1, <1>6, EngineReturnsEffect, EndsKeeps
<1>7. CASE \/ \E c \in Session : EngineProduces(c) \/ DropCall(c)
           \/ ClockStep \/ UNCHANGED vars
  BY <1>1, <1>7, AroundEffect, QuietKeeps
<1>8. CASE AuditWorker \/ AuditLog
  BY <1>1, <1>8, WorkerEffect
     DEF RecordInv, RecordsTellOutcome, AnsweredAttemptsSettled
<1>9. CASE Restart
  BY <1>9, RestartKeeps
<1> QED
  BY <1>2, <1>3, <1>4, <1>5, <1>6, <1>7, <1>8, <1>9 DEF Next, Handler

\* Calls, stores, history and the emitter's channel keep their types.
THEOREM HandlerTypeCorrect == Spec => []TypeOK
<1>1. Spec => []RecordInv
  BY Inductive, RecordInit, RecordStep, PTL DEF Spec
<1> QED BY <1>1, PTL DEF RecordInv

\* sign_tx emits one record per attempt it ends, and what the record says is
\* what the caller was told and what the engine did, however calls interleave.
THEOREM RecordsTruthful == Spec => []RecordsTellOutcome
<1>1. Spec => []RecordInv
  BY Inductive, RecordInit, RecordStep, PTL DEF Spec
<1> QED BY <1>1, PTL DEF RecordInv

\* No early return of sign_tx behind the opening of the session forgets the
\* store or the record.
THEOREM AnswersSettled == Spec => []AnsweredAttemptsSettled
<1>1. Spec => []RecordInv
  BY Inductive, RecordInit, RecordStep, PTL DEF Spec
<1> QED BY <1>1, PTL DEF RecordInv
=============================================================================
