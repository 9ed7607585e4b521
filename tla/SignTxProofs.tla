---------------------------- MODULE SignTxProofs ----------------------------
(***************************************************************************)
(* Proofs about the SignTx handler, for any calls, requests, wallet        *)
(* replies, configurations, clock range and skew: a token is used once,    *)
(* nothing reaches the engine unapproved, and the handler implements the   *)
(* abstract SigningEngine.                                                 *)
(***************************************************************************)
EXTENDS SignTx, TLAPS

\* SMT proves the leaves that name no other prover.
USE SMTT(60)

-----------------------------------------------------------------------------
(* The inductive invariant.                                                *)

Places == Active \cup {"idle", "done", "dropped"}

Shape ==
    /\ cfg \in Config
    /\ now \in Instant
    /\ pc \in [Session -> Places]
    /\ req = [c \in Session |-> req[c]]
    /\ \A c \in Session : pc[c] \in Active => req[c] \in Request
    /\ answer = [c \in Session |-> answer[c]]
    /\ checked \in [Session -> Instant]
    /\ granted \subseteq Session
    /\ dispatched \subseteq Session

\* The token of the call approves its request.
TokenGood(c) == cfg.verifier /\ Approves(req[c].token, req[c], checked[c])

\* Where a call is tells what it has passed.
Passed ==
    \A c \in Session :
        /\ c \in granted => pc[c] \notin {"idle", "policy", "try_use"}
        /\ c \in dispatched => pc[c] \in {"engine", "done", "dropped"}
        /\ pc[c] = "engine" => c \in dispatched
        /\ pc[c] = "try_use" => TokenGood(c)
        /\ pc[c] = "wallet" => cfg.skip_policy \/ (TokenGood(c) /\ c \in granted)
        /\ c \in past => pc[c] \in {"done", "dropped"}

\* The store remembers every token of this life of the process.
Remembered == \A c \in granted \ past : IsUsed(req[c].token.token_id)

IInv == Shape /\ Passed /\ Remembered /\ SingleUse /\ DispatchAuthorised

-----------------------------------------------------------------------------
(* The decision on a token.                                                *)

\* The claims of a token hold two timestamps.
LEMMA TokenFields ==
    ASSUME NEW Id, NEW Payload, NEW Key, NEW Chain,
           NEW tok \in Token(Id, Payload, Key, Chain)
    PROVE  tok.issued_at \in Nat /\ tok.expires_at \in Nat
BY ClockParams DEF Token

\* So does the token of every request.
LEMMA TokenTypes ==
    ASSUME NEW q \in Request
    PROVE  q.token.issued_at \in Nat /\ q.token.expires_at \in Nat
BY ServiceParams, TokenFields, ZenonT(60)

\* The sum of the clock and the skew does not wrap, and a sum that wraps is
\* smaller than the true one.
LEMMA Wrapping ==
    /\ \A t \in Instant : AddU64(t, MaxSkew) = t + MaxSkew
    /\ \A t \in Nat : AddU64(t, MaxSkew) <= t + MaxSkew /\ AddU64(t, MaxSkew) \in Nat
BY ClockParams DEF AddU64, Instant

\* What verify accepts is approved in true arithmetic.
LEMMA AcceptedIsApproved ==
    ASSUME NEW q \in Request, NEW t \in Instant, Verdict(q.token, q, t) = "None"
    PROVE  Approves(q.token, q, t)
<1>1. /\ q.token.decodes /\ q.token.signed /\ q.token.parses
      /\ q.token.tx_payload_hash = sha256_hex(q.tx_payload)
      /\ q.token.key_id = q.key_id /\ q.token.chain = q.chain
      /\ Fresh(q.token, t)
  BY DEF Verdict
<1>2. q.token.issued_at \in Nat /\ q.token.expires_at \in Nat
  BY TokenTypes
<1>3. t \in Nat
  BY ClockParams DEF Instant
<1>4. /\ q.token.issued_at <= t + MaxSkew
      /\ t <= q.token.expires_at + MaxSkew
  BY <1>1, <1>2, <1>3, Wrapping, ClockParams DEF Fresh
<1> QED BY <1>1, <1>4 DEF Approves

-----------------------------------------------------------------------------
(* Every step preserves the invariant.                                     *)

\* No call has arrived when the service starts.
LEMMA InitInv == Init => IInv
<1> SUFFICES ASSUME Init PROVE IInv
  OBVIOUS
<1>1. cfg \in Config /\ 0 \in Instant
  BY ServiceParams, ClockParams DEF Init, Instant
<1>2. Shape
  BY <1>1 DEF Init, Shape, Places, Active
<1>3. Passed
  BY DEF Init, Passed
<1> QED
  BY <1>2, <1>3 DEF Init, IInv, Remembered, SingleUse, DispatchAuthorised

\* A new session starts before every gate.
LEMMA ArriveInv ==
    ASSUME IInv, NEW c \in Session, NEW q \in Request, Arrive(c, q)
    PROVE  IInv'
<1> USE DEF IInv, Arrive, Goto, history
<1>1. Shape'
  BY DEF Shape, Places, Active
<1>2. Passed'
  BY DEF Shape, Passed, TokenGood, Places, Active
<1>3. Remembered' /\ SingleUse'
  <2>1. \A d \in granted : d # c /\ req'[d] = req[d]
    BY DEF Shape, Passed
  <2>2. granted' = granted /\ past' = past /\ used' = used
    OBVIOUS
  <2> HIDE DEF Arrive, Goto
  <2> QED BY <2>1, <2>2 DEF Remembered, SingleUse, SameToken, IsUsed
<1>4. DispatchAuthorised'
  BY DEF Shape, Passed, DispatchAuthorised
<1> HIDE DEF Arrive, Goto, history
<1> QED BY <1>1, <1>2, <1>3, <1>4

\* verify lets a call on to the single-use gate only when its token is good.
LEMMA CheckTokenInv ==
    ASSUME IInv, NEW c \in Session, CheckToken(c)
    PROVE  IInv'
<1> USE DEF IInv, CheckToken, Goto, Proceed, deny, Conclude
<1>1. Shape'
  BY DEF Shape, Places, Active
<1>2. pc'[c] = "try_use" => TokenGood(c)'
  <2> HAVE pc'[c] = "try_use"
  <2>1. /\ cfg.verifier /\ checked' = [checked EXCEPT ![c] = now]
        /\ Verdict(req[c].token, req[c], now) = "None"
        /\ cfg' = cfg /\ req' = req
    BY DEF Shape
  <2>2. req[c] \in Request /\ now \in Instant /\ checked'[c] = now
    BY <2>1 DEF Shape, Active
  <2> QED BY <2>1, <2>2, AcceptedIsApproved DEF TokenGood
<1>3. Passed'
  BY <1>2 DEF Shape, Passed, TokenGood, Places, Active
<1>4. Remembered' /\ SingleUse'
  BY ZenonT(60) DEF Shape, Passed, Remembered, SingleUse, SameToken, IsUsed
<1>5. DispatchAuthorised'
  BY DEF Shape, Passed, DispatchAuthorised
<1> HIDE DEF CheckToken, Goto, Proceed, deny, Conclude
<1> QED BY <1>1, <1>3, <1>4, <1>5

\* The gate lets a call through only when the store does not hold its token id,
\* and then stores it in the same access.
LEMMA TryUseInv ==
    ASSUME IInv, NEW c \in Session, TryUse(c)
    PROVE  IInv'
<1> USE DEF IInv, TryUse, Goto, Proceed, deny, Conclude
<1>1. Shape'
  BY DEF Shape, Places, Active
<1>2. Passed'
  BY DEF Shape, Passed, TokenGood, Places, Active
<1>3. Remembered' /\ SingleUse'
  <2>1. CASE IsUsed(req[c].token.token_id)
    BY <2>1 DEF Remembered, SingleUse, SameToken, IsUsed
  <2>2. CASE ~IsUsed(req[c].token.token_id)
    <3>1. /\ used' = used \cup {[token_id |-> req[c].token.token_id,
                                 expires_at |-> req[c].token.expires_at]}
          /\ granted' = granted \cup {c} /\ past' = past /\ req' = req
      BY <2>2
    <3> HIDE DEF TryUse, Goto, Proceed, deny, Conclude
    <3>2. IsUsed(req[c].token.token_id)'
      <4> DEFINE e == [token_id |-> req[c].token.token_id,
                       expires_at |-> req[c].token.expires_at]
      <4>1. e.token_id = req[c].token.token_id
        OBVIOUS
      <4>2. e \in used' /\ req' = req
        BY <3>1
      <4> HIDE DEF e
      <4> QED BY <4>1, <4>2 DEF IsUsed
    <3>3. \A d \in granted \ past : /\ IsUsed(req[d].token.token_id)'
                                   /\ ~SameToken(c, d) /\ ~SameToken(d, c)
      BY <2>2, <3>1 DEF IsUsed, Remembered, SameToken
    <3>4. Remembered'
      BY <3>1, <3>2, <3>3 DEF Remembered
    <3>5. SingleUse'
      BY <3>1, <3>3 DEF SingleUse, SameToken
    <3> QED BY <3>4, <3>5
  <2> QED BY <2>1, <2>2
<1>4. DispatchAuthorised'
  BY DEF Shape, Passed, DispatchAuthorised
<1> HIDE DEF TryUse, Goto, Proceed, deny, Conclude
<1> QED BY <1>1, <1>2, <1>3, <1>4

\* SkipWallet and WalletAnswers: the call is denied or handed to the engine.
LEMMA WalletInv ==
    ASSUME IInv, NEW c \in Session,
           SkipWallet(c) \/ \E reply \in WalletReply : WalletAnswers(c, reply)
    PROVE  IInv'
<1>1. /\ pc[c] = "wallet"
      /\ UNCHANGED <<cfg, now, req, used, checked, granted, produced, past>>
      /\ bound \subseteq bound'
      /\ \/ /\ Goto(c, "done") /\ dispatched' = dispatched
            /\ answer' = [answer EXCEPT ![c] = answer'[c]]
         \/ /\ Goto(c, "engine") /\ dispatched' = dispatched \cup {c}
            /\ answer' = answer
            /\ cfg.skip_wallet_check \/ (cfg.wallet /\ c \in bound')
  <2>1. CASE SkipWallet(c)
    BY <2>1 DEF SkipWallet, Dispatch, deny, Conclude, IInv, Shape
  <2>2. ASSUME NEW reply \in WalletReply, WalletAnswers(c, reply)
        PROVE  <1>1!:
    <3> DEFINE verdict == check_key_binding(reply, req[c].key_id)
    <3>1. verdict = "Bound" =>
              /\ reply.status = "ok"
              /\ req[c].key_id \in reply.key_ids \cup {reply.current_key_id}
      BY ServiceParams, ZenonT(60) DEF check_key_binding
    <3>2. /\ pc[c] = "wallet" /\ cfg.wallet
          /\ UNCHANGED <<cfg, now, req, used, checked, granted, produced, past>>
          /\ bound' = IF /\ reply.status = "ok"
                         /\ req[c].key_id \in reply.key_ids \cup {reply.current_key_id}
                      THEN bound \cup {c} ELSE bound
      BY <2>2 DEF WalletAnswers, AwaitsWallet
    <3>3. CASE verdict = "Bound"
      BY <2>2, <3>1, <3>2, <3>3 DEF WalletAnswers, Dispatch
    <3>4. CASE verdict # "Bound"
      <4>1. \E code \in {"Unavailable", "FailedPrecondition"} :
                deny(c, code) /\ UNCHANGED dispatched
        BY <2>2, <3>4 DEF WalletAnswers
      <4> HIDE DEF verdict
      <4> QED BY <3>2, <4>1 DEF deny, Conclude, IInv, Shape
    <3> QED BY <3>3, <3>4
  <2> QED BY <2>1, <2>2
<1> USE DEF IInv, Goto
<1>2. Shape'
  BY <1>1 DEF Shape, Places, Active
<1>3. Passed'
  BY <1>1 DEF Shape, Passed, TokenGood, Places, Active
<1>4. Remembered' /\ SingleUse'
  BY Zenon, <1>1 DEF Remembered, SingleUse, SameToken, IsUsed
<1>5. DispatchAuthorised'
  BY <1>1, ZenonT(60) DEF Shape, Passed, TokenGood, DispatchAuthorised
<1> QED BY <1>2, <1>3, <1>4, <1>5

\* The engine makes its signature or answers, or the call is dropped.
LEMMA EndInv ==
    ASSUME IInv, NEW c \in Session,
           EngineReturns(c) \/ EngineProduces(c) \/ DropCall(c)
    PROVE  IInv'
<1> USE DEF IInv, EngineReturns, EngineProduces, DropCall, AwaitsWallet, Goto,
            Conclude, history
<1>1. Shape'
  BY DEF Shape, Places, Active
<1>2. Passed'
  BY DEF Shape, Passed, TokenGood, Places, Active
<1>3. Remembered' /\ SingleUse'
  <2>1. UNCHANGED <<req, used, granted, past>>
    OBVIOUS
  <2> QED BY Zenon, <2>1 DEF Remembered, SingleUse, SameToken, IsUsed
<1>4. DispatchAuthorised'
  BY DEF Shape, Passed, DispatchAuthorised
<1> HIDE DEF EngineReturns, EngineProduces, DropCall, AwaitsWallet, Goto,
             Conclude, history
<1> QED BY <1>1, <1>2, <1>3, <1>4

\* The audit task and log, restarts and the clock: a restart empties the
\* used-token store and makes every call past the gate one of the past.
LEMMA AroundInv ==
    ASSUME IInv, AuditWorker \/ AuditLog \/ Restart \/ ClockStep \/ UNCHANGED vars
    PROVE  IInv'
<1> USE DEF IInv, AuditWorker, AuditLog, Restart, ClockStep, vars, history
<1>1. Shape'
  BY DEF Shape, Places, Active
<1>2. Passed'
  BY DEF Shape, Passed, TokenGood, Places, Active
<1>3. Remembered' /\ SingleUse'
  BY ZenonT(60) DEF Shape, Passed, Remembered, SingleUse, SameToken, IsUsed
<1>4. DispatchAuthorised'
  BY DEF Shape, Passed, DispatchAuthorised
<1> HIDE DEF AuditWorker, AuditLog, Restart, ClockStep, vars, history
<1> QED BY <1>1, <1>2, <1>3, <1>4

\* Every step of Next is one of these.
LEMMA NextInv == IInv /\ [Next]_vars => IInv'
BY ArriveInv, CheckTokenInv, TryUseInv, WalletInv, EndInv, AroundInv
   DEF Next, Handler

\* The strengthened invariant holds in every reachable state of sign_tx.
THEOREM Inductive == Spec => []IInv
BY InitInv, NextInv, PTL DEF Spec

\* In the life of one process at most one call gets a given token id past the
\* try_use gate of InMemUsedTokenStore, for any number of concurrent calls.
THEOREM TokensUsedOnce == Spec => []SingleUse
BY Inductive, PTL DEF IInv

\* sign_tx hands nothing to the engine unapproved, for every token, clock,
\* skew, wallet reply and configuration: wrapping u64 arithmetic in the
\* freshness check never accepts what true arithmetic would refuse.
THEOREM OnlyAuthorised == Spec => []DispatchAuthorised
BY Inductive, PTL DEF IInv

-----------------------------------------------------------------------------
(* The status of a session follows the place of its call.                  *)

StatusInv ==
    /\ pc \in [Session -> Places]
    /\ sessions \in [Session -> SessionStatus]
    /\ \A c \in Session :
           /\ pc[c] = "idle" => sessions[c] = "none"
           /\ pc[c] \in {"policy", "try_use", "wallet"} => sessions[c] = "Pending"
           /\ pc[c] = "engine" => sessions[c] = "Signing"

\* The kinds of step: a session changes its status as its call moves (from
\* `place` to `next`), or only calls end and the store may be emptied.
Moves(c, place, next, status) ==
    /\ pc[c] = place
    /\ Goto(c, next) /\ update_status(c, status)
    /\ <<place, next, status>> \in
           {<<"idle", "policy", "Pending">>, <<"policy", "try_use", "Pending">>,
            <<"policy", "wallet", "Pending">>, <<"try_use", "wallet", "Pending">>,
            <<"wallet", "engine", "Signing">>, <<"idle", "done", "none">>,
            <<"policy", "done", "Denied">>, <<"try_use", "done", "Denied">>,
            <<"wallet", "done", "Denied">>, <<"engine", "done", "Signed">>,
            <<"engine", "done", "Failed">>}

LoseCalls ==
    /\ \A c \in Session : pc'[c] \in {pc[c], "dropped"}
    /\ \A c \in Session : pc[c] = "idle" => pc'[c] = "idle"
    /\ \/ sessions' = sessions
       \/ /\ sessions' = [c \in Session |-> "none"]
          /\ \A c \in Session : pc'[c] \notin Active
    /\ pc' = [c \in Session |-> pc'[c]]

\* Every step of the handler and around it is of one of these kinds.
LEMMA StatusStep ==
    ASSUME StatusInv, [Next]_vars
    PROVE  \/ LoseCalls
           \/ \E c \in Session : \E place, next, status : Moves(c, place, next, status)
<1> USE DEF StatusInv
<1>1. ASSUME NEW c \in Session, NEW q \in Request, Arrive(c, q)
      PROVE  \/ Moves(c, "idle", "policy", "Pending")
             \/ Moves(c, "idle", "done", "none")
  BY <1>1 DEF Arrive, Moves, update_status
<1>2. ASSUME NEW c \in Session, CheckToken(c)
      PROVE  \/ Moves(c, "policy", "try_use", "Pending")
             \/ Moves(c, "policy", "wallet", "Pending")
             \/ Moves(c, "policy", "done", "Denied")
  BY <1>2 DEF CheckToken, Proceed, deny, Conclude, Moves, update_status
<1>3. ASSUME NEW c \in Session, TryUse(c)
      PROVE  \/ Moves(c, "try_use", "wallet", "Pending")
             \/ Moves(c, "try_use", "done", "Denied")
  BY <1>3 DEF TryUse, Proceed, deny, Conclude, Moves, update_status
<1>4. ASSUME NEW c \in Session,
             SkipWallet(c) \/ \E reply \in WalletReply : WalletAnswers(c, reply)
      PROVE  \/ Moves(c, "wallet", "engine", "Signing")
             \/ Moves(c, "wallet", "done", "Denied")
  <2>1. pc[c] = "wallet" /\ (Dispatch(c) \/ \E code : deny(c, code))
    BY <1>4 DEF SkipWallet, WalletAnswers, AwaitsWallet
  <2> QED BY <2>1 DEF Dispatch, deny, Conclude, Moves
<1>5. ASSUME NEW c \in Session, EngineReturns(c)
      PROVE  \/ Moves(c, "engine", "done", "Signed")
             \/ Moves(c, "engine", "done", "Failed")
  BY <1>5 DEF EngineReturns, Conclude, Moves
<1>6. ASSUME NEW c \in Session, EngineProduces(c) \/ DropCall(c)
      PROVE  LoseCalls
  BY <1>6 DEF EngineProduces, DropCall, AwaitsWallet, Goto, LoseCalls, Active, Places
<1>7. CASE Restart
  BY <1>7 DEF Restart, LoseCalls, Active, Places
<1>8. CASE AuditWorker \/ AuditLog \/ ClockStep \/ UNCHANGED vars
  BY <1>8 DEF AuditWorker, AuditLog, ClockStep, vars, LoseCalls
<1> QED
  BY <1>1, <1>2, <1>3, <1>4, <1>5, <1>6, <1>7, <1>8 DEF Next, Handler

\* Steps of these kinds keep statuses and places together, and move statuses
\* only forward.
LEMMA StatusKept ==
    ASSUME StatusInv,
           \/ LoseCalls
           \/ \E c \in Session : \E place, next, status : Moves(c, place, next, status)
    PROVE  /\ StatusInv'
           /\ \A c \in Session :
                  \/ sessions'[c] \in {sessions[c], "none"}
                  \/ <<sessions[c], sessions'[c]>> \in LegalMove
<1>1. CASE LoseCalls
  BY <1>1 DEF LoseCalls, StatusInv, Places, Active, SessionStatus
<1>2. ASSUME NEW c \in Session, NEW place, NEW next, NEW status,
             Moves(c, place, next, status)
      PROVE  /\ StatusInv'
             /\ \A d \in Session :
                    \/ sessions'[d] \in {sessions[d], "none"}
                    \/ <<sessions[d], sessions'[d]>> \in LegalMove
  BY <1>2 DEF Moves, Goto, update_status, StatusInv, Places, Active,
              SessionStatus, Terminal, LegalMove
<1> QED BY <1>1, <1>2

\* update_status never takes a session back or out of a terminal status, for
\* any number of calls: only the order of sign_tx's steps ensures it.
THEOREM SessionsForward == Spec => SessionsMoveForward
<1>1. Init => StatusInv
  BY DEF Init, StatusInv, Places, SessionStatus
<1>2. StatusInv /\ [Next]_vars =>
          /\ StatusInv'
          /\ \A c \in Session :
                 \/ sessions'[c] \in {sessions[c], "none"}
                 \/ <<sessions[c], sessions'[c]>> \in LegalMove
  BY StatusStep, StatusKept
<1> QED BY <1>1, <1>2, PTL DEF Spec, SessionsMoveForward

-----------------------------------------------------------------------------
(* The handler implements the abstract SigningEngine.                      *)

\* How the refinement mapping reads the end of a call.
Ended == [c \in Session |->
              IF c \notin dispatched \/ pc[c] = "engine" THEN "no"
              ELSE IF pc[c] = "dropped" THEN "abandoned"
              ELSE IF answer[c] = "Ok" THEN "Ok" ELSE "Err"]

\* A step that leaves dispatched calls and the produced signatures alone is
\* invisible to the engine.
LEMMA Unseen ==
    ASSUME UNCHANGED <<dispatched, produced>>,
           \A d \in dispatched : pc'[d] = pc[d] /\ answer'[d] = answer[d]
    PROVE  UNCHANGED Backend!engineVars
<1>1. Ended' = Ended
  BY DEF Ended
<1> QED BY <1>1 DEF Backend!engineVars, Ended

\* deny, before the engine is involved.
LEMMA DenyUnseen ==
    ASSUME IInv, NEW c \in Session, pc[c] \in {"policy", "try_use", "wallet"},
           NEW code, deny(c, code), UNCHANGED <<dispatched, produced>>
    PROVE  UNCHANGED Backend!engineVars
<1>1. \A d \in dispatched : pc'[d] = pc[d] /\ answer'[d] = answer[d]
  BY DEF deny, Conclude, Goto, IInv, Shape, Passed
<1> QED BY <1>1, Unseen

\* The await on the engine begins: the call is handed over, for the first time.
LEMMA DispatchSigns ==
    ASSUME IInv, NEW c \in Session, pc[c] = "wallet", Dispatch(c),
           UNCHANGED produced
    PROVE  Backend!Sign(c)
<1>1. c \notin dispatched /\ dispatched' = dispatched \cup {c}
  BY DEF Dispatch, IInv, Passed
<1>2. Ended' = Ended
  BY DEF Dispatch, Goto, Ended, IInv, Shape, Passed
<1> QED BY <1>1, <1>2 DEF Backend!Sign, Ended

\* The engine answers: success only with a signature that exists.
LEMMA EngineReturnsReturns ==
    ASSUME IInv, NEW c \in Session, EngineReturns(c)
    PROVE  Backend!Return(c)
<1>1. /\ c \in dispatched /\ Ended[c] = "no"
      /\ UNCHANGED <<dispatched, produced>>
  BY DEF EngineReturns, history, IInv, Passed, Ended
<1>2. PICK code : /\ pc' = [pc EXCEPT ![c] = "done"]
                  /\ answer' = [answer EXCEPT ![c] = code]
                  /\ code = "Ok" => c \in produced
  <2>1. \A err \in EngineError : grpc_code[err] # "Ok"
    BY DEF EngineError, grpc_code
  <2> QED BY <2>1 DEF EngineReturns, Conclude, Goto
<1>3. /\ pc'[c] = "done" /\ answer'[c] = code
      /\ \A d \in Session : d # c => pc'[d] = pc[d] /\ answer'[d] = answer[d]
  BY <1>2 DEF IInv, Shape
<1>4. CASE code = "Ok"
  <2>1. Ended' = [Ended EXCEPT ![c] = "Ok"]
    BY <1>1, <1>3, <1>4, ZenonT(60) DEF Ended
  <2> QED BY <1>1, <1>2, <1>4, <2>1 DEF Backend!Return, Ended
<1>5. CASE code # "Ok"
  <2>1. Ended' = [Ended EXCEPT ![c] = "Err"]
    BY <1>1, <1>3, <1>5, ZenonT(60) DEF Ended
  <2> QED BY <1>1, <2>1 DEF Backend!Return, Ended
<1> QED BY <1>4, <1>5

\* Calls dropped while the engine works on them, by their caller or by the end
\* of the process, are abandoned.
LEMMA LossAbandons ==
    ASSUME IInv, UNCHANGED <<dispatched, produced, answer>>,
           NEW gone \in SUBSET {c \in Session : pc[c] \in Active},
           pc' = [c \in Session |-> IF c \in gone THEN "dropped" ELSE pc[c]]
    PROVE  Backend!Next \/ UNCHANGED Backend!engineVars
<1>1. PICK left \in SUBSET Session : left = gone \cap dispatched
  BY ZenonT(60)
<1>2. left \subseteq {c \in dispatched : Ended[c] = "no"}
  BY <1>1 DEF IInv, Passed, Shape, Active, Ended
<1>3. Ended' = [c \in Session |-> IF c \in left THEN "abandoned" ELSE Ended[c]]
  BY <1>1 DEF IInv, Passed, Shape, Active, Ended
<1>4. CASE left = {}
  BY <1>3, <1>4 DEF Backend!engineVars, Ended
<1>5. CASE left # {}
  <2>1. Backend!Abandon(left)
    BY <1>2, <1>3, <1>5 DEF Backend!Abandon, Ended
  <2> QED BY <2>1 DEF Backend!Next
<1> QED BY <1>4, <1>5

\* Every step of the service is a step of the abstract engine or none.
LEMMA EngineStep ==
    IInv /\ [Next]_vars => [Backend!Next]_(Backend!engineVars)
<1> SUFFICES ASSUME IInv, [Next]_vars
             PROVE  Backend!Next \/ UNCHANGED Backend!engineVars
  OBVIOUS
<1>1. ASSUME NEW c \in Session, NEW q \in Request, Arrive(c, q)
      PROVE  UNCHANGED Backend!engineVars
  BY <1>1, Unseen DEF Arrive, Goto, history, IInv, Shape, Passed
<1>2. ASSUME NEW c \in Session, CheckToken(c)
      PROVE  UNCHANGED Backend!engineVars
  <2>1. pc[c] = "policy" /\ UNCHANGED <<dispatched, produced>>
    BY <1>2 DEF CheckToken
  <2>2. CASE deny(c, "FailedPrecondition")
    BY <2>1, <2>2, DenyUnseen
  <2>3. ASSUME NEW place, Proceed(c, place)
        PROVE  UNCHANGED Backend!engineVars
    BY <2>1, <2>3, Unseen DEF Proceed, Goto, IInv, Shape, Passed
  <2> QED BY <1>2, <2>2, <2>3 DEF CheckToken
<1>3. ASSUME NEW c \in Session, TryUse(c)
      PROVE  UNCHANGED Backend!engineVars
  <2>1. pc[c] = "try_use" /\ UNCHANGED <<dispatched, produced>>
    BY <1>3 DEF TryUse
  <2>2. CASE deny(c, "FailedPrecondition")
    BY <2>1, <2>2, DenyUnseen
  <2>3. CASE Proceed(c, "wallet")
    BY <2>1, <2>3, Unseen DEF Proceed, Goto, IInv, Shape, Passed
  <2> QED BY <1>3, <2>2, <2>3 DEF TryUse
<1>4. ASSUME NEW c \in Session,
             SkipWallet(c) \/ \E reply \in WalletReply : WalletAnswers(c, reply)
      PROVE  Backend!Next \/ UNCHANGED Backend!engineVars
  <2>1. /\ pc[c] = "wallet" /\ UNCHANGED produced
        /\ \/ Dispatch(c)
           \/ \E code : deny(c, code) /\ UNCHANGED dispatched
    BY <1>4 DEF SkipWallet, WalletAnswers, AwaitsWallet
  <2>2. CASE Dispatch(c)
    BY <2>1, <2>2, DispatchSigns DEF Backend!Next
  <2>3. CASE \E code : deny(c, code) /\ UNCHANGED dispatched
    BY <2>1, <2>3, DenyUnseen
  <2> QED BY <2>1, <2>2, <2>3
<1>5. ASSUME NEW c \in Session, EngineReturns(c)
      PROVE  Backend!Next
  BY <1>5, EngineReturnsReturns DEF Backend!Next
<1>6. ASSUME NEW c \in Session, EngineProduces(c)
      PROVE  Backend!Next
  <2>1. Ended' = Ended
    BY <1>6 DEF EngineProduces, Ended
  <2>2. Backend!Produce(c)
    BY <1>6, <2>1 DEF EngineProduces, Backend!Produce, Ended
  <2> QED BY <2>2 DEF Backend!Next
<1>7. ASSUME NEW c \in Session, DropCall(c)
      PROVE  Backend!Next \/ UNCHANGED Backend!engineVars
  <2>1. /\ UNCHANGED <<dispatched, produced, answer>>
        /\ {c} \in SUBSET {d \in Session : pc[d] \in Active}
        /\ pc' = [d \in Session |-> IF d \in {c} THEN "dropped" ELSE pc[d]]
    BY <1>7, ZenonT(60) DEF DropCall, AwaitsWallet, Goto, history, Active, IInv, Shape
  <2> QED BY <2>1, LossAbandons, ZenonT(60)
<1>8. CASE Restart
  <2> DEFINE gone == {d \in Session : pc[d] \in Active}
  <2>1. /\ UNCHANGED <<dispatched, produced, answer>>
        /\ gone \in SUBSET {d \in Session : pc[d] \in Active}
        /\ pc' = [d \in Session |-> IF d \in gone THEN "dropped" ELSE pc[d]]
    BY <1>8 DEF Restart
  <2> HIDE DEF gone
  <2> QED BY <2>1, LossAbandons
<1>9. CASE AuditWorker \/ AuditLog \/ ClockStep \/ UNCHANGED vars
  BY <1>9, Unseen DEF AuditWorker, AuditLog, ClockStep, vars, history
<1> QED
  BY <1>1, <1>2, <1>3, <1>4, <1>5, <1>6, <1>7, <1>8, <1>9 DEF Next, Handler

\* The service starts with nothing handed over.
LEMMA EngineInit == Init => Backend!Init
BY DEF Init, Backend!Init

\* sign_tx keeps to the SigningEngine contract for any number of concurrent
\* calls, whatever the caller, the wallet, the backend and restarts do.
THEOREM HandlerUsesEngine == Spec => UsesEngine
<1>1. Spec => Backend!Spec
  BY Inductive, EngineInit, EngineStep, PTL DEF Spec, Backend!Spec
<1> QED BY <1>1 DEF UsesEngine
=============================================================================
