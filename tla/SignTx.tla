------------------------------- MODULE SignTx -------------------------------
(***************************************************************************)
(* The SignTx handler (src/grpc/service.rs) over the session store and the *)
(* used-token store (src/store.rs), the policy token check, the wallet     *)
(* binding check (src/wallet.rs), the signing engine and the audit         *)
(* emitter.  Calls run concurrently on the runtime's threads; each pauses  *)
(* at its two awaits, where its future can also be dropped.  The process   *)
(* can restart at any time, which loses every store.                       *)
(*                                                                         *)
(* The engine is any SigningEngine: once dispatched it may produce a       *)
(* signature at any later time, even after the handler has given up on it  *)
(* (a custody provider finishing late), and it may answer with any error.  *)
(***************************************************************************)
EXTENDS AuditEmitter, PolicyToken

CONSTANTS
    Request,      \* the SignTx requests to explore, each with its token
    WalletReply,  \* what Wallet Management may answer
    Configs       \* the service configurations to explore

\* A configuration of the service: MpcService's two optional dependencies and
\* its two development escape hatches.
Config == [skip_policy : BOOLEAN, verifier : BOOLEAN,
           skip_wallet_check : BOOLEAN, wallet : BOOLEAN]

TokenId == {q.token.token_id : q \in Request}
Expiry == {q.token.expires_at : q \in Request}

\* A wallet reply is a failed call, a NOT_FOUND status, or a record.
ASSUME ServiceParams ==
    /\ Configs \subseteq Config
    /\ \A q \in Request :
           /\ DOMAIN q = {"token", "tx_payload", "key_id", "chain"}
           /\ q.token \in Token(TokenId, {r.tx_payload : r \in Request},
                               {r.key_id : r \in Request},
                               {r.chain : r \in Request})
    /\ \A reply \in WalletReply :
           /\ DOMAIN reply = {"status", "key_ids", "current_key_id"}
           /\ reply.status \in {"error", "not_found", "ok"}

VARIABLES
    cfg,         \* the configuration, fixed at start-up
    now,         \* the wall clock, in seconds
    pc,          \* where each call's handler is
    req,         \* the request of each call that has arrived
    sessions,    \* InMemSessionStore: the status of each session
    used,        \* InMemUsedTokenStore: token ids with their expiry
    answer,      \* the gRPC status code returned to the caller
    checked,     \* history: when the claims of each call's token were checked
    granted,     \* history: calls whose token passed the single-use gate
    bound,       \* history: calls whose key Wallet Management confirmed
    dispatched,  \* history: calls handed to the engine
    produced,    \* history: calls for which the engine made a signature
    past         \* history: calls begun before the last restart

history == <<checked, granted, bound, dispatched, produced, past>>
vars == <<cfg, now, pc, req, sessions, used, answer, history, emitterVars>>

Active == {"policy", "try_use", "wallet", "engine"}
Terminal == {"Denied", "Signed", "Failed"}
SessionStatus == {"none", "Pending", "Signing"} \cup Terminal
NoRequest == [tx_payload |-> ""]
UsedEntry == [token_id : TokenId, expires_at : Expiry]

EngineError == {"ProviderUnavailable", "KeyNotFound", "Denied", "Transient",
                "Unsupported", "Internal"}

\* Mutant: an error kind that falls through to a code of no use to callers.
grpc_code_unmapped == [e \in EngineError |-> "Unknown"]

grpc_code == [ProviderUnavailable |-> "Unavailable",
              KeyNotFound |-> "NotFound",
              Denied |-> "PermissionDenied",
              Transient |-> "Aborted",
              Unsupported |-> "Unimplemented",
              Internal |-> "Internal"]

Code == {"none", "Ok", "InvalidArgument", "FailedPrecondition", "Unavailable",
         "NotFound", "PermissionDenied", "Aborted", "Unimplemented", "Internal"}

TypeOK ==
    /\ EmitterTypeOK
    /\ cfg \in Config
    /\ now \in Instant
    /\ pc \in [Session -> Active \cup {"idle", "done", "dropped"}]
    /\ req \in [Session -> Request \cup {NoRequest}]
    /\ \A c \in Session : pc[c] \in Active => req[c] \in Request
    /\ sessions \in [Session -> SessionStatus]
    /\ used \subseteq UsedEntry
    /\ answer \in [Session -> Code]
    /\ checked \in [Session -> Instant]
    /\ granted \subseteq Session
    /\ bound \subseteq Session
    /\ dispatched \subseteq Session
    /\ produced \subseteq Session
    /\ past \subseteq Session

Init ==
    /\ EmitterInit
    /\ cfg \in Configs
    /\ now = 0
    /\ pc = [c \in Session |-> "idle"]
    /\ req = [c \in Session |-> NoRequest]
    /\ sessions = [c \in Session |-> "none"]
    /\ used = {}
    /\ answer = [c \in Session |-> "none"]
    /\ checked = [c \in Session |-> 0]
    /\ granted = {}
    /\ bound = {}
    /\ dispatched = {}
    /\ produced = {}
    /\ past = {}

-----------------------------------------------------------------------------
(* Moves shared by the steps of the handler.                               *)

Goto(c, place) == pc' = [pc EXCEPT ![c] = place]

update_status(c, status) == sessions' = [sessions EXCEPT ![c] = status]

\* Mutant: the store is not told the outcome.
ConcludeQuietly(c, status, code) ==
    /\ Goto(c, "done")
    /\ Emit([session |-> c, result |-> status])
    /\ answer' = [answer EXCEPT ![c] = code]
    /\ UNCHANGED sessions

\* The session reaches `status`, its record is emitted, the caller is answered.
Conclude(c, status, code) ==
    /\ Goto(c, "done")
    /\ update_status(c, status)
    /\ Emit([session |-> c, result |-> status])
    /\ answer' = [answer EXCEPT ![c] = code]

deny(c, code) == Conclude(c, "Denied", code)

Proceed(c, place) ==
    /\ Goto(c, place)
    /\ UNCHANGED <<sessions, answer, emitterVars>>

-----------------------------------------------------------------------------
(* The request arrives: validation, then a new session.                    *)

Valid(q) == q.chain # "unspecified" /\ q.key_id # "" /\ q.tx_payload # ""

Arrive(c, q) ==
    /\ pc[c] = "idle"
    /\ req' = [req EXCEPT ![c] = q]
    /\ IF Valid(q)
       THEN /\ Goto(c, "policy")
            /\ update_status(c, "Pending")
            /\ UNCHANGED answer
       ELSE /\ Goto(c, "done")
            /\ answer' = [answer EXCEPT ![c] = "InvalidArgument"]
            /\ UNCHANGED sessions
    /\ UNCHANGED <<cfg, now, used, history, emitterVars>>

(* 1. Policy decision token.  The claims are judged by the clock read here; *)
(*    the single-use gate is a later, separate access to the shared store.  *)

CheckToken(c) ==
    /\ pc[c] = "policy"
    /\ \/ cfg.skip_policy /\ Proceed(c, "wallet") /\ UNCHANGED checked
       \/ /\ ~cfg.skip_policy /\ ~cfg.verifier
          /\ deny(c, "FailedPrecondition")
          /\ UNCHANGED checked
       \/ /\ ~cfg.skip_policy /\ cfg.verifier
          /\ IF Verdict(req[c].token, req[c], now) = "None"
             THEN Proceed(c, "try_use")
             ELSE deny(c, "FailedPrecondition")
          /\ checked' = [checked EXCEPT ![c] = now]
    /\ UNCHANGED <<cfg, now, req, used, granted, bound, dispatched, produced,
                   past>>

\* Mutant: entries past their expiry no longer count.
IsUsedUnexpired(id) ==
    \E e \in used : e.token_id = id /\ e.expires_at > now

\* InMemUsedTokenStore::contains_key
IsUsed(id) == \E e \in used : e.token_id = id

TryUse(c) ==
    /\ pc[c] = "try_use"
    /\ IF IsUsed(req[c].token.token_id)
       THEN /\ deny(c, "FailedPrecondition")
            /\ UNCHANGED <<used, granted>>
       ELSE /\ used' = used \cup {[token_id |-> req[c].token.token_id,
                                   expires_at |-> req[c].token.expires_at]}
            /\ granted' = granted \cup {c}
            /\ Proceed(c, "wallet")
    /\ UNCHANGED <<cfg, now, req, checked, bound, dispatched, produced, past>>

(* 2. Wallet Management key binding.                                       *)

check_key_binding(reply, key) ==
    IF reply.status = "error" THEN "Unavailable"
    ELSE IF reply.status = "not_found" THEN "NotFound"
    ELSE IF reply.key_ids = {} /\ reply.current_key_id = "" THEN "NotFound"
    ELSE IF reply.current_key_id # key /\ key \notin reply.key_ids
         THEN "KeyMismatch"
    ELSE "Bound"

\* Mutant: the session is not marked as signing.
DispatchUnmarked(c) ==
    /\ Goto(c, "engine")
    /\ dispatched' = dispatched \cup {c}
    /\ UNCHANGED <<sessions, answer, emitterVars>>

Dispatch(c) ==
    /\ Goto(c, "engine")
    /\ update_status(c, "Signing")
    /\ dispatched' = dispatched \cup {c}
    /\ UNCHANGED <<answer, emitterVars>>

\* Without a wallet call: the check is skipped, or there is no client.
SkipWallet(c) ==
    /\ pc[c] = "wallet"
    /\ \/ cfg.skip_wallet_check /\ Dispatch(c)
       \/ /\ ~cfg.skip_wallet_check /\ ~cfg.wallet
          /\ deny(c, "FailedPrecondition")
          /\ UNCHANGED dispatched
    /\ UNCHANGED <<cfg, now, req, used, checked, granted, bound, produced, past>>

AwaitsWallet(c) ==
    pc[c] = "wallet" /\ ~cfg.skip_wallet_check /\ cfg.wallet

WalletAnswers(c, reply) ==
    /\ AwaitsWallet(c)
    /\ LET verdict == check_key_binding(reply, req[c].key_id)
       IN  CASE verdict = "Bound" -> Dispatch(c)
             [] verdict = "Unavailable" ->
                    deny(c, "Unavailable") /\ UNCHANGED dispatched
             [] OTHER ->
                    deny(c, "FailedPrecondition") /\ UNCHANGED dispatched
    /\ bound' = IF /\ reply.status = "ok"
                   /\ req[c].key_id \in reply.key_ids \cup {reply.current_key_id}
                THEN bound \cup {c} ELSE bound
    /\ UNCHANGED <<cfg, now, req, used, checked, granted, produced, past>>

(* 3. The engine.                                                          *)

\* External: somewhere behind SigningEngine::sign a signature comes to exist.
EngineProduces(c) ==
    /\ c \in dispatched \ produced
    /\ produced' = produced \cup {c}
    /\ UNCHANGED <<cfg, now, pc, req, sessions, used, answer, checked, granted,
                   bound, dispatched, past, emitterVars>>

\* Mutant: the audit result is written before the engine's is looked at.
EngineReturnsSigned(c) ==
    /\ pc[c] = "engine"
    /\ \/ c \in produced /\ Conclude(c, "Signed", "Ok")
       \/ \E err \in EngineError : Conclude(c, "Signed", grpc_code[err])
    /\ UNCHANGED <<cfg, now, req, used, history>>

\* Mutant: a provider's refusal is recorded as a denial of the service's own.
EngineReturnsDenied(c) ==
    /\ pc[c] = "engine"
    /\ \/ c \in produced /\ Conclude(c, "Signed", "Ok")
       \/ \E err \in EngineError :
              Conclude(c, IF err = "Denied" THEN "Denied" ELSE "Failed",
                       grpc_code[err])
    /\ UNCHANGED <<cfg, now, req, used, history>>

\* Mutant: the answer does not wait for the signature.
EngineReturnsEarly(c) ==
    /\ pc[c] = "engine"
    /\ \/ Conclude(c, "Signed", "Ok")
       \/ \E err \in EngineError : Conclude(c, "Failed", grpc_code[err])
    /\ UNCHANGED <<cfg, now, req, used, history>>

\* Mutant: the handler waits for a signature without a bound.
EngineReturnsLate(c) ==
    /\ pc[c] = "engine"
    /\ c \in produced
    /\ Conclude(c, "Signed", "Ok")
    /\ UNCHANGED <<cfg, now, req, used, history>>

EngineReturns(c) ==
    /\ pc[c] = "engine"
    /\ \/ c \in produced /\ Conclude(c, "Signed", "Ok")
       \/ \E err \in EngineError : Conclude(c, "Failed", grpc_code[err])
    /\ UNCHANGED <<cfg, now, req, used, history>>

-----------------------------------------------------------------------------
(* What happens around the handler.                                        *)

\* The caller disconnects or its deadline passes while the handler awaits:
\* the future is dropped and no code after the await runs.
DropCall(c) ==
    /\ AwaitsWallet(c) \/ pc[c] = "engine"
    /\ Goto(c, "dropped")
    /\ UNCHANGED <<cfg, now, req, sessions, used, answer, history, emitterVars>>

\* The process ends and starts again with empty stores.
Restart ==
    /\ EmitterCrash
    /\ pc' = [c \in Session |-> IF pc[c] \in Active THEN "dropped" ELSE pc[c]]
    /\ sessions' = [c \in Session |-> "none"]
    /\ used' = {}
    /\ past' = {c \in Session : pc[c] # "idle"}
    /\ UNCHANGED <<cfg, now, req, answer, checked, granted, bound, dispatched,
                   produced>>

\* The wall clock is not monotonic: it can be stepped either way.
ClockStep ==
    /\ now' \in Instant \ {now}
    /\ UNCHANGED <<cfg, pc, req, sessions, used, answer, history, emitterVars>>

AuditWorker ==
    /\ Worker
    /\ UNCHANGED <<cfg, now, pc, req, sessions, used, answer, history>>

AuditLog ==
    /\ BrokerStores
    /\ UNCHANGED <<cfg, now, pc, req, sessions, used, answer, history>>

Handler(c) ==
    \/ CheckToken(c) \/ TryUse(c) \/ SkipWallet(c) \/ EngineReturns(c)
    \/ \E reply \in WalletReply : WalletAnswers(c, reply)

Next ==
    \/ \E c \in Session :
           \/ \E q \in Request : Arrive(c, q)
           \/ Handler(c) \/ EngineProduces(c) \/ DropCall(c)
    \/ AuditWorker
    \/ AuditLog
    \/ Restart
    \/ ClockStep

Spec == Init /\ [][Next]_vars

\* InMemUsedTokenStore::prune, which the service as wired never calls.
Prune ==
    /\ used' = {e \in used : e.expires_at > now}
    /\ UNCHANGED <<cfg, now, pc, req, sessions, answer, history, emitterVars>>

SpecWithPrune == Init /\ [][Next \/ Prune]_vars

\* A handler step is straight-line code; the wallet call has a five-second
\* timeout and every engine bounds its waiting, so both awaits end.
Fairness ==
    /\ \A c \in Session : WF_vars(Handler(c))
    /\ WF_vars(AuditWorker)

FairSpec == Spec /\ Fairness

-----------------------------------------------------------------------------
(* Correctness.                                                            *)

SameToken(c, d) == req[c].token.token_id = req[d].token.token_id

\* A policy decision token is single-use: in the life of one process at most
\* one call gets past the try_use gate with a given token id, however the
\* calls interleave, whether or not the first one went on to be signed.
SingleUse ==
    \A c, d \in granted \ past : SameToken(c, d) => c = d

\* Nothing reaches the engine unapproved: with the escape hatches off, a
\* dispatched call carried a token that approves this very payload, key and
\* chain (in true, unbounded arithmetic), consumed it, and had its key
\* confirmed by Wallet Management.  A missing verifier or client fails closed.
DispatchAuthorised ==
    \A c \in dispatched :
        /\ \/ cfg.skip_policy
           \/ /\ cfg.verifier
              /\ c \in granted
              /\ Approves(req[c].token, req[c], checked[c])
        /\ cfg.skip_wallet_check \/ (cfg.wallet /\ c \in bound)

\* A record that leaves the handler is the only one of its session and tells
\* what happened: the result agrees with the answer the caller got, and
\* "Signed" is said only of a signature that exists.
RecordsTellOutcome ==
    /\ \A i, j \in DOMAIN emitted :
           emitted[i].session = emitted[j].session => i = j
    /\ \A rec \in ToSet(emitted) :
           /\ pc[rec.session] = "done"
           /\ (rec.result = "Signed") <=> (answer[rec.session] = "Ok")
           /\ rec.result = "Signed" => rec.session \in produced
           /\ rec.result = "Denied" => rec.session \notin dispatched

\* Every answered attempt that opened a session has settled: its status is
\* terminal and its record was emitted, with that status as the result.
AnsweredAttemptsSettled ==
    \A c \in Session \ past :
        (pc[c] = "done" /\ answer[c] # "InvalidArgument") =>
            /\ sessions[c] \in Terminal
            /\ [session |-> c, result |-> sessions[c]] \in ToSet(emitted)

LegalMove == {<<"none", "Pending">>, <<"Pending", "Denied">>,
              <<"Pending", "Signing">>, <<"Signing", "Signed">>,
              <<"Signing", "Failed">>}

\* update_status overwrites whatever is there, so only the order of the
\* handler's steps keeps a session on its way: pending, then denied or
\* signing, then signed or failed, and never on from there (a restart empties
\* the store).
SessionsMoveForward ==
    [][\A c \in Session :
           \/ sessions'[c] \in {sessions[c], "none"}
           \/ <<sessions[c], sessions'[c]>> \in LegalMove]_vars

\* The backend as the handler uses it.
Backend == INSTANCE SigningEngine WITH
    Call <- Session, open <- dispatched, made <- produced,
    ended <- [c \in Session |->
                  IF c \notin dispatched \/ pc[c] = "engine" THEN "no"
                  ELSE IF pc[c] = "dropped" THEN "abandoned"
                  ELSE IF answer[c] = "Ok" THEN "Ok" ELSE "Err"]

\* The handler keeps to the contract of the SigningEngine trait, the one every
\* custody adapter implements: it hands a call over once, settles on the one
\* answer it gets, claims success only of a signature that exists, and stays
\* out of what the backend does after the caller or the process has gone.
UsesEngine == Backend!Spec

\* Every attempt ends: no combination of token, wallet and engine outcomes
\* leaves a handler waiting for ever.
AttemptsEnd ==
    \A c \in Session : (pc[c] = "policy") ~> (pc[c] \in {"done", "dropped"})

(* What the repository says of the service and the code does not do.       *)

\* audit.rs: "Every signing attempt - approved or denied - produces a
\* SigningAuditRecord".
EndedAttemptsEmit ==
    \A c \in Session \ past :
        (pc[c] \in {"done", "dropped"} /\ Valid(req[c])) =>
            \E rec \in ToSet(emitted) : rec.session = c
=============================================================================
