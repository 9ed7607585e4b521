------------------------------- MODULE Turnkey -------------------------------
(***************************************************************************)
(* The Turnkey adapter (src/engine/turnkey.rs).  A key id is a wallet with *)
(* one account.  Every change is an activity: submitted, and polled a      *)
(* bounded number of times unless the submission already answers           *)
(* "completed".                                                            *)
(***************************************************************************)
EXTENDS CustodyHttp

chain_params(chain) ==
    IF scheme(chain) = "EcdsaSecp256k1" THEN "CURVE_SECP256K1"
    ELSE "CURVE_ED25519"

\* One stamped request, to submit or to query.
rpc(c, place, request, locals) == Await(c, place, request, locals)

\* classify_reqwest and decode_response
TurnkeyErrors == {"ProviderUnavailable", "Transient", "KeyNotFound", "Denied",
                  "Internal"}

fetch_wallet_account(c, wallet) ==
    rpc(c, "account", [kind |-> "get_wallet_account", id |-> wallet], NoLocals)

\* The public key of a wallet just created, which is kept meanwhile.
FetchNewPublicKey(c, wallet) ==
    rpc(c, "new_account", [kind |-> "get_wallet_account", id |-> wallet],
        [NoLocals EXCEPT !.id = wallet])

GetActivity(c, i, polls) ==
    rpc(c, "activity", [kind |-> "get_activity", id |-> i],
        [mem[c] EXCEPT !.id = i, !.polls = polls])

\* Mutant: one poll too many.
PollOnceMore(c) ==
    \/ Got(c, "activity") /\ wire[c].kind = "failed"
       /\ Return(c, Err({"Internal"}))
    \/ Got(c, "activity") /\ wire[c].kind = "pending"
       /\ IF mem[c].polls <= MaxPolls
          THEN GetActivity(c, mem[c].id, mem[c].polls + 1)
          ELSE Return(c, Err({"ProviderUnavailable"}))

\* Only "completed" and "failed" are told apart from the other statuses.
poll_activity(c) ==
    \/ Got(c, "activity") /\ wire[c].kind = "failed"
       /\ Return(c, Err({"Internal"}))
    \/ Got(c, "activity") /\ wire[c].kind = "pending"
       /\ IF mem[c].polls < MaxPolls
          THEN GetActivity(c, mem[c].id, mem[c].polls + 1)
          ELSE Return(c, Err({"ProviderUnavailable"}))

\* Mutant: an activity not completed at once is submitted again.
SubmitAgain(c) ==
    \/ Got(c, "submit") /\ wire[c].kind # "completed"
       /\ rpc(c, "submit", ask[c], mem[c])
    \/ poll_activity(c)

\* From the answer to the submission up to the completed activity.
submit_and_wait(c) ==
    \/ Got(c, "submit") /\ wire[c].kind # "completed"
       /\ GetActivity(c, wire[c].id, 1)
    \/ poll_activity(c)

\* Where the result is extracted.
Completed(c) ==
    /\ Got(c, "submit") \/ Got(c, "activity")
    /\ wire[c].kind = "completed"

\* The account is read before the payload is submitted, and its public key is
\* the one the signature is checked against.
TurnkeySign(c) ==
    \/ pc[c] = "start" /\ fetch_wallet_account(c, op[c].key)
    \/ Got(c, "account")
       /\ rpc(c, "submit", [kind |-> "sign_raw_payload", id |-> op[c].key],
              [NoLocals EXCEPT !.pk = wire[c].pk])
    \/ submit_and_wait(c)
    \/ Completed(c) /\ ReturnVerified(c, wire[c].sig, mem[c].pk)

CreateWallet(c, chain) ==
    \/ pc[c] = "start"
       /\ rpc(c, "submit", [kind |-> "create_wallet",
                            slot |-> chain_params(chain)], NoLocals)
    \/ submit_and_wait(c)
    \/ Completed(c) /\ FetchNewPublicKey(c, wire[c].key)

TurnkeyDkg(c) ==
    \/ CreateWallet(c, op[c].chain)
    \/ Got(c, "new_account")
       /\ Return(c, Created(mem[c].id, wire[c].pk))

\* Rotation is a fresh EVM wallet, reported under its own id.
TurnkeyRotateKey(c) ==
    \/ CreateWallet(c, "evm")
    \/ Got(c, "new_account") /\ Return(c, Rotated(mem[c].id, wire[c].pk, 0))

TurnkeyGetKeyMetadata(c) ==
    \/ pc[c] = "start" /\ fetch_wallet_account(c, op[c].key)
    \/ Got(c, "account")
       /\ Return(c, Metadata(op[c].key,
                             IF wire[c].pk[2] = "CURVE_SECP256K1" THEN "evm"
                             ELSE "solana", wire[c].pk))

TurnkeyRestoreShare(c) ==
    pc[c] = "start" /\ Return(c, Err({"Unsupported"}))

TurnkeyStep(c) ==
    \/ op[c].name = "sign" /\ TurnkeySign(c)
    \/ op[c].name = "dkg" /\ TurnkeyDkg(c)
    \/ op[c].name = "rotate_key" /\ TurnkeyRotateKey(c)
    \/ op[c].name = "get_key_metadata" /\ TurnkeyGetKeyMetadata(c)
    \/ op[c].name = "restore_share" /\ TurnkeyRestoreShare(c)
    \/ ExchangeFails(c, TurnkeyErrors)

\* External: the Turnkey API.  A submission may complete on the spot.
TurnkeyServes(c) ==
    \/ /\ Unserved(c, "get_wallet_account")
       /\ \E s \in SlotsOf(ask[c].id) :
              Reply(c, [kind |-> "ok", pk |-> PublicKey(ask[c].id, s, 0)])
       /\ UNCHANGED providerVars
    \/ /\ Unserved(c, "sign_raw_payload")
       /\ \E s \in SlotsOf(ask[c].id),
              status \in {"pending", "completed", "failed"} :
              LET tx == Work(c, "sign", ask[c].id, s, status)
              IN  /\ txs' = Append(txs, tx)
                  /\ \E answer \in Delivered(FreshTx, tx) : Reply(c, answer)
       /\ UNCHANGED <<owner, held>>
    \/ /\ Unserved(c, "create_wallet")
       /\ \/ LET tx == Work(c, "create", 0, ask[c].slot, "pending")
             IN  /\ txs' = Append(txs, tx)
                 /\ Reply(c, [kind |-> "pending", id |-> FreshTx])
                 /\ UNCHANGED <<owner, held>>
          \/ LET tx == Work(c, "create", FreshId, ask[c].slot, "completed")
             IN  /\ txs' = Append(txs, tx)
                 /\ Allot(c, ask[c].slot)
                 /\ \E answer \in Delivered(FreshTx, tx) : Reply(c, answer)
    \/ /\ Unserved(c, "get_activity")
       /\ \E answer \in Delivered(ask[c].id, txs[ask[c].id]) : Reply(c, answer)
       /\ UNCHANGED providerVars
=============================================================================
