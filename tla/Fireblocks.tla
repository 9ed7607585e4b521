----------------------------- MODULE Fireblocks -----------------------------
(***************************************************************************)
(* The Fireblocks adapter (src/engine/fireblocks.rs).  A key id is a vault *)
(* account; a chain's wallet is an asset of the account.  Signing is a RAW *)
(* transaction that is polled until it ends or a deadline passes.          *)
(***************************************************************************)
EXTENDS CustodyHttp

asset_id == [evm |-> "ETH", solana |-> "SOL", bitcoin |-> "BTC",
             aptos |-> "APT", sui |-> "SUI"]

\* A POST or GET under a JWT for its own path and body.
SignedRequest(c, place, request, locals) == Await(c, place, request, locals)

\* classify_reqwest and decode_response
FireblocksErrors == {"ProviderUnavailable", "Transient", "KeyNotFound", "Denied",
                     "Internal"}

fetch_public_key(c, vault, asset, index) ==
    SignedRequest(c, "public_key",
                  [kind |-> "public_key_info", id |-> vault, slot |-> asset,
                   index |-> index], [NoLocals EXCEPT !.id = vault])

AddAsset(c, vault, asset) ==
    SignedRequest(c, "asset",
                  [kind |-> "asset_wallet", id |-> vault, slot |-> asset],
                  [NoLocals EXCEPT !.id = vault])

\* Mutant: every vault gets the EVM asset.
DkgAlwaysEvm(c) ==
    \/ /\ pc[c] = "start"
       /\ SignedRequest(c, "vault", [kind |-> "vault_account"], NoLocals)
    \/ Got(c, "vault") /\ AddAsset(c, wire[c].id, asset_id.evm)
    \/ Got(c, "asset") /\ fetch_public_key(c, mem[c].id, asset_id.evm, 0)
    \/ Got(c, "public_key")
       /\ Return(c, Created(mem[c].id, wire[c].pk))

FireblocksDkg(c) ==
    \/ /\ pc[c] = "start"
       /\ SignedRequest(c, "vault", [kind |-> "vault_account"], NoLocals)
    \/ Got(c, "vault") /\ AddAsset(c, wire[c].id, asset_id[op[c].chain])
    \/ Got(c, "asset")
       /\ fetch_public_key(c, mem[c].id, asset_id[op[c].chain], 0)
    \/ Got(c, "public_key")
       /\ Return(c, Created(mem[c].id, wire[c].pk))

GetTransaction(c, i, polls) ==
    SignedRequest(c, "poll", [kind |-> "transaction", id |-> i],
                  [NoLocals EXCEPT !.id = i, !.polls = polls])

\* Mutant: the loop has no deadline.
PollForEver(c) ==
    \/ Got(c, "poll") /\ wire[c].kind = "completed"
       /\ ReturnVerified(c, wire[c].sig, wire[c].pk)
    \/ Got(c, "poll") /\ wire[c].kind = "failed"
       /\ Return(c, Err({"Internal"}))
    \/ Got(c, "poll") /\ wire[c].kind = "pending"
       /\ GetTransaction(c, mem[c].id, mem[c].polls)

\* Mutant: whatever has not failed by the deadline counts as signed.
PollAssumesSigned(c) ==
    \/ Got(c, "poll") /\ wire[c].kind = "completed"
       /\ ReturnVerified(c, wire[c].sig, wire[c].pk)
    \/ Got(c, "poll") /\ wire[c].kind = "failed"
       /\ Return(c, Err({"Internal"}))
    \/ Got(c, "poll") /\ wire[c].kind = "pending"
       /\ Return(c, [kind |-> "signed", pk |-> <<>>, sig |-> Nothing])

\* The deadline can pass during any poll.
poll_transaction(c) ==
    \/ Got(c, "poll") /\ wire[c].kind = "completed"
       /\ ReturnVerified(c, wire[c].sig, wire[c].pk)
    \/ Got(c, "poll") /\ wire[c].kind = "failed"
       /\ Return(c, Err({"Internal"}))
    \/ Got(c, "poll") /\ wire[c].kind = "pending"
       /\ \/ Return(c, Err({"Transient"}))
          \/ /\ mem[c].polls < MaxPolls
             /\ GetTransaction(c, mem[c].id, mem[c].polls + 1)

FireblocksSign(c) ==
    \/ /\ pc[c] = "start"
       /\ SignedRequest(c, "create_tx",
                        [kind |-> "create_tx", id |-> op[c].key,
                         slot |-> asset_id[op[c].chain]], NoLocals)
    \/ Got(c, "create_tx") /\ GetTransaction(c, wire[c].id, 1)
    \/ poll_transaction(c)

\* Rotation adds the EVM asset to the vault and reports its second key.
FireblocksRotateKey(c) ==
    \/ pc[c] = "start" /\ AddAsset(c, op[c].key, asset_id.evm)
    \/ Got(c, "asset") /\ fetch_public_key(c, op[c].key, asset_id.evm, 1)
    \/ Got(c, "public_key") /\ Return(c, Rotated(op[c].key, wire[c].pk, 0))

FireblocksGetKeyMetadata(c) ==
    \/ pc[c] = "start" /\ fetch_public_key(c, op[c].key, asset_id.evm, 0)
    \/ Got(c, "public_key") /\ Return(c, Metadata(op[c].key, "evm", wire[c].pk))

FireblocksRestoreShare(c) ==
    pc[c] = "start" /\ Return(c, Err({"Internal"}))

FireblocksStep(c) ==
    \/ op[c].name = "sign" /\ FireblocksSign(c)
    \/ op[c].name = "dkg" /\ FireblocksDkg(c)
    \/ op[c].name = "rotate_key" /\ FireblocksRotateKey(c)
    \/ op[c].name = "get_key_metadata" /\ FireblocksGetKeyMetadata(c)
    \/ op[c].name = "restore_share" /\ FireblocksRestoreShare(c)
    \/ ExchangeFails(c, FireblocksErrors)

\* External: the Fireblocks API.  A vault account begins with no asset.
FireblocksServes(c) ==
    \/ /\ Unserved(c, "vault_account")
       /\ Allot(c, "none")
       /\ Reply(c, [kind |-> "ok", id |-> FreshId])
       /\ UNCHANGED txs
    \/ /\ Unserved(c, "asset_wallet") /\ SlotsOf(ask[c].id) # {}
       /\ held' = held \cup {<<ask[c].id, ask[c].slot>>}
       /\ Reply(c, [kind |-> "ok"])
       /\ UNCHANGED <<owner, txs>>
    \/ /\ Unserved(c, "public_key_info") /\ ask[c].slot \in SlotsOf(ask[c].id)
       /\ Reply(c, [kind |-> "ok",
                    pk |-> PublicKey(ask[c].id, ask[c].slot, ask[c].index)])
       /\ UNCHANGED providerVars
    \/ /\ Unserved(c, "create_tx") /\ ask[c].slot \in SlotsOf(ask[c].id)
       /\ txs' = Append(txs, Work(c, "sign", ask[c].id, ask[c].slot, "pending"))
       /\ Reply(c, [kind |-> "ok", id |-> FreshTx])
       /\ UNCHANGED <<owner, held>>
    \/ /\ Unserved(c, "transaction")
       /\ \E answer \in Delivered(ask[c].id, txs[ask[c].id]) : Reply(c, answer)
       /\ UNCHANGED providerVars
=============================================================================
