-------------------------------- MODULE Dfns --------------------------------
(***************************************************************************)
(* The Dfns adapter (src/engine/dfns.rs).  A key id is the signing key of  *)
(* a wallet.  Every change is preceded by the user-action exchange: a      *)
(* challenge for the exact request, then a one-time token that has to come *)
(* with it.                                                                *)
(***************************************************************************)
EXTENDS CustodyHttp

signing_scheme(chain) ==
    IF scheme(chain) = "EcdsaSecp256k1" THEN "ECDSA" ELSE "EdDSA"

\* classify_reqwest and decode_response
DfnsErrors == {"ProviderUnavailable", "Transient", "KeyNotFound", "Denied",
               "Internal"}

\* The assertion of the service account over a challenge.
first_factor(challenge) == [kind |-> "action", challenge |-> challenge]

post_json_no_action(c, place, request) == Await(c, place, request, NoLocals)

\* The two exchanges that give a token for this body.
user_action_token(c, body) ==
    \/ pc[c] = "start"
       /\ post_json_no_action(c, "init", [kind |-> "init", payload |-> body])
    \/ Got(c, "init")
       /\ post_json_no_action(c, "action", first_factor(wire[c].challenge))

\* POST with a token obtained for this request.
post_json(c, body) ==
    \/ user_action_token(c, body)
    \/ Got(c, "action")
       /\ Await(c, "post", [kind |-> "post", body |-> body,
                            token |-> wire[c].token], NoLocals)

get_json(c, place, request, locals) == Await(c, place, request, locals)

wallet_body(slot) == [kind |-> "wallets", slot |-> slot]

DfnsDkg(c) ==
    \/ post_json(c, wallet_body(signing_scheme(op[c].chain)))
    \/ Got(c, "post")
       /\ Return(c, Created(wire[c].id, wire[c].pk))

\* Rotation is a fresh ECDSA wallet, its key reported under the old id.
DfnsRotateKey(c) ==
    \/ post_json(c, wallet_body("ECDSA"))
    \/ Got(c, "post") /\ Return(c, Rotated(op[c].key, wire[c].pk, 0))

GetSignature(c, i, polls) ==
    get_json(c, "signature", [kind |-> "signature", id |-> i],
             [NoLocals EXCEPT !.id = i, !.polls = polls])

\* The deadline can pass during any poll.
wait_for_signature(c) ==
    \/ Got(c, "signature") /\ wire[c].kind = "completed"
       /\ ReturnVerified(c, wire[c].sig, wire[c].pk)
    \/ Got(c, "signature") /\ wire[c].kind = "failed"
       /\ Return(c, Err({"Denied"}))
    \/ Got(c, "signature") /\ wire[c].kind = "pending"
       /\ \/ Return(c, Err({"Transient"}))
          \/ /\ mem[c].polls < MaxPolls
             /\ GetSignature(c, mem[c].id, mem[c].polls + 1)

\* The signature may come with the answer to the POST.
DfnsSign(c) ==
    \/ post_json(c, [kind |-> "signatures", id |-> op[c].key])
    \/ Got(c, "post") /\ wire[c].kind = "completed"
       /\ ReturnVerified(c, wire[c].sig, wire[c].pk)
    \/ Got(c, "post") /\ wire[c].kind # "completed"
       /\ GetSignature(c, wire[c].id, 1)
    \/ wait_for_signature(c)

\* The id of a key or, failing that, of a wallet.
DfnsGetKeyMetadata(c) ==
    \/ pc[c] = "start"
       /\ get_json(c, "key", [kind |-> "key", id |-> op[c].key], NoLocals)
    \/ Got(c, "key") /\ Return(c, Metadata(op[c].key, "evm", wire[c].pk))
    \/ Got(c, "wallet") /\ Return(c, Metadata(op[c].key, "evm", wire[c].pk))

\* 404 from the key endpoint is not yet an answer.
DfnsExchangeFails(c) ==
    \/ pc[c] # "key" /\ ExchangeFails(c, DfnsErrors)
    \/ pc[c] = "key"
       /\ \/ ExchangeFails(c, DfnsErrors \ {"KeyNotFound"})
          \/ get_json(c, "wallet", [kind |-> "wallet", id |-> op[c].key],
                      NoLocals)

DfnsRestoreShare(c) ==
    pc[c] = "start" /\ Return(c, Err({"Internal"}))

DfnsStep(c) ==
    \/ op[c].name = "sign" /\ DfnsSign(c)
    \/ op[c].name = "dkg" /\ DfnsDkg(c)
    \/ op[c].name = "rotate_key" /\ DfnsRotateKey(c)
    \/ op[c].name = "get_key_metadata" /\ DfnsGetKeyMetadata(c)
    \/ op[c].name = "restore_share" /\ DfnsRestoreShare(c)
    \/ DfnsExchangeFails(c)

\* External: a token admits the request it was made for, once.
Admitted(c, endpoint) ==
    /\ Unserved(c, "post") /\ ask[c].body.kind = endpoint
    /\ ask[c].token.payload = ask[c].body
    /\ \A i \in DOMAIN txs : txs[i].call # ask[c].token.call
    /\ \A n \in DOMAIN owner : owner[n] # ask[c].token.call

\* External: the Dfns API.
DfnsServes(c) ==
    \/ /\ Unserved(c, "init")
       /\ Reply(c, [kind |-> "ok", challenge |-> ask[c].payload])
       /\ UNCHANGED providerVars
    \/ /\ Unserved(c, "action")
       /\ Reply(c, [kind |-> "ok", token |-> [payload |-> ask[c].challenge,
                                              call |-> c]])
       /\ UNCHANGED providerVars
    \/ /\ Admitted(c, "wallets")
       /\ Allot(c, ask[c].body.slot)
       /\ Reply(c, [kind |-> "ok", id |-> FreshId,
                    pk |-> PublicKey(FreshId, ask[c].body.slot, 0)])
       /\ UNCHANGED txs
    \/ /\ Admitted(c, "signatures")
       /\ \E s \in SlotsOf(ask[c].body.id),
              status \in {"pending", "completed", "failed"} :
              LET tx == Work(c, "sign", ask[c].body.id, s, status)
              IN  /\ txs' = Append(txs, tx)
                  /\ \E answer \in Delivered(FreshTx, tx) : Reply(c, answer)
       /\ UNCHANGED <<owner, held>>
    \/ /\ Unserved(c, "signature")
       /\ \E answer \in Delivered(ask[c].id, txs[ask[c].id]) : Reply(c, answer)
       /\ UNCHANGED providerVars
    \/ /\ Unserved(c, op[c].names)
       /\ \E s \in SlotsOf(ask[c].id) :
              Reply(c, [kind |-> "ok", pk |-> PublicKey(ask[c].id, s, 0)])
       /\ UNCHANGED providerVars
=============================================================================
