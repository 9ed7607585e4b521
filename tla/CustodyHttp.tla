----------------------------- MODULE CustodyHttp -----------------------------
(***************************************************************************)
(* The part the custody clients share (src/engine/custody.rs): one HTTP    *)
(* exchange at a time per call, the classification of its failures, the    *)
(* local verification of signatures, and the generic client CustodyHttp.   *)
(*                                                                         *)
(* A call is a coroutine that pauses in every exchange.  The provider may  *)
(* act on the request or not, its answer may be lost either way, and the   *)
(* caller may drop the call meanwhile.  The provider is external: it       *)
(* allots key ids, holds wallets and works on requests in its own time.    *)
(***************************************************************************)
EXTENDS Naturals, Sequences

CONSTANTS
    Call,      \* calls of the SigningEngine trait
    MaxPolls   \* bound: polls of one request (60 in Turnkey, 30 s in the others)

ASSUME HttpParams == MaxPolls \in Nat \ {0}

VARIABLES
    provider,  \* the provider the engine was built for
    op,        \* the operation of each call, with its arguments
    pc,        \* where each call is: the exchange it awaits
    ask,       \* the HTTP request each call has outstanding
    wire,      \* external: the answer on its way to each call
    mem,       \* the locals each call keeps across its awaits
    result,    \* what each call returned
    owner,     \* external: the call on whose behalf each key id was allotted
    held,      \* external: wallets, as pairs of a key id and a slot
    txs        \* external: the requests the provider has accepted

callVars == <<pc, ask, wire, mem, result>>
providerVars == <<owner, held, txs>>
custodyVars == <<provider, op, callVars, providerVars>>

Nothing == [kind |-> "none"]
NoLocals == [id |-> 0, pk |-> <<>>, polls |-> 0]

Ecdsa == {"evm", "bitcoin"}
scheme(chain) == IF chain \in Ecdsa THEN "EcdsaSecp256k1" ELSE "Ed25519"

\* A wallet of key id n in slot s has the key pair of each index: its public
\* key is the triple.  The slot fixes the curve.
PublicKey(n, s, index) == <<n, s, index>>
CurveOf(slot) ==
    IF slot \in {"ETH", "BTC", "CURVE_SECP256K1", "ECDSA", "EcdsaSecp256k1"}
    THEN "EcdsaSecp256k1" ELSE "Ed25519"
SlotsOf(n) == {w[2] : w \in {x \in held : x[1] = n}}

-----------------------------------------------------------------------------
(* An exchange, seen from the call.                                        *)

Await(c, place, request, locals) ==
    /\ pc' = [pc EXCEPT ![c] = place]
    /\ ask' = [ask EXCEPT ![c] = request]
    /\ wire' = [wire EXCEPT ![c] = Nothing]
    /\ mem' = [mem EXCEPT ![c] = locals]
    /\ UNCHANGED result

Return(c, outcome) ==
    /\ pc' = [pc EXCEPT ![c] = "done"]
    /\ ask' = [ask EXCEPT ![c] = Nothing]
    /\ wire' = [wire EXCEPT ![c] = Nothing]
    /\ mem' = [mem EXCEPT ![c] = NoLocals]
    /\ result' = [result EXCEPT ![c] = outcome]

\* An error, one of these.
Err(codes) == [kind |-> "err", codes |-> codes]

Got(c, place) == pc[c] = place /\ wire[c] # Nothing
Awaiting(c) == ask[c] # Nothing

classify_reqwest == [timeout |-> "ProviderUnavailable",
                     connect |-> "ProviderUnavailable",
                     transport |-> "Transient"]

decode_response == [not_found |-> "KeyNotFound", denied |-> "Denied",
                    server_error |-> "ProviderUnavailable",
                    client_error |-> "Transient", undecodable |-> "Internal"]

ExchangeError == {classify_reqwest[f] : f \in DOMAIN classify_reqwest}
                 \cup {decode_response[f] : f \in DOMAIN decode_response}

\* The exchange fails, whether or not the provider acted on the request.
ExchangeFails(c, errors) == Awaiting(c) /\ Return(c, Err(errors))

\* Mutant: any signature of the right key will do.
AnySignature(chain, payload, signature, public_key) ==
    /\ CurveOf(public_key[2]) = scheme(chain)
    /\ signature.key = public_key

\* ECDSA over the payload's digest or Ed25519 over the payload, under the key.
verify_signature(chain, payload, signature, public_key) ==
    /\ CurveOf(public_key[2]) = scheme(chain)
    /\ signature.payload = payload
    /\ signature.key = public_key

\* The end of every sign: verify, then hand the signature on.  The payload of
\* a call stands for itself.
ReturnVerified(c, signature, public_key) ==
    Return(c, IF verify_signature(op[c].chain, c, signature, public_key)
              THEN [kind |-> "signed", pk |-> public_key, sig |-> signature]
              ELSE Err({"Internal"}))

Created(n, pk) == [kind |-> "created", key |-> n, pk |-> pk]
Rotated(n, pk, epoch) ==
    [kind |-> "rotated", key |-> n, pk |-> pk, epoch |-> epoch]
Metadata(n, chain, pk) ==
    [kind |-> "metadata", key |-> n, chain |-> chain, pk |-> pk]

-----------------------------------------------------------------------------
(* The provider.                                                           *)

Reply(c, answer) ==
    /\ wire' = [wire EXCEPT ![c] = answer]
    /\ UNCHANGED <<provider, op, pc, ask, mem, result>>

Unserved(c, endpoint) ==
    Awaiting(c) /\ wire[c] = Nothing /\ ask[c].kind = endpoint

\* Keys 1, 2, ... belong to the calls in `owner`; key 0 is older than them.
FreshId == Len(owner) + 1

Allot(c, slot) ==
    /\ owner' = Append(owner, c)
    /\ held' = held \cup {<<FreshId, slot>>}

\* A request the provider accepts, and how far it has got.
Work(c, work, n, slot, status) ==
    [call |-> c, work |-> work, id |-> n, slot |-> slot, status |-> status]

FreshTx == Len(txs) + 1

\* The keys a provider may use: the one it was asked for, or another.
AnyKey(tx) == {PublicKey(n, tx.slot, 0) : n \in {tx.id, tx.id + 1}}

\* What request i looks like to a caller: its status alone or, finished, the
\* new key or a signature and a public key.  Nothing makes those two agree with
\* each other, with the payload or with the key that was asked for.
\* (Missing and non-hex fields end a call like an undecodable body does.)
Delivered(i, tx) ==
    IF tx.status # "completed" THEN {[kind |-> tx.status, id |-> i]}
    ELSE IF tx.work = "create" THEN {[kind |-> "completed", key |-> tx.id]}
    ELSE [kind : {"completed"}, pk : AnyKey(tx),
          sig : [payload : Call, key : AnyKey(tx)]]

\* The provider finishes a request, for or against.
Decide(i) ==
    /\ txs[i].status = "pending"
    /\ \/ /\ txs' = [txs EXCEPT ![i].status = "failed"]
          /\ UNCHANGED <<owner, held>>
       \/ /\ txs[i].work = "sign"
          /\ txs' = [txs EXCEPT ![i].status = "completed"]
          /\ UNCHANGED <<owner, held>>
       \/ /\ txs[i].work = "create"
          /\ txs' = [txs EXCEPT ![i].status = "completed", ![i].id = FreshId]
          /\ Allot(txs[i].call, txs[i].slot)
    /\ UNCHANGED <<provider, op, callVars>>

-----------------------------------------------------------------------------
(* The generic client, one exchange per operation.                         *)

GenericSign(c) ==
    \/ /\ pc[c] = "start"
       /\ Await(c, "reply", [kind |-> "sign", id |-> op[c].key], NoLocals)
    \/ Got(c, "reply") /\ ReturnVerified(c, wire[c].sig, wire[c].pk)

GenericDkg(c) ==
    \/ /\ pc[c] = "start"
       /\ Await(c, "reply", [kind |-> "keys", chain |-> op[c].chain], NoLocals)
    \/ Got(c, "reply")
       /\ Return(c, Created(wire[c].id, wire[c].pk))

GenericRotate(c) ==
    \/ /\ pc[c] = "start"
       /\ Await(c, "reply", [kind |-> "rotate", id |-> op[c].key], NoLocals)
    \/ Got(c, "reply")
       /\ Return(c, Rotated(op[c].key, wire[c].pk, wire[c].epoch))

GenericKeyMetadata(c) ==
    \/ /\ pc[c] = "start"
       /\ Await(c, "reply", [kind |-> "key", id |-> op[c].key], NoLocals)
    \/ Got(c, "reply")
       /\ Return(c, Metadata(wire[c].id, op[c].chain, wire[c].pk))

GenericRestore(c) ==
    \/ /\ pc[c] = "start" /\ ~op[c].proof
       /\ Return(c, Err({"Denied"}))
    \/ /\ pc[c] = "start" /\ op[c].proof
       /\ Await(c, "reply", [kind |-> "restore", id |-> op[c].key], NoLocals)
    \/ Got(c, "reply") /\ Return(c, [kind |-> "restored"])

GenericStep(c) ==
    \/ op[c].name = "sign" /\ GenericSign(c)
    \/ op[c].name = "dkg" /\ GenericDkg(c)
    \/ op[c].name = "rotate_key" /\ GenericRotate(c)
    \/ op[c].name = "get_key_metadata" /\ GenericKeyMetadata(c)
    \/ op[c].name = "restore_share" /\ GenericRestore(c)
    \/ ExchangeFails(c, ExchangeError)

\* External: a server of the generic protocol.
GenericServes(c) ==
    \/ /\ Unserved(c, "sign")
       /\ \E s \in SlotsOf(ask[c].id) :
              LET tx == Work(c, "sign", ask[c].id, s, "completed")
              IN  /\ txs' = Append(txs, tx)
                  /\ \E answer \in Delivered(FreshTx, tx) : Reply(c, answer)
       /\ UNCHANGED <<owner, held>>
    \/ /\ Unserved(c, "keys")
       /\ LET s == scheme(ask[c].chain)
          IN  /\ Allot(c, s)
              /\ Reply(c, [kind |-> "ok", id |-> FreshId,
                           pk |-> PublicKey(FreshId, s, 0)])
       /\ UNCHANGED txs
    \/ /\ \/ Unserved(c, "key") \/ Unserved(c, "rotate")
          \/ Unserved(c, "restore")
       /\ \E s \in SlotsOf(ask[c].id) :
              Reply(c, [kind |-> "ok", id |-> ask[c].id, epoch |-> 1,
                        pk |-> PublicKey(ask[c].id, s, 0)])
       /\ UNCHANGED providerVars
=============================================================================
