---------------------------- MODULE CustodyProofs ----------------------------
(***************************************************************************)
(* Proofs about the custody backends: for any calls, operations and number *)
(* of polls, whatever the provider answers and whenever.                   *)
(*                                                                         *)
(* The inductive invariant says of each call what its outstanding request, *)
(* the answer on its way and its locals are, place by place (Fits), what   *)
(* it may have returned (Verdict), and of the provider which requests and  *)
(* keys it can have on its books (Books).                                  *)
(***************************************************************************)
EXTENDS CustodyEngines, TLAPS

\* Zenon proves the leaves that name no other prover.
USE ZenonT(90)

\* The slots of all providers; a new vault account has none.
SlotName == {"none", "ETH", "SOL", "BTC", "APT", "SUI", "CURVE_SECP256K1",
             "CURVE_ED25519", "ECDSA", "EdDSA", "EcdsaSecp256k1", "Ed25519"}

Tx == [call : Call, work : {"sign", "create"}, id : Nat, slot : SlotName,
       status : {"pending", "completed", "failed"}]

Shape ==
    /\ provider \in Provider
    /\ DOMAIN op = Call /\ DOMAIN pc = Call /\ DOMAIN ask = Call
    /\ DOMAIN wire = Call /\ DOMAIN mem = Call /\ DOMAIN result = Call
    /\ owner \in Seq(Call)
    /\ held \in SUBSET (Nat \X SlotName)
    /\ txs \in Seq(Tx)

-----------------------------------------------------------------------------
(* What the provider's books say of a call.                                *)

\* Key id n was allotted on behalf of c.
Mine(c, n) == n \in DOMAIN owner /\ owner[n] = c

\* The provider has acted on no change of c.
Pristine(c) ==
    /\ \A n \in DOMAIN owner : owner[n] # c
    /\ \A i \in DOMAIN txs : txs[i].call # c

\* The first public key of a wallet of key id n.
Keyed(n, pk) == \E s \in SlotsOf(n) : pk = PublicKey(n, s, 0)

\* A key of c's own, in the slot of the chain c asked for.
NewKey(c, n, pk) ==
    /\ Mine(c, n)
    /\ Slot(provider, op[c].chain) \in SlotsOf(n)
    /\ pk = PublicKey(n, Slot(provider, op[c].chain), 0)

\* Request i is c's, and a is what it looks like or once looked like.
Progress(c, i, a) ==
    /\ i \in DOMAIN txs /\ txs[i].call = c
    /\ \/ a.kind = "pending" /\ a.id = i
       \/ a.kind = "failed" /\ a.id = i /\ txs[i].status = "failed"
       \/ /\ a.kind = "completed" /\ txs[i].status = "completed"
          /\ txs[i].work = "create" => a.key = txs[i].id
          /\ txs[i].work = "sign" =>
                 a.sig = [payload |-> a.sig.payload, key |-> a.sig.key]

\* What a request on the books can be.
TxOK(tx) ==
    /\ tx.work = "sign" =>
           /\ Signs(tx.call) /\ tx.id = op[tx.call].key
           /\ tx.slot \in SlotsOf(tx.id)
    /\ tx.work = "create" =>
           /\ provider = "turnkey" /\ op[tx.call].name \in {"dkg", "rotate_key"}
           /\ op[tx.call].name = "dkg" =>
                  tx.slot = chain_params(op[tx.call].chain)
           /\ tx.status = "pending" =>
                  \A n \in DOMAIN owner : owner[n] # tx.call
           /\ tx.status = "completed" =>
                  Mine(tx.call, tx.id) /\ tx.slot \in SlotsOf(tx.id)

KeysOK ==
    /\ \A w \in held : w[1] <= Len(owner)
    /\ provider # "fireblocks" => \A v, w \in held : v[1] = w[1] => v = w
    /\ \A n \in DOMAIN owner : SlotsOf(n) # {}
    /\ \A n, m \in DOMAIN owner : owner[n] = owner[m] => n = m

RequestsOK ==
    /\ \A i, j \in DOMAIN txs : txs[i].call = txs[j].call => i = j
    /\ \A i \in DOMAIN txs : \E tx \in {txs[i]} : TxOK(tx)

Books == KeysOK /\ RequestsOK

-----------------------------------------------------------------------------
(* The places of a call, with the request, answer and locals it has there. *)

AtRest == {"idle", "start", "done", "dropped"}

Resting(c, p, a, w, m) ==
    /\ a = Nothing /\ w = Nothing /\ m = NoLocals
    /\ p \in {"idle", "start"} => Pristine(c)

\* The one exchange of the generic client.
AtReply(c, a, w, m) ==
    /\ provider = "generic" /\ m = NoLocals
    /\ w = Nothing => Pristine(c)
    /\ \/ /\ op[c].name = "sign"
          /\ a = [kind |-> "sign", id |-> op[c].key]
          /\ w # Nothing =>
                 w.kind = "completed" /\ \E i \in DOMAIN txs : Progress(c, i, w)
       \/ /\ op[c].name = "dkg"
          /\ a = [kind |-> "keys", chain |-> op[c].chain]
          /\ w # Nothing => NewKey(c, w.id, w.pk)
       \/ /\ op[c].name = "rotate_key"
          /\ a = [kind |-> "rotate", id |-> op[c].key]
       \/ /\ op[c].name = "get_key_metadata"
          /\ a = [kind |-> "key", id |-> op[c].key]
       \/ /\ op[c].name = "restore_share"
          /\ a = [kind |-> "restore", id |-> op[c].key]

\* Fireblocks.
AtVault(c, a, w, m) ==
    /\ provider = "fireblocks" /\ op[c].name = "dkg" /\ m = NoLocals
    /\ a = [kind |-> "vault_account"]
    /\ w = Nothing => Pristine(c)
    /\ w # Nothing => Mine(c, w.id)

AtAsset(c, a, w, m) ==
    /\ provider = "fireblocks" /\ op[c].name \in {"dkg", "rotate_key"}
    /\ m.polls = 0
    /\ a.kind = "asset_wallet" /\ a.id = m.id /\ a.slot \in SlotName
    /\ op[c].name = "dkg" => Mine(c, m.id)

AtPublicKey(c, a, w, m) ==
    /\ provider = "fireblocks" /\ m.polls = 0
    /\ a.kind = "public_key_info"
    /\ \/ /\ op[c].name = "dkg" /\ Mine(c, m.id)
          /\ a.id = m.id /\ a.slot = asset_id[op[c].chain] /\ a.index = 0
       \/ op[c].name \in {"rotate_key", "get_key_metadata"}
    /\ w # Nothing => /\ a.slot \in SlotsOf(a.id)
                      /\ w.pk = PublicKey(a.id, a.slot, a.index)

AtCreateTx(c, a, w, m) ==
    /\ provider = "fireblocks" /\ Signs(c) /\ m = NoLocals
    /\ a = [kind |-> "create_tx", id |-> op[c].key,
            slot |-> asset_id[op[c].chain]]
    /\ w = Nothing => Pristine(c)
    /\ w # Nothing => w.id \in DOMAIN txs /\ txs[w.id].call = c

\* A request is polled, by any adapter.
AtPoll(c, a, w, m) ==
    /\ a.id = m.id /\ m.id \in DOMAIN txs /\ txs[m.id].call = c
    /\ m.polls \in 1..MaxPolls /\ DOMAIN m = DOMAIN NoLocals
    /\ \/ /\ provider = "fireblocks" /\ Signs(c) /\ a.kind = "transaction"
       \/ /\ provider = "dfns" /\ Signs(c) /\ a.kind = "signature"
       \/ /\ provider = "turnkey" /\ a.kind = "get_activity"
          /\ op[c].name \in {"sign", "dkg", "rotate_key"}
    /\ w # Nothing => Progress(c, m.id, w)

\* A key is read, by any adapter.
AtRead(c, a, w, m) ==
    /\ m = NoLocals /\ a.id = op[c].key
    /\ \/ /\ provider = "turnkey" /\ a.kind = "get_wallet_account"
          /\ op[c].name \in {"sign", "get_key_metadata"}
       \/ /\ provider = "dfns" /\ a.kind \in {"key", "wallet"}
          /\ op[c].name = "get_key_metadata"
    /\ Pristine(c)

\* Turnkey.
AtSubmit(c, a, w, m) ==
    /\ provider = "turnkey" /\ m.polls = 0 /\ DOMAIN m = DOMAIN NoLocals
    /\ w = Nothing => Pristine(c)
    /\ w # Nothing => \E i \in DOMAIN txs : Progress(c, i, w)
    /\ \/ /\ Signs(c)
          /\ a = [kind |-> "sign_raw_payload", id |-> op[c].key]
       \/ /\ op[c].name \in {"dkg", "rotate_key"}
          /\ a.kind = "create_wallet" /\ a.slot \in SlotName
          /\ op[c].name = "dkg" => a.slot = chain_params(op[c].chain)

AtNewAccount(c, a, w, m) ==
    /\ provider = "turnkey" /\ op[c].name \in {"dkg", "rotate_key"}
    /\ m.polls = 0
    /\ a = [kind |-> "get_wallet_account", id |-> m.id]
    /\ op[c].name = "dkg" =>
           Mine(c, m.id) /\ chain_params(op[c].chain) \in SlotsOf(m.id)
    /\ w # Nothing => Keyed(m.id, w.pk)

\* Dfns.
AtToken(c, a, w, m) ==
    /\ provider = "dfns" /\ op[c].name \in {"sign", "dkg", "rotate_key"}
    /\ m = NoLocals /\ a.kind \in {"init", "action"}
    /\ Pristine(c)

AtPost(c, a, w, m) ==
    /\ provider = "dfns" /\ m = NoLocals /\ a.kind = "post"
    /\ w = Nothing => Pristine(c)
    /\ \/ /\ Signs(c) /\ a.body = [kind |-> "signatures", id |-> op[c].key]
          /\ w # Nothing => \E i \in DOMAIN txs : Progress(c, i, w)
       \/ /\ op[c].name = "dkg"
          /\ a.body = wallet_body(signing_scheme(op[c].chain))
          /\ w # Nothing => NewKey(c, w.id, w.pk)
       \/ /\ op[c].name = "rotate_key"
          /\ a.body = wallet_body("ECDSA")

Fits(c, p, a, w, m) ==
    /\ p = "idle" => op[c] = NoOperation
    /\ p # "idle" => op[c] \in Operation
    /\ \/ p \in AtRest /\ Resting(c, p, a, w, m)
       \/ p = "reply" /\ AtReply(c, a, w, m)
       \/ p = "vault" /\ AtVault(c, a, w, m)
       \/ p = "asset" /\ AtAsset(c, a, w, m)
       \/ p = "public_key" /\ AtPublicKey(c, a, w, m)
       \/ p = "create_tx" /\ AtCreateTx(c, a, w, m)
       \/ p \in {"poll", "activity", "signature"} /\ AtPoll(c, a, w, m)
       \/ p \in {"account", "key", "wallet"} /\ AtRead(c, a, w, m)
       \/ p = "submit" /\ AtSubmit(c, a, w, m)
       \/ p = "new_account" /\ AtNewAccount(c, a, w, m)
       \/ p \in {"init", "action"} /\ AtToken(c, a, w, m)
       \/ p = "post" /\ AtPost(c, a, w, m)

-----------------------------------------------------------------------------
(* What a call may have returned.                                          *)

Verdict(c, r) ==
    /\ r.kind \in {"none", "err", "signed", "created", "rotated", "metadata",
                   "restored"}
    /\ r.kind = "none" => r = Nothing
    /\ r.kind = "signed" =>
           /\ Signs(c) /\ r.sig = [payload |-> c, key |-> r.pk]
           /\ CurveOf(r.pk[2]) = scheme(op[c].chain)
           /\ \E i \in DOMAIN txs : /\ txs[i].call = c /\ txs[i].work = "sign"
                                    /\ txs[i].status = "completed"
    /\ r.kind = "created" => NewKey(c, r.key, r.pk)

\* A call as it stands.
Talk(c) ==
    \E p \in {pc[c]}, a \in {ask[c]}, w \in {wire[c]}, m \in {mem[c]},
       r \in {result[c]} :
        /\ Fits(c, p, a, w, m)
        /\ Verdict(c, r)
        /\ (p = "done") <=> (r # Nothing)

CustodyInv == Shape /\ Books /\ \A c \in Call : Talk(c)

-----------------------------------------------------------------------------
(* What is true of a call stays true while the books grow.                 *)

\* The provider forgets nothing and goes back on nothing it has decided.
Grows ==
    /\ provider' = provider
    /\ held \subseteq held'
    /\ \A n \in DOMAIN owner : n \in DOMAIN owner' /\ owner'[n] = owner[n]
    /\ \A i \in DOMAIN txs :
           /\ i \in DOMAIN txs'
           /\ txs'[i].call = txs[i].call /\ txs'[i].work = txs[i].work
           /\ txs'[i].slot = txs[i].slot
           /\ txs[i].work = "sign" => txs'[i].id = txs[i].id
           /\ txs[i].status # "pending" => txs'[i] = txs[i]

\* The facts about keys and requests stay.
LEMMA StableFacts ==
    ASSUME Grows, NEW c \in Call, op'[c] = op[c]
    PROVE  /\ \A n : Mine(c, n) => Mine(c, n)'
           /\ \A n : SlotsOf(n) \subseteq SlotsOf(n)'
           /\ \A n, pk : Keyed(n, pk) => Keyed(n, pk)'
           /\ \A n, pk : NewKey(c, n, pk) => NewKey(c, n, pk)'
           /\ \A i, a : Progress(c, i, a) => Progress(c, i, a)'
           /\ \A i : i \in DOMAIN txs => i \in DOMAIN txs'
           /\ \A i \in DOMAIN txs : txs'[i].call = txs[i].call
           /\ Signs(c)' = Signs(c)
<1>1. \A n : SlotsOf(n) \subseteq SlotsOf(n)'
  BY DEF Grows, SlotsOf
<1>2. \A n : Mine(c, n) => Mine(c, n)'
  BY DEF Grows, Mine
<1>3. \A n, pk : Keyed(n, pk) => Keyed(n, pk)'
  BY <1>1 DEF Keyed, PublicKey
<1>4. \A n, pk : NewKey(c, n, pk) => NewKey(c, n, pk)'
  <2> DEFINE s == Slot(provider, op[c].chain)
  <2>1. s' = s
    BY DEF Grows, Slot
  <2> HIDE DEF s
  <2>2. ASSUME NEW n, NEW pk, NewKey(c, n, pk)
        PROVE  NewKey(c, n, pk)'
    <3>1. Mine(c, n) /\ s \in SlotsOf(n) /\ pk = PublicKey(n, s, 0)
      BY <2>2 DEF NewKey, s
    <3>2. Mine(c, n)' /\ s' \in SlotsOf(n)' /\ pk = PublicKey(n, s', 0)
      BY <1>1, <1>2, <2>1, <3>1
    <3> QED BY <3>2 DEF NewKey, PublicKey, s
  <2> QED BY <2>2
<1>5. \A i, a : Progress(c, i, a) => Progress(c, i, a)'
  BY SMTT(90) DEF Progress, Grows, PublicKey
<1>6. /\ \A i : i \in DOMAIN txs => i \in DOMAIN txs'
      /\ \A i \in DOMAIN txs : txs'[i].call = txs[i].call
      /\ Signs(c)' = Signs(c)
  BY DEF Grows, Signs
<1> QED BY <1>1, <1>2, <1>3, <1>4, <1>5, <1>6

\* So does what fits the place of a call.
LEMMA StableFits ==
    ASSUME Grows, NEW c \in Call, op'[c] = op[c], Pristine(c) => Pristine(c)',
           NEW p, NEW a, NEW w, NEW m, Fits(c, p, a, w, m)
    PROVE  Fits(c, p, a, w, m)'
<1> DEFINE Facts ==
        /\ provider' = provider
        /\ \A n : Mine(c, n) => Mine(c, n)'
        /\ \A n : SlotsOf(n) \subseteq SlotsOf(n)'
        /\ \A n, pk : Keyed(n, pk) => Keyed(n, pk)'
        /\ \A n, pk : NewKey(c, n, pk) => NewKey(c, n, pk)'
        /\ \A i, x : Progress(c, i, x) => Progress(c, i, x)'
        /\ \A i : i \in DOMAIN txs => i \in DOMAIN txs'
        /\ \A i \in DOMAIN txs : txs'[i].call = txs[i].call
        /\ Signs(c)' = Signs(c)
<1>0. Facts
  BY StableFacts DEF Grows
<1>1. Resting(c, p, a, w, m) => Resting(c, p, a, w, m)'
  BY DEF Resting, Nothing, NoLocals
<1>2. AtReply(c, a, w, m) => AtReply(c, a, w, m)'
  BY <1>0 DEF AtReply, Nothing, NoLocals
<1>3. AtVault(c, a, w, m) => AtVault(c, a, w, m)'
  BY <1>0 DEF AtVault, Nothing, NoLocals
<1>4. AtAsset(c, a, w, m) => AtAsset(c, a, w, m)'
  BY <1>0 DEF AtAsset
<1>5. AtPublicKey(c, a, w, m) => AtPublicKey(c, a, w, m)'
  BY <1>0 DEF AtPublicKey, Nothing, PublicKey, asset_id
<1>6. AtCreateTx(c, a, w, m) => AtCreateTx(c, a, w, m)'
  BY <1>0 DEF AtCreateTx, Nothing, NoLocals, asset_id
<1>7. AtPoll(c, a, w, m) => AtPoll(c, a, w, m)'
  BY <1>0 DEF AtPoll, Nothing
<1>8. AtRead(c, a, w, m) => AtRead(c, a, w, m)'
  BY <1>0 DEF AtRead, Nothing, NoLocals
<1>9. AtSubmit(c, a, w, m) => AtSubmit(c, a, w, m)'
  BY <1>0 DEF AtSubmit, Nothing, chain_params
<1>10. AtNewAccount(c, a, w, m) => AtNewAccount(c, a, w, m)'
  BY <1>0 DEF AtNewAccount, Nothing, chain_params
<1>11. AtToken(c, a, w, m) => AtToken(c, a, w, m)'
  BY <1>0 DEF AtToken, NoLocals
<1>12. AtPost(c, a, w, m) => AtPost(c, a, w, m)'
  BY <1>0 DEF AtPost, Nothing, NoLocals, wallet_body, signing_scheme
<1> QED
  BY <1>1, <1>2, <1>3, <1>4, <1>5, <1>6, <1>7, <1>8, <1>9, <1>10, <1>11, <1>12
     DEF Fits

\* And what was true of a result.
LEMMA StableVerdict ==
    ASSUME Grows, NEW c \in Call, op'[c] = op[c], NEW r, Verdict(c, r)
    PROVE  Verdict(c, r)'
<1>1. r.kind = "signed" =>
        \E i \in DOMAIN txs' : /\ txs'[i].call = c /\ txs'[i].work = "sign"
                               /\ txs'[i].status = "completed"
  BY SMTT(90) DEF Verdict, Grows
<1>2. /\ \A n, pk : NewKey(c, n, pk) => NewKey(c, n, pk)'
      /\ Signs(c)' = Signs(c)
  BY StableFacts
<1> QED BY <1>1, <1>2 DEF Verdict
-----------------------------------------------------------------------------
(* The steps of a call.                                                    *)

\* A call nothing happens to, while the books grow.
LEMMA OthersKeep ==
    ASSUME CustodyInv, Grows, op' = op, NEW d \in Call,
           pc'[d] = pc[d], ask'[d] = ask[d], wire'[d] = wire[d],
           mem'[d] = mem[d], result'[d] = result[d],
           Pristine(d) => Pristine(d)'
    PROVE  Talk(d)'
<1>1. PICK p, a, w, m, r :
           /\ p = pc[d] /\ a = ask[d] /\ w = wire[d] /\ m = mem[d]
           /\ r = result[d]
  OBVIOUS
<1>2. Fits(d, p, a, w, m) /\ Verdict(d, r) /\ ((p = "done") <=> (r # Nothing))
  BY <1>1 DEF CustodyInv, Talk
<1>3. Fits(d, p, a, w, m)' /\ Verdict(d, r)'
  BY <1>2, StableFits, StableVerdict
<1>4. /\ p = pc'[d] /\ a = ask'[d] /\ w = wire'[d] /\ m = mem'[d]
      /\ r = result'[d]
  BY <1>1
<1> QED BY <1>2, <1>3, <1>4 DEF Talk, Nothing

\* A step that keeps the books and all calls but c, which it leaves well.
LEMMA CallKeeps ==
    ASSUME CustodyInv, NEW c \in Call, Shape', Books', Grows, op' = op,
           \A d \in Call \ {c} :
               /\ pc'[d] = pc[d] /\ ask'[d] = ask[d] /\ wire'[d] = wire[d]
               /\ mem'[d] = mem[d] /\ result'[d] = result[d]
               /\ Pristine(d) => Pristine(d)',
           Talk(c)'
    PROVE  CustodyInv'
BY OthersKeep DEF CustodyInv

\* A call goes on to an exchange, or returns.
Continues(c) ==
    \E p, a, m : /\ Await(c, p, a, m)
                 /\ Fits(c, p, a, Nothing, m) /\ p \notin AtRest

Ends(c) ==
    \E r : Return(c, r) /\ Verdict(c, r) /\ r # Nothing

\* Either way the invariant is kept.
LEMMA CallStepKeeps ==
    ASSUME CustodyInv, NEW c \in Call, Continues(c) \/ Ends(c),
           pc[c] \notin {"idle", "done", "dropped"},
           UNCHANGED <<provider, op, providerVars>>
    PROVE  CustodyInv'
<1>1. /\ Grows /\ op' = op
      /\ \A d \in Call : Pristine(d) => Pristine(d)'
  BY DEF providerVars, Grows, Pristine
<1>2. Books'
  BY SMTT(90) DEF providerVars, CustodyInv, Books, KeysOK, RequestsOK, SlotsOf,
         TxOK, Signs, Mine, asset_id, chain_params
<1>3. op[c] \in Operation /\ result[c] = Nothing
  BY SMTT(90) DEF CustodyInv, Talk, Fits
<1>4. CASE Continues(c)
  <2>1. PICK p, a, m : /\ Await(c, p, a, m)
                       /\ Fits(c, p, a, Nothing, m) /\ p \notin AtRest
    BY <1>4 DEF Continues
  <2>2. Fits(c, p, a, Nothing, m)'
    <3>1. PICK w : w = Nothing
      OBVIOUS
    <3>2. Fits(c, p, a, w, m)'
      BY <1>1, <2>1, <3>1, StableFits
    <3> QED BY <3>1, <3>2 DEF Nothing
  <2>3. Verdict(c, Nothing)'
    BY DEF Verdict, Nothing
  <2>4. /\ Shape'
        /\ \A d \in Call \ {c} :
              /\ pc'[d] = pc[d] /\ ask'[d] = ask[d] /\ wire'[d] = wire[d]
              /\ mem'[d] = mem[d] /\ result'[d] = result[d]
        /\ pc'[c] = p /\ ask'[c] = a /\ wire'[c] = Nothing /\ mem'[c] = m
        /\ result'[c] = Nothing
    BY <1>3, <2>1 DEF CustodyInv, Shape, Await, providerVars
  <2>5. Talk(c)'
    BY <2>1, <2>2, <2>3, <2>4 DEF Talk, AtRest, Nothing
  <2> QED BY <1>1, <1>2, <2>4, <2>5, CallKeeps
<1>5. CASE Ends(c)
  <2>1. PICK r : Return(c, r) /\ Verdict(c, r) /\ r # Nothing
    BY <1>5 DEF Ends
  <2>2. Fits(c, "done", Nothing, Nothing, NoLocals)'
    BY <1>1, <1>3 DEF Fits, AtRest, Resting, Nothing, NoLocals
  <2>3. Verdict(c, r)'
    BY <1>1, <2>1, StableVerdict
  <2>4. /\ Shape'
        /\ \A d \in Call \ {c} :
              /\ pc'[d] = pc[d] /\ ask'[d] = ask[d] /\ wire'[d] = wire[d]
              /\ mem'[d] = mem[d] /\ result'[d] = result[d]
        /\ pc'[c] = "done" /\ ask'[c] = Nothing /\ wire'[c] = Nothing
        /\ mem'[c] = NoLocals /\ result'[c] = r
    BY <2>1 DEF CustodyInv, Shape, Return, providerVars
  <2>5. Talk(c)'
    BY <2>1, <2>2, <2>3, <2>4 DEF Talk, Nothing, NoLocals
  <2> QED BY <1>1, <1>2, <2>4, <2>5, CallKeeps
<1> QED BY <1>4, <1>5

\* What a call knows of itself.
LEMMA CallFacts ==
    ASSUME CustodyInv, NEW c \in Call
    PROVE  /\ Fits(c, pc[c], ask[c], wire[c], mem[c])
           /\ Verdict(c, result[c])
           /\ (pc[c] = "done") <=> (result[c] # Nothing)
BY DEF CustodyInv, Talk

\* A completed answer to a sign call: its signature exists.
LEMMA SignatureMade ==
    ASSUME CustodyInv, NEW c \in Call, Signs(c),
           NEW i \in DOMAIN txs, NEW a, Progress(c, i, a), a.kind = "completed"
    PROVE  /\ txs[i].call = c /\ txs[i].work = "sign"
           /\ txs[i].status = "completed"
           /\ a.sig = [payload |-> a.sig.payload, key |-> a.sig.key]
<1>1. txs[i] \in Tx /\ TxOK(txs[i]) /\ txs[i].call = c
  BY SMTT(90) DEF CustodyInv, Shape, Books, RequestsOK, Progress
<1>2. txs[i].work = "sign"
  BY <1>1 DEF Tx, TxOK, Signs
<1> QED BY <1>1, <1>2 DEF Progress

\* The end of every sign: whatever comes with whatever key, only what verifies
\* is handed on.
LEMMA VerifiedEnds ==
    ASSUME CustodyInv, NEW c \in Call, Signs(c),
           NEW sig, NEW pk, ReturnVerified(c, sig, pk),
           sig = [payload |-> sig.payload, key |-> sig.key],
           \E i \in DOMAIN txs : /\ txs[i].call = c /\ txs[i].work = "sign"
                                 /\ txs[i].status = "completed"
    PROVE  Ends(c)
<1>1. CASE verify_signature(op[c].chain, c, sig, pk)
  <2> DEFINE r == [kind |-> "signed", pk |-> pk, sig |-> sig]
  <2>1. Return(c, r)
    BY <1>1 DEF ReturnVerified
  <2>2. sig = [payload |-> c, key |-> pk]
    BY <1>1 DEF verify_signature
  <2>3. Verdict(c, r)
    BY <1>1, <2>2 DEF Verdict, verify_signature
  <2>4. r # Nothing
    BY DEF Nothing
  <2> QED BY <2>1, <2>3, <2>4 DEF Ends
<1>2. CASE ~verify_signature(op[c].chain, c, sig, pk)
  <2>1. Return(c, Err({"Internal"}))
    BY <1>2 DEF ReturnVerified
  <2>2. Verdict(c, Err({"Internal"}))
    BY DEF Verdict, Err
  <2>3. Err({"Internal"}) # Nothing
    BY DEF Nothing, Err
  <2> QED BY <2>1, <2>2, <2>3 DEF Ends
<1> QED BY <1>1, <1>2

\* An error says nothing about the provider's books.
LEMMA ErrEnds ==
    ASSUME NEW c \in Call, NEW codes, Return(c, Err(codes))
    PROVE  Ends(c)
<1>1. Verdict(c, Err(codes)) /\ Err(codes) # Nothing
  BY DEF Verdict, Err, Nothing
<1> QED BY <1>1 DEF Ends

\* Neither do the keys a rotation or a look-up tells of.
LEMMA RotatedEnds ==
    ASSUME NEW c \in Call, NEW n, NEW pk, NEW epoch,
           Return(c, Rotated(n, pk, epoch))
    PROVE  Ends(c)
<1>1. Verdict(c, Rotated(n, pk, epoch)) /\ Rotated(n, pk, epoch) # Nothing
  BY DEF Verdict, Rotated, Nothing
<1> QED BY <1>1 DEF Ends

LEMMA MetadataEnds ==
    ASSUME NEW c \in Call, NEW n, NEW chain, NEW pk,
           Return(c, Metadata(n, chain, pk))
    PROVE  Ends(c)
<1>1. Verdict(c, Metadata(n, chain, pk)) /\ Metadata(n, chain, pk) # Nothing
  BY DEF Verdict, Metadata, Nothing
<1> QED BY <1>1 DEF Ends

\* A new key is the caller's own.
LEMMA CreatedEnds ==
    ASSUME NEW c \in Call, NEW n, NEW pk, NewKey(c, n, pk),
           Return(c, Created(n, pk))
    PROVE  Ends(c)
<1>1. Verdict(c, Created(n, pk)) /\ Created(n, pk) # Nothing
  BY DEF Verdict, Created, Nothing
<1> QED BY <1>1 DEF Ends

\* A sign call with a completed answer.
LEMMA SignEnds ==
    ASSUME CustodyInv, NEW c \in Call, Signs(c),
           NEW i, NEW a, Progress(c, i, a), a.kind = "completed",
           NEW pk, ReturnVerified(c, a.sig, pk)
    PROVE  Ends(c)
<1>1. i \in DOMAIN txs
  BY DEF Progress
<1>2. /\ txs[i].call = c /\ txs[i].work = "sign" /\ txs[i].status = "completed"
      /\ a.sig = [payload |-> a.sig.payload, key |-> a.sig.key]
  BY <1>1, SignatureMade, SMTT(90)
<1> QED BY <1>1, <1>2, VerifiedEnds

\* An exchange that fails ends a call.
LEMMA FailureEnds ==
    ASSUME CustodyInv, NEW c \in Call, NEW errors, ExchangeFails(c, errors)
    PROVE  pc[c] \notin {"idle", "done", "dropped"} /\ Ends(c)
<1>1. Fits(c, pc[c], ask[c], wire[c], mem[c])
  BY CallFacts
<1>2. pc[c] \notin AtRest
  BY <1>1 DEF ExchangeFails, Awaiting, Fits, Resting, AtRest
<1>3. Ends(c)
  BY ErrEnds DEF ExchangeFails
<1> QED BY <1>2, <1>3 DEF AtRest

\* The generic client.
LEMMA GenericGoes ==
    ASSUME CustodyInv, NEW c \in Call, provider = "generic", GenericStep(c)
    PROVE  pc[c] \notin {"idle", "done", "dropped"} /\ (Continues(c) \/ Ends(c))
<1>1. Fits(c, pc[c], ask[c], wire[c], mem[c])
  BY CallFacts
<1>2. CASE ExchangeFails(c, ExchangeError)
  BY <1>2, FailureEnds
<1>3. ASSUME ~ExchangeFails(c, ExchangeError)
      PROVE  pc[c] \in {"start", "reply"}
  BY <1>3 DEF GenericStep, GenericSign, GenericDkg, GenericRotate,
              GenericKeyMetadata, GenericRestore, Got
<1>4. CASE pc[c] = "start" /\ ~ExchangeFails(c, ExchangeError)
  <2>1. Pristine(c) /\ op[c] \in Operation
    BY <1>1, <1>4 DEF Fits, AtRest, Resting
  <2>2. ASSUME NEW a, Await(c, "reply", a, NoLocals),
               AtReply(c, a, Nothing, NoLocals)
        PROVE  Continues(c)
    <3>1. Fits(c, "reply", a, Nothing, NoLocals) /\ "reply" \notin AtRest
      BY <2>1, <2>2 DEF Fits, AtRest
    <3> QED BY <2>2, <3>1 DEF Continues
  <2>3. CASE op[c].name = "sign" /\ GenericSign(c)
    BY <1>4, <2>1, <2>2, <2>3 DEF GenericSign, Got, AtReply
  <2>4. CASE op[c].name = "dkg" /\ GenericDkg(c)
    BY <1>4, <2>1, <2>2, <2>4 DEF GenericDkg, Got, AtReply
  <2>5. CASE op[c].name = "rotate_key" /\ GenericRotate(c)
    BY <1>4, <2>1, <2>2, <2>5 DEF GenericRotate, Got, AtReply
  <2>6. CASE op[c].name = "get_key_metadata" /\ GenericKeyMetadata(c)
    BY <1>4, <2>1, <2>2, <2>6 DEF GenericKeyMetadata, Got, AtReply
  <2>7. CASE op[c].name = "restore_share" /\ GenericRestore(c)
    <3>1. Return(c, Err({"Denied"})) => Ends(c)
      BY ErrEnds
    <3> QED BY <1>4, <2>1, <2>2, <2>7, <3>1 DEF GenericRestore, Got, AtReply
  <2> QED BY <1>4, <2>3, <2>4, <2>5, <2>6, <2>7 DEF GenericStep
<1>5. CASE pc[c] = "reply" /\ ~ExchangeFails(c, ExchangeError)
  <2>1. AtReply(c, ask[c], wire[c], mem[c])
    BY <1>1, <1>5 DEF Fits, AtRest
  <2>2. CASE op[c].name = "sign" /\ GenericSign(c)
    <3>1. wire[c] # Nothing /\ ReturnVerified(c, wire[c].sig, wire[c].pk)
      BY <1>5, <2>2 DEF GenericSign, Got
    <3>2. PICK i \in DOMAIN txs : Progress(c, i, wire[c])
      BY <2>1, <2>2, <3>1 DEF AtReply
    <3>3. wire[c].kind = "completed"
      BY <2>1, <2>2, <3>1 DEF AtReply
    <3> QED BY <1>5, <2>2, <3>1, <3>2, <3>3, SignEnds DEF Signs
  <2>3. CASE op[c].name = "dkg" /\ GenericDkg(c)
    <3>1. wire[c] # Nothing /\ Return(c, Created(wire[c].id, wire[c].pk))
      BY <1>5, <2>3 DEF GenericDkg, Got
    <3>2. NewKey(c, wire[c].id, wire[c].pk)
      BY <2>1, <2>3, <3>1 DEF AtReply
    <3> QED BY <1>5, <3>1, <3>2, CreatedEnds
  <2>4. CASE op[c].name = "rotate_key" /\ GenericRotate(c)
    BY <1>5, <2>4, RotatedEnds DEF GenericRotate
  <2>5. CASE op[c].name = "get_key_metadata" /\ GenericKeyMetadata(c)
    BY <1>5, <2>5, MetadataEnds DEF GenericKeyMetadata
  <2>6. CASE op[c].name = "restore_share" /\ GenericRestore(c)
    <3>1. Verdict(c, [kind |-> "restored"]) /\ [kind |-> "restored"] # Nothing
      BY DEF Verdict, Nothing
    <3> QED BY <1>5, <2>6, <3>1 DEF GenericRestore, Ends
  <2> QED BY <1>5, <2>2, <2>3, <2>4, <2>5, <2>6 DEF GenericStep
<1> QED BY <1>2, <1>3, <1>4, <1>5
\* The Fireblocks adapter.
LEMMA FireblocksGoes ==
    ASSUME CustodyInv, NEW c \in Call, provider = "fireblocks", FireblocksStep(c)
    PROVE  pc[c] \notin {"idle", "done", "dropped"} /\ (Continues(c) \/ Ends(c))
<1>1. Fits(c, pc[c], ask[c], wire[c], mem[c])
  BY CallFacts
<1>2. pc[c] # "idle" => op[c] \in Operation /\ op[c].chain \in DOMAIN asset_id
  BY <1>1, CustodyParams DEF Fits
<1>3. pc[c] = "start" => Pristine(c)
  BY <1>1 DEF Fits, AtRest, Resting
<1>4. ASSUME NEW p \in {"vault", "asset", "public_key", "create_tx", "poll"},
             NEW a, NEW m, Await(c, p, a, m), pc[c] # "idle",
             \/ p = "vault" /\ AtVault(c, a, Nothing, m)
             \/ p = "asset" /\ AtAsset(c, a, Nothing, m)
             \/ p = "public_key" /\ AtPublicKey(c, a, Nothing, m)
             \/ p = "create_tx" /\ AtCreateTx(c, a, Nothing, m)
             \/ p = "poll" /\ AtPoll(c, a, Nothing, m)
      PROVE  Continues(c)
  <2>1. Fits(c, p, a, Nothing, m) /\ p \notin AtRest
    BY <1>2, <1>4 DEF Fits, AtRest
  <2> QED BY <1>4, <2>1 DEF Continues
<1>5. CASE ExchangeFails(c, FireblocksErrors)
  BY <1>5, FailureEnds
<1>6. CASE op[c].name = "sign" /\ FireblocksSign(c)
  <2>1. CASE pc[c] = "start"
    <3> DEFINE a == [kind |-> "create_tx", id |-> op[c].key,
                     slot |-> asset_id[op[c].chain]]
    <3>1. Await(c, "create_tx", a, NoLocals)
      BY <1>6, <2>1 DEF FireblocksSign, poll_transaction, Got, SignedRequest
    <3>2. AtCreateTx(c, a, Nothing, NoLocals)
      BY <1>3, <1>6, <2>1 DEF AtCreateTx, Signs
    <3> QED BY <1>4, <2>1, <3>1, <3>2
  <2>2. ASSUME NEW i, NEW polls \in 1..MaxPolls, GetTransaction(c, i, polls),
               i \in DOMAIN txs, txs[i].call = c, pc[c] # "idle"
        PROVE  Continues(c)
    <3> DEFINE a == [kind |-> "transaction", id |-> i]
               m == [NoLocals EXCEPT !.id = i, !.polls = polls]
    <3>1. Await(c, "poll", a, m)
      BY <2>2 DEF GetTransaction, SignedRequest
    <3>2. AtPoll(c, a, Nothing, m)
      BY <1>6, <2>2 DEF AtPoll, Signs, NoLocals
    <3> QED BY <1>4, <2>2, <3>1, <3>2
  <2>3. CASE Got(c, "create_tx") /\ GetTransaction(c, wire[c].id, 1)
    <3>1. AtCreateTx(c, ask[c], wire[c], mem[c])
      BY <1>1, <2>3 DEF Fits, AtRest, Got
    <3>2. wire[c].id \in DOMAIN txs /\ txs[wire[c].id].call = c
      BY <2>3, <3>1 DEF AtCreateTx, Got
    <3>3. 1 \in 1..MaxPolls
      BY HttpParams, SMTT(90)
    <3> QED BY <2>2, <2>3, <3>2, <3>3 DEF Got
  <2>4. CASE pc[c] = "poll" /\ poll_transaction(c)
    <3>1. AtPoll(c, ask[c], wire[c], mem[c])
      BY <1>1, <2>4 DEF Fits, AtRest
    <3>2. Progress(c, mem[c].id, wire[c])
      BY <2>4, <3>1 DEF AtPoll, poll_transaction, Got
    <3>3. CASE wire[c].kind = "completed" /\ ReturnVerified(c, wire[c].sig, wire[c].pk)
      BY <1>6, <2>4, <3>2, <3>3, SignEnds DEF Signs
    <3>4. CASE Return(c, Err({"Internal"}))
      BY <2>4, <3>4, ErrEnds
    <3>5. CASE Return(c, Err({"Transient"}))
      BY <2>4, <3>5, ErrEnds
    <3>6. CASE mem[c].polls < MaxPolls /\ GetTransaction(c, mem[c].id, mem[c].polls + 1)
      <4>1. /\ mem[c].id \in DOMAIN txs /\ txs[mem[c].id].call = c
            /\ mem[c].polls + 1 \in 1..MaxPolls
        BY <3>1, <3>6, HttpParams, SMTT(90) DEF AtPoll
      <4> QED BY <2>2, <2>4, <3>6, <4>1
    <3> QED BY <2>4, <3>3, <3>4, <3>5, <3>6 DEF poll_transaction
  <2> QED BY <1>6, <2>1, <2>3, <2>4 DEF FireblocksSign, poll_transaction, Got
<1>7. ASSUME NEW n, NEW s \in SlotName, AddAsset(c, n, s), pc[c] # "idle",
             \/ op[c].name = "dkg" /\ Mine(c, n)
             \/ op[c].name = "rotate_key"
      PROVE  Continues(c)
  <2> DEFINE a == [kind |-> "asset_wallet", id |-> n, slot |-> s]
             m == [NoLocals EXCEPT !.id = n]
  <2>1. Await(c, "asset", a, m)
    BY <1>7 DEF AddAsset, SignedRequest
  <2>2. AtAsset(c, a, Nothing, m)
    BY <1>7 DEF AtAsset, NoLocals
  <2> QED BY <1>4, <1>7, <2>1, <2>2
<1>8. ASSUME NEW n, NEW s, NEW index, fetch_public_key(c, n, s, index),
             pc[c] # "idle",
             \/ /\ op[c].name = "dkg" /\ Mine(c, n)
                /\ s = asset_id[op[c].chain] /\ index = 0
             \/ op[c].name \in {"rotate_key", "get_key_metadata"}
      PROVE  Continues(c)
  <2> DEFINE a == [kind |-> "public_key_info", id |-> n, slot |-> s,
                   index |-> index]
             m == [NoLocals EXCEPT !.id = n]
  <2>1. Await(c, "public_key", a, m)
    BY <1>8 DEF fetch_public_key, SignedRequest
  <2>2. AtPublicKey(c, a, Nothing, m)
    BY <1>8 DEF AtPublicKey, NoLocals
  <2> QED BY <1>4, <1>8, <2>1, <2>2
<1>9. CASE op[c].name = "dkg" /\ FireblocksDkg(c)
  <2>1. CASE pc[c] = "start"
    <3>1. Await(c, "vault", [kind |-> "vault_account"], NoLocals)
      BY <1>9, <2>1 DEF FireblocksDkg, Got, SignedRequest
    <3>2. AtVault(c, [kind |-> "vault_account"], Nothing, NoLocals)
      BY <1>3, <1>9, <2>1 DEF AtVault
    <3> QED BY <1>4, <2>1, <3>1, <3>2
  <2>2. CASE Got(c, "vault") /\ AddAsset(c, wire[c].id, asset_id[op[c].chain])
    <3>1. AtVault(c, ask[c], wire[c], mem[c])
      BY <1>1, <2>2 DEF Fits, AtRest, Got
    <3>2. Mine(c, wire[c].id) /\ asset_id[op[c].chain] \in SlotName
      BY <1>2, <2>2, <3>1, SMTT(90) DEF AtVault, Got, asset_id, SlotName
    <3> QED BY <1>7, <1>9, <2>2, <3>2 DEF Got
  <2>3. CASE Got(c, "asset") /\ fetch_public_key(c, mem[c].id, asset_id[op[c].chain], 0)
    <3>1. AtAsset(c, ask[c], wire[c], mem[c])
      BY <1>1, <2>3 DEF Fits, AtRest, Got
    <3>2. Mine(c, mem[c].id)
      BY <1>9, <3>1 DEF AtAsset
    <3> QED BY <1>8, <1>9, <2>3, <3>2 DEF Got
  <2>4. CASE Got(c, "public_key")
             /\ Return(c, Created(mem[c].id, wire[c].pk))
    <3>1. AtPublicKey(c, ask[c], wire[c], mem[c])
      BY <1>1, <2>4 DEF Fits, AtRest, Got
    <3>2. NewKey(c, mem[c].id, wire[c].pk)
      BY <1>9, <2>4, <3>1 DEF AtPublicKey, Got, NewKey, Slot
    <3> QED BY <2>4, <3>2, CreatedEnds DEF Got
  <2> QED BY <1>9, <2>1, <2>2, <2>3, <2>4 DEF FireblocksDkg
<1>10. CASE op[c].name = "rotate_key" /\ FireblocksRotateKey(c)
  <2>1. CASE Got(c, "public_key") /\ Return(c, Rotated(op[c].key, wire[c].pk, 0))
    BY <2>1, RotatedEnds DEF Got
  <2>2. asset_id.evm \in SlotName
    BY DEF asset_id, SlotName
  <2> QED BY <1>7, <1>8, <1>10, <2>1, <2>2 DEF FireblocksRotateKey, Got
<1>11. CASE op[c].name = "get_key_metadata" /\ FireblocksGetKeyMetadata(c)
  BY <1>8, <1>11, MetadataEnds DEF FireblocksGetKeyMetadata, Got
<1>12. CASE op[c].name = "restore_share" /\ FireblocksRestoreShare(c)
  BY <1>12, ErrEnds DEF FireblocksRestoreShare
<1> QED
  BY <1>5, <1>6, <1>9, <1>10, <1>11, <1>12 DEF FireblocksStep
\* A completed answer to a call that creates a wallet: the wallet is its own.
LEMMA WalletMade ==
    ASSUME CustodyInv, NEW c \in Call, op[c].name \in {"dkg", "rotate_key"},
           NEW i, NEW a, Progress(c, i, a), a.kind = "completed"
    PROVE  /\ Mine(c, a.key)
           /\ op[c].name = "dkg" =>
                  chain_params(op[c].chain) \in SlotsOf(a.key)
<1>1. txs[i] \in Tx /\ TxOK(txs[i]) /\ txs[i].call = c
  BY SMTT(90) DEF CustodyInv, Shape, Books, RequestsOK, Progress
<1>2. txs[i].work = "create"
  BY <1>1 DEF Tx, TxOK, Signs
<1>3. txs[i].status = "completed" /\ a.key = txs[i].id
  BY <1>2 DEF Progress
<1> QED BY <1>1, <1>2, <1>3 DEF TxOK

\* Outside Fireblocks a key id has one wallet.
LEMMA OneSlot ==
    ASSUME Books, provider # "fireblocks", NEW n, NEW s \in SlotsOf(n),
           NEW t \in SlotsOf(n), held \in SUBSET (Nat \X SlotName)
    PROVE  s = t
<1>1. PICK v \in held : v[1] = n /\ v[2] = s
  BY DEF SlotsOf
<1>2. PICK w \in held : w[1] = n /\ w[2] = t
  BY DEF SlotsOf
<1>3. v = w
  BY <1>1, <1>2 DEF Books, KeysOK
<1> QED BY <1>1, <1>2, <1>3

\* The Turnkey adapter.
LEMMA TurnkeyGoes ==
    ASSUME CustodyInv, NEW c \in Call, provider = "turnkey", TurnkeyStep(c)
    PROVE  pc[c] \notin {"idle", "done", "dropped"} /\ (Continues(c) \/ Ends(c))
<1>1. Fits(c, pc[c], ask[c], wire[c], mem[c])
  BY CallFacts
<1>2. pc[c] # "idle" => op[c] \in Operation
  BY <1>1 DEF Fits
<1>3. pc[c] = "start" => Pristine(c)
  BY <1>1 DEF Fits, AtRest, Resting
<1>4. ASSUME NEW p \in {"account", "submit", "activity", "new_account"},
             NEW a, NEW m, Await(c, p, a, m), pc[c] # "idle",
             \/ p = "account" /\ AtRead(c, a, Nothing, m)
             \/ p = "submit" /\ AtSubmit(c, a, Nothing, m)
             \/ p = "activity" /\ AtPoll(c, a, Nothing, m)
             \/ p = "new_account" /\ AtNewAccount(c, a, Nothing, m)
      PROVE  Continues(c)
  <2>1. Fits(c, p, a, Nothing, m) /\ p \notin AtRest
    BY <1>2, <1>4 DEF Fits, AtRest
  <2> QED BY <1>4, <2>1 DEF Continues
<1>5. CASE ExchangeFails(c, TurnkeyErrors)
  BY <1>5, FailureEnds
<1>6. CASE pc[c] = "start" /\ fetch_wallet_account(c, op[c].key)
           /\ op[c].name \in {"sign", "get_key_metadata"}
  <2> DEFINE a == [kind |-> "get_wallet_account", id |-> op[c].key]
  <2>1. Await(c, "account", a, NoLocals)
    BY <1>6 DEF fetch_wallet_account, rpc
  <2>2. AtRead(c, a, Nothing, NoLocals)
    BY <1>3, <1>6 DEF AtRead
  <2> QED BY <1>4, <1>6, <2>1, <2>2
<1>7. pc[c] = "submit" => AtSubmit(c, ask[c], wire[c], mem[c])
  BY <1>1 DEF Fits, AtRest
<1>8. pc[c] = "activity" => AtPoll(c, ask[c], wire[c], mem[c])
  BY <1>1 DEF Fits, AtRest
<1>9. ASSUME Got(c, "submit") \/ Got(c, "activity")
      PROVE  \E i \in DOMAIN txs : Progress(c, i, wire[c])
  BY <1>7, <1>8, <1>9 DEF Got, AtSubmit, AtPoll
<1>10. ASSUME NEW i \in DOMAIN txs, txs[i].call = c, NEW polls \in 1..MaxPolls,
              GetActivity(c, i, polls), pc[c] \in {"submit", "activity"}
       PROVE  Continues(c)
  <2> DEFINE a == [kind |-> "get_activity", id |-> i]
             m == [mem[c] EXCEPT !.id = i, !.polls = polls]
  <2>1. Await(c, "activity", a, m)
    BY <1>10 DEF GetActivity, rpc
  <2>2. /\ DOMAIN mem[c] = DOMAIN NoLocals
        /\ op[c].name \in {"sign", "dkg", "rotate_key"}
    BY <1>7, <1>8, <1>10 DEF AtSubmit, AtPoll, Signs
  <2>3. AtPoll(c, a, Nothing, m)
    BY <1>10, <2>2 DEF AtPoll, NoLocals
  <2> QED BY <1>4, <1>10, <2>1, <2>3
<1>11. CASE submit_and_wait(c)
  <2>1. CASE Got(c, "submit") /\ wire[c].kind # "completed"
             /\ GetActivity(c, wire[c].id, 1)
    <3>1. PICK i \in DOMAIN txs : Progress(c, i, wire[c])
      BY <1>9, <2>1
    <3>2. wire[c].id = i /\ txs[i].call = c
      BY <2>1, <3>1 DEF Progress
    <3>3. 1 \in 1..MaxPolls
      BY HttpParams, SMTT(90)
    <3> QED BY <1>10, <2>1, <3>2, <3>3 DEF Got
  <2>2. CASE Got(c, "activity") /\ Return(c, Err({"Internal"}))
    BY <2>2, ErrEnds DEF Got
  <2>3. CASE Got(c, "activity") /\ Return(c, Err({"ProviderUnavailable"}))
    BY <2>3, ErrEnds DEF Got
  <2>4. CASE Got(c, "activity") /\ mem[c].polls < MaxPolls
             /\ GetActivity(c, mem[c].id, mem[c].polls + 1)
    <3>1. /\ mem[c].id \in DOMAIN txs /\ txs[mem[c].id].call = c
          /\ mem[c].polls + 1 \in 1..MaxPolls
      BY <1>8, <2>4, HttpParams, SMTT(90) DEF AtPoll, Got
    <3> QED BY <1>10, <2>4, <3>1 DEF Got
  <2> QED BY <1>11, <2>1, <2>2, <2>3, <2>4 DEF submit_and_wait, poll_activity
<1>12. CASE op[c].name = "sign" /\ TurnkeySign(c)
  <2>1. CASE Got(c, "account")
             /\ rpc(c, "submit", [kind |-> "sign_raw_payload", id |-> op[c].key],
                    [NoLocals EXCEPT !.pk = wire[c].pk])
    <3> DEFINE a == [kind |-> "sign_raw_payload", id |-> op[c].key]
               m == [NoLocals EXCEPT !.pk = wire[c].pk]
    <3>1. AtRead(c, ask[c], wire[c], mem[c])
      BY <1>1, <2>1 DEF Fits, AtRest, Got
    <3>2. AtSubmit(c, a, Nothing, m)
      BY <1>12, <2>1, <3>1 DEF AtRead, AtSubmit, Signs, NoLocals, Got
    <3>3. Await(c, "submit", a, m)
      BY <2>1 DEF rpc
    <3> QED BY <1>4, <2>1, <3>2, <3>3 DEF Got
  <2>2. CASE Completed(c) /\ ReturnVerified(c, wire[c].sig, mem[c].pk)
    <3>1. PICK i \in DOMAIN txs : Progress(c, i, wire[c])
      BY <1>9, <2>2 DEF Completed
    <3>2. Ends(c)
      BY <1>12, <2>2, <3>1, SignEnds DEF Completed, Signs
    <3> QED BY <2>2, <3>2 DEF Completed, Got
  <2>3. submit_and_wait(c) => pc[c] \notin {"idle", "done", "dropped"}
    BY DEF submit_and_wait, poll_activity, Got
  <2> QED BY <1>6, <1>11, <1>12, <2>1, <2>2, <2>3 DEF TurnkeySign
<1>13. ASSUME NEW chain, CreateWallet(c, chain), op[c].name \in {"dkg", "rotate_key"},
              op[c].name = "dkg" => chain = op[c].chain
       PROVE  pc[c] \notin {"idle", "done", "dropped"} /\ (Continues(c) \/ Ends(c))
  <2>1. CASE pc[c] = "start"
    <3> DEFINE a == [kind |-> "create_wallet", slot |-> chain_params(chain)]
    <3>1. Await(c, "submit", a, NoLocals)
      BY <1>13, <2>1 DEF CreateWallet, submit_and_wait, poll_activity, Completed,
                         Got, rpc
    <3>2. chain_params(chain) \in SlotName
      BY DEF chain_params, SlotName
    <3>3. AtSubmit(c, a, Nothing, NoLocals)
      BY <1>3, <1>13, <2>1, <3>2 DEF AtSubmit, NoLocals
    <3> QED BY <1>4, <2>1, <3>1, <3>3
  <2>2. CASE Completed(c) /\ FetchNewPublicKey(c, wire[c].key)
    <3> DEFINE n == wire[c].key
               a == [kind |-> "get_wallet_account", id |-> n]
               m == [NoLocals EXCEPT !.id = n]
    <3>1. PICK i \in DOMAIN txs : Progress(c, i, wire[c])
      BY <1>9, <2>2 DEF Completed
    <3>2. /\ Mine(c, n)
          /\ op[c].name = "dkg" => chain_params(op[c].chain) \in SlotsOf(n)
      BY <1>13, <2>2, <3>1, WalletMade DEF Completed
    <3>3. Await(c, "new_account", a, m)
      BY <2>2 DEF FetchNewPublicKey, rpc
    <3>4. AtNewAccount(c, a, Nothing, m)
      BY <1>13, <3>2 DEF AtNewAccount, NoLocals
    <3> QED BY <1>4, <2>2, <3>3, <3>4 DEF Completed, Got
  <2>3. submit_and_wait(c) => pc[c] \notin {"idle", "done", "dropped"}
    BY DEF submit_and_wait, poll_activity, Got
  <2> QED BY <1>11, <1>13, <2>1, <2>2, <2>3 DEF CreateWallet
<1>14. CASE op[c].name = "dkg" /\ TurnkeyDkg(c)
  <2>1. CASE Got(c, "new_account")
             /\ Return(c, Created(mem[c].id, wire[c].pk))
    <3>1. AtNewAccount(c, ask[c], wire[c], mem[c])
      BY <1>1, <2>1 DEF Fits, AtRest, Got
    <3>2. /\ Mine(c, mem[c].id) /\ Keyed(mem[c].id, wire[c].pk)
          /\ chain_params(op[c].chain) \in SlotsOf(mem[c].id)
      BY <1>14, <2>1, <3>1 DEF AtNewAccount, Got
    <3>3. wire[c].pk = PublicKey(mem[c].id, chain_params(op[c].chain), 0)
      BY <3>2, OneSlot DEF Keyed, CustodyInv, Shape
    <3>4. NewKey(c, mem[c].id, wire[c].pk)
      BY <3>2, <3>3 DEF NewKey, Slot
    <3> QED BY <2>1, <3>4, CreatedEnds DEF Got
  <2> QED BY <1>13, <1>14, <2>1 DEF TurnkeyDkg
<1>15. CASE op[c].name = "rotate_key" /\ TurnkeyRotateKey(c)
  <2>1. CASE Got(c, "new_account") /\ Return(c, Rotated(mem[c].id, wire[c].pk, 0))
    BY <2>1, RotatedEnds DEF Got
  <2> QED BY <1>13, <1>15, <2>1 DEF TurnkeyRotateKey
<1>16. CASE op[c].name = "get_key_metadata" /\ TurnkeyGetKeyMetadata(c)
  <2>1. ASSUME NEW chain, Return(c, Metadata(op[c].key, chain, wire[c].pk))
        PROVE  Ends(c)
    BY <2>1, MetadataEnds
  <2> QED BY <1>6, <1>16, <2>1 DEF TurnkeyGetKeyMetadata, Got
<1>17. CASE op[c].name = "restore_share" /\ TurnkeyRestoreShare(c)
  BY <1>17, ErrEnds DEF TurnkeyRestoreShare
<1> QED
  BY <1>5, <1>12, <1>14, <1>15, <1>16, <1>17 DEF TurnkeyStep
\* The Dfns adapter.
LEMMA DfnsGoes ==
    ASSUME CustodyInv, NEW c \in Call, provider = "dfns", DfnsStep(c)
    PROVE  pc[c] \notin {"idle", "done", "dropped"} /\ (Continues(c) \/ Ends(c))
<1>1. Fits(c, pc[c], ask[c], wire[c], mem[c])
  BY CallFacts
<1>2. pc[c] # "idle" => op[c] \in Operation
  BY <1>1 DEF Fits
<1>3. pc[c] = "start" => Pristine(c)
  BY <1>1 DEF Fits, AtRest, Resting
<1>4. ASSUME NEW p \in {"init", "action", "post", "signature", "key", "wallet"},
             NEW a, NEW m, Await(c, p, a, m), pc[c] # "idle",
             \/ p \in {"init", "action"} /\ AtToken(c, a, Nothing, m)
             \/ p = "post" /\ AtPost(c, a, Nothing, m)
             \/ p = "signature" /\ AtPoll(c, a, Nothing, m)
             \/ p \in {"key", "wallet"} /\ AtRead(c, a, Nothing, m)
      PROVE  Continues(c)
  <2>1. Fits(c, p, a, Nothing, m) /\ p \notin AtRest
    BY <1>2, <1>4 DEF Fits, AtRest
  <2> QED BY <1>4, <2>1 DEF Continues
<1>5. CASE DfnsExchangeFails(c)
  <2>1. CASE pc[c] = "key" /\ get_json(c, "wallet", [kind |-> "wallet", id |-> op[c].key],
                                       NoLocals)
    <3> DEFINE a == [kind |-> "wallet", id |-> op[c].key]
    <3>1. AtRead(c, ask[c], wire[c], mem[c])
      BY <1>1, <2>1 DEF Fits, AtRest
    <3>2. AtRead(c, a, Nothing, NoLocals)
      BY <3>1 DEF AtRead
    <3>3. Await(c, "wallet", a, NoLocals)
      BY <2>1 DEF get_json
    <3> QED BY <1>4, <2>1, <3>2, <3>3
  <2> QED BY <1>5, <2>1, FailureEnds DEF DfnsExchangeFails
<1>6. ASSUME NEW body, post_json(c, body),
             \/ Signs(c) /\ body = [kind |-> "signatures", id |-> op[c].key]
             \/ /\ op[c].name = "dkg"
                /\ body = wallet_body(signing_scheme(op[c].chain))
             \/ op[c].name = "rotate_key" /\ body = wallet_body("ECDSA")
      PROVE  pc[c] \notin {"idle", "done", "dropped"} /\ Continues(c)
  <2>1. op[c].name \in {"sign", "dkg", "rotate_key"}
    BY <1>6 DEF Signs
  <2>2. CASE pc[c] = "start"
    <3> DEFINE a == [kind |-> "init", payload |-> body]
    <3>1. Await(c, "init", a, NoLocals)
      BY <1>6, <2>2 DEF post_json, user_action_token, post_json_no_action, Got
    <3>2. AtToken(c, a, Nothing, NoLocals)
      BY <1>3, <2>1, <2>2 DEF AtToken
    <3> QED BY <1>4, <2>2, <3>1, <3>2
  <2>3. CASE pc[c] = "init"
    <3> DEFINE a == first_factor(wire[c].challenge)
    <3>1. Await(c, "action", a, NoLocals)
      BY <1>6, <2>3 DEF post_json, user_action_token, post_json_no_action, Got
    <3>2. AtToken(c, ask[c], wire[c], mem[c])
      BY <1>1, <2>3 DEF Fits, AtRest
    <3>3. AtToken(c, a, Nothing, NoLocals)
      BY <3>2 DEF AtToken, first_factor
    <3> QED BY <1>4, <2>3, <3>1, <3>3
  <2>4. CASE pc[c] = "action"
    <3> DEFINE a == [kind |-> "post", body |-> body, token |-> wire[c].token]
    <3>1. Await(c, "post", a, NoLocals)
      BY <1>6, <2>4 DEF post_json, user_action_token, Got
    <3>2. AtToken(c, ask[c], wire[c], mem[c])
      BY <1>1, <2>4 DEF Fits, AtRest
    <3>3. AtPost(c, a, Nothing, NoLocals)
      BY <1>6, <3>2 DEF AtToken, AtPost
    <3> QED BY <1>4, <2>4, <3>1, <3>3
  <2> QED BY <1>6, <2>2, <2>3, <2>4 DEF post_json, user_action_token, Got
<1>7. pc[c] = "post" => AtPost(c, ask[c], wire[c], mem[c])
  BY <1>1 DEF Fits, AtRest
<1>8. CASE op[c].name = "sign" /\ DfnsSign(c)
  <2>1. ASSUME NEW i \in DOMAIN txs, txs[i].call = c, NEW polls \in 1..MaxPolls,
               GetSignature(c, i, polls), pc[c] # "idle"
        PROVE  Continues(c)
    <3> DEFINE a == [kind |-> "signature", id |-> i]
               m == [NoLocals EXCEPT !.id = i, !.polls = polls]
    <3>1. Await(c, "signature", a, m)
      BY <2>1 DEF GetSignature, get_json
    <3>2. AtPoll(c, a, Nothing, m)
      BY <1>8, <2>1 DEF AtPoll, Signs, NoLocals
    <3> QED BY <1>4, <2>1, <3>1, <3>2
  <2>2. ASSUME Got(c, "post")
        PROVE  \E i \in DOMAIN txs : Progress(c, i, wire[c])
    BY <1>7, <1>8, <2>2 DEF Got, AtPost
  <2>3. CASE Got(c, "post") /\ wire[c].kind = "completed"
             /\ ReturnVerified(c, wire[c].sig, wire[c].pk)
    BY <1>8, <2>2, <2>3, SignEnds DEF Signs, Got
  <2>4. CASE Got(c, "post") /\ wire[c].kind # "completed"
             /\ GetSignature(c, wire[c].id, 1)
    <3>1. PICK i \in DOMAIN txs : Progress(c, i, wire[c])
      BY <2>2, <2>4
    <3>2. wire[c].id = i /\ txs[i].call = c
      BY <2>4, <3>1 DEF Progress
    <3>3. 1 \in 1..MaxPolls
      BY HttpParams, SMTT(90)
    <3> QED BY <2>1, <2>4, <3>2, <3>3 DEF Got
  <2>5. CASE pc[c] = "signature" /\ wait_for_signature(c)
    <3>1. AtPoll(c, ask[c], wire[c], mem[c])
      BY <1>1, <2>5 DEF Fits, AtRest
    <3>2. Progress(c, mem[c].id, wire[c])
      BY <2>5, <3>1 DEF AtPoll, wait_for_signature, Got
    <3>3. CASE wire[c].kind = "completed" /\ ReturnVerified(c, wire[c].sig, wire[c].pk)
      BY <1>8, <2>5, <3>2, <3>3, SignEnds DEF Signs
    <3>4. CASE Return(c, Err({"Denied"}))
      BY <2>5, <3>4, ErrEnds
    <3>5. CASE Return(c, Err({"Transient"}))
      BY <2>5, <3>5, ErrEnds
    <3>6. CASE mem[c].polls < MaxPolls /\ GetSignature(c, mem[c].id, mem[c].polls + 1)
      <4>1. /\ mem[c].id \in DOMAIN txs /\ txs[mem[c].id].call = c
            /\ mem[c].polls + 1 \in 1..MaxPolls
        BY <3>1, <3>6, HttpParams, SMTT(90) DEF AtPoll
      <4> QED BY <2>1, <2>5, <3>6, <4>1
    <3> QED BY <2>5, <3>3, <3>4, <3>5, <3>6 DEF wait_for_signature
  <2>6. wait_for_signature(c) => pc[c] = "signature"
    BY DEF wait_for_signature, Got
  <2> QED BY <1>6, <1>8, <2>3, <2>4, <2>5, <2>6 DEF DfnsSign, Signs
<1>9. CASE op[c].name = "dkg" /\ DfnsDkg(c)
  <2>1. CASE Got(c, "post") /\ Return(c, Created(wire[c].id, wire[c].pk))
    <3>1. NewKey(c, wire[c].id, wire[c].pk)
      BY <1>7, <1>9, <2>1 DEF AtPost, Got, Signs
    <3> QED BY <2>1, <3>1, CreatedEnds DEF Got
  <2> QED BY <1>6, <1>9, <2>1 DEF DfnsDkg
<1>10. CASE op[c].name = "rotate_key" /\ DfnsRotateKey(c)
  <2>1. CASE Got(c, "post") /\ Return(c, Rotated(op[c].key, wire[c].pk, 0))
    BY <2>1, RotatedEnds DEF Got
  <2> QED BY <1>6, <1>10, <2>1 DEF DfnsRotateKey
<1>11. CASE op[c].name = "get_key_metadata" /\ DfnsGetKeyMetadata(c)
  <2>1. CASE pc[c] = "start"
    <3> DEFINE a == [kind |-> "key", id |-> op[c].key]
    <3>1. Await(c, "key", a, NoLocals)
      BY <1>11, <2>1 DEF DfnsGetKeyMetadata, get_json, Got
    <3>2. AtRead(c, a, Nothing, NoLocals)
      BY <1>3, <1>11, <2>1 DEF AtRead
    <3> QED BY <1>4, <2>1, <3>1, <3>2
  <2>2. CASE (Got(c, "key") \/ Got(c, "wallet"))
             /\ Return(c, Metadata(op[c].key, "evm", wire[c].pk))
    BY <2>2, MetadataEnds DEF Got
  <2> QED BY <1>11, <2>1, <2>2 DEF DfnsGetKeyMetadata
<1>12. CASE op[c].name = "restore_share" /\ DfnsRestoreShare(c)
  BY <1>12, ErrEnds DEF DfnsRestoreShare
<1> QED
  BY <1>5, <1>8, <1>9, <1>10, <1>11, <1>12 DEF DfnsStep
=============================================================================
