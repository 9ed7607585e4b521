------------------------ MODULE CustodyProviderProofs ------------------------
(***************************************************************************)
(* Proofs about the custody backends, continued: the steps of the provider *)
(* keep the invariant, and what follows from it for any calls, operations  *)
(* and number of polls.                                                    *)
(***************************************************************************)
EXTENDS CustodyProofs

\* Zenon proves the leaves that name no other prover.
USE ZenonT(90)

-----------------------------------------------------------------------------
(* The steps of the provider.                                              *)

\* A call that is answered with the books as they are.
LEMMA AnswerKeeps ==
    ASSUME CustodyInv, NEW c \in Call, NEW w, Reply(c, w), UNCHANGED providerVars,
           Fits(c, pc[c], ask[c], w, mem[c])
    PROVE  CustodyInv'
<1>1. /\ Grows /\ op' = op
      /\ \A d \in Call : Pristine(d) => Pristine(d)'
  BY DEF Reply, providerVars, Grows, Pristine
<1>2. Books'
  BY SMTT(90) DEF Reply, providerVars, CustodyInv, Books, KeysOK, RequestsOK, SlotsOf,
         TxOK, Signs, Mine, asset_id, chain_params
<1>3. /\ Shape'
      /\ \A d \in Call \ {c} : wire'[d] = wire[d]
      /\ wire'[c] = w
      /\ pc' = pc /\ ask' = ask /\ mem' = mem /\ result' = result
  BY DEF Reply, providerVars, CustodyInv, Shape
<1>4. Talk(c)'
  <2>1. PICK p, a, m, r :
             p = pc[c] /\ a = ask[c] /\ m = mem[c] /\ r = result[c]
    OBVIOUS
  <2>2. Fits(c, p, a, w, m) /\ Verdict(c, r) /\ ((p = "done") <=> (r # Nothing))
    BY <2>1, CallFacts
  <2>3. Fits(c, p, a, w, m)' /\ Verdict(c, r)'
    BY <1>1, <2>2, StableFits, StableVerdict
  <2> QED BY <1>3, <2>1, <2>2, <2>3 DEF Talk, Nothing
<1> QED BY <1>1, <1>2, <1>3, <1>4, CallKeeps

\* A call that is answered while the books grow on its behalf.
LEMMA ChangeKeeps ==
    ASSUME CustodyInv, NEW c \in Call, NEW w, Reply(c, w), Grows, Books',
           owner' \in Seq(Call), held' \in SUBSET (Nat \X SlotName),
           txs' \in Seq(Tx),
           \A d \in Call \ {c} : Pristine(d) => Pristine(d)',
           NEW p, NEW a, NEW m, p = pc[c], a = ask[c], m = mem[c],
           Fits(c, p, a, w, m)'
    PROVE  CustodyInv'
<1>1. /\ Shape' /\ op' = op
      /\ \A d \in Call \ {c} : wire'[d] = wire[d]
      /\ wire'[c] = w
      /\ pc' = pc /\ ask' = ask /\ mem' = mem /\ result' = result
  BY DEF Reply, CustodyInv, Shape
<1>2. Talk(c)'
  <2>1. PICK r : r = result[c]
    OBVIOUS
  <2>2. Verdict(c, r) /\ ((p = "done") <=> (r # Nothing))
    BY <2>1, CallFacts
  <2>3. Verdict(c, r)'
    BY <1>1, <2>2, StableVerdict
  <2> QED BY <1>1, <2>1, <2>2, <2>3 DEF Talk, Nothing
<1> QED BY <1>1, <1>2, CallKeeps

\* What the provider does when it allots a key.
LEMMA AllotKeeps ==
    ASSUME Shape, KeysOK, NEW c \in Call, NEW s \in SlotName, Allot(c, s),
           provider' = provider, \A n \in DOMAIN owner : owner[n] # c
    PROVE  /\ KeysOK'
           /\ owner' \in Seq(Call) /\ held' \in SUBSET (Nat \X SlotName)
           /\ held \subseteq held'
           /\ \A n \in DOMAIN owner : n \in DOMAIN owner' /\ owner'[n] = owner[n]
           /\ \A n \in DOMAIN owner' : owner'[n] = c \/ n \in DOMAIN owner
           /\ FreshId \in Nat
           /\ \A k : k = FreshId => Mine(c, k)' /\ s \in SlotsOf(k)'
<1>1. /\ owner' \in Seq(Call) /\ Len(owner) \in Nat
      /\ FreshId = Len(owner) + 1
      /\ Len(owner') = Len(owner) + 1
      /\ DOMAIN owner = 1..Len(owner) /\ DOMAIN owner' = 1..(Len(owner) + 1)
      /\ owner'[FreshId] = c
      /\ \A n \in 1..Len(owner) : owner'[n] = owner[n]
  BY SMTT(90) DEF Allot, Shape, FreshId
<1>2. held' = held \cup {<<FreshId, s>>} /\ held \in SUBSET (Nat \X SlotName)
  BY DEF Allot, Shape
<1>3. held' \in SUBSET (Nat \X SlotName) /\ held \subseteq held'
  BY <1>1, <1>2, SMTT(90)
<1>4. /\ \A n : SlotsOf(n) \subseteq SlotsOf(n)'
      /\ \A k : k = FreshId => s \in SlotsOf(k)'
  <2>1. <<FreshId, s>> \in held' /\ <<FreshId, s>>[1] = FreshId
        /\ <<FreshId, s>>[2] = s
    BY <1>2
  <2>2. \A n : SlotsOf(n) \subseteq SlotsOf(n)'
    BY <1>3 DEF SlotsOf
  <2>3. PICK k, v : k = FreshId /\ v = <<FreshId, s>>
    OBVIOUS
  <2>4. v \in held' /\ v[1] = k /\ v[2] = s
    BY <2>1, <2>3
  <2>5. s \in SlotsOf(k)'
    BY <2>4 DEF SlotsOf
  <2> QED BY <2>2, <2>3, <2>5
<1>5. KeysOK'
  <2>1. \A w \in held : w[1] \in Nat /\ w[1] <= Len(owner) /\ w[1] # FreshId
    BY <1>1, <1>2, SMTT(90) DEF KeysOK
  <2>2. \A w \in held' : w[1] <= Len(owner')
    BY <1>1, <1>2, <2>1, SMTT(90)
  <2>3. provider # "fireblocks" => \A v, w \in held' : v[1] = w[1] => v = w
    BY <1>2, <2>1, SMTT(90) DEF KeysOK
  <2>4. \A n \in DOMAIN owner' : SlotsOf(n)' # {}
    <3> SUFFICES ASSUME NEW n \in DOMAIN owner' PROVE SlotsOf(n)' # {}
      OBVIOUS
    <3>1. CASE n \in DOMAIN owner
      BY <1>4, <3>1 DEF KeysOK
    <3>2. CASE n = FreshId
      BY <1>4, <3>2
    <3> QED BY <1>1, <3>1, <3>2, SMTT(90)
  <2>5. \A n, m \in DOMAIN owner' : owner'[n] = owner'[m] => n = m
    BY <1>1, SMTT(90) DEF KeysOK
  <2> QED BY <2>2, <2>3, <2>4, <2>5 DEF KeysOK
<1>6. \A k : k = FreshId => Mine(c, k)' /\ s \in SlotsOf(k)'
  BY <1>1, <1>4, SMTT(90) DEF Mine
<1> QED BY <1>1, <1>3, <1>5, <1>6, SMTT(90)

\* What it does when it accepts a request.
LEMMA AppendKeeps ==
    ASSUME txs \in Seq(Tx), NEW tx \in Tx, txs' = Append(txs, tx)
    PROVE  /\ txs' \in Seq(Tx) /\ FreshTx \in DOMAIN txs' /\ txs'[FreshTx] = tx
           /\ FreshTx \notin DOMAIN txs
           /\ \A i \in DOMAIN txs : i \in DOMAIN txs' /\ txs'[i] = txs[i]
           /\ \A i \in DOMAIN txs' : i \in DOMAIN txs \/ i = FreshTx
BY SMTT(90) DEF FreshTx

\* The keys grow on behalf of c.
KeysGrow(c) ==
    /\ held \subseteq held'
    /\ \A n \in DOMAIN owner : n \in DOMAIN owner' /\ owner'[n] = owner[n]
    /\ \A n \in DOMAIN owner' : owner'[n] = c \/ n \in DOMAIN owner

\* A request on the books stays in order, unless a key comes before its time.
LEMMA TxStays ==
    ASSUME NEW c, KeysGrow(c), provider' = provider, op' = op,
           NEW tx, TxOK(tx),
           tx.work = "create" /\ tx.status = "pending" =>
               \/ tx.call # c
               \/ \A n \in DOMAIN owner' : n \in DOMAIN owner
    PROVE  TxOK(tx)'
<1>1. \A n : SlotsOf(n) \subseteq SlotsOf(n)'
  BY DEF KeysGrow, SlotsOf
<1>2. tx.work = "sign" =>
           /\ op'[tx.call].name = "sign" /\ tx.id = op'[tx.call].key
           /\ tx.slot \in SlotsOf(tx.id)'
  BY <1>1 DEF TxOK, Signs
<1>3. tx.work = "create" =>
           /\ provider' = "turnkey"
           /\ op'[tx.call].name \in {"dkg", "rotate_key"}
           /\ op'[tx.call].name = "dkg" =>
                  tx.slot = chain_params(op'[tx.call].chain)
  BY DEF TxOK
<1>4. tx.work = "create" /\ tx.status = "pending" =>
           \A n \in DOMAIN owner' : owner'[n] # tx.call
  BY DEF TxOK, KeysGrow
<1>5. tx.work = "create" /\ tx.status = "completed" =>
           /\ tx.id \in DOMAIN owner' /\ owner'[tx.id] = tx.call
           /\ tx.slot \in SlotsOf(tx.id)'
  BY <1>1 DEF TxOK, Mine, KeysGrow
<1> QED
  BY <1>2, <1>3, <1>4, <1>5 DEF TxOK, Mine, Signs, chain_params

\* The keys grow and the requests stay.
LEMMA RequestsStay ==
    ASSUME CustodyInv, NEW c \in Call, KeysGrow(c), txs' = txs,
           provider' = provider, op' = op,
           Pristine(c) \/ \A n \in DOMAIN owner' : n \in DOMAIN owner
    PROVE  /\ RequestsOK' /\ Grows
           /\ \A d \in Call \ {c} : Pristine(d) => Pristine(d)'
<1>1. \A j \in DOMAIN txs : TxOK(txs[j])
  BY DEF CustodyInv, Books, RequestsOK
<1>2. ASSUME NEW i \in DOMAIN txs'
      PROVE  \E tx \in {txs'[i]} : TxOK(tx)'
  <2>1. PICK tx : tx = txs[i]
    OBVIOUS
  <2>2. TxOK(tx)'
    BY <1>1, <2>1, TxStays DEF Pristine
  <2> QED BY <2>1, <2>2
<1>3. RequestsOK'
  BY <1>2 DEF RequestsOK, CustodyInv, Books
<1>4. Grows
  BY DEF Grows, KeysGrow
<1>5. \A d \in Call \ {c} : Pristine(d) => Pristine(d)'
  BY DEF KeysGrow, Pristine
<1> QED BY <1>3, <1>4, <1>5

\* The provider accepts a request, and may allot its key at once.
LEMMA RequestAdded ==
    ASSUME CustodyInv, NEW c \in Call, KeysGrow(c), Pristine(c),
           provider' = provider, op' = op,
           NEW tx \in Tx, tx.call = c, TxOK(tx)', txs' = Append(txs, tx)
    PROVE  /\ RequestsOK' /\ Grows /\ txs' \in Seq(Tx)
           /\ \A d \in Call \ {c} : Pristine(d) => Pristine(d)'
           /\ \A i : i = FreshTx => i \in DOMAIN txs' /\ txs'[i] = tx
<1>1. /\ txs' \in Seq(Tx) /\ FreshTx \in DOMAIN txs' /\ txs'[FreshTx] = tx
      /\ FreshTx \notin DOMAIN txs
      /\ \A i \in DOMAIN txs : i \in DOMAIN txs' /\ txs'[i] = txs[i]
      /\ \A i \in DOMAIN txs' : i \in DOMAIN txs \/ i = FreshTx
  BY AppendKeeps DEF CustodyInv, Shape
<1>2. \A j \in DOMAIN txs : TxOK(txs[j]) /\ txs[j].call # c
  BY DEF CustodyInv, Books, RequestsOK, Pristine
<1>3. ASSUME NEW i \in DOMAIN txs'
      PROVE  \E t \in {txs'[i]} : TxOK(t)'
  <2>1. PICK t : t = txs'[i]
    OBVIOUS
  <2>2. CASE i \in DOMAIN txs
    <3>1. t = txs[i] /\ TxOK(t) /\ t.call # c
      BY <1>1, <1>2, <2>1, <2>2
    <3>2. TxOK(t)'
      BY <3>1, TxStays
    <3> QED BY <2>1, <3>2
  <2>3. CASE i = FreshTx
    BY <1>1, <2>3
  <2> QED BY <1>1, <2>2, <2>3
<1>4. \A i, j \in DOMAIN txs' : txs'[i].call = txs'[j].call => i = j
  BY <1>1, <1>2, SMTT(90) DEF CustodyInv, Books, RequestsOK
<1>5. RequestsOK'
  BY <1>3, <1>4 DEF RequestsOK
<1>6. Grows
  BY <1>1 DEF Grows, KeysGrow
<1>7. \A d \in Call \ {c} : Pristine(d) => Pristine(d)'
  BY <1>1, SMTT(90) DEF KeysGrow, Pristine
<1> QED BY <1>1, <1>5, <1>6, <1>7

\* What an answer tells of the request it is delivered for.
LEMMA DeliveredTells ==
    ASSUME NEW i, NEW tx \in Tx, NEW a \in Delivered(i, tx)
    PROVE  /\ a # Nothing
           /\ \/ a.kind \in {"pending", "failed"} /\ a.kind = tx.status /\ a.id = i
              \/ /\ a.kind = "completed" /\ tx.status = "completed"
                 /\ tx.work = "create" => a.key = tx.id
                 /\ tx.work = "sign" =>
                        a.sig = [payload |-> a.sig.payload, key |-> a.sig.key]
<1>1. CASE tx.status # "completed"
  BY <1>1, SMTT(90) DEF Delivered, Tx, Nothing
<1>2. CASE tx.status = "completed" /\ tx.work = "create"
  BY <1>2, SMTT(90) DEF Delivered, Nothing
<1>3. CASE tx.status = "completed" /\ tx.work = "sign"
  <2> DEFINE keys == AnyKey(tx)
  <2>1. a \in [kind : {"completed"}, pk : keys, sig : [payload : Call, key : keys]]
    BY <1>3 DEF Delivered
  <2> HIDE DEF keys
  <2>2. a.kind = "completed" /\ a.sig \in [payload : Call, key : keys]
    BY <2>1
  <2>3. a.sig = [payload |-> a.sig.payload, key |-> a.sig.key]
    BY <2>2, SMTT(90)
  <2> QED BY <1>3, <2>2, <2>3, SMTT(90) DEF Nothing
<1> QED BY <1>1, <1>2, <1>3 DEF Tx
\* What the provider notes down of a request.
LEMMA WorkType ==
    ASSUME NEW c \in Call, NEW work \in {"sign", "create"}, NEW n \in Nat,
           NEW s \in SlotName, NEW status \in {"pending", "completed", "failed"}
    PROVE  LET tx == Work(c, work, n, s, status)
           IN  /\ tx \in Tx /\ tx.call = c /\ tx.work = work /\ tx.id = n
               /\ tx.slot = s /\ tx.status = status
BY DEF Work, Tx

\* A request to sign, under a key the provider holds.
LEMMA SignType ==
    ASSUME CustodyInv, NEW c \in Call, NEW n, NEW s \in SlotsOf(n),
           NEW status \in {"pending", "completed", "failed"}
    PROVE  LET tx == Work(c, "sign", n, s, status)
           IN  /\ tx \in Tx /\ tx.call = c /\ tx.work = "sign" /\ tx.id = n
               /\ tx.slot = s /\ tx.status = status
<1>1. n \in Nat /\ s \in SlotName
  BY DEF CustodyInv, Shape, SlotsOf
<1> QED BY <1>1, WorkType, SMTT(90)

\* The provider accepts a request to sign.
LEMMA SignAccepted ==
    ASSUME CustodyInv, NEW c \in Call, Pristine(c), Signs(c),
           NEW tx, txs' = Append(txs, tx), UNCHANGED <<provider, op, owner, held>>,
           tx \in Tx, tx.call = c, tx.work = "sign", tx.id = op[c].key,
           tx.slot \in SlotsOf(op[c].key)
    PROVE  /\ Books' /\ Grows /\ txs' \in Seq(Tx)
           /\ owner' \in Seq(Call) /\ held' \in SUBSET (Nat \X SlotName)
           /\ \A d \in Call \ {c} : Pristine(d) => Pristine(d)'
           /\ \A i : i = FreshTx => i \in DOMAIN txs' /\ txs'[i].call = c
           /\ \A i, a : i = FreshTx /\ a \in Delivered(i, tx) =>
                  /\ a # Nothing /\ i \in DOMAIN txs' /\ Progress(c, i, a)'
                  /\ tx.status = "completed" => a.kind = "completed"
<1>1. /\ owner \in Seq(Call) /\ held \in SUBSET (Nat \X SlotName)
      /\ txs \in Seq(Tx) /\ KeysOK
  BY DEF CustodyInv, Shape, Books
<1>2. KeysGrow(c)
  BY DEF KeysGrow
<1>3. TxOK(tx)'
  BY DEF TxOK, Signs, SlotsOf
<1>4. /\ RequestsOK' /\ Grows /\ txs' \in Seq(Tx)
      /\ \A d \in Call \ {c} : Pristine(d) => Pristine(d)'
      /\ \A i : i = FreshTx => i \in DOMAIN txs' /\ txs'[i] = tx
  BY <1>2, <1>3, RequestAdded
<1>5. Books'
  BY <1>1, <1>4 DEF Books, KeysOK, SlotsOf
<1>6. ASSUME NEW i, i = FreshTx, NEW a \in Delivered(i, tx)
      PROVE  /\ a # Nothing /\ i \in DOMAIN txs' /\ Progress(c, i, a)'
             /\ tx.status = "completed" => a.kind = "completed"
  BY <1>4, <1>6, DeliveredTells, SMTT(90) DEF Progress
<1> QED BY <1>1, <1>4, <1>5, <1>6

\* The provider allots a key on the spot.
LEMMA KeyAllotted ==
    ASSUME CustodyInv, NEW c \in Call, Pristine(c), NEW s \in SlotName,
           Allot(c, s), UNCHANGED <<provider, op, txs>>
    PROVE  /\ Books' /\ Grows /\ txs' \in Seq(Tx)
           /\ owner' \in Seq(Call) /\ held' \in SUBSET (Nat \X SlotName)
           /\ \A d \in Call \ {c} : Pristine(d) => Pristine(d)'
           /\ \A k : k = FreshId => Mine(c, k)' /\ s \in SlotsOf(k)'
<1>1. /\ KeysOK'
      /\ owner' \in Seq(Call) /\ held' \in SUBSET (Nat \X SlotName)
      /\ held \subseteq held'
      /\ \A n \in DOMAIN owner : n \in DOMAIN owner' /\ owner'[n] = owner[n]
      /\ \A n \in DOMAIN owner' : owner'[n] = c \/ n \in DOMAIN owner
      /\ \A k : k = FreshId => Mine(c, k)' /\ s \in SlotsOf(k)'
  BY AllotKeeps DEF CustodyInv, Books, Pristine
<1>2. KeysGrow(c)
  BY <1>1 DEF KeysGrow
<1>3. /\ RequestsOK' /\ Grows
      /\ \A d \in Call \ {c} : Pristine(d) => Pristine(d)'
  BY <1>2, RequestsStay
<1>4. txs' \in Seq(Tx)
  BY DEF CustodyInv, Shape
<1> QED BY <1>1, <1>3, <1>4 DEF Books

\* A call whose request the provider has not answered.
LEMMA UnservedFits ==
    ASSUME CustodyInv, NEW c \in Call, NEW endpoint, Unserved(c, endpoint)
    PROVE  \E p, a, m : /\ p = pc[c] /\ a = ask[c] /\ m = mem[c]
                        /\ a.kind = endpoint /\ p \notin AtRest
                        /\ op[c] \in Operation /\ Fits(c, p, a, Nothing, m)
<1>1. PICK p, a, m : p = pc[c] /\ a = ask[c] /\ m = mem[c]
  OBVIOUS
<1>2. a.kind = endpoint /\ a # Nothing /\ Fits(c, p, a, Nothing, m)
  BY <1>1, CallFacts DEF Unserved, Awaiting
<1>3. p \notin AtRest /\ op[c] \in Operation
  BY <1>2 DEF Fits, AtRest, Resting
<1> QED BY <1>1, <1>2, <1>3

\* The kinds of request of the places tell them apart.
LEMMA PlaceKinds ==
    ASSUME NEW c \in Call, NEW a, NEW w, NEW m
    PROVE  /\ AtReply(c, a, w, m) =>
                  /\ provider = "generic"
                  /\ a.kind \in {"sign", "keys", "rotate", "key", "restore"}
           /\ AtVault(c, a, w, m) => a.kind = "vault_account"
           /\ AtAsset(c, a, w, m) => a.kind = "asset_wallet"
           /\ AtPublicKey(c, a, w, m) => a.kind = "public_key_info"
           /\ AtCreateTx(c, a, w, m) => a.kind = "create_tx"
           /\ AtPoll(c, a, w, m) =>
                  a.kind \in {"transaction", "signature", "get_activity"}
           /\ AtRead(c, a, w, m) =>
                  /\ provider \in {"turnkey", "dfns"}
                  /\ a.kind \in {"get_wallet_account", "key", "wallet"}
           /\ AtSubmit(c, a, w, m) =>
                  a.kind \in {"sign_raw_payload", "create_wallet"}
           /\ AtNewAccount(c, a, w, m) => a.kind = "get_wallet_account"
           /\ AtToken(c, a, w, m) => a.kind \in {"init", "action"}
           /\ AtPost(c, a, w, m) => a.kind = "post"
<1>1. AtReply(c, a, w, m) =>
          /\ provider = "generic"
          /\ a.kind \in {"sign", "keys", "rotate", "key", "restore"}
  BY SMTT(90) DEF AtReply
<1>2. /\ AtVault(c, a, w, m) => a.kind = "vault_account"
      /\ AtAsset(c, a, w, m) => a.kind = "asset_wallet"
      /\ AtPublicKey(c, a, w, m) => a.kind = "public_key_info"
      /\ AtCreateTx(c, a, w, m) => a.kind = "create_tx"
  BY SMTT(90) DEF AtVault, AtAsset, AtPublicKey, AtCreateTx
<1>3. /\ AtPoll(c, a, w, m) =>
             a.kind \in {"transaction", "signature", "get_activity"}
      /\ AtRead(c, a, w, m) =>
             /\ provider \in {"turnkey", "dfns"}
             /\ a.kind \in {"get_wallet_account", "key", "wallet"}
  BY DEF AtPoll, AtRead
<1>4. /\ AtSubmit(c, a, w, m) => a.kind \in {"sign_raw_payload", "create_wallet"}
      /\ AtNewAccount(c, a, w, m) => a.kind = "get_wallet_account"
  BY SMTT(90) DEF AtSubmit, AtNewAccount
<1>5. /\ AtToken(c, a, w, m) => a.kind \in {"init", "action"}
      /\ AtPost(c, a, w, m) => a.kind = "post"
  BY DEF AtToken, AtPost
<1> QED BY <1>1, <1>2, <1>3, <1>4, <1>5

\* A server of the generic protocol.
LEMMA GenericServesKeeps ==
    ASSUME CustodyInv, NEW c \in Call, provider = "generic", GenericServes(c)
    PROVE  CustodyInv'
<1>1. PICK endpoint \in {"sign", "keys", "key", "rotate", "restore"} :
          Unserved(c, endpoint)
  BY DEF GenericServes
<1>2. PICK p, a, m : /\ p = pc[c] /\ a = ask[c] /\ m = mem[c]
                     /\ a.kind = endpoint /\ p \notin AtRest
                     /\ op[c] \in Operation /\ Fits(c, p, a, Nothing, m)
  BY <1>1, UnservedFits, SMTT(90)
<1>3. p = "reply" /\ AtReply(c, a, Nothing, m)
  BY <1>1, <1>2, PlaceKinds DEF Fits
<1>4. Pristine(c)
  BY <1>3 DEF AtReply
<1>5. ASSUME NEW w, AtReply(c, a, w, m)'
      PROVE  op' = op => Fits(c, p, a, w, m)'
  BY <1>2, <1>3, <1>5 DEF Fits, AtRest
<1>6. CASE endpoint = "sign"
  <2>1. Signs(c) /\ a = [kind |-> "sign", id |-> op[c].key]
    BY <1>2, <1>3, <1>6, SMTT(90) DEF AtReply, Signs
  <2>2. PICK s \in SlotsOf(op[c].key) :
          LET tx == Work(c, "sign", op[c].key, s, "completed")
          IN  /\ txs' = Append(txs, tx)
              /\ \E answer \in Delivered(FreshTx, tx) : Reply(c, answer)
    BY <1>1, <1>2, <1>6, <2>1, SMTT(90) DEF GenericServes, Unserved
  <2>3. PICK tx : tx = Work(c, "sign", op[c].key, s, "completed")
    OBVIOUS
  <2>4. PICK w, i : w \in Delivered(i, tx) /\ Reply(c, w) /\ i = FreshTx
    BY <2>2, <2>3
  <2>5. UNCHANGED <<provider, op, owner, held>> /\ txs' = Append(txs, tx)
    BY <1>1, <1>2, <1>6, <2>2, <2>3, <2>4 DEF GenericServes, Unserved, Reply
  <2>6. /\ Books' /\ Grows /\ txs' \in Seq(Tx)
        /\ owner' \in Seq(Call) /\ held' \in SUBSET (Nat \X SlotName)
        /\ \A d \in Call \ {c} : Pristine(d) => Pristine(d)'
        /\ w # Nothing /\ i \in DOMAIN txs' /\ Progress(c, i, w)'
        /\ w.kind = "completed"
    <3>1. /\ tx \in Tx /\ tx.call = c /\ tx.work = "sign" /\ tx.id = op[c].key
          /\ tx.slot = s /\ tx.status = "completed"
      BY <2>3, SignType, SMTT(90)
    <3>2. /\ Books' /\ Grows /\ txs' \in Seq(Tx)
          /\ owner' \in Seq(Call) /\ held' \in SUBSET (Nat \X SlotName)
          /\ \A d \in Call \ {c} : Pristine(d) => Pristine(d)'
          /\ \A j, b : j = FreshTx /\ b \in Delivered(j, tx) =>
                  /\ b # Nothing /\ j \in DOMAIN txs' /\ Progress(c, j, b)'
                  /\ b.kind = "completed"
      BY <1>4, <2>1, <2>3, <2>5, <3>1, SignAccepted, SMTT(90)
    <3> QED BY <2>4, <3>2
  <2>7. AtReply(c, a, w, m)'
    BY <1>3, <2>1, <2>5, <2>6 DEF AtReply, Signs, Nothing, NoLocals
  <2> QED BY <1>2, <1>5, <2>4, <2>5, <2>6, <2>7, ChangeKeeps
<1>7. CASE endpoint = "keys"
  <2>1. op[c].name = "dkg" /\ a = [kind |-> "keys", chain |-> op[c].chain]
    BY <1>2, <1>3, <1>7, SMTT(90) DEF AtReply
  <2>2. PICK w, k, s :
          /\ s = scheme(op[c].chain) /\ k = FreshId
          /\ w = [kind |-> "ok", id |-> k, pk |-> PublicKey(k, s, 0)]
    OBVIOUS
  <2>3. Allot(c, s) /\ Reply(c, w) /\ UNCHANGED <<provider, op, txs>>
    BY <1>1, <1>2, <1>7, <2>1, <2>2, SMTT(90) DEF GenericServes, Unserved, Reply
  <2>4. s \in SlotName
    BY <2>2 DEF scheme, SlotName
  <2>5. /\ Books' /\ Grows /\ txs' \in Seq(Tx)
        /\ owner' \in Seq(Call) /\ held' \in SUBSET (Nat \X SlotName)
        /\ \A d \in Call \ {c} : Pristine(d) => Pristine(d)'
        /\ Mine(c, k)' /\ s \in SlotsOf(k)'
    BY <1>4, <2>2, <2>3, <2>4, KeyAllotted
  <2>6. w # Nothing /\ w.id = k /\ w.pk = PublicKey(k, s, 0)
    BY <2>2 DEF Nothing
  <2>7. NewKey(c, w.id, w.pk)'
    BY <2>2, <2>3, <2>5, <2>6 DEF NewKey, Slot, PublicKey, scheme, Ecdsa
  <2>8. AtReply(c, a, w, m)'
    BY <1>3, <2>1, <2>3, <2>6, <2>7 DEF AtReply, Nothing, NoLocals
  <2> QED BY <1>2, <1>5, <2>3, <2>5, <2>8, ChangeKeeps
<1>8. CASE endpoint \in {"key", "rotate", "restore"}
  <2>1. PICK s \in SlotsOf(a.id) :
          Reply(c, [kind |-> "ok", id |-> a.id, epoch |-> 1,
                    pk |-> PublicKey(a.id, s, 0)])
    BY <1>1, <1>2, <1>8 DEF GenericServes, Unserved
  <2>2. UNCHANGED providerVars
    BY <1>1, <1>2, <1>8 DEF GenericServes, Unserved
  <2>3. PICK w : w = [kind |-> "ok", id |-> a.id, epoch |-> 1,
                      pk |-> PublicKey(a.id, s, 0)]
    OBVIOUS
  <2>4. w # Nothing
    BY <2>3 DEF Nothing
  <2>5. AtReply(c, a, w, m)
    BY <1>2, <1>3, <1>8, <2>4, SMTT(90) DEF AtReply
  <2>6. Fits(c, p, a, w, m)
    BY <1>2, <1>3, <2>5 DEF Fits, AtRest
  <2> QED BY <1>2, <2>1, <2>2, <2>3, <2>6, AnswerKeeps
<1> QED BY <1>1, <1>6, <1>7, <1>8
\* A poll is answered with what the request looks like now.
LEMMA PollAnswered ==
    ASSUME CustodyInv, NEW c \in Call, NEW a, NEW m, AtPoll(c, a, Nothing, m),
           NEW w \in Delivered(a.id, txs[a.id])
    PROVE  AtPoll(c, a, w, m)
<1>1. /\ m.id \in DOMAIN txs /\ txs[m.id].call = c /\ a.id = m.id
      /\ txs[m.id] \in Tx
  BY SMTT(90) DEF AtPoll, CustodyInv, Shape
<1>2. Progress(c, m.id, w)
  BY <1>1, DeliveredTells, SMTT(90) DEF Progress
<1> QED BY <1>2 DEF AtPoll

\* The Fireblocks API.
LEMMA FireblocksServesKeeps ==
    ASSUME CustodyInv, NEW c \in Call, provider = "fireblocks", FireblocksServes(c)
    PROVE  CustodyInv'
<1>1. PICK endpoint \in {"vault_account", "asset_wallet", "public_key_info",
                         "create_tx", "transaction"} : Unserved(c, endpoint)
  BY DEF FireblocksServes
<1>2. PICK p, a, m : /\ p = pc[c] /\ a = ask[c] /\ m = mem[c]
                     /\ a.kind = endpoint /\ p \notin AtRest
                     /\ op[c] \in Operation /\ Fits(c, p, a, Nothing, m)
  BY <1>1, UnservedFits, SMTT(90)
<1>3. /\ endpoint = "vault_account" => p = "vault" /\ AtVault(c, a, Nothing, m)
      /\ endpoint = "asset_wallet" => p = "asset" /\ AtAsset(c, a, Nothing, m)
      /\ endpoint = "public_key_info" =>
             p = "public_key" /\ AtPublicKey(c, a, Nothing, m)
      /\ endpoint = "create_tx" => p = "create_tx" /\ AtCreateTx(c, a, Nothing, m)
      /\ endpoint = "transaction" =>
             p \in {"poll", "activity", "signature"} /\ AtPoll(c, a, Nothing, m)
  BY <1>1, <1>2, PlaceKinds DEF Fits
<1>4. CASE endpoint = "vault_account"
  <2>1. PICK w, k : k = FreshId /\ w = [kind |-> "ok", id |-> k]
    OBVIOUS
  <2>2. Allot(c, "none") /\ Reply(c, w) /\ UNCHANGED <<provider, op, txs>>
    BY <1>1, <1>2, <1>4, <2>1 DEF FireblocksServes, Unserved, Reply
  <2>3. "none" \in SlotName /\ Pristine(c)
    BY <1>3, <1>4 DEF SlotName, AtVault
  <2>4. /\ Books' /\ Grows /\ txs' \in Seq(Tx)
        /\ owner' \in Seq(Call) /\ held' \in SUBSET (Nat \X SlotName)
        /\ \A d \in Call \ {c} : Pristine(d) => Pristine(d)'
        /\ Mine(c, k)'
    BY <2>1, <2>2, <2>3, KeyAllotted
  <2>5. w # Nothing /\ w.id = k
    BY <2>1 DEF Nothing
  <2>6. AtVault(c, a, w, m)'
    BY <1>3, <1>4, <2>2, <2>4, <2>5 DEF AtVault, Nothing, NoLocals
  <2>7. Fits(c, p, a, w, m)'
    BY <1>2, <1>3, <1>4, <2>2, <2>6 DEF Fits, AtRest
  <2> QED BY <1>2, <2>2, <2>4, <2>7, ChangeKeeps
<1>5. CASE endpoint = "asset_wallet"
  <2>1. PICK w : w = [kind |-> "ok"]
    OBVIOUS
  <2>2. /\ SlotsOf(a.id) # {} /\ held' = held \cup {<<a.id, a.slot>>}
        /\ Reply(c, w) /\ UNCHANGED <<provider, op, owner, txs>>
    BY <1>1, <1>2, <1>5, <2>1 DEF FireblocksServes, Unserved, Reply
  <2>3. AtAsset(c, a, Nothing, m) /\ a.slot \in SlotName
    BY <1>3, <1>5 DEF AtAsset
  <2>4. /\ owner \in Seq(Call) /\ held \in SUBSET (Nat \X SlotName)
        /\ txs \in Seq(Tx) /\ KeysOK
    BY DEF CustodyInv, Shape, Books
  <2>5. a.id \in Nat /\ a.id <= Len(owner)
    BY <2>2, <2>4, SMTT(90) DEF SlotsOf, KeysOK
  <2>6. held' \in SUBSET (Nat \X SlotName) /\ KeysGrow(c)
    BY <2>2, <2>3, <2>4, <2>5, SMTT(90) DEF KeysGrow
  <2>7. KeysOK'
    <3>1. \A v \in held' : v[1] <= Len(owner')
      BY <2>2, <2>4, <2>5, SMTT(90) DEF KeysOK
    <3>2. \A n \in DOMAIN owner' : SlotsOf(n)' # {}
      <4>1. \A n : SlotsOf(n) \subseteq SlotsOf(n)'
        BY <2>2 DEF SlotsOf
      <4> QED BY <2>2, <2>4, <4>1, SMTT(90) DEF KeysOK
    <3> QED BY <2>2, <2>4, <3>1, <3>2 DEF KeysOK
  <2>8. /\ RequestsOK' /\ Grows
        /\ \A d \in Call \ {c} : Pristine(d) => Pristine(d)'
    BY <2>2, <2>6, RequestsStay
  <2>9. AtAsset(c, a, w, m)'
    BY <2>2, <2>3 DEF AtAsset, Mine
  <2>10. Fits(c, p, a, w, m)'
    BY <1>2, <1>3, <1>5, <2>2, <2>9 DEF Fits, AtRest
  <2> QED BY <1>2, <2>2, <2>4, <2>6, <2>7, <2>8, <2>10, ChangeKeeps DEF Books
<1>6. CASE endpoint = "public_key_info"
  <2>1. PICK w : w = [kind |-> "ok", pk |-> PublicKey(a.id, a.slot, a.index)]
    OBVIOUS
  <2>2. a.slot \in SlotsOf(a.id) /\ Reply(c, w) /\ UNCHANGED providerVars
    BY <1>1, <1>2, <1>6, <2>1 DEF FireblocksServes, Unserved
  <2>3. AtPublicKey(c, a, w, m)
    BY <1>3, <1>6, <2>1, <2>2 DEF AtPublicKey
  <2>4. Fits(c, p, a, w, m)
    BY <1>2, <1>3, <1>6, <2>3 DEF Fits, AtRest
  <2> QED BY <1>2, <2>2, <2>4, AnswerKeeps
<1>7. CASE endpoint = "create_tx"
  <2>1. Pristine(c) /\ Signs(c) /\ a.id = op[c].key
    BY <1>3, <1>7, SMTT(90) DEF AtCreateTx
  <2>2. PICK w, i, tx :
          /\ i = FreshTx /\ w = [kind |-> "ok", id |-> i]
          /\ tx = Work(c, "sign", a.id, a.slot, "pending")
    OBVIOUS
  <2>3. /\ a.slot \in SlotsOf(a.id) /\ txs' = Append(txs, tx) /\ Reply(c, w)
        /\ UNCHANGED <<provider, op, owner, held>>
    BY <1>1, <1>2, <1>7, <2>2 DEF FireblocksServes, Unserved, Reply
  <2>4. /\ tx \in Tx /\ tx.call = c /\ tx.work = "sign" /\ tx.id = op[c].key
        /\ tx.slot = a.slot
    BY <2>1, <2>2, <2>3, SignType, SMTT(90)
  <2>5. /\ Books' /\ Grows /\ txs' \in Seq(Tx)
        /\ owner' \in Seq(Call) /\ held' \in SUBSET (Nat \X SlotName)
        /\ \A d \in Call \ {c} : Pristine(d) => Pristine(d)'
        /\ i \in DOMAIN txs' /\ txs'[i].call = c
    BY <2>1, <2>2, <2>3, <2>4, SignAccepted
  <2>6. w # Nothing /\ w.id = i
    BY <2>2 DEF Nothing
  <2>7. AtCreateTx(c, a, w, m)'
    BY <1>3, <1>7, <2>3, <2>5, <2>6
       DEF AtCreateTx, Nothing, NoLocals, Signs, asset_id
  <2>8. Fits(c, p, a, w, m)'
    BY <1>2, <1>3, <1>7, <2>3, <2>7 DEF Fits, AtRest
  <2> QED BY <1>2, <2>3, <2>5, <2>8, ChangeKeeps
<1>8. CASE endpoint = "transaction"
  <2>1. PICK w \in Delivered(a.id, txs[a.id]) : Reply(c, w)
    BY <1>1, <1>2, <1>8 DEF FireblocksServes, Unserved
  <2>2. UNCHANGED providerVars
    BY <1>1, <1>2, <1>8 DEF FireblocksServes, Unserved
  <2>3. AtPoll(c, a, w, m)
    BY <1>3, <1>8, <2>1, PollAnswered
  <2>4. Fits(c, p, a, w, m)
    BY <1>2, <1>3, <1>8, <2>3 DEF Fits, AtRest
  <2> QED BY <1>2, <2>1, <2>2, <2>4, AnswerKeeps
<1> QED BY <1>1, <1>4, <1>5, <1>6, <1>7, <1>8
\* The Turnkey API.
LEMMA TurnkeyServesKeeps ==
    ASSUME CustodyInv, NEW c \in Call, provider = "turnkey", TurnkeyServes(c)
    PROVE  CustodyInv'
<1>1. PICK endpoint \in {"get_wallet_account", "sign_raw_payload",
                         "create_wallet", "get_activity"} : Unserved(c, endpoint)
  BY DEF TurnkeyServes
<1>2. PICK p, a, m : /\ p = pc[c] /\ a = ask[c] /\ m = mem[c]
                     /\ a.kind = endpoint /\ p \notin AtRest
                     /\ op[c] \in Operation /\ Fits(c, p, a, Nothing, m)
  BY <1>1, UnservedFits, SMTT(90)
<1>3. /\ endpoint = "get_wallet_account" =>
             \/ p \in {"account", "key", "wallet"} /\ AtRead(c, a, Nothing, m)
             \/ p = "new_account" /\ AtNewAccount(c, a, Nothing, m)
      /\ endpoint \in {"sign_raw_payload", "create_wallet"} =>
             p = "submit" /\ AtSubmit(c, a, Nothing, m)
      /\ endpoint = "get_activity" =>
             p \in {"poll", "activity", "signature"} /\ AtPoll(c, a, Nothing, m)
  BY <1>1, <1>2, PlaceKinds DEF Fits
<1>4. CASE endpoint = "get_wallet_account"
  <2>1. PICK s \in SlotsOf(a.id) :
          Reply(c, [kind |-> "ok", pk |-> PublicKey(a.id, s, 0)])
    BY <1>1, <1>2, <1>4 DEF TurnkeyServes, Unserved
  <2>2. UNCHANGED providerVars
    BY <1>1, <1>2, <1>4 DEF TurnkeyServes, Unserved
  <2>3. PICK w : w = [kind |-> "ok", pk |-> PublicKey(a.id, s, 0)]
    OBVIOUS
  <2>4. Keyed(a.id, w.pk)
    BY <2>3 DEF Keyed
  <2>5. AtRead(c, a, Nothing, m) => AtRead(c, a, w, m)
    BY DEF AtRead
  <2>6. AtNewAccount(c, a, Nothing, m) => AtNewAccount(c, a, w, m)
    BY <2>4, SMTT(90) DEF AtNewAccount
  <2>7. Fits(c, p, a, w, m)
    BY <1>2, <1>3, <1>4, <2>5, <2>6 DEF Fits, AtRest
  <2> QED BY <1>2, <2>1, <2>2, <2>3, <2>7, AnswerKeeps
<1>5. ASSUME endpoint \in {"sign_raw_payload", "create_wallet"},
             NEW w, w # Nothing, NEW i, i \in DOMAIN txs', Progress(c, i, w)',
             Grows, op' = op
      PROVE  Fits(c, p, a, w, m)'
  <2>1. AtSubmit(c, a, Nothing, m) /\ provider' = provider
    BY <1>3, <1>5 DEF Grows
  <2>2. AtSubmit(c, a, w, m)'
    BY <1>5, <2>1 DEF AtSubmit, Signs, Nothing, NoLocals, chain_params
  <2> QED BY <1>2, <1>3, <1>5, <2>2 DEF Fits, AtRest
<1>6. CASE endpoint = "sign_raw_payload"
  <2>1. /\ Pristine(c) /\ Signs(c) /\ a.id = op[c].key
    BY <1>2, <1>3, <1>6, SMTT(90) DEF AtSubmit
  <2>2. PICK s \in SlotsOf(op[c].key), status \in {"pending", "completed", "failed"} :
          LET tx == Work(c, "sign", op[c].key, s, status)
          IN  /\ txs' = Append(txs, tx)
              /\ \E answer \in Delivered(FreshTx, tx) : Reply(c, answer)
    BY <1>1, <1>2, <1>6, <2>1 DEF TurnkeyServes, Unserved
  <2>3. PICK tx : tx = Work(c, "sign", op[c].key, s, status)
    OBVIOUS
  <2>4. PICK w, i : w \in Delivered(i, tx) /\ Reply(c, w) /\ i = FreshTx
    BY <2>2, <2>3
  <2>5. UNCHANGED <<provider, op, owner, held>> /\ txs' = Append(txs, tx)
    BY <1>1, <1>2, <1>6, <2>2, <2>3, <2>4 DEF TurnkeyServes, Unserved, Reply
  <2>6. /\ tx \in Tx /\ tx.call = c /\ tx.work = "sign" /\ tx.id = op[c].key
        /\ tx.slot = s
    BY <2>3, SignType, SMTT(90)
  <2>7. /\ Books' /\ Grows /\ txs' \in Seq(Tx)
        /\ owner' \in Seq(Call) /\ held' \in SUBSET (Nat \X SlotName)
        /\ \A d \in Call \ {c} : Pristine(d) => Pristine(d)'
        /\ \A j, b : j = FreshTx /\ b \in Delivered(j, tx) =>
               b # Nothing /\ j \in DOMAIN txs' /\ Progress(c, j, b)'
    BY <2>1, <2>5, <2>6, SignAccepted, SMTT(90)
  <2>8. Fits(c, p, a, w, m)'
    BY <1>5, <1>6, <2>4, <2>5, <2>7
  <2> QED BY <1>2, <2>4, <2>7, <2>8, ChangeKeeps
<1>7. CASE endpoint = "create_wallet"
  <2>1. /\ Pristine(c) /\ op[c].name \in {"dkg", "rotate_key"}
        /\ a.slot \in SlotName
        /\ op[c].name = "dkg" => a.slot = chain_params(op[c].chain)
    BY <1>2, <1>3, <1>7, SMTT(90) DEF AtSubmit
  <2>2. /\ owner \in Seq(Call) /\ held \in SUBSET (Nat \X SlotName)
        /\ txs \in Seq(Tx) /\ KeysOK /\ Shape
    BY DEF CustodyInv, Shape, Books
  <2>3. CASE /\ txs' = Append(txs, Work(c, "create", 0, a.slot, "pending"))
             /\ Reply(c, [kind |-> "pending", id |-> FreshTx])
             /\ UNCHANGED <<owner, held>>
    <3>1. PICK w, i, tx :
            /\ i = FreshTx /\ w = [kind |-> "pending", id |-> i]
            /\ tx = Work(c, "create", 0, a.slot, "pending")
      OBVIOUS
    <3>2. /\ tx \in Tx /\ tx.call = c /\ tx.work = "create" /\ tx.slot = a.slot
          /\ tx.status = "pending"
      BY <2>1, <3>1, WorkType, SMTT(90)
    <3>3. /\ txs' = Append(txs, tx) /\ Reply(c, w)
          /\ UNCHANGED <<provider, op, owner, held>> /\ KeysGrow(c)
      BY <2>3, <3>1 DEF Reply, KeysGrow
    <3>4. TxOK(tx)'
      BY <2>1, <3>2, <3>3 DEF TxOK, Pristine, chain_params
    <3>5. /\ RequestsOK' /\ Grows /\ txs' \in Seq(Tx)
          /\ \A d \in Call \ {c} : Pristine(d) => Pristine(d)'
          /\ \A j : j = FreshTx => j \in DOMAIN txs' /\ txs'[j] = tx
      BY <2>1, <3>2, <3>3, <3>4, RequestAdded
    <3>6. w # Nothing /\ i \in DOMAIN txs' /\ Progress(c, i, w)'
      BY <3>1, <3>2, <3>5 DEF Progress, Nothing
    <3>7. Books'
      BY <2>2, <3>3, <3>5 DEF Books, KeysOK, SlotsOf
    <3>8. Fits(c, p, a, w, m)'
      BY <1>5, <1>7, <3>3, <3>5, <3>6
    <3> QED BY <1>2, <2>2, <3>3, <3>5, <3>7, <3>8, ChangeKeeps
  <2>4. CASE LET tx == Work(c, "create", FreshId, a.slot, "completed")
             IN  /\ txs' = Append(txs, tx)
                 /\ Allot(c, a.slot)
                 /\ \E answer \in Delivered(FreshTx, tx) : Reply(c, answer)
    <3>1. PICK tx, k : k = FreshId /\ tx = Work(c, "create", k, a.slot, "completed")
      OBVIOUS
    <3>2. PICK w, i : w \in Delivered(i, tx) /\ Reply(c, w) /\ i = FreshTx
      BY <2>4, <3>1
    <3>3. /\ txs' = Append(txs, tx) /\ Allot(c, a.slot)
          /\ provider' = provider /\ op' = op
      BY <2>4, <3>1, <3>2 DEF Reply
    <3>4. /\ KeysOK'
          /\ owner' \in Seq(Call) /\ held' \in SUBSET (Nat \X SlotName)
          /\ held \subseteq held'
          /\ \A n \in DOMAIN owner : n \in DOMAIN owner' /\ owner'[n] = owner[n]
          /\ \A n \in DOMAIN owner' : owner'[n] = c \/ n \in DOMAIN owner
          /\ k \in Nat /\ Mine(c, k)' /\ a.slot \in SlotsOf(k)'
      BY <2>1, <2>2, <3>1, <3>3, AllotKeeps DEF Pristine
    <3>5. /\ tx \in Tx /\ tx.call = c /\ tx.work = "create" /\ tx.slot = a.slot
          /\ tx.id = k /\ tx.status = "completed"
      BY <2>1, <3>1, <3>4, WorkType, SMTT(90)
    <3>6. KeysGrow(c)
      BY <3>4 DEF KeysGrow
    <3>7. TxOK(tx)'
      BY <2>1, <3>3, <3>4, <3>5 DEF TxOK, chain_params
    <3>8. /\ RequestsOK' /\ Grows /\ txs' \in Seq(Tx)
          /\ \A d \in Call \ {c} : Pristine(d) => Pristine(d)'
          /\ \A j : j = FreshTx => j \in DOMAIN txs' /\ txs'[j] = tx
      BY <2>1, <3>3, <3>5, <3>6, <3>7, RequestAdded
    <3>9. w # Nothing /\ i \in DOMAIN txs' /\ Progress(c, i, w)'
      BY <3>2, <3>5, <3>8, DeliveredTells, SMTT(90) DEF Progress
    <3>10. Fits(c, p, a, w, m)'
      BY <1>5, <1>7, <3>3, <3>8, <3>9
    <3> QED BY <1>2, <3>2, <3>4, <3>8, <3>10, ChangeKeeps DEF Books
  <2> QED BY <1>1, <1>2, <1>7, <2>3, <2>4 DEF TurnkeyServes, Unserved
<1>8. CASE endpoint = "get_activity"
  <2>1. PICK w \in Delivered(a.id, txs[a.id]) : Reply(c, w)
    BY <1>1, <1>2, <1>8 DEF TurnkeyServes, Unserved
  <2>2. UNCHANGED providerVars
    BY <1>1, <1>2, <1>8 DEF TurnkeyServes, Unserved
  <2>3. AtPoll(c, a, w, m)
    BY <1>3, <1>8, <2>1, PollAnswered
  <2>4. Fits(c, p, a, w, m)
    BY <1>2, <1>3, <1>8, <2>3 DEF Fits, AtRest
  <2> QED BY <1>2, <2>1, <2>2, <2>4, AnswerKeeps
<1> QED BY <1>1, <1>4, <1>6, <1>7, <1>8

\* The Dfns API.
LEMMA DfnsServesKeeps ==
    ASSUME CustodyInv, NEW c \in Call, provider = "dfns", DfnsServes(c)
    PROVE  CustodyInv'
<1>1. PICK endpoint \in {"init", "action", "post", "signature", op[c].names} :
          Unserved(c, endpoint)
  BY DEF DfnsServes, Admitted
<1>2. PICK p, a, m : /\ p = pc[c] /\ a = ask[c] /\ m = mem[c]
                     /\ a.kind = endpoint /\ p \notin AtRest
                     /\ op[c] \in Operation /\ Fits(c, p, a, Nothing, m)
  BY <1>1, UnservedFits
<1>3. op[c].names \in {"key", "wallet"}
  BY <1>2, CustodyParams
<1>4. /\ endpoint \in {"init", "action"} =>
             p \in {"init", "action"} /\ AtToken(c, a, Nothing, m)
      /\ endpoint = "post" => p = "post" /\ AtPost(c, a, Nothing, m)
      /\ endpoint = "signature" =>
             p \in {"poll", "activity", "signature"} /\ AtPoll(c, a, Nothing, m)
      /\ endpoint \in {"key", "wallet"} =>
             p \in {"account", "key", "wallet"} /\ AtRead(c, a, Nothing, m)
  BY <1>1, <1>2, PlaceKinds DEF Fits
<1>5. CASE endpoint \in {"init", "action"}
  <2>1. PICK w : Reply(c, w)
    BY <1>1, <1>2, <1>3, <1>5 DEF DfnsServes, Admitted, Unserved
  <2>2. UNCHANGED providerVars
    BY <1>1, <1>2, <1>3, <1>5 DEF DfnsServes, Admitted, Unserved
  <2>3. AtToken(c, a, w, m)
    BY <1>4, <1>5 DEF AtToken
  <2>4. Fits(c, p, a, w, m)
    BY <1>2, <1>4, <1>5, <2>3 DEF Fits, AtRest
  <2> QED BY <1>2, <2>1, <2>2, <2>4, AnswerKeeps
<1>6. CASE endpoint = "post" /\ Admitted(c, "wallets")
  <2>1. /\ Pristine(c) /\ op[c].name \in {"dkg", "rotate_key"}
        /\ op[c].name = "dkg" =>
               a.body = wallet_body(signing_scheme(op[c].chain))
        /\ op[c].name = "rotate_key" => a.body = wallet_body("ECDSA")
    <3>1. a.body.kind = "wallets"
      BY <1>2, <1>6 DEF Admitted
    <3> QED BY <1>4, <1>6, <3>1, SMTT(90) DEF AtPost, Signs
  <2>2. PICK w, k, s :
          /\ s = a.body.slot /\ k = FreshId
          /\ w = [kind |-> "ok", id |-> k, pk |-> PublicKey(k, s, 0)]
    OBVIOUS
  <2>3. Allot(c, s) /\ Reply(c, w) /\ UNCHANGED <<provider, op, txs>>
    BY <1>2, <1>3, <1>6, <2>2 DEF DfnsServes, Admitted, Unserved, Reply
  <2>4. /\ s \in SlotName
        /\ op[c].name = "dkg" => s = signing_scheme(op[c].chain)
    <3>1. \A x : wallet_body(x).slot = x
      BY DEF wallet_body
    <3>2. signing_scheme(op[c].chain) \in SlotName /\ "ECDSA" \in SlotName
      BY DEF signing_scheme, SlotName
    <3> QED BY <2>1, <2>2, <3>1, <3>2
  <2>5. /\ Books' /\ Grows /\ txs' \in Seq(Tx)
        /\ owner' \in Seq(Call) /\ held' \in SUBSET (Nat \X SlotName)
        /\ \A d \in Call \ {c} : Pristine(d) => Pristine(d)'
        /\ Mine(c, k)' /\ s \in SlotsOf(k)'
    BY <2>1, <2>2, <2>3, <2>4, KeyAllotted
  <2>6. w # Nothing /\ w.id = k /\ w.pk = PublicKey(k, s, 0)
    BY <2>2 DEF Nothing
  <2>7. op[c].name = "dkg" => NewKey(c, w.id, w.pk)'
    BY <2>3, <2>4, <2>5, <2>6
       DEF NewKey, Slot, PublicKey, signing_scheme, scheme, Ecdsa
  <2>8. AtPost(c, a, w, m)'
    BY <1>4, <1>6, <2>1, <2>3, <2>6, <2>7
       DEF AtPost, Nothing, NoLocals, wallet_body, signing_scheme, scheme, Ecdsa
  <2>9. Fits(c, p, a, w, m)'
    BY <1>2, <1>4, <1>6, <2>3, <2>8 DEF Fits, AtRest
  <2> QED BY <1>2, <2>3, <2>5, <2>9, ChangeKeeps
<1>7. CASE endpoint = "post" /\ Admitted(c, "signatures")
  <2>1. /\ Pristine(c) /\ Signs(c)
        /\ a.body = [kind |-> "signatures", id |-> op[c].key]
    <3>1. \A x : wallet_body(x).kind = "wallets"
      BY DEF wallet_body
    <3>2. a.body.kind = "signatures"
      BY <1>2, <1>7 DEF Admitted
    <3> QED BY <1>4, <1>7, <3>1, <3>2 DEF AtPost
  <2>2. PICK s \in SlotsOf(op[c].key), status \in {"pending", "completed", "failed"} :
          LET tx == Work(c, "sign", op[c].key, s, status)
          IN  /\ txs' = Append(txs, tx)
              /\ \E answer \in Delivered(FreshTx, tx) : Reply(c, answer)
    <3>1. /\ ask[c].kind = "post" /\ ask[c].body.kind = "signatures"
          /\ ask[c].body.id = op[c].key
      BY <1>2, <1>7, <2>1, SMTT(90)
    <3> QED BY <1>3, <3>1 DEF DfnsServes, Admitted, Unserved
  <2>3. PICK tx : tx = Work(c, "sign", op[c].key, s, status)
    OBVIOUS
  <2>4. PICK w, i : w \in Delivered(i, tx) /\ Reply(c, w) /\ i = FreshTx
    BY <2>2, <2>3
  <2>5. UNCHANGED <<provider, op, owner, held>> /\ txs' = Append(txs, tx)
    BY <1>2, <1>3, <1>7, <2>1, <2>2, <2>3, <2>4
       DEF DfnsServes, Admitted, Unserved, Reply
  <2>6. /\ tx \in Tx /\ tx.call = c /\ tx.work = "sign" /\ tx.id = op[c].key
        /\ tx.slot = s
    BY <2>3, SignType, SMTT(90)
  <2>7. /\ Books' /\ Grows /\ txs' \in Seq(Tx)
        /\ owner' \in Seq(Call) /\ held' \in SUBSET (Nat \X SlotName)
        /\ \A d \in Call \ {c} : Pristine(d) => Pristine(d)'
        /\ \A j, b : j = FreshTx /\ b \in Delivered(j, tx) =>
               b # Nothing /\ j \in DOMAIN txs' /\ Progress(c, j, b)'
    BY <2>1, <2>5, <2>6, SignAccepted, SMTT(90)
  <2>8. w # Nothing /\ i \in DOMAIN txs' /\ Progress(c, i, w)'
    BY <2>4, <2>7
  <2>9. AtPost(c, a, w, m)'
    BY <1>4, <1>7, <2>1, <2>5, <2>8 DEF AtPost, Nothing, NoLocals, Signs
  <2>10. Fits(c, p, a, w, m)'
    BY <1>2, <1>4, <1>7, <2>5, <2>9 DEF Fits, AtRest
  <2> QED BY <1>2, <2>4, <2>7, <2>10, ChangeKeeps
<1>8. CASE endpoint = "signature"
  <2>1. PICK w \in Delivered(a.id, txs[a.id]) : Reply(c, w)
    BY <1>1, <1>2, <1>3, <1>8 DEF DfnsServes, Admitted, Unserved
  <2>2. UNCHANGED providerVars
    BY <1>1, <1>2, <1>3, <1>8 DEF DfnsServes, Admitted, Unserved
  <2>3. AtPoll(c, a, w, m)
    BY <1>4, <1>8, <2>1, PollAnswered
  <2>4. Fits(c, p, a, w, m)
    BY <1>2, <1>4, <1>8, <2>3 DEF Fits, AtRest
  <2> QED BY <1>2, <2>1, <2>2, <2>4, AnswerKeeps
<1>9. CASE endpoint \in {"key", "wallet"}
  <2>1. PICK s \in SlotsOf(a.id) :
          Reply(c, [kind |-> "ok", pk |-> PublicKey(a.id, s, 0)])
    BY <1>1, <1>2, <1>9 DEF DfnsServes, Admitted, Unserved
  <2>2. UNCHANGED providerVars
    BY <1>1, <1>2, <1>9 DEF DfnsServes, Admitted, Unserved
  <2>3. PICK w : w = [kind |-> "ok", pk |-> PublicKey(a.id, s, 0)]
    OBVIOUS
  <2>4. AtRead(c, a, w, m)
    BY <1>4, <1>9 DEF AtRead
  <2>5. Fits(c, p, a, w, m)
    BY <1>2, <1>4, <1>9, <2>4 DEF Fits, AtRest
  <2> QED BY <1>2, <2>1, <2>2, <2>3, <2>5, AnswerKeeps
<1>10. endpoint = "post" => Admitted(c, "wallets") \/ Admitted(c, "signatures")
  BY <1>2, <1>3 DEF DfnsServes, Unserved
<1> QED BY <1>1, <1>3, <1>5, <1>6, <1>7, <1>8, <1>9, <1>10
\* A request of the books is decided.
LEMMA RequestDecided ==
    ASSUME CustodyInv, NEW i \in DOMAIN txs, NEW t, t = txs[i],
           t.status = "pending", NEW u \in Tx, u.call = t.call, u.work = t.work,
           u.slot = t.slot, t.work = "sign" => u.id = t.id,
           txs' = [txs EXCEPT ![i] = u],
           provider' = provider, op' = op, KeysGrow(t.call), TxOK(u)'
    PROVE  /\ RequestsOK' /\ Grows /\ txs' \in Seq(Tx)
           /\ \A d \in Call : Pristine(d) => Pristine(d)'
<1>1. /\ txs \in Seq(Tx) /\ \A j \in DOMAIN txs : TxOK(txs[j])
      /\ \A j, k \in DOMAIN txs : txs[j].call = txs[k].call => j = k
  BY DEF CustodyInv, Shape, Books, RequestsOK
<1>2. /\ txs' \in Seq(Tx) /\ DOMAIN txs' = DOMAIN txs /\ txs'[i] = u
      /\ \A j \in DOMAIN txs \ {i} : txs'[j] = txs[j]
  BY <1>1, SMTT(90)
<1>3. ASSUME NEW j \in DOMAIN txs'
      PROVE  \E v \in {txs'[j]} : TxOK(v)'
  <2>1. CASE j = i
    BY <1>2, <2>1
  <2>2. CASE j # i
    <3>1. PICK v : v = txs[j]
      OBVIOUS
    <3>2. v = txs'[j] /\ TxOK(v) /\ v.call # t.call
      BY <1>1, <1>2, <2>2, <3>1
    <3>3. TxOK(v)'
      BY <3>2, TxStays
    <3> QED BY <3>2, <3>3
  <2> QED BY <2>1, <2>2
<1>4. \A j, k \in DOMAIN txs' : txs'[j].call = txs'[k].call => j = k
  BY <1>1, <1>2, SMTT(90)
<1>5. RequestsOK'
  BY <1>3, <1>4 DEF RequestsOK
<1>6. Grows
  BY <1>2 DEF Grows, KeysGrow
<1>7. \A d \in Call : Pristine(d) => Pristine(d)'
  BY <1>2, SMTT(90) DEF KeysGrow, Pristine
<1> QED BY <1>2, <1>5, <1>6, <1>7

\* The provider decides a request.
LEMMA DecideKeeps ==
    ASSUME CustodyInv, NEW i \in DOMAIN txs, Decide(i)
    PROVE  CustodyInv'
<1>1. PICK t, c : t = txs[i] /\ c = t.call
  OBVIOUS
<1>2. /\ t \in Tx /\ TxOK(t) /\ t.status = "pending" /\ c \in Call
      /\ owner \in Seq(Call) /\ held \in SUBSET (Nat \X SlotName)
      /\ KeysOK /\ Shape
  <2>1. txs[i] \in Tx /\ TxOK(txs[i])
    BY SMTT(90) DEF CustodyInv, Shape, Books, RequestsOK
  <2>2. txs[i].status = "pending"
    BY DEF Decide
  <2> QED BY <1>1, <2>1, <2>2 DEF CustodyInv, Shape, Books, Tx
<1>3. UNCHANGED <<provider, op, callVars>>
  BY DEF Decide
<1>4. SUFFICES /\ Books' /\ Grows /\ txs' \in Seq(Tx)
               /\ owner' \in Seq(Call) /\ held' \in SUBSET (Nat \X SlotName)
               /\ \A d \in Call : Pristine(d) => Pristine(d)'
  <2>1. /\ op' = op /\ pc' = pc /\ ask' = ask /\ wire' = wire /\ mem' = mem
        /\ result' = result /\ provider' = provider
    BY <1>3 DEF callVars
  <2>2. \A d \in Call : Talk(d)'
    BY <1>4, <2>1, OthersKeep
  <2>3. Shape'
    BY <1>2, <1>4, <2>1 DEF Shape
  <2> QED BY <1>4, <2>2, <2>3 DEF CustodyInv
<1>5. ASSUME NEW status \in {"completed", "failed"},
             status = "completed" => t.work = "sign",
             txs' = [txs EXCEPT ![i].status = status], UNCHANGED <<owner, held>>
      PROVE  /\ Books' /\ Grows /\ txs' \in Seq(Tx)
             /\ owner' \in Seq(Call) /\ held' \in SUBSET (Nat \X SlotName)
             /\ \A d \in Call : Pristine(d) => Pristine(d)'
  <2>1. PICK u : u = [t EXCEPT !.status = status]
    OBVIOUS
  <2>2. /\ u \in Tx /\ u.call = t.call /\ u.work = t.work /\ u.slot = t.slot
        /\ u.id = t.id /\ u.status = status
    BY <1>2, <1>5, <2>1 DEF Tx
  <2>3. txs' = [txs EXCEPT ![i] = u] /\ KeysGrow(c)
    BY <1>1, <1>5, <2>1 DEF KeysGrow
  <2>4. TxOK(u)
    BY <1>2, <1>5, <2>2 DEF TxOK, Tx
  <2>5. TxOK(u)'
    BY <1>3, <1>5, <2>2, <2>3, <2>4, TxStays
  <2>6. /\ RequestsOK' /\ Grows /\ txs' \in Seq(Tx)
        /\ \A d \in Call : Pristine(d) => Pristine(d)'
    BY <1>1, <1>2, <1>3, <2>2, <2>3, <2>5, RequestDecided
  <2>7. KeysOK'
    BY <1>2, <1>3, <1>5 DEF KeysOK, SlotsOf
  <2> QED BY <1>2, <1>5, <2>6, <2>7 DEF Books
<1>6. CASE /\ txs[i].work = "create"
           /\ txs' = [txs EXCEPT ![i].status = "completed", ![i].id = FreshId]
           /\ Allot(txs[i].call, txs[i].slot)
  <2>1. PICK u, k : k = FreshId /\ u = [t EXCEPT !.status = "completed", !.id = k]
    OBVIOUS
  <2>2. t.slot \in SlotName /\ \A n \in DOMAIN owner : owner[n] # c
    BY <1>1, <1>2, <1>6 DEF TxOK, Tx
  <2>3. /\ KeysOK'
        /\ owner' \in Seq(Call) /\ held' \in SUBSET (Nat \X SlotName)
        /\ held \subseteq held'
        /\ \A n \in DOMAIN owner : n \in DOMAIN owner' /\ owner'[n] = owner[n]
        /\ \A n \in DOMAIN owner' : owner'[n] = c \/ n \in DOMAIN owner
        /\ k \in Nat /\ Mine(c, k)' /\ t.slot \in SlotsOf(k)'
    BY <1>1, <1>2, <1>3, <1>6, <2>1, <2>2, AllotKeeps
  <2>4. KeysGrow(c)
    BY <2>3 DEF KeysGrow
  <2>5. /\ u \in Tx /\ u.call = c /\ u.work = "create" /\ u.slot = t.slot
        /\ u.id = k /\ u.status = "completed" /\ t.work = "create"
    BY <1>1, <1>2, <1>6, <2>1, <2>3 DEF Tx
  <2>6. txs' = [txs EXCEPT ![i] = u]
    BY <1>1, <1>6, <2>1
  <2>7. TxOK(u)'
    BY <1>1, <1>2, <1>3, <2>3, <2>5 DEF TxOK, chain_params, scheme, Ecdsa
  <2>8. /\ RequestsOK' /\ Grows /\ txs' \in Seq(Tx)
        /\ \A d \in Call : Pristine(d) => Pristine(d)'
    BY <1>1, <1>2, <1>3, <2>4, <2>5, <2>6, <2>7, RequestDecided
  <2> QED BY <2>3, <2>8 DEF Books
<1> QED BY <1>1, <1>5, <1>6 DEF Decide

-----------------------------------------------------------------------------
(* The callers.                                                            *)

\* A call is made.
LEMMA InvokeKeeps ==
    ASSUME CustodyInv, NEW c \in Call, NEW q \in Operation, Invoke(c, q)
    PROVE  CustodyInv'
<1>1. /\ pc[c] = "idle" /\ op' = [op EXCEPT ![c] = q]
      /\ pc' = [pc EXCEPT ![c] = "start"]
      /\ provider' = provider /\ ask' = ask /\ wire' = wire /\ mem' = mem
      /\ result' = result /\ owner' = owner /\ held' = held /\ txs' = txs
  BY DEF Invoke, providerVars
<1>2. /\ Shape /\ Books /\ DOMAIN op = Call /\ DOMAIN pc = Call
      /\ txs \in Seq(Tx)
  BY DEF CustodyInv, Shape
<1>3. Fits(c, pc[c], ask[c], wire[c], mem[c]) /\ Verdict(c, result[c])
      /\ result[c] = Nothing
  BY <1>1, CallFacts
<1>4. /\ Pristine(c) /\ ask[c] = Nothing /\ wire[c] = Nothing
      /\ mem[c] = NoLocals
  BY <1>1, <1>3 DEF Fits, Resting, AtRest
<1>5. Grows /\ \A d \in Call : Pristine(d) => Pristine(d)'
  BY <1>1 DEF Grows, Pristine
<1>6. Shape'
  BY <1>1, <1>2 DEF Shape
<1>7. KeysOK'
  BY <1>1, <1>2 DEF Books, KeysOK, SlotsOf
<1>8. RequestsOK'
  <2>1. ASSUME NEW i \in DOMAIN txs
        PROVE  \E tx \in {txs[i]} : TxOK(tx)'
    <3>1. PICK tx : tx = txs[i]
      OBVIOUS
    <3>2. TxOK(tx) /\ tx.call \in Call /\ tx.call # c
      <4>1. txs[i] \in Tx /\ TxOK(txs[i])
        BY <1>2, SMTT(90) DEF Books, RequestsOK
      <4>2. txs[i].call # c
        BY <1>4 DEF Pristine
      <4> QED BY <3>1, <4>1, <4>2 DEF Tx
    <3>3. op'[tx.call] = op[tx.call]
      BY <1>1, <1>2, <3>2
    <3>4. TxOK(tx)'
      BY <1>1, <3>2, <3>3 DEF TxOK, Signs, SlotsOf, Mine, asset_id, chain_params
    <3> QED BY <3>1, <3>4
  <2> QED BY <1>1, <1>2, <2>1 DEF Books, RequestsOK
<1>9. Talk(c)'
  <2>1. PICK n, l, p : n = Nothing /\ l = NoLocals /\ p = "start"
    OBVIOUS
  <2>2. Resting(c, p, n, n, l)'
    BY <1>4, <1>5, <2>1 DEF Resting, Nothing, NoLocals
  <2>3. op'[c] = q
    BY <1>1, <1>2
  <2>4. Fits(c, p, n, n, l)'
    BY <2>1, <2>2, <2>3 DEF Fits, AtRest
  <2>5. Verdict(c, n)'
    BY <2>1 DEF Verdict, Nothing
  <2>6. /\ pc'[c] = p /\ ask'[c] = n /\ wire'[c] = n /\ mem'[c] = l
        /\ result'[c] = n /\ p # "done"
    BY <1>1, <1>2, <1>3, <1>4, <2>1
  <2>7. n = Nothing'
    BY <2>1 DEF Nothing
  <2> QED BY <2>4, <2>5, <2>6, <2>7 DEF Talk
<1>10. ASSUME NEW d \in Call, d # c
       PROVE  Talk(d)'
  <2>1. PICK p, a, w, m, r :
             /\ p = pc[d] /\ a = ask[d] /\ w = wire[d] /\ m = mem[d]
             /\ r = result[d]
    OBVIOUS
  <2>2. Fits(d, p, a, w, m) /\ Verdict(d, r) /\ ((p = "done") <=> (r # Nothing))
    BY <2>1, CallFacts
  <2>3. op'[d] = op[d] /\ (Pristine(d) => Pristine(d)')
    BY <1>1, <1>2, <1>5, <1>10
  <2>4. Fits(d, p, a, w, m)'
    BY <1>5, <2>2, <2>3, StableFits
  <2>5. Verdict(d, r)'
    BY <1>5, <2>2, <2>3, StableVerdict
  <2>6. /\ pc'[d] = p /\ ask'[d] = a /\ wire'[d] = w /\ mem'[d] = m
        /\ result'[d] = r
    BY <1>1, <1>2, <1>10, <2>1
  <2>7. (p = "done") <=> (r # Nothing')
    BY <2>2 DEF Nothing
  <2> QED BY <2>4, <2>5, <2>6, <2>7 DEF Talk
<1> QED BY <1>6, <1>7, <1>8, <1>9, <1>10 DEF CustodyInv, Books

\* A call is dropped while it waits.
LEMMA DropKeeps ==
    ASSUME CustodyInv, NEW c \in Call, DropCall(c)
    PROVE  CustodyInv'
<1>1. /\ ask[c] # Nothing
      /\ pc' = [pc EXCEPT ![c] = "dropped"] /\ ask' = [ask EXCEPT ![c] = Nothing]
      /\ wire' = [wire EXCEPT ![c] = Nothing] /\ mem' = [mem EXCEPT ![c] = NoLocals]
      /\ provider' = provider /\ op' = op /\ result' = result
      /\ owner' = owner /\ held' = held /\ txs' = txs
  BY DEF DropCall, Awaiting, providerVars
<1>2. /\ Shape /\ Books /\ DOMAIN pc = Call /\ DOMAIN ask = Call
      /\ DOMAIN wire = Call /\ DOMAIN mem = Call
  BY DEF CustodyInv, Shape
<1>3. pc[c] \notin AtRest /\ op[c] \in Operation /\ result[c] = Nothing
  <2>1. /\ Fits(c, pc[c], ask[c], wire[c], mem[c])
        /\ (pc[c] = "done") <=> (result[c] # Nothing)
    BY CallFacts
  <2>2. pc[c] \notin AtRest
    BY <1>1, <2>1 DEF Fits, AtRest, Resting
  <2>3. pc[c] # "idle" /\ pc[c] # "done"
    BY <2>2 DEF AtRest
  <2> QED BY <2>1, <2>2, <2>3 DEF Fits
<1>4. Grows /\ \A d \in Call : Pristine(d) => Pristine(d)'
  BY <1>1 DEF Grows, Pristine
<1>5. Shape'
  BY <1>1, <1>2 DEF Shape
<1>6. Books'
  BY <1>1, <1>2, SMTT(90) DEF Books, KeysOK, RequestsOK, SlotsOf, TxOK, Signs, Mine,
                    asset_id, chain_params
<1>7. Talk(c)'
  <2>1. PICK n, l, p : n = Nothing /\ l = NoLocals /\ p = "dropped"
    OBVIOUS
  <2>2. Resting(c, p, n, n, l)'
    BY <2>1 DEF Resting, Nothing, NoLocals
  <2>4. Fits(c, p, n, n, l)'
    BY <1>1, <1>3, <2>1, <2>2 DEF Fits, AtRest
  <2>5. Verdict(c, n)'
    BY <2>1 DEF Verdict, Nothing
  <2>6. /\ pc'[c] = p /\ ask'[c] = n /\ wire'[c] = n /\ mem'[c] = l
        /\ result'[c] = n /\ p # "done"
    BY <1>1, <1>2, <1>3, <2>1
  <2>7. n = Nothing'
    BY <2>1 DEF Nothing
  <2> QED BY <2>4, <2>5, <2>6, <2>7 DEF Talk
<1>8. \A d \in Call \ {c} :
          /\ pc'[d] = pc[d] /\ ask'[d] = ask[d] /\ wire'[d] = wire[d]
          /\ mem'[d] = mem[d] /\ result'[d] = result[d]
          /\ Pristine(d) => Pristine(d)'
  BY <1>1, <1>2, <1>4
<1> QED BY <1>1, <1>4, <1>5, <1>6, <1>7, <1>8, CallKeeps

-----------------------------------------------------------------------------
(* The invariant.                                                          *)

\* Every provider keeps the keys of every chain in a slot on its curve.
LEMMA SlotFits ==
    ASSUME NEW p \in {"generic", "fireblocks", "turnkey", "dfns"},
           NEW chain \in DOMAIN asset_id
    PROVE  Slot(p, chain) \in SlotName /\ CurveOf(Slot(p, chain)) = scheme(chain)
<1>1. chain \in {"evm", "solana", "bitcoin", "aptos", "sui"}
  BY DEF asset_id
<1>2. CASE p = "generic"
  BY <1>1, <1>2 DEF Slot, SlotName, CurveOf, scheme, Ecdsa
<1>3. CASE p = "fireblocks"
  BY <1>1, <1>3, SMTT(90) DEF Slot, SlotName, CurveOf, scheme, Ecdsa, asset_id
<1>4. CASE p = "turnkey"
  BY <1>1, <1>4 DEF Slot, SlotName, CurveOf, scheme, Ecdsa, chain_params
<1>5. CASE p = "dfns"
  BY <1>1, <1>5 DEF Slot, SlotName, CurveOf, scheme, Ecdsa, signing_scheme
<1> QED BY <1>2, <1>3, <1>4, <1>5

LEMMA CustodyInit ==
    ASSUME Init
    PROVE  CustodyInv
<1>1. PICK chain \in KeyChain : held = {<<0, Slot(provider, chain)>>}
  BY DEF Init
<1>2. PICK s : s = Slot(provider, chain)
  OBVIOUS
<1>3. s \in SlotName
  BY <1>2, SlotFits, CustodyParams DEF Init
<1>4. held = {<<0, s>>} /\ owner = <<>> /\ txs = <<>>
  BY <1>1, <1>2 DEF Init
<1>5. Shape
  <2>1. owner \in Seq(Call) /\ txs \in Seq(Tx)
    BY <1>4, SMTT(90)
  <2>2. held \in SUBSET (Nat \X SlotName)
    BY <1>3, <1>4, SMTT(90)
  <2> QED BY <2>1, <2>2 DEF Init, Shape
<1>6. Books
  <2>1. Len(owner) = 0 /\ DOMAIN owner = {} /\ DOMAIN txs = {}
    BY <1>4, SMTT(90)
  <2>2. KeysOK
    BY <1>4, <2>1, SMTT(90) DEF KeysOK
  <2>3. RequestsOK
    BY <2>1 DEF RequestsOK
  <2> QED BY <2>2, <2>3 DEF Books
<1>7. ASSUME NEW c \in Call
      PROVE  Talk(c)
  <2>1. Pristine(c)
    BY <1>4, SMTT(90) DEF Pristine
  <2>2. /\ op[c] = NoOperation /\ pc[c] = "idle" /\ ask[c] = Nothing
        /\ wire[c] = Nothing /\ mem[c] = NoLocals /\ result[c] = Nothing
    BY DEF Init
  <2>3. Resting(c, "idle", Nothing, Nothing, NoLocals)
    BY <2>1 DEF Resting
  <2>4. Fits(c, "idle", Nothing, Nothing, NoLocals)
    BY <2>2, <2>3 DEF Fits, AtRest
  <2>5. Verdict(c, Nothing)
    BY DEF Verdict, Nothing
  <2> QED BY <2>2, <2>4, <2>5 DEF Talk
<1> QED BY <1>5, <1>6, <1>7 DEF CustodyInv

LEMMA CustodyStep ==
    ASSUME CustodyInv, [Next]_custodyVars
    PROVE  CustodyInv'
<1>1. ASSUME NEW c \in Call, Step(c)
      PROVE  CustodyInv'
  <2>1. pc[c] \notin {"idle", "done", "dropped"} /\ (Continues(c) \/ Ends(c))
    BY <1>1, GenericGoes, FireblocksGoes, TurnkeyGoes, DfnsGoes DEF Step
  <2>2. UNCHANGED <<provider, op, providerVars>>
    BY <1>1 DEF Step
  <2> QED BY <2>1, <2>2, CallStepKeeps
<1>2. ASSUME NEW c \in Call, Serve(c)
      PROVE  CustodyInv'
  BY <1>2, GenericServesKeeps, FireblocksServesKeeps, TurnkeyServesKeeps,
     DfnsServesKeeps DEF Serve
<1>3. ASSUME UNCHANGED custodyVars
      PROVE  CustodyInv'
  <2>1. /\ provider' = provider /\ op' = op /\ pc' = pc /\ ask' = ask
        /\ wire' = wire /\ mem' = mem /\ result' = result /\ owner' = owner
        /\ held' = held /\ txs' = txs
    BY <1>3 DEF custodyVars, callVars, providerVars
  <2>2. Grows /\ \A d \in Call : Pristine(d) => Pristine(d)'
    BY <2>1 DEF Grows, Pristine
  <2>3. Shape'
    BY <2>1 DEF CustodyInv, Shape
  <2>4. Books'
    BY <2>1, SMTT(90) DEF CustodyInv, Books, KeysOK, RequestsOK, SlotsOf, TxOK, Signs,
                Mine, asset_id, chain_params
  <2>5. \A d \in Call : Talk(d)'
    BY <2>1, <2>2, OthersKeep
  <2> QED BY <2>3, <2>4, <2>5 DEF CustodyInv
<1> QED
  BY <1>1, <1>2, <1>3, InvokeKeeps, DropKeeps, DecideKeeps DEF Next

\* Every state of the custody backends satisfies the invariant: each call, at
\* the await it is suspended in, has the request, answer and locals that belong
\* there.
THEOREM CustodyInductive == Spec => []CustodyInv
BY CustodyInit, CustodyStep, PTL DEF Spec

-----------------------------------------------------------------------------
(* What follows from it.                                                   *)

\* Polls stay within their bound, and a call waits except at rest.
LEMMA PlaceType ==
    ASSUME NEW c \in Call, NEW p, NEW a, NEW w, NEW m, Fits(c, p, a, w, m)
    PROVE  /\ op[c] \in Operation \cup {NoOperation}
           /\ m.polls \in 0..MaxPolls
           /\ (p \in AtRest) <=> (a = Nothing)
<1>1. op[c] \in Operation \cup {NoOperation}
  BY DEF Fits
<1>2. m.polls \in 0..MaxPolls
  <2>1. /\ 0 \in 0..MaxPolls /\ NoLocals.polls = 0
        /\ 1..MaxPolls \subseteq 0..MaxPolls
    BY HttpParams, SMTT(90) DEF NoLocals
  <2>2. m = NoLocals \/ m.polls = 0 \/ m.polls \in 1..MaxPolls
    BY DEF Fits, Resting, AtReply, AtVault, AtAsset, AtPublicKey, AtCreateTx,
           AtPoll, AtRead, AtSubmit, AtNewAccount, AtToken, AtPost
  <2> QED BY <2>1, <2>2
<1>3. a = Nothing => p \in AtRest
  <2>1. Nothing.kind = "none"
    BY SMTT(90) DEF Nothing
  <2> QED BY <2>1, PlaceKinds DEF Fits
<1>4. p \in AtRest => a = Nothing
  BY DEF Fits, Resting, AtRest
<1> QED BY <1>1, <1>2, <1>3, <1>4

\* Every variable of the custody backends has its type: polls are bounded, a
\* call waits exactly at its awaits and has a result exactly when done, and
\* what the provider says it finished it holds a wallet for.
THEOREM CustodyTypeCorrect == Spec => []TypeOK
<1>1. CustodyInv => TypeOK
  <2> SUFFICES ASSUME CustodyInv PROVE TypeOK
    OBVIOUS
  <2>1. provider \in Provider
    BY DEF CustodyInv, Shape
  <2>2. ASSUME NEW c \in Call
        PROVE  /\ op[c] \in Operation \cup {NoOperation}
               /\ mem[c].polls \in 0..MaxPolls
               /\ (pc[c] \in {"idle", "start", "done", "dropped"}) <=> ~Awaiting(c)
               /\ (pc[c] = "done") <=> (result[c] # Nothing)
    <3>1. /\ Fits(c, pc[c], ask[c], wire[c], mem[c])
          /\ (pc[c] = "done") <=> (result[c] # Nothing)
      BY CallFacts
    <3> QED BY <3>1, PlaceType DEF AtRest, Awaiting
  <2>3. ASSUME NEW i \in DOMAIN txs
        PROVE  /\ txs[i].status \in {"pending", "completed", "failed"}
               /\ txs[i].status = "completed" => <<txs[i].id, txs[i].slot>> \in held
    <3>1. txs[i] \in Tx /\ TxOK(txs[i]) /\ held \in SUBSET (Nat \X SlotName)
      BY SMTT(90) DEF CustodyInv, Shape, Books, RequestsOK
    <3>2. txs[i].status = "completed" => txs[i].slot \in SlotsOf(txs[i].id)
      BY <3>1 DEF TxOK, Tx
    <3>3. \A n, t : t \in SlotsOf(n) => <<n, t>> \in held
      BY <3>1, SMTT(90) DEF SlotsOf
    <3> QED BY <3>1, <3>2, <3>3 DEF Tx
  <2>4. \A n \in DOMAIN owner : \E w \in held : w[1] = n
    BY SMTT(90) DEF CustodyInv, Books, KeysOK, SlotsOf
  <2> QED BY <2>1, <2>2, <2>3, <2>4 DEF TypeOK
<1> QED BY <1>1, CustodyInductive, PTL

\* A successful sign of any adapter, against a provider that may send any
\* signature with any key, carries a signature of this call's payload, on the
\* chain's curve, that verifies under the key returned with it: nothing leaves
\* unverified.
THEOREM SignaturesVerified == Spec => []OnlyVerifiedSignatures
<1>1. CustodyInv => OnlyVerifiedSignatures
  <2> SUFFICES ASSUME CustodyInv, NEW c \in Call, result[c].kind = "signed"
               PROVE  /\ result[c].sig = [payload |-> c, key |-> result[c].pk]
                      /\ CurveOf(result[c].pk[2]) = scheme(op[c].chain)
    BY DEF OnlyVerifiedSignatures
  <2> QED BY CallFacts DEF Verdict
<1> QED BY <1>1, CustodyInductive, PTL

\* One call leaves at most one request and one key with the provider, however
\* its replies get lost.
THEOREM ChangesSentOnce == Spec => []OneChangePerCall
<1>1. CustodyInv => OneChangePerCall
  BY DEF CustodyInv, Books, KeysOK, RequestsOK, OneChangePerCall
<1> QED BY <1>1, CustodyInductive, PTL

\* dkg of every adapter hands out the key created for this very call, on the
\* chain's curve.
THEOREM CreatedKeysOwned == Spec => []CreatedKeysAreOwn
<1>1. CustodyInv => CreatedKeysAreOwn
  <2> SUFFICES ASSUME CustodyInv, NEW c \in Call, result[c].kind = "created"
               PROVE  /\ result[c].key \in DOMAIN owner
                      /\ owner[result[c].key] = c
                      /\ \E s \in SlotsOf(result[c].key) :
                             /\ CurveOf(s) = scheme(op[c].chain)
                             /\ result[c].pk = PublicKey(result[c].key, s, 0)
    BY DEF CreatedKeysAreOwn
  <2>1. PICK r : r = result[c] /\ Verdict(c, r) /\ r.kind = "created"
    BY CallFacts
  <2>2. NewKey(c, r.key, r.pk)
    BY <2>1 DEF Verdict
  <2>3. result[c] # Nothing /\ pc[c] = "done"
    BY <2>1, CallFacts, SMTT(90) DEF Nothing
  <2>4. op[c] \in Operation
    BY <2>3, CallFacts DEF Fits
  <2>5. op[c].chain \in DOMAIN asset_id
    BY <2>4, CustodyParams
  <2>6. provider \in {"generic", "fireblocks", "turnkey", "dfns"}
    BY CustodyParams DEF CustodyInv, Shape
  <2>7. PICK s : s = Slot(provider, op[c].chain)
    OBVIOUS
  <2>8. CurveOf(s) = scheme(op[c].chain)
    BY <2>5, <2>6, <2>7, SlotFits
  <2>9. Mine(c, r.key) /\ s \in SlotsOf(r.key) /\ r.pk = PublicKey(r.key, s, 0)
    BY <2>2, <2>7 DEF NewKey
  <2> QED BY <2>1, <2>8, <2>9 DEF Mine
<1> QED BY <1>1, CustodyInductive, PTL
-----------------------------------------------------------------------------
(* The adapters implement the contract of the trait.                       *)

\* Making a call hands it over if it is a sign, and else shows nothing.
LEMMA InvokeSigns ==
    ASSUME CustodyInv, NEW c \in Call, NEW q \in Operation, Invoke(c, q)
    PROVE  Engine!Sign(c) \/ UNCHANGED Engine!engineVars
<1>1. /\ pc[c] = "idle" /\ op' = [op EXCEPT ![c] = q]
      /\ pc' = [pc EXCEPT ![c] = "start"] /\ result' = result /\ txs' = txs
      /\ DOMAIN op = Call /\ DOMAIN pc = Call
  BY DEF Invoke, providerVars, CustodyInv, Shape
<1>2. ~Signs(c)
  <2>1. op[c] = NoOperation
    BY <1>1, CallFacts DEF Fits
  <2> QED BY <2>1, SMTT(90) DEF Signs, NoOperation
<1>3. /\ op'[c] = q /\ pc'[c] = "start"
      /\ \A d \in Call \ {c} : op'[d] = op[d] /\ pc'[d] = pc[d]
  BY <1>1
<1>4. Made' = Made
  BY <1>1 DEF Made
<1>5. Ended' = Ended
  BY <1>1, <1>2, <1>3 DEF Ended, Signs
<1>6. CASE q.name = "sign"
  <2>1. c \notin Open /\ Open' = Open \cup {c}
    BY <1>2, <1>3, <1>6 DEF Open, Signs
  <2> QED BY <1>4, <1>5, <2>1 DEF Engine!Sign
<1>7. CASE q.name # "sign"
  <2>1. Open' = Open
    BY <1>2, <1>3, <1>7 DEF Open, Signs
  <2> QED BY <1>4, <1>5, <2>1 DEF Engine!engineVars
<1> QED BY <1>6, <1>7

\* A step of a call shows when it returns from a sign: with success only if
\* the provider has made the signature.
LEMMA StepReturns ==
    ASSUME CustodyInv, NEW c \in Call, Continues(c) \/ Ends(c),
           pc[c] \notin {"idle", "done", "dropped"},
           UNCHANGED <<provider, op, providerVars>>
    PROVE  Engine!Return(c) \/ UNCHANGED Engine!engineVars
<1>1. /\ op' = op /\ txs' = txs /\ DOMAIN pc = Call /\ DOMAIN result = Call
  BY DEF providerVars, CustodyInv, Shape
<1>2. Open' = Open /\ Made' = Made
  BY <1>1 DEF Open, Made, Signs
<1>3. CASE Continues(c)
  <2>1. PICK p : pc' = [pc EXCEPT ![c] = p] /\ p \notin AtRest /\ result' = result
    BY <1>3 DEF Continues, Await
  <2>2. p \notin {"done", "dropped"}
    BY <2>1 DEF AtRest
  <2>3. Ended' = Ended
    BY <1>1, <2>1, <2>2 DEF Ended, Signs
  <2> QED BY <1>2, <2>3 DEF Engine!engineVars
<1>4. CASE Ends(c)
  <2>1. PICK r : Return(c, r) /\ Verdict(c, r)
    BY <1>4 DEF Ends
  <2>2. /\ pc'[c] = "done" /\ result'[c] = r
        /\ \A d \in Call \ {c} : pc'[d] = pc[d] /\ result'[d] = result[d]
    BY <1>1, <2>1 DEF Return
  <2>3. CASE ~Signs(c)
    <3>1. Ended' = Ended
      BY <1>1, <2>2, <2>3 DEF Ended, Signs
    <3> QED BY <1>2, <3>1 DEF Engine!engineVars
  <2>4. CASE Signs(c)
    <3>1. c \in Open /\ Ended[c] = "no"
      BY <2>4 DEF Open, Ended
    <3>2. CASE r.kind = "signed"
      <4>1. c \in Made
        BY <2>1, <3>2 DEF Verdict, Made
      <4>2. Ended' = [Ended EXCEPT ![c] = "Ok"]
        BY <1>1, <2>2, <2>4, <3>2 DEF Ended, Signs
      <4> QED BY <1>2, <3>1, <4>1, <4>2 DEF Engine!Return
    <3>3. CASE r.kind # "signed"
      <4>1. Ended' = [Ended EXCEPT ![c] = "Err"]
        BY <1>1, <2>2, <2>4, <3>3 DEF Ended, Signs
      <4> QED BY <1>2, <3>1, <4>1 DEF Engine!Return
    <3> QED BY <3>2, <3>3
  <2> QED BY <2>3, <2>4
<1> QED BY <1>3, <1>4

\* A dropped sign is an abandoned one.
LEMMA DropAbandons ==
    ASSUME CustodyInv, NEW c \in Call, DropCall(c)
    PROVE  Engine!Abandon({c}) \/ UNCHANGED Engine!engineVars
<1>1. /\ ask[c] # Nothing /\ pc' = [pc EXCEPT ![c] = "dropped"]
      /\ op' = op /\ result' = result /\ txs' = txs /\ DOMAIN pc = Call
  BY DEF DropCall, Awaiting, providerVars, CustodyInv, Shape
<1>2. pc[c] \notin AtRest
  BY <1>1, CallFacts, PlaceType
<1>3. pc[c] \notin {"done", "dropped"}
  BY <1>2 DEF AtRest
<1>4. Open' = Open /\ Made' = Made
  BY <1>1 DEF Open, Made, Signs
<1>5. pc'[c] = "dropped" /\ \A d \in Call \ {c} : pc'[d] = pc[d]
  BY <1>1
<1>6. CASE Signs(c)
  <2>1. c \in Open /\ Ended[c] = "no"
    BY <1>3, <1>6 DEF Open, Ended
  <2>2. Ended' = [d \in Call |-> IF d \in {c} THEN "abandoned" ELSE Ended[d]]
    BY <1>1, <1>5, <1>6 DEF Ended, Signs
  <2> QED BY <1>4, <2>1, <2>2 DEF Engine!Abandon
<1>7. CASE ~Signs(c)
  <2>1. Ended' = Ended
    BY <1>1, <1>5, <1>7 DEF Ended, Signs
  <2> QED BY <1>4, <2>1 DEF Engine!engineVars
<1> QED BY <1>6, <1>7

\* One request is accepted or decided: at most its own signature is made.
LEMMA OneProduced ==
    ASSUME CustodyInv, CustodyInv', op' = op, pc' = pc, result' = result,
           NEW k \in DOMAIN txs', DOMAIN txs' = DOMAIN txs \cup {k},
           \A j \in DOMAIN txs \ {k} : txs'[j] = txs[j],
           k \in DOMAIN txs => /\ txs[k].status = "pending"
                               /\ txs'[k].call = txs[k].call
    PROVE  (\E c \in Call : Engine!Produce(c)) \/ UNCHANGED Engine!engineVars
<1>1. Open' = Open /\ Ended' = Ended
  BY DEF Open, Ended, Signs
<1>2. PICK t : t = txs'[k]
  OBVIOUS
<1>3. CASE t.work = "sign" /\ t.status = "completed"
  <2>1. /\ txs' \in Seq(Tx) /\ TxOK(t)'
        /\ \A i, j \in DOMAIN txs' : txs'[i].call = txs'[j].call => i = j
    BY <1>2, SMTT(90) DEF CustodyInv, Shape, Books, RequestsOK
  <2>2. t.call \in Call
    <3>1. t \in Tx
      BY <1>2, <2>1, SMTT(90)
    <3> QED BY <3>1 DEF Tx
  <2>3. t.call \in Open
    BY <1>3, <2>1, <2>2 DEF TxOK, Open, Signs
  <2>4. t.call \notin Made
    BY <1>2, <2>1, SMTT(90) DEF Made
  <2>5. Made' = Made \cup {t.call}
    BY <1>2, <1>3, SMTT(90) DEF Made
  <2> QED BY <1>1, <2>2, <2>3, <2>4, <2>5 DEF Engine!Produce
<1>4. CASE ~(t.work = "sign" /\ t.status = "completed")
  <2>1. Made' = Made
    BY <1>2, <1>4, SMTT(90) DEF Made
  <2> QED BY <1>1, <2>1 DEF Engine!engineVars
<1> QED BY <1>3, <1>4

\* Serving a call, the provider accepts at most one request.
LEMMA ServeAccepts ==
    ASSUME NEW c, Serve(c)
    PROVE  /\ op' = op /\ pc' = pc /\ result' = result
           /\ txs' = txs \/ \E tx : txs' = Append(txs, tx)
<1>1. CASE GenericServes(c)
  BY <1>1 DEF GenericServes, Reply, providerVars
<1>2. CASE FireblocksServes(c)
  BY <1>2 DEF FireblocksServes, Reply, providerVars
<1>3. CASE TurnkeyServes(c)
  BY <1>3 DEF TurnkeyServes, Reply, providerVars
<1>4. CASE DfnsServes(c)
  BY <1>4 DEF DfnsServes, Reply, providerVars
<1> QED BY <1>1, <1>2, <1>3, <1>4 DEF Serve

\* The provider's work shows when a signature is made.
LEMMA ServeProduces ==
    ASSUME CustodyInv, CustodyInv', NEW c \in Call, Serve(c)
    PROVE  (\E d \in Call : Engine!Produce(d)) \/ UNCHANGED Engine!engineVars
<1>1. /\ op' = op /\ pc' = pc /\ result' = result
      /\ txs' = txs \/ \E tx : txs' = Append(txs, tx)
  BY ServeAccepts
<1>2. CASE txs' = txs
  BY <1>1, <1>2 DEF Engine!engineVars, Open, Made, Ended, Signs
<1>3. ASSUME NEW tx, txs' = Append(txs, tx)
      PROVE  (\E d \in Call : Engine!Produce(d)) \/ UNCHANGED Engine!engineVars
  <2>1. txs \in Seq(Tx)
    BY DEF CustodyInv, Shape
  <2>2. PICK k : k = Len(txs) + 1
    OBVIOUS
  <2>3. /\ DOMAIN txs = 1..Len(txs) /\ DOMAIN txs' = 1..k /\ Len(txs) \in Nat
        /\ \A j \in DOMAIN txs : txs'[j] = txs[j]
    BY <1>3, <2>1, <2>2, SMTT(90)
  <2>4. /\ k \in DOMAIN txs' /\ k \notin DOMAIN txs
        /\ DOMAIN txs' = DOMAIN txs \cup {k}
    BY <2>2, <2>3, SMTT(90)
  <2> QED BY <1>1, <2>3, <2>4, OneProduced
<1> QED BY <1>1, <1>2, <1>3

LEMMA DecideProduces ==
    ASSUME CustodyInv, CustodyInv', NEW i \in DOMAIN txs, Decide(i)
    PROVE  (\E d \in Call : Engine!Produce(d)) \/ UNCHANGED Engine!engineVars
<1>1. op' = op /\ pc' = pc /\ result' = result /\ txs[i].status = "pending"
  BY DEF Decide, callVars
<1>2. /\ txs \in Seq(Tx) /\ txs[i] \in Tx
  BY SMTT(90) DEF CustodyInv, Shape
<1>3. PICK t : t = txs[i]
  OBVIOUS
<1>4. PICK u : txs' = [txs EXCEPT ![i] = u] /\ u.call = t.call
  <2>1. ASSUME NEW status
        PROVE  /\ [txs EXCEPT ![i].status = status]
                      = [txs EXCEPT ![i] = [t EXCEPT !.status = status]]
               /\ [t EXCEPT !.status = status].call = t.call
    BY <1>2, <1>3 DEF Tx
  <2>2. ASSUME NEW n
        PROVE  /\ [txs EXCEPT ![i].status = "completed", ![i].id = n]
                      = [txs EXCEPT ![i] = [t EXCEPT !.status = "completed", !.id = n]]
               /\ [t EXCEPT !.status = "completed", !.id = n].call = t.call
    BY <1>2, <1>3 DEF Tx
  <2>3. \/ \E status : txs' = [txs EXCEPT ![i].status = status]
        \/ \E n : txs' = [txs EXCEPT ![i].status = "completed", ![i].id = n]
    BY DEF Decide
  <2>4. CASE \E status : txs' = [txs EXCEPT ![i].status = status]
    <3>1. PICK status : txs' = [txs EXCEPT ![i].status = status]
      BY <2>4
    <3>2. PICK u : u = [t EXCEPT !.status = status]
      OBVIOUS
    <3>3. txs' = [txs EXCEPT ![i] = u] /\ u.call = t.call
      BY <2>1, <3>1, <3>2
    <3> QED BY <3>3
  <2>5. CASE \E n : txs' = [txs EXCEPT ![i].status = "completed", ![i].id = n]
    <3>1. PICK n : txs' = [txs EXCEPT ![i].status = "completed", ![i].id = n]
      BY <2>5
    <3>2. PICK u : u = [t EXCEPT !.status = "completed", !.id = n]
      OBVIOUS
    <3>3. txs' = [txs EXCEPT ![i] = u] /\ u.call = t.call
      BY <2>2, <3>1, <3>2
    <3> QED BY <3>3
  <2> QED BY <2>3, <2>4, <2>5
<1>5. /\ i \in DOMAIN txs' /\ DOMAIN txs' = DOMAIN txs \cup {i}
      /\ \A j \in DOMAIN txs \ {i} : txs'[j] = txs[j]
      /\ txs'[i].call = txs[i].call
  BY <1>2, <1>3, <1>4
<1> QED BY <1>1, <1>5, OneProduced

\* Every step of an adapter or of its provider is a step of the contract or
\* none.
LEMMA AdapterStep ==
    ASSUME CustodyInv, CustodyInv', [Next]_custodyVars
    PROVE  Engine!Next \/ UNCHANGED Engine!engineVars
<1>1. ASSUME NEW c \in Call, Step(c)
      PROVE  Engine!Next \/ UNCHANGED Engine!engineVars
  <2>1. pc[c] \notin {"idle", "done", "dropped"} /\ (Continues(c) \/ Ends(c))
    BY <1>1, GenericGoes, FireblocksGoes, TurnkeyGoes, DfnsGoes DEF Step
  <2>2. UNCHANGED <<provider, op, providerVars>>
    BY <1>1 DEF Step
  <2>3. Engine!Return(c) \/ UNCHANGED Engine!engineVars
    BY <2>1, <2>2, StepReturns
  <2> QED BY <2>3 DEF Engine!Next
<1>2. ASSUME NEW c \in Call, NEW q \in Operation, Invoke(c, q)
      PROVE  Engine!Next \/ UNCHANGED Engine!engineVars
  BY <1>2, InvokeSigns DEF Engine!Next
<1>3. ASSUME NEW c \in Call, DropCall(c)
      PROVE  Engine!Next \/ UNCHANGED Engine!engineVars
  <2>1. Engine!Abandon({c}) \/ UNCHANGED Engine!engineVars
    BY <1>3, DropAbandons
  <2>2. {c} \in SUBSET Call
    OBVIOUS
  <2> QED BY <2>1, <2>2 DEF Engine!Next
<1>4. ASSUME NEW c \in Call, Serve(c)
      PROVE  Engine!Next \/ UNCHANGED Engine!engineVars
  BY <1>4, ServeProduces DEF Engine!Next
<1>5. ASSUME NEW i \in DOMAIN txs, Decide(i)
      PROVE  Engine!Next \/ UNCHANGED Engine!engineVars
  BY <1>5, DecideProduces DEF Engine!Next
<1>6. ASSUME UNCHANGED custodyVars
      PROVE  UNCHANGED Engine!engineVars
  BY <1>6 DEF custodyVars, callVars, providerVars, Engine!engineVars, Open, Made,
              Ended, Signs
<1> QED BY <1>1, <1>2, <1>3, <1>4, <1>5, <1>6 DEF Next

\* All four custody adapters implement the contract of the SigningEngine trait
\* on which the SignTx handler relies: a sign succeeds only with a signature
\* its provider made, returns once, and nothing is signed unasked.
THEOREM AdaptersImplementEngine == Spec => ImplementsEngine
<1>1. Init => Engine!Init
  BY SMTT(90) DEF Init, Engine!Init, Open, Made, Ended, Signs, NoOperation
<1>2. CustodyInv /\ CustodyInv' /\ [Next]_custodyVars
          => [Engine!Next]_(Engine!engineVars)
  BY AdapterStep
<1> QED BY <1>1, <1>2, CustodyInductive, PTL DEF Spec, ImplementsEngine, Engine!Spec
=============================================================================
