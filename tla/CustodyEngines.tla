--------------------------- MODULE CustodyEngines ---------------------------
(***************************************************************************)
(* The custody backends as the service runs them: build_engine picks one   *)
(* adapter at start-up, and any number of its calls are under way at once  *)
(* against the same provider.                                              *)
(***************************************************************************)
EXTENDS Fireblocks, Turnkey, Dfns

CONSTANTS
    Provider,  \* the providers to explore
    KeyChain,  \* the chains key 0 may have been created for
    Operation  \* the operations to explore, with their arguments

ASSUME CustodyParams ==
    /\ Provider \subseteq {"generic", "fireblocks", "turnkey", "dfns"}
    /\ KeyChain \subseteq DOMAIN asset_id
    /\ Operation \subseteq
           [name : {"sign", "dkg", "rotate_key", "get_key_metadata",
                    "restore_share"},
            key : Nat, chain : DOMAIN asset_id, proof : BOOLEAN,
            names : {"key", "wallet"}]

\* The slot in which each provider keeps the keys of a chain.
Slot(p, chain) ==
    CASE p = "generic" -> scheme(chain)
      [] p = "fireblocks" -> asset_id[chain]
      [] p = "turnkey" -> chain_params(chain)
      [] p = "dfns" -> signing_scheme(chain)

NoOperation == [name |-> "none"]

Init ==
    /\ provider \in Provider
    /\ op = [c \in Call |-> NoOperation]
    /\ pc = [c \in Call |-> "idle"]
    /\ ask = [c \in Call |-> Nothing]
    /\ wire = [c \in Call |-> Nothing]
    /\ mem = [c \in Call |-> NoLocals]
    /\ result = [c \in Call |-> Nothing]
    /\ owner = <<>>
    /\ \E chain \in KeyChain : held = {<<0, Slot(provider, chain)>>}
    /\ txs = <<>>

\* Only Dfns takes a wallet's id for its key's.
Invoke(c, q) ==
    /\ pc[c] = "idle"
    /\ q.names = "wallet" => provider = "dfns"
    /\ op' = [op EXCEPT ![c] = q]
    /\ pc' = [pc EXCEPT ![c] = "start"]
    /\ UNCHANGED <<provider, ask, wire, mem, result, providerVars>>

Step(c) ==
    /\ \/ provider = "generic" /\ GenericStep(c)
       \/ provider = "fireblocks" /\ FireblocksStep(c)
       \/ provider = "turnkey" /\ TurnkeyStep(c)
       \/ provider = "dfns" /\ DfnsStep(c)
    /\ UNCHANGED <<provider, op, providerVars>>

\* The caller's deadline passes or it disconnects: the future is dropped.
DropCall(c) ==
    /\ Awaiting(c)
    /\ pc' = [pc EXCEPT ![c] = "dropped"]
    /\ ask' = [ask EXCEPT ![c] = Nothing]
    /\ wire' = [wire EXCEPT ![c] = Nothing]
    /\ mem' = [mem EXCEPT ![c] = NoLocals]
    /\ UNCHANGED <<provider, op, result, providerVars>>

Serve(c) ==
    \/ provider = "generic" /\ GenericServes(c)
    \/ provider = "fireblocks" /\ FireblocksServes(c)
    \/ provider = "turnkey" /\ TurnkeyServes(c)
    \/ provider = "dfns" /\ DfnsServes(c)

Next ==
    \/ \E c \in Call :
           \/ \E q \in Operation : Invoke(c, q)
           \/ Step(c) \/ DropCall(c) \/ Serve(c)
    \/ \E i \in DOMAIN txs : Decide(i)

Spec == Init /\ [][Next]_custodyVars

\* The HTTP client gives up on an exchange after 15 seconds at the latest, so
\* a call always moves on; nothing is assumed of the provider.
FairSpec == Spec /\ \A c \in Call : WF_custodyVars(Step(c))

-----------------------------------------------------------------------------
(* Correctness.                                                            *)

TypeOK ==
    /\ provider \in Provider
    /\ \A c \in Call :
           /\ op[c] \in Operation \cup {NoOperation}
           /\ mem[c].polls \in 0..MaxPolls
           /\ (pc[c] \in {"idle", "start", "done", "dropped"}) <=> ~Awaiting(c)
           /\ (pc[c] = "done") <=> (result[c] # Nothing)
    /\ \A i \in DOMAIN txs :
           /\ txs[i].status \in {"pending", "completed", "failed"}
           /\ txs[i].status = "completed" => <<txs[i].id, txs[i].slot>> \in held
    /\ \A n \in DOMAIN owner : \E w \in held : w[1] = n

Signs(c) == op[c].name = "sign"

Open == {c \in Call : Signs(c)}

Made == {txs[i].call : i \in {j \in DOMAIN txs :
             txs[j].work = "sign" /\ txs[j].status = "completed"}}

Ended == [c \in Call |->
              IF ~Signs(c) \/ pc[c] \notin {"done", "dropped"} THEN "no"
              ELSE IF pc[c] = "dropped" THEN "abandoned"
              ELSE IF result[c].kind = "signed" THEN "Ok" ELSE "Err"]

\* The custody adapters seen as a SigningEngine: what the SignTx handler
\* assumes of its backend.
Engine == INSTANCE SigningEngine WITH open <- Open, made <- Made, ended <- Ended

\* Every adapter implements the contract of the trait: a sign call succeeds
\* only when the provider has made its signature, returns once, and nothing is
\* signed that was not asked for, also while replies get lost, requests finish
\* late and callers go away.
ImplementsEngine == Engine!Spec

\* An adapter never hands out a signature it has not checked, however the
\* provider mixes up payloads and keys: a successful sign carries a signature
\* over this call's own payload, on the curve of its chain, that verifies under
\* the public key returned with it.  (Which key that is, is the provider's word:
\* only Turnkey's adapter looks it up under the key id the caller named, and
\* the others take it from the answer.)
OnlyVerifiedSignatures ==
    \A c \in Call : result[c].kind = "signed" =>
        /\ result[c].sig = [payload |-> c, key |-> result[c].pk]
        /\ CurveOf(result[c].pk[2]) = scheme(op[c].chain)

\* No adapter sends a change twice: whatever happens to the replies, one call
\* leaves at most one signing request, wallet or vault with the provider.
OneChangePerCall ==
    /\ \A i, j \in DOMAIN txs : txs[i].call = txs[j].call => i = j
    /\ \A n, m \in DOMAIN owner : owner[n] = owner[m] => n = m

\* A key handed out exists and is the caller's: dkg answers with the key
\* created for this very call, on the chain's curve, under the id and public
\* key by which the provider holds it.
CreatedKeysAreOwn ==
    \A c \in Call : result[c].kind = "created" =>
        /\ result[c].key \in DOMAIN owner /\ owner[result[c].key] = c
        /\ \E s \in SlotsOf(result[c].key) :
               /\ CurveOf(s) = scheme(op[c].chain)
               /\ result[c].pk = PublicKey(result[c].key, s, 0)

\* Every call ends, even against a provider that never finishes a request.
CallsEnd ==
    \A c \in Call : (pc[c] = "start") ~> (pc[c] \in {"done", "dropped"})
=============================================================================
