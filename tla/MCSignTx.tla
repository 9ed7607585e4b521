------------------------------ MODULE MCSignTx ------------------------------
(* Small instances of SignTx for TLC: a handful of tokens and requests, the *)
(* replies Wallet Management can give, and the service configurations.      *)
EXTENDS SignTx

MCToken(id, payload, key, chain, from, until) ==
    [decodes |-> TRUE, signed |-> TRUE, parses |-> TRUE, token_id |-> id,
     tx_payload_hash |-> sha256_hex(payload), key_id |-> key, chain |-> chain,
     issued_at |-> from, expires_at |-> until]

MCRequest(tok, payload, key, chain) ==
    [token |-> tok, tx_payload |-> payload, key_id |-> key, chain |-> chain]

\* Valid at instants 0..2 with a skew of one second.
MCGood == MCToken("t1", "p1", "k1", "evm", 1, 1)
\* The same id over another payload, with a longer life.
MCSameId == MCToken("t1", "p2", "k1", "evm", 0, 2)
\* Another id; not acceptable until the clock is at 2.
MCLater == MCToken("t2", "p1", "k1", "evm", 3, 3)
\* "Never expires": the addition of the skew wraps round.
MCForever == MCToken("t3", "p1", "k1", "evm", 0, U64 - 1)

\* The honest requests: two calls may carry the same token.
MCApproved == {MCRequest(MCGood, "p1", "k1", "evm"),
               MCRequest(MCSameId, "p2", "k1", "evm")}

MCOneToken == {MCRequest(MCGood, "p1", "k1", "evm")}

\* One request per way verification and validation can end.
MCEveryVerdict ==
    {MCRequest(MCGood, "p1", "k1", "evm"),
     MCRequest(MCGood, "p2", "k1", "evm"),
     MCRequest(MCGood, "p1", "k2", "evm"),
     MCRequest(MCGood, "p1", "k1", "solana"),
     MCRequest(MCLater, "p1", "k1", "evm"),
     MCRequest(MCForever, "p1", "k1", "evm"),
     MCRequest([MCGood EXCEPT !.decodes = FALSE], "p1", "k1", "evm"),
     MCRequest([MCGood EXCEPT !.signed = FALSE], "p1", "k1", "evm"),
     MCRequest([MCGood EXCEPT !.parses = FALSE], "p1", "k1", "evm"),
     MCRequest(MCGood, "", "k1", "evm"),
     MCRequest(MCGood, "p1", "", "evm"),
     MCRequest(MCGood, "p1", "k1", "unspecified")}

MCReply(status, keys, key) ==
    [status |-> status, key_ids |-> keys, current_key_id |-> key]

MCWalletReply ==
    {MCReply("error", {}, ""), MCReply("not_found", {}, ""),
     MCReply("ok", {}, ""), MCReply("ok", {"k1"}, ""), MCReply("ok", {}, "k1"),
     MCReply("ok", {"k2"}, "k3")}

MCFewReplies == {MCReply("error", {}, ""), MCReply("ok", {"k1"}, "")}

MCProduction == {[skip_policy |-> FALSE, verifier |-> TRUE,
                  skip_wallet_check |-> FALSE, wallet |-> TRUE]}

CallSymmetry == Permutations(Session)
=============================================================================
