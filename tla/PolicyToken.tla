---------------------------- MODULE PolicyToken ----------------------------
(***************************************************************************)
(* The decision made by Ed25519TokenVerifier::verify (src/policy.rs) on a  *)
(* policy decision token, up to the single-use gate: the checks in their   *)
(* order, and the freshness window in the u64 arithmetic of a release      *)
(* build.                                                                  *)
(*                                                                         *)
(* A token is the record of what verification can tell apart: whether its  *)
(* text splits and decodes into claims bytes and a 64-byte signature       *)
(* (decodes), whether the Policy Engine's signature over these bytes is    *)
(* good (signed), whether the bytes are the JSON of a PolicyClaims         *)
(* (parses), and the claims.                                               *)
(***************************************************************************)
EXTENDS Naturals

CONSTANTS
    U64,      \* 2^64 in the code: the modulus of unsigned 64-bit arithmetic
    MaxSkew,  \* TOKEN_MAX_SKEW in seconds
    Horizon   \* bound: the last instant the wall clock shows

\* The clock is far from the end of the u64 range, whatever the skew.
ASSUME ClockParams ==
    /\ U64 \in Nat
    /\ MaxSkew \in Nat
    /\ Horizon \in Nat
    /\ Horizon + MaxSkew < U64

Instant == 0..Horizon

Token(Id, Payload, Key, Chain) ==
    [decodes : BOOLEAN, signed : BOOLEAN, parses : BOOLEAN,
     token_id : Id, tx_payload_hash : {"sha256"} \X Payload, key_id : Key,
     chain : Chain, issued_at : 0..(U64 - 1), expires_at : 0..(U64 - 1)]

\* A collision-free digest.
sha256_hex(payload) == <<"sha256", payload>>

AddU64(a, b) == (a + b) % U64

Fresh(tok, now) ==
    /\ tok.issued_at <= AddU64(now, MaxSkew)
    /\ AddU64(tok.expires_at, MaxSkew) >= now

\* Mutant: the chain of the claims is not compared.
VerdictAnyChain(tok, req, now) ==
    IF ~tok.decodes \/ ~tok.parses THEN "Malformed"
    ELSE IF ~tok.signed THEN "BadSignature"
    ELSE IF tok.tx_payload_hash # sha256_hex(req.tx_payload) THEN "PayloadMismatch"
    ELSE IF tok.key_id # req.key_id THEN "KeyMismatch"
    ELSE IF ~Fresh(tok, now) THEN "Expired"
    ELSE "None"

\* The DenyReason of the first check that fails, or "None".
Verdict(tok, req, now) ==
    IF ~tok.decodes THEN "Malformed"
    ELSE IF ~tok.signed THEN "BadSignature"
    ELSE IF ~tok.parses THEN "Malformed"
    ELSE IF tok.tx_payload_hash # sha256_hex(req.tx_payload) THEN "PayloadMismatch"
    ELSE IF tok.key_id # req.key_id THEN "KeyMismatch"
    ELSE IF tok.chain # req.chain THEN "ChainMismatch"
    ELSE IF ~Fresh(tok, now) THEN "Expired"
    ELSE "None"

\* What an approval means, in unbounded arithmetic: the Policy Engine signed
\* claims that name this payload, key and chain, and `now` lies in the
\* token's lifetime widened by the skew on both sides.
Approves(tok, req, now) ==
    /\ tok.decodes /\ tok.signed /\ tok.parses
    /\ tok.tx_payload_hash = sha256_hex(req.tx_payload)
    /\ tok.key_id = req.key_id
    /\ tok.chain = req.chain
    /\ tok.issued_at <= now + MaxSkew
    /\ now <= tok.expires_at + MaxSkew
=============================================================================
