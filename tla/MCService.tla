------------------------------ MODULE MCService ------------------------------
(***************************************************************************)
(* Environments that differ from a complete one in the variables at stake, *)
(* and three calls: one that creates a key and two that use it.            *)
(***************************************************************************)
EXTENDS Service

CONSTANTS c1, c2, c3

Complete ==
    [POLICY_ENGINE_PUBKEY |-> "good", WALLET_MANAGEMENT_URL |-> "good",
     CUSTODY_PROVIDER |-> "", CUSTODY_API_KEY |-> "good",
     CUSTODY_API_SECRET_KEY |-> "", CUSTODY_API_SECRET_KEY_PATH |-> "good",
     CUSTODY_ORGANIZATION_ID |-> "good", CUSTODY_API_PRIVATE_KEY |-> "good",
     CUSTODY_SERVICE_ACCOUNT_KEY |-> "good",
     CUSTODY_SERVICE_ACCOUNT_SECRET |-> "good", KAFKA_BROKERS |-> "good",
     DEV_MODE |-> "", NODE_SIGNING_KEY |-> "", THRESHOLD_T |-> "",
     TOTAL_N |-> "", MTLS_CERT |-> "good", MTLS_KEY |-> "good",
     MTLS_CA |-> "good", TLS_CERT_FILE |-> "", TLS_KEY_FILE |-> "",
     TLS_CA_FILE |-> ""]

\* Provider and credentials.
Providers ==
    {[Complete EXCEPT !.CUSTODY_PROVIDER = p] :
         p \in {"fireblocks", "dfns", "turnkey"}}
    \cup {[Complete EXCEPT !.CUSTODY_PROVIDER = "fireblocks",
                           !.CUSTODY_API_SECRET_KEY = s,
                           !.CUSTODY_API_SECRET_KEY_PATH = f] :
              s \in {"", "bad"}, f \in {"", "unreadable"}}
    \cup {[Complete EXCEPT !.CUSTODY_PROVIDER = "turnkey",
                           !.CUSTODY_API_KEY = "other"],
          [Complete EXCEPT !.CUSTODY_PROVIDER = "dfns",
                           !.CUSTODY_SERVICE_ACCOUNT_SECRET = "bad"]}

\* Development: DEV_MODE without brokers, certificates or both.
Development ==
    {[Complete EXCEPT !.DEV_MODE = d, !.KAFKA_BROKERS = w[1],
                      !.MTLS_CERT = w[2], !.MTLS_KEY = w[2], !.MTLS_CA = w[2]] :
         d \in {"", "1", "true"},
         w \in {<<"", "good">>, <<"bad", "good">>, <<"good", "">>, <<"", "">>}}

\* One thing wrong, or given another way.
Slips ==
    {[Complete EXCEPT !.POLICY_ENGINE_PUBKEY = "bad"],
     [Complete EXCEPT !.WALLET_MANAGEMENT_URL = "bad"],
     [Complete EXCEPT !.NODE_SIGNING_KEY = "bad"],
     [Complete EXCEPT !.THRESHOLD_T = "0"],
     [Complete EXCEPT !.THRESHOLD_T = "4"],
     [Complete EXCEPT !.MTLS_KEY = ""],
     [Complete EXCEPT !.MTLS_KEY = "", !.TLS_KEY_FILE = "good"]}

MCEnvironment == {Complete} \cup Providers \cup Development \cup Slips

Op(name, key, chain) ==
    [name |-> name, key |-> key, chain |-> chain, proof |-> TRUE, node |-> TRUE]

Uses(names) == {Op(n, c1, "evm") : n \in names}

MCOperation ==
    (c1 :> {Op("dkg", "", "evm"), Op("dkg", "", "solana"),
            Op("dkg", "", "unspecified")})
    @@ (c2 :> Uses({"rotate_key", "sign"}) \cup {Op("rotate_key", "", "evm")})
    @@ (c3 :> Uses({"rotate_key", "get_key_metadata", "restore_share"})
              \cup {[Op("restore_share", c1, "evm") EXCEPT !.proof = FALSE]})

MCCall == {c1, c2, c3}
=============================================================================
