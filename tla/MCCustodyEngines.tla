-------------------------- MODULE MCCustodyEngines --------------------------
(***************************************************************************)
(* Two overlapping calls of any operations against each provider in turn,  *)
(* starting from one EVM key (0).  Key 1 is the first one the provider     *)
(* allots, of either scheme, and unknown until then.                       *)
(***************************************************************************)
EXTENDS CustodyEngines

MCProvider == {"generic", "fireblocks", "turnkey", "dfns"}
MCKeyChain == {"evm"}

Op(name, key, chain) ==
    [name |-> name, key |-> key, chain |-> chain, proof |-> FALSE, names |-> "key"]

MCOperation ==
    {Op("sign", 0, "evm"), Op("sign", 0, "solana"), Op("sign", 1, "solana"),
     Op("dkg", 0, "evm"), Op("dkg", 0, "solana"), Op("rotate_key", 0, "evm"),
     Op("get_key_metadata", 0, "evm"), Op("get_key_metadata", 1, "solana"),
     [Op("get_key_metadata", 0, "evm") EXCEPT !.names = "wallet"],
     Op("restore_share", 0, "evm"),
     [Op("restore_share", 0, "evm") EXCEPT !.proof = TRUE]}
=============================================================================
