---------------------------- MODULE SigningEngine ----------------------------
(***************************************************************************)
(* What a signing backend promises of `sign`: the contract of the trait    *)
(* SigningEngine (src/engine/mod.rs), which the SignTx handler relies on   *)
(* and every backend has to implement.                                     *)
(*                                                                         *)
(* Once a call is handed over a signature for it may come to exist at any  *)
(* time, also after the call has ended: a custody provider can finish a    *)
(* request nobody waits for.  The call returns once: with success only if  *)
(* its signature exists, with an error whether or not it does.  The caller *)
(* may stop waiting.                                                       *)
(***************************************************************************)
CONSTANT Call  \* the sign calls

VARIABLES
    open,   \* calls handed to the backend
    made,   \* calls for which a signature exists
    ended   \* how each call ended

engineVars == <<open, made, ended>>

Init ==
    /\ open = {}
    /\ made = {}
    /\ ended = [c \in Call |-> "no"]

Sign(c) ==
    /\ c \notin open
    /\ open' = open \cup {c}
    /\ UNCHANGED <<made, ended>>

Produce(c) ==
    /\ c \in open \ made
    /\ made' = made \cup {c}
    /\ UNCHANGED <<open, ended>>

Return(c) ==
    /\ c \in open /\ ended[c] = "no"
    /\ \/ ended' = [ended EXCEPT ![c] = "Err"]
       \/ c \in made /\ ended' = [ended EXCEPT ![c] = "Ok"]
    /\ UNCHANGED <<open, made>>

\* A caller goes away, or the process ends with all its callers.
Abandon(gone) ==
    /\ gone # {}
    /\ gone \subseteq {c \in open : ended[c] = "no"}
    /\ ended' = [c \in Call |-> IF c \in gone THEN "abandoned" ELSE ended[c]]
    /\ UNCHANGED <<open, made>>

Next ==
    \/ \E c \in Call : Sign(c) \/ Produce(c) \/ Return(c)
    \/ \E gone \in SUBSET Call : Abandon(gone)

Spec == Init /\ [][Next]_engineVars
=============================================================================
