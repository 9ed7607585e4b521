-------------------------- MODULE ThresholdCluster --------------------------
(***************************************************************************)
(* The coordinator of the in-house t-of-n engine                           *)
(* (src/engine/threshold/cluster.rs): n nodes holding Shamir shares, and   *)
(* the calls keygen, sign and refresh, any number of which run at once on  *)
(* the threads of the tokio runtime.  No lock spans a call: the only       *)
(* atomic units are one read or write of a node's share map, of the        *)
(* coordinator's key map, and of a node's availability flags.              *)
(*                                                                         *)
(* A share is abstracted to the set of dealings summed into it: the DKG    *)
(* dealing of its key (named by the key) and one zero-sharing per refresh  *)
(* (named by the refresh call).  The empty set is "this node holds no      *)
(* share".  Shares of distinct nodes lie on one polynomial of degree t-1   *)
(* whose constant term is the group secret exactly when they sum the same  *)
(* dealings; module Shamir checks that reading on small fields.            *)
(***************************************************************************)
EXTENDS Naturals, Sequences, FiniteSets

CONSTANTS
    N,           \* number of nodes (Cluster.n)
    T,           \* threshold (Cluster.t)
    Key,         \* key ids; each names the one keygen call that creates it
    Signing,     \* identities of the sign calls
    Refreshing,  \* identities of the refresh calls
    MayFail,     \* bound: the nodes whose availability flag is ever flipped
    MayLag       \* bound: the nodes whose delay is ever set past the timeout

Node == 1..N
Op == Key \cup Signing \cup Refreshing
Dealing == Key \cup Refreshing

\* Cluster::new refuses any other t and n; call identities are distinct.
ASSUME ClusterParams ==
    /\ N \in Nat
    /\ T \in 1..N
    /\ MayFail \subseteq Node
    /\ MayLag \subseteq Node

ASSUME DistinctCalls ==
    /\ Key \cap Signing = {}
    /\ Key \cap Refreshing = {}
    /\ Signing \cap Refreshing = {}

VARIABLES
    target,   \* the key_id argument of each call
    online,   \* the nodes whose Node.online is set
    slow,     \* the nodes whose delay_ms exceeds Cluster.round_timeout
    share,    \* Node.shares: the dealings summed into each share
    epoch,    \* Cluster.keys: the epoch of a key, 0 when it is not in the map
    pc,       \* where each call is
    at,       \* the node the loop of each call has reached
    got,      \* what `round` has collected for each call, in order
    held,     \* the share a refresh has read and not yet written back
    result,   \* what each call returned
    torn,     \* history: signs whose round overlapped a refresh writing its key
    raced,    \* history: keys two refreshes of which wrote at the same time
    steady    \* history: nodes responsive since each sign call began its round

vars == <<target, online, slow, share, epoch, pc, at, got, held, result,
          torn, raced, steady>>

nodeVars == <<online, slow>>
histVars == <<torn, raced, steady>>

InRound == {"round", "asked", "late"}
Writing == {"apply", "put"}
Answer == [node : Node, dealt : SUBSET Dealing]
Outcome == {"none", "ok", "QuorumNotMet", "UnknownKey", "ReconstructFailed",
            "dropped"}

OfKey(ops, k) == {o \in ops : target[o] = k}
Responsive == online \ slow

TypeOK ==
    /\ target \in [Op -> Key]
    /\ online \subseteq Node
    /\ slow \subseteq Node
    /\ share \in [Node -> [Key -> SUBSET Dealing]]
    /\ epoch \in [Key -> Nat]
    /\ pc \in [Op -> InRound \cup Writing \cup {"idle", "done"}]
    /\ at \in [Op -> 1..(N + 1)]
    /\ got \in [Op -> Seq(Answer)]
    /\ held \in [Refreshing -> SUBSET Dealing]
    /\ result \in [Op -> Outcome]
    /\ torn \subseteq Signing
    /\ raced \subseteq Key
    /\ steady \in [Signing -> SUBSET Node]

Init ==
    /\ target \in {f \in [Op -> Key] : \A k \in Key : f[k] = k}
    /\ online = Node
    /\ slow = {}
    /\ share = [n \in Node |-> [k \in Key |-> {}]]
    /\ epoch = [k \in Key |-> 0]
    /\ pc = [o \in Op |-> "idle"]
    /\ at = [o \in Op |-> 1]
    /\ got = [o \in Op |-> <<>>]
    /\ held = [o \in Refreshing |-> {}]
    /\ result = [o \in Op |-> "none"]
    /\ torn = {}
    /\ raced = {}
    /\ steady = [o \in Signing |-> {}]

-----------------------------------------------------------------------------
(* Control moves shared by the calls.                                      *)

Return(o, r) ==
    /\ pc' = [pc EXCEPT ![o] = "done"]
    /\ result' = [result EXCEPT ![o] = r]

EnterRound(o) ==
    /\ pc' = [pc EXCEPT ![o] = "round"]
    /\ UNCHANGED result

\* Mutant: a loop that skips every other node.
NextNodeSkips(o) == at' = [at EXCEPT ![o] = @ + 2]

NextNode(o) == at' = [at EXCEPT ![o] = @ + 1]

(* Availability of the nodes.                                              *)

Toggle(S, n) == IF n \in S THEN S \ {n} ELSE S \cup {n}

SetOnline(n) ==
    /\ n \in MayFail
    /\ online' = Toggle(online, n)
    /\ steady' = [o \in Signing |-> steady[o] \ {n}]
    /\ UNCHANGED <<target, slow, share, epoch, pc, at, got, held, result,
                   torn, raced>>

SetDelay(n) ==
    /\ n \in MayLag
    /\ slow' = Toggle(slow, n)
    /\ steady' = [o \in Signing |-> steady[o] \ {n}]
    /\ UNCHANGED <<target, online, share, epoch, pc, at, got, held, result,
                   torn, raced>>

-----------------------------------------------------------------------------
(* The checks that open each call.                                         *)

FullMembership == online = Node

BeginKeygen(k) ==
    /\ pc[k] = "idle"
    /\ IF FullMembership THEN EnterRound(k) ELSE Return(k, "QuorumNotMet")
    /\ UNCHANGED <<target, nodeVars, share, epoch, at, got, held, histVars>>

BeginRefresh(o) ==
    /\ pc[o] = "idle"
    /\ IF ~FullMembership THEN Return(o, "QuorumNotMet")
       ELSE IF epoch[target[o]] = 0 THEN Return(o, "UnknownKey")
       ELSE EnterRound(o)
    /\ UNCHANGED <<target, nodeVars, share, epoch, at, got, held, histVars>>

WritersOf(k) == {r \in OfKey(Refreshing, k) : pc[r] \in Writing}

BeginSign(o) ==
    /\ pc[o] = "idle"
    /\ IF epoch[target[o]] = 0
       THEN Return(o, "UnknownKey") /\ UNCHANGED <<torn, steady>>
       ELSE /\ EnterRound(o)
            /\ torn' = IF WritersOf(target[o]) = {} THEN torn
                                                    ELSE torn \cup {o}
            /\ steady' = [steady EXCEPT ![o] = Responsive]
    /\ UNCHANGED <<target, nodeVars, share, epoch, at, got, held, raced>>

-----------------------------------------------------------------------------
(* Cluster::round, which visits the nodes one after the other: a node is   *)
(* skipped when it is offline, dropped when its delay outlasts the round   *)
(* timeout, and otherwise read when its delay is over.                     *)

AskNode(o) ==
    /\ pc[o] = "round"
    /\ at[o] \in Node
    /\ \/ at[o] \notin online /\ NextNode(o) /\ UNCHANGED pc
       \/ /\ at[o] \in online
          /\ pc' = [pc EXCEPT ![o] = IF at[o] \in slow THEN "late" ELSE "asked"]
          /\ UNCHANGED at
    /\ UNCHANGED <<target, nodeVars, share, epoch, got, held, result, histVars>>

\* Mutant: a timed-out node is asked again.
TimeoutNodeRetries(o) ==
    /\ pc[o] = "late"
    /\ pc' = [pc EXCEPT ![o] = "round"]
    /\ UNCHANGED <<target, nodeVars, share, epoch, at, got, held, result,
                   histVars>>

TimeoutNode(o) ==
    /\ pc[o] = "late"
    /\ pc' = [pc EXCEPT ![o] = "round"]
    /\ NextNode(o)
    /\ UNCHANGED <<target, nodeVars, share, epoch, got, held, result, histVars>>

\* Mutant: an answer that arrives twice counts twice.
RespondTwice(o, n) ==
    [i \in 1..2 |-> [node |-> n,
                     dealt |-> IF o \in Signing THEN share[n][target[o]] ELSE {}]]

\* The closure passed to round: sign collects (index, share) of a node that
\* has one, the ceremonies collect a bare acknowledgement.
Respond(o, n) ==
    IF o \notin Signing THEN <<[node |-> n, dealt |-> {}]>>
    ELSE IF share[n][target[o]] = {} THEN <<>>
    ELSE <<[node |-> n, dealt |-> share[n][target[o]]]>>

AnswerNode(o) ==
    /\ pc[o] = "asked"
    /\ got' = [got EXCEPT ![o] = @ \o Respond(o, at[o])]
    /\ pc' = [pc EXCEPT ![o] = "round"]
    /\ NextNode(o)
    /\ UNCHANGED <<target, nodeVars, share, epoch, held, result, histVars>>

\* The gRPC handler's future is dropped at the only await of a call, when the
\* client goes away or its deadline passes.
DropCall(o) ==
    /\ pc[o] \in {"asked", "late"}
    /\ Return(o, "dropped")
    /\ UNCHANGED <<target, nodeVars, share, epoch, at, got, held, histVars>>

-----------------------------------------------------------------------------
(* The rest of sign: quorum check, truncate, reconstruct, sign.            *)

\* Mutant: the quorum check is off by one.
FinishSignStrict(o) ==
    /\ pc[o] = "round"
    /\ at[o] = N + 1
    /\ Return(o, IF Len(got[o]) <= T THEN "QuorumNotMet" ELSE "ok")
    /\ UNCHANGED <<target, nodeVars, share, epoch, at, got, held, histVars>>

FinishSign(o) ==
    /\ pc[o] = "round"
    /\ at[o] = N + 1
    /\ Return(o, IF Len(got[o]) < T THEN "QuorumNotMet" ELSE "ok")
    /\ UNCHANGED <<target, nodeVars, share, epoch, at, got, held, histVars>>

\* collected.truncate(t)
Quorum(o) == SubSeq(got[o], 1, T)

\* shamir::reconstruct yields the group secret, so C::sign's output verifies
\* under the group public key.
Verifies(o) ==
    \A i, j \in DOMAIN Quorum(o) : Quorum(o)[i].dealt = Quorum(o)[j].dealt

-----------------------------------------------------------------------------
(* The rest of keygen: deal, store one share per node, publish the key.    *)
(* How many nodes answered the round is not looked at.                     *)

StartDealing(k) ==
    /\ pc[k] = "round"
    /\ at[k] = N + 1
    /\ pc' = [pc EXCEPT ![k] = "apply"]
    /\ at' = [at EXCEPT ![k] = 1]
    /\ UNCHANGED <<target, nodeVars, share, epoch, got, held, result, histVars>>

\* Mutant: a node that has gone offline since the membership check is passed
\* over.
DealShareOnline(k) ==
    /\ pc[k] = "apply"
    /\ at[k] \in Node
    /\ share' = IF at[k] \in online THEN [share EXCEPT ![at[k]][k] = {k}]
                                    ELSE share
    /\ NextNode(k)
    /\ UNCHANGED <<target, nodeVars, epoch, pc, got, held, result, histVars>>

DealShare(k) ==
    /\ pc[k] = "apply"
    /\ at[k] \in Node
    /\ share' = [share EXCEPT ![at[k]][k] = {k}]
    /\ NextNode(k)
    /\ UNCHANGED <<target, nodeVars, epoch, pc, got, held, result, histVars>>

\* aggregate_public fails when a dealer's commitment is not a valid point.
PublishKey(k) ==
    /\ pc[k] = "apply"
    /\ at[k] = N + 1
    /\ \/ epoch' = [epoch EXCEPT ![k] = 1] /\ Return(k, "ok")
       \/ UNCHANGED epoch /\ Return(k, "ReconstructFailed")
    /\ UNCHANGED <<target, nodeVars, share, at, got, held, histVars>>

-----------------------------------------------------------------------------
(* The rest of refresh: draw a zero-sharing, add it to every node's share  *)
(* (a read and a write that are not one step), bump the epoch.             *)

\* Mutant: the delta loop starts at the second node.
StartRefreshingLate(o) ==
    /\ pc[o] = "round"
    /\ at[o] = N + 1
    /\ pc' = [pc EXCEPT ![o] = "apply"]
    /\ at' = [at EXCEPT ![o] = 2]
    /\ torn' = torn \cup {s \in OfKey(Signing, target[o]) : pc[s] \in InRound}
    /\ raced' = IF WritersOf(target[o]) = {} THEN raced
                                             ELSE raced \cup {target[o]}
    /\ UNCHANGED <<target, nodeVars, share, epoch, got, held, result, steady>>

StartRefreshing(o) ==
    /\ pc[o] = "round"
    /\ at[o] = N + 1
    /\ pc' = [pc EXCEPT ![o] = "apply"]
    /\ at' = [at EXCEPT ![o] = 1]
    /\ torn' = torn \cup {s \in OfKey(Signing, target[o]) : pc[s] \in InRound}
    /\ raced' = IF WritersOf(target[o]) = {} THEN raced
                                             ELSE raced \cup {target[o]}
    /\ UNCHANGED <<target, nodeVars, share, epoch, got, held, result, steady>>

ReadShare(o) ==
    /\ pc[o] = "apply"
    /\ at[o] \in Node
    /\ held' = [held EXCEPT ![o] = share[at[o]][target[o]]]
    /\ pc' = [pc EXCEPT ![o] = "put"]
    /\ UNCHANGED <<target, nodeVars, share, epoch, at, got, result, histVars>>

\* Mutant: the delta replaces the share instead of being added to it.
WriteShareReplaces(o) ==
    /\ pc[o] = "put"
    /\ share' = [share EXCEPT ![at[o]][target[o]] = {o}]
    /\ pc' = [pc EXCEPT ![o] = "apply"]
    /\ NextNode(o)
    /\ UNCHANGED <<target, nodeVars, epoch, got, held, result, histVars>>

\* Mutant: the delta reaches only the nodes that are still in time.
WriteShareResponsive(o) ==
    /\ pc[o] = "put"
    /\ share' = IF at[o] \in slow THEN share
                ELSE [share EXCEPT ![at[o]][target[o]] = held[o] \cup {o}]
    /\ pc' = [pc EXCEPT ![o] = "apply"]
    /\ NextNode(o)
    /\ UNCHANGED <<target, nodeVars, epoch, got, held, result, histVars>>

WriteShare(o) ==
    /\ pc[o] = "put"
    /\ share' = [share EXCEPT ![at[o]][target[o]] = held[o] \cup {o}]
    /\ pc' = [pc EXCEPT ![o] = "apply"]
    /\ NextNode(o)
    /\ UNCHANGED <<target, nodeVars, epoch, got, held, result, histVars>>

\* Mutant: the refresh reports success while nodes are still to be written.
BumpEpochEarly(o) ==
    /\ pc[o] = "apply"
    /\ epoch' = [epoch EXCEPT ![target[o]] = @ + 1]
    /\ Return(o, "ok")
    /\ UNCHANGED <<target, nodeVars, share, at, got, held, histVars>>

\* Mutant: the epoch is set rather than incremented.
BumpEpochSets(o) ==
    /\ pc[o] = "apply"
    /\ at[o] = N + 1
    /\ epoch' = [epoch EXCEPT ![target[o]] = 2]
    /\ Return(o, "ok")
    /\ UNCHANGED <<target, nodeVars, share, at, got, held, histVars>>

BumpEpoch(o) ==
    /\ pc[o] = "apply"
    /\ at[o] = N + 1
    /\ epoch' = [epoch EXCEPT ![target[o]] = @ + 1]
    /\ Return(o, "ok")
    /\ UNCHANGED <<target, nodeVars, share, at, got, held, histVars>>

-----------------------------------------------------------------------------
RoundStep(o) == AskNode(o) \/ TimeoutNode(o) \/ AnswerNode(o)
KeygenStep(k) == RoundStep(k) \/ StartDealing(k) \/ DealShare(k) \/ PublishKey(k)
SignStep(o) == RoundStep(o) \/ FinishSign(o)
RefreshStep(o) ==
    RoundStep(o) \/ StartRefreshing(o) \/ ReadShare(o) \/ WriteShare(o)
                 \/ BumpEpoch(o)

\* Every call has returned: nothing is left to do.
Finished ==
    /\ \A o \in Op : pc[o] = "done"
    /\ UNCHANGED vars

Next ==
    \/ \E n \in Node : SetOnline(n) \/ SetDelay(n)
    \/ \E k \in Key : BeginKeygen(k) \/ KeygenStep(k)
    \/ \E o \in Signing : BeginSign(o) \/ SignStep(o)
    \/ \E o \in Refreshing : BeginRefresh(o) \/ RefreshStep(o)
    \/ \E o \in Op : DropCall(o)
    \/ Finished

Spec == Init /\ [][Next]_vars

\* Every await is a sleep bounded by the round timeout and the rest is
\* straight-line code, so a call that has begun keeps stepping.
Fairness ==
    /\ \A k \in Key : WF_vars(KeygenStep(k))
    /\ \A o \in Signing : WF_vars(SignStep(o))
    /\ \A o \in Refreshing : WF_vars(RefreshStep(o))

FairSpec == Spec /\ Fairness
-----------------------------------------------------------------------------
(* Correctness.                                                            *)

Completed(k) == {r \in OfKey(Refreshing, k) : result[r] = "ok"}

\* A key that sign and refresh can find has a share on every node, so the
\* unwrap in refresh cannot panic and no quorum is lost to a missing share:
\* keygen stores all shares before it publishes the key, and refresh only
\* ever adds to a share.
PublishedKeyHasShares ==
    \A k \in Key : epoch[k] > 0 => \A n \in Node : k \in share[n][k]

\* A refresh that no other refresh of the same key overlaps leaves every node
\* on the same polynomial: once no refresh of a key is writing, each share is
\* the DKG dealing plus the zero-sharing of every completed refresh, on all n
\* nodes (cluster.rs refresh; old shares are invalidated, the secret stays).
SerialRefreshesAgree ==
    \A k \in Key :
        (epoch[k] > 0 /\ k \notin raced /\ WritersOf(k) = {}) =>
            \A n \in Node : share[n][k] = {k} \cup Completed(k)

\* A signature returned by sign verifies under the group public key whenever
\* no refresh of that key was writing shares during the sign's round and no
\* two refreshes of it ever wrote at once: exactly what a per-key lock around
\* the two calls would guarantee for all signatures.
UndisturbedSignVerifies ==
    \A o \in Signing :
        (result[o] = "ok" /\ o \notin torn /\ target[o] \notin raced)
            => Verifies(o)

\* Sign succeeds only with shares of t different nodes (mpc_rounds.rs: "t-1
\* nodes cannot sign"), whatever comes and goes while the round is under way.
QuorumOfDistinctNodes ==
    \A o \in Signing : result[o] = "ok" =>
        Cardinality({Quorum(o)[i].node : i \in DOMAIN Quorum(o)}) = T

\* Losing n - t nodes does not affect signing: sign reports QuorumNotMet only
\* when fewer than t nodes stayed online and in time through its round.
LossTolerated ==
    \A o \in Signing :
        result[o] = "QuorumNotMet" => Cardinality(steady[o]) < T

\* The epoch of a key counts its completed refreshes, concurrent ones
\* included, because the increment happens under the key map's write lock.
EpochCountsRefreshes ==
    \A k \in Key : epoch[k] > 0 => epoch[k] = 1 + Cardinality(Completed(k))

\* A call that entered its round returns: a hung or lost node delays it by
\* the round timeout and no more, and no call waits for another.
CallsReturn ==
    \A o \in Op : (pc[o] = "round") ~> (pc[o] = "done")

(* What the repository says of the cluster and the code does not do.       *)

\* engine/mod.rs: a signature comes with "the public key it verifies against".
SignatureVerifies ==
    \A o \in Signing : result[o] = "ok" => Verifies(o)

\* cluster.rs: refresh adds "a zero-sharing to every share so the group secret
\* and public key are unchanged".
SharesAgreeAtRest ==
    \A k \in Key : (epoch[k] > 0 /\ WritersOf(k) = {}) =>
        \A m, n \in Node : share[m][k] = share[n][k]
=============================================================================
