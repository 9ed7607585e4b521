----------------------- MODULE ThresholdClusterProofs -----------------------
(***************************************************************************)
(* Proofs about ThresholdCluster, for every number of nodes, threshold and *)
(* set of concurrent calls: type correctness, that a published key has a   *)
(* share on every node, that refreshes which do not overlap leave all      *)
(* nodes on one sharing, and that a sign no refresh overlaps produces a    *)
(* signature that verifies.                                                *)
(***************************************************************************)
EXTENDS ThresholdCluster, TLAPS

\* Zenon proves the leaves that name no other prover.
USE ZenonT(60)

-----------------------------------------------------------------------------
(* The inductive invariant, in parts.                                      *)

Running == InRound \cup Writing

\* Where a call is and what it has done so far go together.
ControlInv ==
    /\ \A k \in Key : target[k] = k
    /\ \A k \in Key : epoch[k] > 0 => pc[k] = "done"
    /\ \A o \in Op : pc[o] = "idle" => got[o] = <<>>
    /\ \A o \in Op : result[o] = "ok" => pc[o] = "done"
    /\ \A o \in Key \cup Signing : pc[o] # "put"
    /\ \A o \in Signing : pc[o] # "apply"
    /\ \A o \in Op : pc[o] \in {"asked", "late", "put"} => at[o] \in Node

\* sign and refresh only work on published keys.
PublishedInv ==
    /\ \A o \in Signing \cup Refreshing :
           pc[o] \in Running => epoch[target[o]] > 0
    /\ \A r \in Refreshing : result[r] = "ok" => epoch[target[r]] > 0

\* How far keygen has dealt, and that no refresh drops the DKG dealing.
DealtInv ==
    /\ \A k \in Key : pc[k] = "apply" =>
           \A n \in Node : n < at[k] => share[n][k] = {k}
    /\ \A r \in Refreshing : pc[r] = "put" => target[r] \in held[r]

\* Of a key on which no two refreshes raced: at most one refresh is writing,
\* and the nodes it has passed are exactly those that sum its zero-sharing.
Serial(k) ==
    (epoch[k] > 0 /\ k \notin raced) =>
        /\ \A r, s \in WritersOf(k) : r = s
        /\ \A n \in Node :
               share[n][k] = {k} \cup Completed(k)
                                 \cup {r \in WritersOf(k) : n < at[r]}
        /\ \A r \in WritersOf(k) : pc[r] = "put" => held[r] = share[at[r]][k]

SerialInv == \A k \in Key : Serial(k)

\* What a sign that no refresh has disturbed has collected.
Clean(o) ==
    (o \notin torn /\ target[o] \notin raced) =>
        /\ pc[o] \in InRound =>
               /\ WritersOf(target[o]) = {}
               /\ \A i \in DOMAIN got[o] :
                      got[o][i].dealt = {target[o]} \cup Completed(target[o])
        /\ result[o] = "ok" =>
               \A i, j \in DOMAIN got[o] : got[o][i].dealt = got[o][j].dealt

CleanInv ==
    \A o \in Signing :
        /\ Clean(o)
        /\ result[o] = "ok" => T <= Len(got[o])

IInv ==
    /\ TypeOK
    /\ ControlInv
    /\ PublishedInv
    /\ DealtInv
    /\ PublishedKeyHasShares
    /\ SerialInv
    /\ CleanInv
-----------------------------------------------------------------------------
(* Type correctness.                                                       *)

\* The initial states have the right types.
LEMMA InitType == Init => TypeOK
  BY SMTT(60), ClusterParams DEF Init, TypeOK, Op, Node, Dealing, InRound, Writing,
     Answer, Outcome

\* Every step of every call, and every change of a node's availability,
\* keeps the types.
LEMMA TypeStep == TypeOK /\ ControlInv /\ [Next]_vars => TypeOK'
<1> SUFFICES ASSUME TypeOK, ControlInv, [Next]_vars PROVE TypeOK'
  OBVIOUS
<1> USE ClusterParams DEF TypeOK, Op, Node, Dealing, InRound, Writing, Outcome
<1>1. ASSUME NEW n \in Node, SetOnline(n) \/ SetDelay(n) PROVE TypeOK'
  BY <1>1 DEF SetOnline, SetDelay, Toggle
<1>2. ASSUME NEW k \in Key, BeginKeygen(k) PROVE TypeOK'
  <2>1. CASE EnterRound(k)
    BY <1>2, <2>1 DEF BeginKeygen, EnterRound, nodeVars, histVars
  <2>2. CASE Return(k, "QuorumNotMet")
    BY <1>2, <2>2 DEF BeginKeygen, Return, nodeVars, histVars
  <2> QED BY <1>2, <2>1, <2>2 DEF BeginKeygen
<1>3. ASSUME NEW o \in Signing, BeginSign(o) PROVE TypeOK'
  <2>1. torn' \subseteq Signing /\ steady' \in [Signing -> SUBSET Node]
    <3>1. torn' \in {torn, torn \cup {o}}
      BY <1>3 DEF BeginSign
    <3>2. steady' = steady \/ steady' = [steady EXCEPT ![o] = Responsive]
      BY <1>3 DEF BeginSign
    <3> QED BY <3>1, <3>2 DEF Responsive
  <2>2. CASE EnterRound(o)
    BY <1>3, <2>1, <2>2 DEF BeginSign, EnterRound, nodeVars
  <2>3. CASE Return(o, "UnknownKey")
    BY <1>3, <2>1, <2>3 DEF BeginSign, Return, nodeVars
  <2> QED BY <1>3, <2>2, <2>3 DEF BeginSign
<1>4. ASSUME NEW o \in Refreshing, BeginRefresh(o) PROVE TypeOK'
  <2>1. CASE EnterRound(o)
    BY <1>4, <2>1 DEF BeginRefresh, EnterRound, nodeVars, histVars
  <2>2. CASE Return(o, "QuorumNotMet")
    BY <1>4, <2>2 DEF BeginRefresh, Return, nodeVars, histVars
  <2>3. CASE Return(o, "UnknownKey")
    BY <1>4, <2>3 DEF BeginRefresh, Return, nodeVars, histVars
  <2> QED BY <1>4, <2>1, <2>2, <2>3 DEF BeginRefresh
<1>5. ASSUME NEW o \in Op, RoundStep(o) PROVE TypeOK'
  <2>1. CASE AskNode(o)
    <3>1. CASE at[o] \notin online
      <4>1. at' = [at EXCEPT ![o] = @ + 1] /\ pc' = pc
        BY <2>1, <3>1 DEF AskNode, NextNode
      <4>2. at' \in [Op -> 1..(N + 1)]
        BY SMTT(60), <2>1, <4>1 DEF AskNode
      <4> QED BY <2>1, <4>1, <4>2 DEF AskNode, nodeVars, histVars
    <3>2. CASE at[o] \in online
      BY <2>1, <3>2 DEF AskNode, nodeVars, histVars
    <3> QED BY <3>1, <3>2
  <2>2. CASE TimeoutNode(o)
    BY SMTT(60), <2>2 DEF TimeoutNode, NextNode, nodeVars, histVars, ControlInv
  <2>3. CASE AnswerNode(o)
    <3>1. at[o] \in Node
      BY <2>3 DEF AnswerNode, ControlInv
    <3>2. Respond(o, at[o]) \in Seq(Answer)
      <4>1. [node |-> at[o], dealt |-> {}] \in Answer
        BY <3>1 DEF Answer
      <4>2. [node |-> at[o], dealt |-> share[at[o]][target[o]]] \in Answer
        BY SMTT(60), <3>1 DEF Answer
      <4> QED BY SMTT(60), <4>1, <4>2 DEF Respond
    <3>3. got' \in [Op -> Seq(Answer)]
      BY SMTT(60), <2>3, <3>2 DEF AnswerNode
    <3> QED BY SMTT(60), <2>3, <3>1, <3>3 DEF AnswerNode, NextNode, nodeVars, histVars
  <2> QED BY <1>5, <2>1, <2>2, <2>3 DEF RoundStep
<1>6. ASSUME NEW k \in Key, StartDealing(k) \/ DealShare(k) \/ PublishKey(k)
      PROVE TypeOK'
  <2>1. CASE StartDealing(k)
    BY SMTT(60), <2>1 DEF StartDealing, nodeVars, histVars
  <2>2. CASE DealShare(k)
    BY SMTT(60), <2>2 DEF DealShare, NextNode, nodeVars, histVars
  <2>3. CASE PublishKey(k)
    <3>1. epoch' = [epoch EXCEPT ![k] = 1] \/ epoch' = epoch
      BY <2>3 DEF PublishKey
    <3>2. Return(k, "ok") \/ Return(k, "ReconstructFailed")
      BY <2>3 DEF PublishKey
    <3>3. epoch' \in [Key -> Nat]
      BY SMTT(60), <3>1
    <3> QED BY <2>3, <3>2, <3>3 DEF PublishKey, Return, nodeVars,
               histVars
  <2> QED BY <1>6, <2>1, <2>2, <2>3
<1>7. ASSUME NEW o \in Signing, FinishSign(o) PROVE TypeOK'
  BY <1>7 DEF FinishSign, Return, nodeVars, histVars
<1>8. ASSUME NEW o \in Refreshing,
             \/ StartRefreshing(o) \/ ReadShare(o) \/ WriteShare(o)
             \/ BumpEpoch(o)
      PROVE TypeOK'
  <2>1. CASE StartRefreshing(o)
    BY SMTT(60), <2>1 DEF StartRefreshing, nodeVars, OfKey
  <2>2. CASE ReadShare(o)
    BY SMTT(60), <2>2 DEF ReadShare, nodeVars, histVars
  <2>3. CASE WriteShare(o)
    BY SMTT(60), <2>3 DEF WriteShare, NextNode, nodeVars, histVars, ControlInv
  <2>4. CASE BumpEpoch(o)
    BY SMTT(60), <2>4 DEF BumpEpoch, Return, nodeVars, histVars
  <2> QED BY <1>8, <2>1, <2>2, <2>3, <2>4
<1>9. ASSUME NEW o \in Op, DropCall(o) PROVE TypeOK'
  BY <1>9 DEF DropCall, Return, nodeVars, histVars
<1>10. CASE UNCHANGED vars
  BY <1>10 DEF vars
<1> QED
  BY <1>1, <1>2, <1>3, <1>4, <1>5, <1>6, <1>7, <1>8, <1>9, <1>10
  DEF Next, KeygenStep, SignStep, RefreshStep, Finished

-----------------------------------------------------------------------------
(* Control.                                                                *)

\* The link between a call's place and its progress survives every step.
LEMMA ControlStep ==
    TypeOK /\ ControlInv /\ PublishedInv /\ [Next]_vars => ControlInv'
<1> SUFFICES ASSUME TypeOK, ControlInv, PublishedInv, [Next]_vars
             PROVE ControlInv'
  OBVIOUS
<1> USE ClusterParams, DistinctCalls DEF TypeOK, ControlInv, Op, Node
<1>1. ASSUME NEW n \in Node, SetOnline(n) \/ SetDelay(n) PROVE ControlInv'
  BY <1>1 DEF SetOnline, SetDelay
<1>2. ASSUME NEW k \in Key, BeginKeygen(k) PROVE ControlInv'
  <2>1. CASE EnterRound(k)
    BY <1>2, <2>1 DEF BeginKeygen, EnterRound
  <2>2. CASE Return(k, "QuorumNotMet")
    BY <1>2, <2>2 DEF BeginKeygen, Return
  <2> QED BY <1>2, <2>1, <2>2 DEF BeginKeygen
<1>3. ASSUME NEW o \in Signing, BeginSign(o) PROVE ControlInv'
  <2>1. EnterRound(o) \/ Return(o, "UnknownKey")
    BY <1>3 DEF BeginSign
  <2> QED BY SMTT(60), <1>3, <2>1 DEF BeginSign, EnterRound, Return
<1>4. ASSUME NEW o \in Refreshing, BeginRefresh(o) PROVE ControlInv'
  <2>1. CASE EnterRound(o)
    BY <1>4, <2>1 DEF BeginRefresh, EnterRound
  <2>2. CASE Return(o, "QuorumNotMet")
    BY <1>4, <2>2 DEF BeginRefresh, Return
  <2>3. CASE Return(o, "UnknownKey")
    BY <1>4, <2>3 DEF BeginRefresh, Return
  <2> QED BY <1>4, <2>1, <2>2, <2>3 DEF BeginRefresh
<1>5. ASSUME NEW o \in Op, RoundStep(o) PROVE ControlInv'
  <2>1. CASE AskNode(o)
    <3>1. CASE at[o] \notin online
      BY <2>1, <3>1 DEF AskNode, NextNode
    <3>2. CASE at[o] \in online
      BY SMTT(60), <2>1, <3>2 DEF AskNode
    <3> QED BY <3>1, <3>2
  <2>2. CASE TimeoutNode(o)
    BY <2>2 DEF TimeoutNode, NextNode
  <2>3. CASE AnswerNode(o)
    BY <2>3 DEF AnswerNode, NextNode
  <2> QED BY <1>5, <2>1, <2>2, <2>3 DEF RoundStep
<1>6. ASSUME NEW k \in Key, StartDealing(k) \/ DealShare(k) \/ PublishKey(k)
      PROVE ControlInv'
  <2>1. CASE StartDealing(k)
    BY <2>1 DEF StartDealing
  <2>2. CASE DealShare(k)
    BY <2>2 DEF DealShare, NextNode
  <2>3. CASE PublishKey(k)
    <3>1. epoch' = [epoch EXCEPT ![k] = 1] \/ epoch' = epoch
      BY <2>3 DEF PublishKey
    <3>2. pc' = [pc EXCEPT ![k] = "done"] /\ got' = got /\ at' = at
          /\ target' = target
      BY <2>3 DEF PublishKey, Return
    <3>3. \A o \in Op : o # k => result'[o] = result[o]
      BY <2>3 DEF PublishKey, Return
    <3> QED BY <3>1, <3>2, <3>3
  <2> QED BY <1>6, <2>1, <2>2, <2>3
<1>7. ASSUME NEW o \in Signing, FinishSign(o) PROVE ControlInv'
  BY <1>7 DEF FinishSign, Return
<1>8. ASSUME NEW o \in Refreshing,
             \/ StartRefreshing(o) \/ ReadShare(o) \/ WriteShare(o)
             \/ BumpEpoch(o)
      PROVE ControlInv'
  <2>1. CASE StartRefreshing(o)
    BY <2>1 DEF StartRefreshing
  <2>2. CASE ReadShare(o)
    BY <2>2 DEF ReadShare
  <2>3. CASE WriteShare(o)
    BY <2>3 DEF WriteShare, NextNode
  <2>4. CASE BumpEpoch(o)
    <3>1. epoch[target[o]] > 0
      BY <2>4 DEF BumpEpoch, PublishedInv, Running, Writing
    <3> QED BY <2>4, <3>1 DEF BumpEpoch, Return
  <2> QED BY <1>8, <2>1, <2>2, <2>3, <2>4
<1>9. ASSUME NEW o \in Op, DropCall(o) PROVE ControlInv'
  BY <1>9 DEF DropCall, Return
<1>10. CASE UNCHANGED vars
  BY <1>10 DEF vars
<1> QED
  BY <1>1, <1>2, <1>3, <1>4, <1>5, <1>6, <1>7, <1>8, <1>9, <1>10
  DEF Next, KeygenStep, SignStep, RefreshStep, Finished

-----------------------------------------------------------------------------
(* Published keys.                                                         *)

\* keygen's last step withdraws no key.
LEMMA PublishKeeps ==
    ASSUME epoch \in [Key -> Nat], NEW k \in Key, PublishKey(k)
    PROVE  \A j \in Key : epoch[j] > 0 => epoch'[j] > 0
<1>1. epoch' = [epoch EXCEPT ![k] = 1] \/ epoch' = epoch
  BY DEF PublishKey
<1>2. CASE epoch' = [epoch EXCEPT ![k] = 1]
  BY SMTT(60), <1>2
<1>3. CASE epoch' = epoch
  BY <1>3
<1> QED BY <1>1, <1>2, <1>3

\* No step makes sign or refresh work on a key that is not published, and a
\* published key is never withdrawn.
LEMMA PublishedStep ==
    TypeOK /\ ControlInv /\ PublishedInv /\ [Next]_vars => PublishedInv'
<1> SUFFICES ASSUME TypeOK, ControlInv, PublishedInv, [Next]_vars
             PROVE PublishedInv'
  OBVIOUS
<1> USE DistinctCalls DEF TypeOK, PublishedInv, Op, Running, InRound, Writing
<1>1. ASSUME NEW n \in Node, SetOnline(n) \/ SetDelay(n) PROVE PublishedInv'
  BY <1>1 DEF SetOnline, SetDelay
<1>2. ASSUME NEW k \in Key, BeginKeygen(k) PROVE PublishedInv'
  <2>1. CASE EnterRound(k)
    BY <1>2, <2>1 DEF BeginKeygen, EnterRound
  <2>2. CASE Return(k, "QuorumNotMet")
    BY <1>2, <2>2 DEF BeginKeygen, Return
  <2> QED BY <1>2, <2>1, <2>2 DEF BeginKeygen
<1>3. ASSUME NEW o \in Signing, BeginSign(o) PROVE PublishedInv'
  <2> USE DEF BeginSign
  <2>1. UNCHANGED <<target, epoch>>
    BY <1>3
  <2>2. CASE epoch[target[o]] = 0
    <3>1. Return(o, "UnknownKey")
      BY <1>3, <2>2
    <3> QED BY <2>1, <3>1 DEF Return
  <2>3. CASE epoch[target[o]] # 0
    <3>1. EnterRound(o)
      BY <1>3, <2>3
    <3>2. epoch[target[o]] > 0
      BY SMTT(60), <2>3
    <3> QED BY <2>1, <3>1, <3>2 DEF EnterRound
  <2> QED BY <2>2, <2>3
<1>4. ASSUME NEW o \in Refreshing, BeginRefresh(o) PROVE PublishedInv'
  <2>1. UNCHANGED <<target, epoch>>
    BY <1>4 DEF BeginRefresh
  <2>2. CASE Return(o, "QuorumNotMet")
    BY <2>1, <2>2 DEF Return
  <2>3. CASE Return(o, "UnknownKey")
    BY <2>1, <2>3 DEF Return
  <2>4. CASE epoch[target[o]] # 0 /\ EnterRound(o)
    <3>1. epoch[target[o]] > 0
      BY SMTT(60), <2>4
    <3> QED BY <2>1, <2>4, <3>1 DEF EnterRound
  <2> QED BY <1>4, <2>2, <2>3, <2>4 DEF BeginRefresh
<1>5. ASSUME NEW o \in Op, RoundStep(o) PROVE PublishedInv'
  <2>1. CASE AskNode(o)
    BY <2>1 DEF AskNode, NextNode
  <2>2. CASE TimeoutNode(o)
    BY <2>2 DEF TimeoutNode, NextNode
  <2>3. CASE AnswerNode(o)
    BY <2>3 DEF AnswerNode, NextNode
  <2> QED BY <1>5, <2>1, <2>2, <2>3 DEF RoundStep
<1>6. ASSUME NEW k \in Key, StartDealing(k) \/ DealShare(k) \/ PublishKey(k)
      PROVE PublishedInv'
  <2>1. CASE StartDealing(k)
    BY <2>1 DEF StartDealing
  <2>2. CASE DealShare(k)
    BY <2>2 DEF DealShare
  <2>3. CASE PublishKey(k)
    <3>1. \A j \in Key : epoch[j] > 0 => epoch'[j] > 0
      BY <2>3, PublishKeeps
    <3>2. \A o \in Op : o # k => pc'[o] = pc[o] /\ result'[o] = result[o]
      BY <2>3 DEF PublishKey, Return
    <3> QED BY <2>3, <3>1, <3>2 DEF PublishKey
  <2> QED BY <1>6, <2>1, <2>2, <2>3
<1>7. ASSUME NEW o \in Signing, FinishSign(o) PROVE PublishedInv'
  BY <1>7 DEF FinishSign, Return
<1>8. ASSUME NEW o \in Refreshing,
             \/ StartRefreshing(o) \/ ReadShare(o) \/ WriteShare(o)
             \/ BumpEpoch(o)
      PROVE PublishedInv'
  <2>1. CASE StartRefreshing(o)
    BY <2>1 DEF StartRefreshing
  <2>2. CASE ReadShare(o)
    BY <2>2 DEF ReadShare
  <2>3. CASE WriteShare(o)
    BY <2>3 DEF WriteShare
  <2>4. CASE BumpEpoch(o)
    BY SMTT(60), <2>4 DEF BumpEpoch, Return
  <2> QED BY <1>8, <2>1, <2>2, <2>3, <2>4
<1>9. ASSUME NEW o \in Op, DropCall(o) PROVE PublishedInv'
  BY <1>9 DEF DropCall, Return
<1>10. CASE UNCHANGED vars
  BY <1>10 DEF vars
<1> QED
  BY <1>1, <1>2, <1>3, <1>4, <1>5, <1>6, <1>7, <1>8, <1>9, <1>10
  DEF Next, KeygenStep, SignStep, RefreshStep, Finished

-----------------------------------------------------------------------------
(* Shares.                                                                 *)

\* Steps other than the writes of keygen and refresh leave the shares, what
\* refreshes hold and what the loops over nodes have covered as they are.
SharesKept ==
    /\ UNCHANGED <<target, share, epoch, held, raced>>
    /\ \A o \in Op : (pc[o] \in Writing \/ pc'[o] \in Writing) =>
           pc'[o] = pc[o] /\ at'[o] = at[o]
    /\ \A r \in Refreshing : (result'[r] = "ok") <=> (result[r] = "ok")

\* A step of one call outside its writes keeps the shares.
LEMMA OneCallKeeps ==
    ASSUME ControlInv, NEW o \in Op,
           UNCHANGED <<target, share, epoch, held, raced>>,
           pc[o] \in {"idle", "round", "asked", "late"},
           pc'[o] \notin Writing,
           o \in Refreshing => result'[o] # "ok" \/ result'[o] = result[o],
           \A p \in Op : p # o =>
               pc'[p] = pc[p] /\ at'[p] = at[p] /\ result'[p] = result[p]
    PROVE  SharesKept
<1>1. result[o] # "ok"
  BY DEF ControlInv
<1> QED BY <1>1 DEF SharesKept, Writing, Op

\* The steps of the round and the opening checks keep the shares.
LEMMA KeepingSteps ==
    ASSUME TypeOK, ControlInv,
           \/ \E n \in Node : SetOnline(n) \/ SetDelay(n)
           \/ \E k \in Key : BeginKeygen(k)
           \/ \E o \in Signing : BeginSign(o) \/ FinishSign(o)
           \/ \E o \in Refreshing : BeginRefresh(o)
           \/ \E o \in Op : RoundStep(o) \/ DropCall(o)
           \/ UNCHANGED vars
    PROVE  SharesKept
<1>a. DOMAIN pc = Op /\ DOMAIN at = Op /\ DOMAIN result = Op
  BY DEF TypeOK
<1>b. /\ \A k \in Key : k \in Op /\ k \notin Refreshing /\ k \notin Signing
      /\ \A o \in Signing : o \in Op /\ o \notin Refreshing
      /\ \A o \in Refreshing : o \in Op
  BY DistinctCalls DEF Op
<1> USE DEF Writing
<1>1. ASSUME NEW n \in Node, SetOnline(n) \/ SetDelay(n) PROVE SharesKept
  BY <1>1 DEF SetOnline, SetDelay, SharesKept
<1>2. ASSUME NEW k \in Key, BeginKeygen(k) PROVE SharesKept
  <2>1. CASE EnterRound(k)
    BY <1>a, <1>b, <1>2, <2>1, OneCallKeeps DEF BeginKeygen,
       EnterRound, histVars
  <2>2. CASE Return(k, "QuorumNotMet")
    BY <1>a, <1>b, <1>2, <2>2, OneCallKeeps DEF BeginKeygen, Return, histVars
  <2> QED BY <1>2, <2>1, <2>2 DEF BeginKeygen
<1>3. ASSUME NEW o \in Signing, BeginSign(o) PROVE SharesKept
  <2>1. /\ UNCHANGED <<target, share, epoch, held, raced, at>>
        /\ pc[o] = "idle"
    BY <1>3 DEF BeginSign
  <2>2. CASE EnterRound(o)
    BY <1>a, <1>b, <2>1, <2>2, OneCallKeeps DEF EnterRound
  <2>3. CASE Return(o, "UnknownKey")
    BY <1>a, <1>b, <2>1, <2>3, OneCallKeeps DEF Return
  <2> QED BY <1>3, <2>2, <2>3 DEF BeginSign
<1>4. ASSUME NEW o \in Refreshing, BeginRefresh(o) PROVE SharesKept
  <2>1. /\ UNCHANGED <<target, share, epoch, held, raced, at>>
        /\ pc[o] = "idle"
    BY <1>4 DEF BeginRefresh, histVars
  <2>2. CASE EnterRound(o)
    BY <1>a, <1>b, <2>1, <2>2, OneCallKeeps DEF EnterRound
  <2>3. CASE Return(o, "QuorumNotMet")
    BY <1>a, <1>b, <2>1, <2>3, OneCallKeeps DEF Return
  <2>4. CASE Return(o, "UnknownKey")
    BY <1>a, <1>b, <2>1, <2>4, OneCallKeeps DEF Return
  <2> QED BY <1>4, <2>2, <2>3, <2>4 DEF BeginRefresh
<1>5. ASSUME NEW o \in Op, RoundStep(o) PROVE SharesKept
  <2>1. CASE AskNode(o)
    BY <1>a, <2>1, OneCallKeeps DEF AskNode, NextNode, histVars
  <2>2. CASE TimeoutNode(o)
    BY <1>a, <2>2, OneCallKeeps DEF TimeoutNode, NextNode, histVars
  <2>3. CASE AnswerNode(o)
    BY <1>a, <2>3, OneCallKeeps DEF AnswerNode, NextNode, histVars
  <2> QED BY <1>5, <2>1, <2>2, <2>3 DEF RoundStep
<1>6. ASSUME NEW o \in Signing, FinishSign(o) PROVE SharesKept
  BY <1>a, <1>b, <1>6, OneCallKeeps DEF FinishSign, Return, histVars
<1>7. ASSUME NEW o \in Op, DropCall(o) PROVE SharesKept
  BY <1>a, <1>7, OneCallKeeps DEF DropCall, Return, histVars
<1>8. CASE UNCHANGED vars
  BY <1>8 DEF vars, SharesKept
<1> QED BY <1>1, <1>2, <1>3, <1>4, <1>5, <1>6, <1>7, <1>8

\* What Next offers: a keeping step, or one of the steps of the ceremonies
\* that follow their round.
LEMMA StepCases ==
    ASSUME TypeOK, ControlInv, [Next]_vars
    PROVE  \/ SharesKept
           \/ \E k \in Key : StartDealing(k) \/ DealShare(k) \/ PublishKey(k)
           \/ \E o \in Refreshing : \/ StartRefreshing(o) \/ ReadShare(o)
                                    \/ WriteShare(o) \/ BumpEpoch(o)
  BY KeepingSteps
  DEF Next, KeygenStep, SignStep, RefreshStep, Finished, Op

\* keygen deals to every node before it publishes, and refresh adds to what
\* it has read.
LEMMA DealtStep ==
    /\ TypeOK /\ ControlInv /\ PublishedInv /\ DealtInv
    /\ PublishedKeyHasShares /\ [Next]_vars
    => DealtInv' /\ PublishedKeyHasShares'
<1> SUFFICES ASSUME TypeOK, ControlInv, PublishedInv, DealtInv,
                    PublishedKeyHasShares, [Next]_vars
             PROVE  DealtInv' /\ PublishedKeyHasShares'
  OBVIOUS
<1> USE ClusterParams, DistinctCalls
    DEF TypeOK, DealtInv, PublishedKeyHasShares, Op, Node, Dealing
<1>a. /\ target \in [Op -> Key]
      /\ share \in [Node -> [Key -> SUBSET Dealing]]
      /\ epoch \in [Key -> Nat]
      /\ held \in [Refreshing -> SUBSET Dealing]
      /\ at \in [Op -> Nat]
      /\ DOMAIN pc = Op
  BY SMTT(60)
<1> HIDE DEF TypeOK, Node, Dealing
<1>1. CASE SharesKept
  BY <1>a, <1>1 DEF SharesKept, Writing
<1>2. ASSUME NEW k \in Key, StartDealing(k)
      PROVE  DealtInv' /\ PublishedKeyHasShares'
  <2>1. /\ UNCHANGED <<target, share, epoch, held>>
        /\ \A j \in Op : j # k => pc'[j] = pc[j] /\ at'[j] = at[j]
        /\ pc'[k] = "apply" /\ at'[k] = 1
    BY <1>a, <1>2 DEF StartDealing
  <2>2. \A n \in Node : ~(n < 1)
    BY SMTT(60) DEF Node
  <2> QED BY <1>a, <2>1, <2>2
<1>3. ASSUME NEW k \in Key, DealShare(k)
      PROVE  DealtInv' /\ PublishedKeyHasShares'
  <2>1. /\ UNCHANGED <<target, epoch, pc, held>>
        /\ at' = [at EXCEPT ![k] = @ + 1]
        /\ share' = [share EXCEPT ![at[k]][k] = {k}]
        /\ at[k] \in Node
    BY <1>a, <1>3 DEF DealShare, NextNode
  <2>2. \A n \in Node, j \in Key :
            share'[n][j] = IF n = at[k] /\ j = k THEN {k} ELSE share[n][j]
    BY <1>a, <2>1
  <2>3. ASSUME NEW j \in Key, pc'[j] = "apply", NEW n \in Node, n < at'[j]
        PROVE  share'[n][j] = {j}
    <3>1. j # k => n < at[j] /\ share'[n][j] = share[n][j]
      BY SMTT(60), <1>a, <2>1, <2>2, <2>3
    <3>2. j = k => n < at[k] \/ n = at[k]
      BY SMTT(60), <1>a, <2>1, <2>3 DEF Node
    <3> QED BY <1>a, <2>1, <2>2, <2>3, <3>1, <3>2
  <2>4. \A r \in Refreshing : pc'[r] = "put" => target'[r] \in held'[r]
    BY <1>a, <2>1
  <2>5. PublishedKeyHasShares'
    BY SMTT(60), <1>a, <2>1, <2>2
  <2> QED BY <1>a, <2>3, <2>4, <2>5
<1>4. ASSUME NEW k \in Key, PublishKey(k)
      PROVE  DealtInv' /\ PublishedKeyHasShares'
  <2>1. /\ UNCHANGED <<target, share, at, held>>
        /\ pc[k] = "apply" /\ at[k] = N + 1
        /\ pc' = [pc EXCEPT ![k] = "done"]
    BY <1>a, <1>4 DEF PublishKey, Return
  <2>2. epoch' = [epoch EXCEPT ![k] = 1] \/ epoch' = epoch
    BY <1>a, <1>4 DEF PublishKey
  <2>3. \A n \in Node : k \in share[n][k]
    <3>1. \A n \in Node : n < at[k]
      BY SMTT(60), <2>1 DEF Node
    <3> QED BY SMTT(60), <1>a, <2>1, <3>1
  <2>4. DealtInv'
    BY <1>a, <2>1
  <2>5. \A j \in Key : j # k => epoch'[j] = epoch[j]
    BY <1>a, <2>2
  <2>6. PublishedKeyHasShares'
    BY SMTT(60), <1>a, <2>1, <2>3, <2>5
  <2> QED BY <1>a, <2>4, <2>6
<1>5. ASSUME NEW o \in Refreshing, StartRefreshing(o)
      PROVE  DealtInv' /\ PublishedKeyHasShares'
  <2>1. /\ UNCHANGED <<target, share, epoch, held>>
        /\ \A j \in Op : j # o => pc'[j] = pc[j] /\ at'[j] = at[j]
        /\ pc'[o] = "apply"
    BY <1>a, <1>5 DEF StartRefreshing
  <2> QED BY <1>a, <2>1
<1>6. ASSUME NEW o \in Refreshing, ReadShare(o)
      PROVE  DealtInv' /\ PublishedKeyHasShares'
  <2>1. epoch[target[o]] > 0
    BY <1>a, <1>6 DEF ReadShare, PublishedInv, Running, Writing
  <2> QED BY <1>a, <1>6, <2>1 DEF ReadShare
<1>7. ASSUME NEW o \in Refreshing, WriteShare(o)
      PROVE  DealtInv' /\ PublishedKeyHasShares'
  <2>1. epoch[target[o]] > 0 /\ pc[target[o]] = "done"
    BY <1>a, <1>7 DEF WriteShare, PublishedInv, ControlInv, Running, Writing
  <2>2. /\ UNCHANGED <<target, epoch, held>>
        /\ at' = [at EXCEPT ![o] = @ + 1]
        /\ pc' = [pc EXCEPT ![o] = "apply"]
        /\ share' = [share EXCEPT ![at[o]][target[o]] = held[o] \cup {o}]
        /\ at[o] \in Node /\ target[o] \in held[o]
    BY <1>a, <1>7 DEF WriteShare, NextNode, ControlInv
  <2>3. \A n \in Node, j \in Key :
            share'[n][j] = IF n = at[o] /\ j = target[o]
                           THEN held[o] \cup {o} ELSE share[n][j]
    BY <1>a, <2>2
  <2>4. DealtInv'
    <3>1. ASSUME NEW j \in Key, pc'[j] = "apply", NEW n \in Node, n < at'[j]
          PROVE  share'[n][j] = {j}
      <4>1. j # o /\ pc[j] = "apply" /\ at'[j] = at[j] /\ j # target[o]
        BY <1>a, <2>1, <2>2, <3>1
      <4> QED BY <1>a, <2>3, <3>1, <4>1
    <3>2. \A r \in Refreshing : pc'[r] = "put" => target'[r] \in held'[r]
      BY <1>a, <2>2
    <3> QED BY <1>a, <3>1, <3>2
  <2>5. PublishedKeyHasShares'
    BY SMTT(60), <1>a, <2>2, <2>3
  <2> QED BY <1>a, <2>4, <2>5
<1>8. ASSUME NEW o \in Refreshing, BumpEpoch(o)
      PROVE  DealtInv' /\ PublishedKeyHasShares'
  <2>1. epoch[target[o]] > 0
    BY <1>a, <1>8 DEF BumpEpoch, PublishedInv, Running, Writing
  <2> QED BY <1>a, <1>8, <2>1 DEF BumpEpoch, Return
<1> QED BY StepCases, <1>1, <1>2, <1>3, <1>4, <1>5, <1>6, <1>7, <1>8

-----------------------------------------------------------------------------
(* Refreshes that do not overlap.                                          *)

\* What Serial says of a key outlives a step that leaves its writers, its
\* completed refreshes and its shares alone.
LEMMA SerialFrame ==
    ASSUME NEW k \in Key, Serial(k),
           epoch'[k] > 0 => epoch[k] > 0,
           k \in raced => k \in raced',
           WritersOf(k)' = WritersOf(k),
           Completed(k)' = Completed(k),
           \A n \in Node : share'[n][k] = share[n][k],
           \A r \in WritersOf(k) :
               pc'[r] = pc[r] /\ at'[r] = at[r] /\ held'[r] = held[r],
           \A r \in WritersOf(k) : pc[r] = "put" => at[r] \in Node
    PROVE  Serial(k)'
  BY SMTT(60) DEF Serial

\* Which refreshes of a key are writing or completed depends on the control
\* state of the refreshes alone.
LEMMA SameRefreshes ==
    ASSUME NEW k \in Key, UNCHANGED target,
           \A r \in Refreshing : target[r] = k =>
               /\ (pc'[r] \in Writing) <=> (pc[r] \in Writing)
               /\ (result'[r] = "ok") <=> (result[r] = "ok")
    PROVE  /\ WritersOf(k)' = WritersOf(k)
           /\ Completed(k)' = Completed(k)
  BY DEF WritersOf, Completed, OfKey

\* No step breaks the agreement of the shares of a key on which no two
\* refreshes raced.
LEMMA SerialStep ==
    /\ TypeOK /\ ControlInv /\ PublishedInv /\ DealtInv
    /\ SerialInv /\ [Next]_vars
    => SerialInv'
<1> SUFFICES ASSUME TypeOK, ControlInv, PublishedInv, DealtInv, SerialInv,
                    [Next]_vars, NEW k \in Key
             PROVE  Serial(k)'
  BY DEF SerialInv
<1>a. /\ target \in [Op -> Key]
      /\ share \in [Node -> [Key -> SUBSET Dealing]]
      /\ epoch \in [Key -> Nat]
      /\ held \in [Refreshing -> SUBSET Dealing]
      /\ at \in [Op -> Nat]
      /\ DOMAIN pc = Op /\ DOMAIN result = Op
  BY SMTT(60), ClusterParams DEF TypeOK
<1>b. /\ \A j \in Key : j \in Op /\ j \notin Refreshing
      /\ \A r \in Refreshing : r \in Op
  BY DistinctCalls DEF Op
<1>c. \A r \in WritersOf(k) : r \in Refreshing /\ target[r] = k
  BY DEF WritersOf, OfKey
<1>d. \A r \in Refreshing : pc[r] = "put" => at[r] \in Node
  BY <1>b DEF ControlInv
<1>e. Serial(k)
  BY DEF SerialInv
<1>1. CASE SharesKept
  <2>1. WritersOf(k)' = WritersOf(k) /\ Completed(k)' = Completed(k)
    BY <1>1, <1>b, SameRefreshes DEF SharesKept
  <2>2. \A r \in WritersOf(k) :
            pc'[r] = pc[r] /\ at'[r] = at[r] /\ held'[r] = held[r]
    BY <1>1, <1>b DEF SharesKept, WritersOf, OfKey
  <2> QED
    BY <1>1, <1>c, <1>d, <1>e, <2>1, <2>2, SerialFrame DEF SharesKept
<1>2. ASSUME NEW j \in Key, StartDealing(j) \/ DealShare(j)
      PROVE  Serial(k)'
  <2>1. /\ UNCHANGED <<target, epoch, held, result, raced>>
        /\ \A r \in Refreshing : pc'[r] = pc[r] /\ at'[r] = at[r]
    BY <1>2, <1>a, <1>b DEF StartDealing, DealShare, NextNode, histVars
  <2>2. WritersOf(k)' = WritersOf(k) /\ Completed(k)' = Completed(k)
    BY <2>1, SameRefreshes
  <2>3. CASE epoch[k] > 0
    <3>1. \A n \in Node : share'[n][k] = share[n][k]
      <4>1. CASE StartDealing(j)
        BY <4>1 DEF StartDealing
      <4>2. CASE DealShare(j)
        <5>1. j # k
          BY <4>2, <2>3 DEF DealShare, ControlInv
        <5> QED BY <4>2, <5>1, <1>a DEF DealShare
      <4> QED BY <1>2, <4>1, <4>2
    <3> QED BY <1>c, <1>d, <1>e, <2>1, <2>2, <3>1, SerialFrame
  <2>4. CASE ~(epoch[k] > 0)
    BY <2>1, <2>4 DEF Serial
  <2> QED BY <2>3, <2>4
<1>3. ASSUME NEW j \in Key, PublishKey(j) PROVE Serial(k)'
  <2>1. /\ UNCHANGED <<target, share, held, at, raced>>
        /\ \A r \in Refreshing : pc'[r] = pc[r] /\ result'[r] = result[r]
        /\ pc[j] = "apply" /\ at[j] = N + 1
    BY <1>3, <1>a, <1>b DEF PublishKey, Return, histVars
  <2>2. WritersOf(k)' = WritersOf(k) /\ Completed(k)' = Completed(k)
    BY <2>1, SameRefreshes
  <2>3. epoch' = [epoch EXCEPT ![j] = 1] \/ epoch' = epoch
    BY <1>3 DEF PublishKey
  <2>4. CASE j = k
    <3>1. ~(epoch[k] > 0)
      BY <2>1, <2>4 DEF ControlInv
    <3>2. WritersOf(k) = {} /\ Completed(k) = {}
      BY <3>1, <1>b DEF WritersOf, Completed, OfKey, PublishedInv, Running
    <3>3. \A n \in Node : n < at[k]
      BY SMTT(60), <2>1, <2>4, ClusterParams DEF Node
    <3>4. \A n \in Node : share[n][k] = {k}
      BY <2>1, <2>4, <3>3 DEF DealtInv
    <3> QED BY SMTT(60), <2>1, <2>2, <3>2, <3>4 DEF Serial
  <2>5. CASE j # k
    <3>1. epoch'[k] = epoch[k]
      BY <2>3, <2>5, <1>a
    <3> QED BY <1>c, <1>d, <1>e, <2>1, <2>2, <3>1, SerialFrame
  <2> QED BY <2>4, <2>5
<1>4. ASSUME NEW o \in Refreshing, StartRefreshing(o) PROVE Serial(k)'
  <2>1. /\ UNCHANGED <<target, share, epoch, held, result>>
        /\ \A r \in Refreshing : r # o => pc'[r] = pc[r] /\ at'[r] = at[r]
        /\ pc[o] = "round" /\ pc'[o] = "apply" /\ at'[o] = 1
        /\ raced' = IF WritersOf(target[o]) = {} THEN raced
                                                 ELSE raced \cup {target[o]}
    BY <1>4, <1>a, <1>b DEF StartRefreshing
  <2>2. o \notin WritersOf(k)
    BY <2>1 DEF WritersOf, Writing
  <2>3. Completed(k)' = Completed(k)
    BY <2>1 DEF Completed, OfKey
  <2>4. CASE target[o] = k
    <3>1. WritersOf(k)' = WritersOf(k) \cup {o}
      BY <2>1, <2>4 DEF WritersOf, OfKey, Writing
    <3>2. SUFFICES ASSUME epoch[k] > 0, k \notin raced'
                   PROVE  Serial(k)'
      BY <2>1 DEF Serial
    <3>3. WritersOf(k) = {} /\ k \notin raced
      BY <2>1, <2>4, <3>2
    <3>4. \A n \in Node : ~(n < at'[o])
      BY SMTT(60), <2>1, ClusterParams DEF Node
    <3>5. \A n \in Node : share[n][k] = {k} \cup Completed(k)
      BY <1>e, <3>2, <3>3 DEF Serial
    <3> QED BY <2>1, <2>3, <3>1, <3>3, <3>4, <3>5 DEF Serial
  <2>5. CASE target[o] # k
    <3>1. WritersOf(k)' = WritersOf(k)
      BY <2>1, <2>5 DEF WritersOf, OfKey
    <3> QED BY <1>c, <1>d, <1>e, <2>1, <2>2, <2>3, <3>1, SerialFrame
  <2> QED BY <2>4, <2>5
<1>5. ASSUME NEW o \in Refreshing, ReadShare(o) PROVE Serial(k)'
  <2>1. /\ UNCHANGED <<target, share, epoch, at, result, raced>>
        /\ \A r \in Refreshing : r # o => pc'[r] = pc[r] /\ held'[r] = held[r]
        /\ pc[o] = "apply" /\ pc'[o] = "put"
        /\ held'[o] = share[at[o]][target[o]]
    BY <1>5, <1>a, <1>b DEF ReadShare, histVars
  <2>2. WritersOf(k)' = WritersOf(k) /\ Completed(k)' = Completed(k)
    BY <2>1, SameRefreshes DEF Writing
  <2> QED BY SMTT(60), <1>c, <1>e, <2>1, <2>2 DEF Serial
<1>6. ASSUME NEW o \in Refreshing, WriteShare(o) PROVE Serial(k)'
  <2>1. /\ UNCHANGED <<target, epoch, held, result, raced>>
        /\ \A r \in Refreshing : r # o => pc'[r] = pc[r] /\ at'[r] = at[r]
        /\ pc[o] = "put" /\ pc'[o] = "apply" /\ at'[o] = at[o] + 1
        /\ share' = [share EXCEPT ![at[o]][target[o]] = held[o] \cup {o}]
        /\ at[o] \in Node
    BY <1>6, <1>a, <1>b, <1>d DEF WriteShare, NextNode, histVars
  <2>2. \A n \in Node :
            share'[n][k] = IF n = at[o] /\ k = target[o]
                           THEN held[o] \cup {o} ELSE share[n][k]
    BY <2>1, <1>a
  <2>3. WritersOf(k)' = WritersOf(k) /\ Completed(k)' = Completed(k)
    BY <2>1, SameRefreshes DEF Writing
  <2>4. CASE target[o] = k
    <3>1. SUFFICES ASSUME epoch[k] > 0, k \notin raced
                   PROVE  Serial(k)'
      BY <2>1 DEF Serial
    <3>2. o \in WritersOf(k)
      BY <2>1, <2>4 DEF WritersOf, OfKey, Writing
    <3>3. WritersOf(k) = {o}
      BY <1>e, <3>1, <3>2 DEF Serial
    <3>4. held[o] = share[at[o]][k]
      BY <1>e, <2>1, <3>1, <3>2 DEF Serial
    <3>5. \A n \in Node : n < at[o] + 1 <=> n < at[o] \/ n = at[o]
      BY SMTT(60), <1>a, <1>b DEF Node
    <3>6. ASSUME NEW n \in Node
          PROVE  share'[n][k] = {k} \cup Completed(k)
                                    \cup {r \in {o} : n < at[o] + 1}
      <4>1. share[n][k] = {k} \cup Completed(k) \cup {r \in {o} : n < at[o]}
        BY <1>e, <3>1, <3>3 DEF Serial
      <4>2. CASE n = at[o]
        BY <2>2, <2>4, <3>4, <3>5, <4>1, <4>2
      <4>3. CASE n # at[o]
        BY <2>2, <3>5, <4>1, <4>3
      <4> QED BY <4>2, <4>3
    <3> QED BY SMTT(60), <2>1, <2>3, <3>3, <3>6 DEF Serial
  <2>5. CASE target[o] # k
    <3>1. o \notin WritersOf(k)
      BY <2>5, <1>c
    <3> QED BY <1>c, <1>d, <1>e, <2>1, <2>2, <2>3, <2>5, <3>1, SerialFrame
  <2> QED BY <2>4, <2>5
<1>7. ASSUME NEW o \in Refreshing, BumpEpoch(o) PROVE Serial(k)'
  <2>1. /\ UNCHANGED <<target, share, held, at, raced>>
        /\ \A r \in Refreshing : r # o => pc'[r] = pc[r] /\ result'[r] = result[r]
        /\ pc[o] = "apply" /\ pc'[o] = "done" /\ result'[o] = "ok"
        /\ at[o] = N + 1
        /\ epoch' = [epoch EXCEPT ![target[o]] = @ + 1]
    BY <1>7, <1>a, <1>b DEF BumpEpoch, Return, histVars
  <2>2. CASE target[o] = k
    <3>1. epoch[k] > 0
      BY <2>1, <2>2 DEF PublishedInv, Running, Writing
    <3>2. SUFFICES ASSUME k \notin raced PROVE Serial(k)'
      BY <2>1 DEF Serial
    <3>3. o \in WritersOf(k)
      BY <2>1, <2>2 DEF WritersOf, OfKey, Writing
    <3>4. WritersOf(k) = {o}
      BY <1>e, <3>1, <3>2, <3>3 DEF Serial
    <3>5. WritersOf(k)' = {}
      BY <2>1, <3>4 DEF WritersOf, OfKey, Writing
    <3>6. Completed(k)' = Completed(k) \cup {o}
      BY <2>1, <2>2 DEF Completed, OfKey
    <3>7. \A n \in Node : n < at[o]
      BY SMTT(60), <2>1, ClusterParams DEF Node
    <3>8. \A n \in Node : share[n][k] = {k} \cup Completed(k) \cup {o}
      BY <1>e, <3>1, <3>2, <3>4, <3>7 DEF Serial
    <3> QED BY <2>1, <3>5, <3>6, <3>8 DEF Serial
  <2>3. CASE target[o] # k
    <3>1. epoch'[k] = epoch[k]
      BY <2>1, <2>3, <1>a
    <3>2. WritersOf(k)' = WritersOf(k) /\ Completed(k)' = Completed(k)
      BY <2>1, <2>3, SameRefreshes
    <3>3. o \notin WritersOf(k)
      BY <2>3, <1>c
    <3> QED BY <1>c, <1>d, <1>e, <2>1, <3>1, <3>2, <3>3, SerialFrame
  <2> QED BY <2>2, <2>3
<1> QED BY StepCases, <1>1, <1>2, <1>3, <1>4, <1>5, <1>6, <1>7

-----------------------------------------------------------------------------
(* Signs that no refresh disturbs.                                         *)

\* A step that is not of the sign call o.
SignKept(o) ==
    /\ pc'[o] = pc[o] /\ got'[o] = got[o] /\ result'[o] = result[o]
    /\ at'[o] = at[o] /\ target' = target
    /\ torn \subseteq torn' /\ raced \subseteq raced'
    /\ steady'[o] \subseteq steady[o]
    /\ steady[o] \subseteq Responsive => steady'[o] \subseteq Responsive'

\* Every step is one of the sign call o or leaves that call where it is.
LEMMA SignCases ==
    ASSUME TypeOK, [Next]_vars, NEW o \in Signing
    PROVE  \/ BeginSign(o) \/ RoundStep(o) \/ FinishSign(o) \/ DropCall(o)
           \/ SignKept(o)
<1>a. /\ DOMAIN pc = Op /\ DOMAIN got = Op /\ DOMAIN result = Op
      /\ DOMAIN at = Op /\ DOMAIN steady = Signing
  BY DEF TypeOK
<1>b. /\ o \in Op
      /\ \A k \in Key : k \in Op /\ k # o
      /\ \A r \in Refreshing : r \in Op /\ r # o
      /\ \A p \in Signing : p \in Op
  BY DistinctCalls DEF Op
<1> USE DEF Responsive, nodeVars
<1>1. ASSUME NEW n \in Node, SetOnline(n) \/ SetDelay(n) PROVE SignKept(o)
  <2>1. CASE SetOnline(n)
    BY <2>1 DEF SetOnline, Toggle, SignKept, Responsive
  <2>2. CASE SetDelay(n)
    BY <2>2 DEF SetDelay, Toggle, SignKept, Responsive
  <2> QED BY <1>1, <2>1, <2>2
<1>2. ASSUME NEW k \in Key, BeginKeygen(k) PROVE SignKept(o)
  <2>1. UNCHANGED <<target, nodeVars, at, got, torn, raced, steady>>
    BY <1>2 DEF BeginKeygen, histVars
  <2>2. CASE EnterRound(k)
    BY <1>a, <1>b, <2>1, <2>2 DEF SignKept, EnterRound
  <2>3. CASE Return(k, "QuorumNotMet")
    BY <1>a, <1>b, <2>1, <2>3 DEF SignKept, Return
  <2> QED BY <1>2, <2>2, <2>3 DEF BeginKeygen
<1>3. ASSUME NEW p \in Signing, p # o, BeginSign(p) PROVE SignKept(o)
  <2>1. /\ UNCHANGED <<target, nodeVars, at, got, raced>>
        /\ torn \subseteq torn' /\ steady'[o] = steady[o]
    BY <1>3, <1>a DEF BeginSign
  <2>2. CASE EnterRound(p)
    BY <1>3, <1>a, <1>b, <2>1, <2>2 DEF SignKept, EnterRound
  <2>3. CASE Return(p, "UnknownKey")
    BY <1>3, <1>a, <1>b, <2>1, <2>3 DEF SignKept, Return
  <2> QED BY <1>3, <2>2, <2>3 DEF BeginSign
<1>4. ASSUME NEW r \in Refreshing, BeginRefresh(r) PROVE SignKept(o)
  <2>1. UNCHANGED <<target, nodeVars, at, got, torn, raced, steady>>
    BY <1>4 DEF BeginRefresh, histVars
  <2>2. CASE EnterRound(r)
    BY <1>a, <1>b, <2>1, <2>2 DEF SignKept, EnterRound
  <2>3. CASE Return(r, "QuorumNotMet")
    BY <1>a, <1>b, <2>1, <2>3 DEF SignKept, Return
  <2>4. CASE Return(r, "UnknownKey")
    BY <1>a, <1>b, <2>1, <2>4 DEF SignKept, Return
  <2> QED BY <1>4, <2>2, <2>3, <2>4 DEF BeginRefresh
<1>5. ASSUME NEW p \in Op, p # o, RoundStep(p) PROVE SignKept(o)
  <2>1. CASE AskNode(p)
    BY <1>5, <1>a, <1>b, <2>1 DEF AskNode, NextNode, SignKept, histVars
  <2>2. CASE TimeoutNode(p)
    BY <1>5, <1>a, <1>b, <2>2 DEF TimeoutNode, NextNode, SignKept, histVars
  <2>3. CASE AnswerNode(p)
    BY <1>5, <1>a, <1>b, <2>3 DEF AnswerNode, NextNode, SignKept, histVars
  <2> QED BY <1>5, <2>1, <2>2, <2>3 DEF RoundStep
<1>6. ASSUME NEW k \in Key, StartDealing(k) \/ DealShare(k) \/ PublishKey(k)
      PROVE  SignKept(o)
  <2>1. CASE StartDealing(k)
    BY <1>a, <1>b, <2>1 DEF StartDealing, SignKept, histVars
  <2>2. CASE DealShare(k)
    BY <1>a, <1>b, <2>2 DEF DealShare, NextNode, SignKept, histVars
  <2>3. CASE PublishKey(k)
    BY <1>a, <1>b, <2>3 DEF PublishKey, Return, SignKept, histVars
  <2> QED BY <1>6, <2>1, <2>2, <2>3
<1>7. ASSUME NEW p \in Signing, p # o, FinishSign(p) PROVE SignKept(o)
  BY <1>7, <1>a, <1>b DEF FinishSign, Return, SignKept, histVars
<1>8. ASSUME NEW r \in Refreshing,
             \/ StartRefreshing(r) \/ ReadShare(r) \/ WriteShare(r)
             \/ BumpEpoch(r)
      PROVE  SignKept(o)
  <2>1. CASE StartRefreshing(r)
    BY <1>a, <1>b, <2>1 DEF StartRefreshing, SignKept
  <2>2. CASE ReadShare(r)
    BY <1>a, <1>b, <2>2 DEF ReadShare, SignKept, histVars
  <2>3. CASE WriteShare(r)
    BY <1>a, <1>b, <2>3 DEF WriteShare, NextNode, SignKept, histVars
  <2>4. CASE BumpEpoch(r)
    BY <1>a, <1>b, <2>4 DEF BumpEpoch, Return, SignKept, histVars
  <2> QED BY <1>8, <2>1, <2>2, <2>3, <2>4
<1>9. ASSUME NEW p \in Op, p # o, DropCall(p) PROVE SignKept(o)
  BY <1>9, <1>a, <1>b DEF DropCall, Return, SignKept, histVars
<1>10. CASE UNCHANGED vars
  BY <1>10 DEF vars, SignKept
<1> HIDE DEF Responsive, nodeVars
<1> QED
  BY <1>b, <1>1, <1>2, <1>3, <1>4, <1>5, <1>6, <1>7, <1>8, <1>9, <1>10
  DEF Next, KeygenStep, SignStep, RefreshStep, Finished

\* What Clean says of a sign outlives a step that adds nothing to what the
\* sign collected and leaves the refreshes of its key alone.
LEMMA CleanFrame ==
    ASSUME NEW o \in Signing, NEW k \in Key, target[o] = k, Clean(o),
           target' = target, torn \subseteq torn', raced \subseteq raced',
           pc'[o] \in InRound =>
               /\ pc[o] \in InRound
               /\ WritersOf(k)' = WritersOf(k)
               /\ Completed(k)' = Completed(k),
           result'[o] = "ok" => result[o] = "ok",
           got'[o] = got[o]
    PROVE  Clean(o)'
<1>1. target'[o] = k
  OBVIOUS
<1> QED BY <1>1 DEF Clean

\* No step makes an undisturbed sign collect shares of different sharings, and
\* sign succeeds only with t of them.
LEMMA CleanStep ==
    /\ TypeOK /\ ControlInv /\ PublishedInv /\ SerialInv /\ CleanInv
    /\ [Next]_vars
    => CleanInv'
<1> SUFFICES ASSUME TypeOK, ControlInv, PublishedInv, SerialInv, CleanInv,
                    [Next]_vars, NEW o \in Signing
             PROVE  /\ Clean(o)'
                    /\ result'[o] = "ok" => T <= Len(got'[o])
  BY DEF CleanInv
<1> DEFINE Enough == result'[o] = "ok" => T <= Len(got'[o])
<1>a. /\ DOMAIN pc = Op /\ DOMAIN result = Op /\ DOMAIN got = Op
      /\ share \in [Node -> [Key -> SUBSET Dealing]]
      /\ got[o] \in Seq(Answer)
      /\ target \in [Op -> Key]
      /\ epoch \in [Key -> Nat]
  BY DEF TypeOK, Op
<1>k. PICK k \in Key : k = target[o]
  BY <1>a DEF Op
<1>b. /\ o \in Op
      /\ \A j \in Key : j \notin Refreshing
      /\ \A r \in Refreshing : r \in Op
  BY <1>a, DistinctCalls DEF Op
<1>c. Clean(o) /\ (result[o] = "ok" => T <= Len(got[o]))
  BY DEF CleanInv
<1>d. result[o] = "ok" => pc[o] = "done"
  BY <1>b DEF ControlInv
<1>1. ASSUME SharesKept
      PROVE  WritersOf(k)' = WritersOf(k) /\ Completed(k)' = Completed(k)
  BY <1>1, <1>b, SameRefreshes DEF SharesKept
<1>2. ASSUME SharesKept, SignKept(o) PROVE Clean(o)' /\ Enough
  BY <1>2, <1>1, <1>b, <1>c, <1>k, CleanFrame DEF SignKept
<1>3. ASSUME BeginSign(o) PROVE Clean(o)' /\ Enough
  <2>1. /\ UNCHANGED <<target, got, raced, share>> /\ torn \subseteq torn'
        /\ pc[o] = "idle" /\ got[o] = <<>> /\ result[o] # "ok"
        /\ SharesKept
    BY <1>3, <1>b, <1>d, KeepingSteps DEF BeginSign, ControlInv
  <2>2. CASE Return(o, "UnknownKey")
    BY <1>a, <1>b, <1>c, <1>k, <2>1, <2>2, CleanFrame DEF Return,
       InRound
  <2>3. CASE /\ EnterRound(o)
             /\ torn' = IF WritersOf(target[o]) = {} THEN torn
                                                     ELSE torn \cup {o}
    <3>1. result'[o] # "ok" /\ target'[o] = k /\ got'[o] = <<>>
      BY <2>1, <2>3, <1>k DEF EnterRound
    <3>2. o \notin torn' => WritersOf(k)' = {}
      BY <1>1, <1>k, <2>1, <2>3
    <3> QED BY SMTT(60), <3>1, <3>2 DEF Clean
  <2> QED BY <1>3, <2>2, <2>3 DEF BeginSign
<1>4. ASSUME RoundStep(o) PROVE Clean(o)' /\ Enough
  <2>1. /\ UNCHANGED <<target, torn, raced, share, result>>
        /\ pc[o] \in InRound /\ result[o] # "ok"
        /\ pc'[o] \in InRound
        /\ SharesKept
    <3>1. SharesKept
      BY <1>4, <1>b, KeepingSteps
    <3>2. CASE AskNode(o)
      <4>1. /\ UNCHANGED <<target, torn, raced, share, result>>
            /\ pc[o] = "round"
            /\ pc' = pc \/ pc' = [pc EXCEPT ![o] = "late"]
                         \/ pc' = [pc EXCEPT ![o] = "asked"]
        BY <3>2 DEF AskNode, histVars
      <4>2. pc'[o] \in {"round", "late", "asked"}
        BY <1>a, <1>b, <4>1
      <4> QED BY <1>a, <1>b, <1>d, <3>1, <4>1, <4>2 DEF InRound
    <3>3. CASE TimeoutNode(o)
      BY <1>a, <1>b, <1>d, <3>1, <3>3 DEF TimeoutNode, InRound, histVars
    <3>4. CASE AnswerNode(o)
      BY <1>a, <1>b, <1>d, <3>1, <3>4 DEF AnswerNode, InRound, histVars
    <3> QED BY <1>4, <3>2, <3>3, <3>4 DEF RoundStep
  <2>2. Enough
    BY <2>1
  <2>3. CASE AskNode(o) \/ TimeoutNode(o)
    <3>1. got' = got
      BY <2>3 DEF AskNode, TimeoutNode
    <3> QED BY <1>1, <1>b, <1>c, <1>k, <2>1, <2>2, <3>1, CleanFrame
  <2>4. CASE AnswerNode(o)
    <3>1. at[o] \in Node
      BY <2>4, <1>b DEF AnswerNode, ControlInv
    <3>2. got'[o] = got[o] \o Respond(o, at[o])
      BY <2>4, <1>a, <1>b DEF AnswerNode
    <3>3. SUFFICES ASSUME o \notin torn, k \notin raced
                   PROVE  /\ WritersOf(k)' = {}
                          /\ \A i \in DOMAIN got'[o] :
                                 got'[o][i].dealt = {k} \cup Completed(k)'
      <4>1. target'[o] = k
        BY <1>k, <2>1
      <4> QED BY <2>1, <2>2, <3>3, <4>1 DEF Clean
    <3>4. /\ WritersOf(k) = {}
          /\ \A i \in DOMAIN got[o] : got[o][i].dealt = {k} \cup Completed(k)
      BY <1>c, <1>k, <2>1, <3>3 DEF Clean
    <3>5. epoch[k] > 0
      BY <1>k, <2>1 DEF PublishedInv, Running
    <3>6. share[at[o]][k] = {k} \cup Completed(k)
      BY <1>b, <3>1, <3>3, <3>4, <3>5 DEF SerialInv, Serial
    <3>7. \/ Respond(o, at[o]) = <<>>
          \/ Respond(o, at[o])
                 = <<[node |-> at[o], dealt |-> {k} \cup Completed(k)]>>
      BY <1>k, <3>6 DEF Respond
    <3>8. \A i \in DOMAIN got'[o] :
              got'[o][i].dealt = {k} \cup Completed(k)
      <4>1. CASE Respond(o, at[o]) = <<>>
        BY SMTT(60), <1>a, <3>2, <3>4, <4>1
      <4>2. CASE Respond(o, at[o])
                     = <<[node |-> at[o], dealt |-> {k} \cup Completed(k)]>>
        <5> DEFINE a == [node |-> at[o], dealt |-> {k} \cup Completed(k)]
        <5>1. a.dealt = {k} \cup Completed(k)
          OBVIOUS
        <5>2. got'[o] = got[o] \o <<a>>
          BY <3>2, <4>2
        <5> HIDE DEF a
        <5>3. \A i \in DOMAIN got'[o] :
                  got'[o][i] = a \/ (i \in DOMAIN got[o] /\ got'[o][i] = got[o][i])
          BY SMTT(60), <1>a, <5>2
        <5> QED BY <3>4, <5>1, <5>3
      <4> QED BY <3>7, <4>1, <4>2
    <3> QED BY <1>1, <2>1, <3>4, <3>8
  <2> QED BY <1>4, <2>3, <2>4 DEF RoundStep
<1>5. ASSUME FinishSign(o) PROVE Clean(o)' /\ Enough
  <2>1. /\ UNCHANGED <<target, torn, raced, got>>
        /\ pc[o] = "round" /\ pc'[o] = "done"
        /\ result'[o] = IF Len(got[o]) < T THEN "QuorumNotMet" ELSE "ok"
    BY <1>5, <1>a, <1>b DEF FinishSign, Return, histVars
  <2>2. Enough
    <3>1. Len(got[o]) \in Nat /\ T \in Nat
      BY SMTT(60), <1>a, ClusterParams
    <3> QED BY SMTT(60), <2>1, <3>1
  <2>3. Clean(o)'
    BY <1>c, <2>1 DEF Clean, InRound
  <2> QED BY <2>2, <2>3
<1>6. ASSUME DropCall(o) PROVE Clean(o)' /\ Enough
  <2>1. /\ UNCHANGED <<target, torn, raced, got>>
        /\ pc'[o] = "done" /\ result'[o] = "dropped"
    BY <1>6, <1>a, <1>b DEF DropCall, Return, histVars
  <2> QED BY <1>b, <1>c, <1>k, <2>1, CleanFrame DEF InRound
<1>7. ASSUME SignKept(o), NEW j \in Key,
             StartDealing(j) \/ DealShare(j) \/ PublishKey(j)
      PROVE  Clean(o)' /\ Enough
  <2>1. \A r \in Refreshing : pc'[r] = pc[r] /\ result'[r] = result[r]
    BY <1>7, <1>a, <1>b DEF StartDealing, DealShare, PublishKey, Return
  <2>2. WritersOf(k)' = WritersOf(k) /\ Completed(k)' = Completed(k)
    BY <1>7, <1>b, <2>1, SameRefreshes DEF SignKept
  <2> QED BY <1>7, <1>b, <1>c, <1>k, <2>2, CleanFrame DEF SignKept
<1>8. ASSUME SignKept(o), NEW r \in Refreshing, StartRefreshing(r)
      PROVE  Clean(o)' /\ Enough
  <2>1. CASE target[r] = k /\ pc[o] \in InRound
    <3>1. o \in torn'
      BY <1>8, <1>k, <2>1 DEF StartRefreshing, OfKey
    <3> QED BY <1>8, <1>c, <3>1 DEF Clean, SignKept
  <2>2. CASE target[r] # k
    <3>1. \A q \in Refreshing : target[q] = k =>
              pc'[q] = pc[q] /\ result'[q] = result[q]
      BY <1>8, <1>a, <1>b, <2>2 DEF StartRefreshing
    <3>2. WritersOf(k)' = WritersOf(k) /\ Completed(k)' = Completed(k)
      BY <1>8, <1>b, <3>1, SameRefreshes DEF SignKept
    <3> QED BY <1>8, <1>b, <1>c, <1>k, <3>2, CleanFrame DEF SignKept
  <2>3. CASE pc[o] \notin InRound
    BY <1>8, <1>b, <1>c, <1>k, <2>3, CleanFrame DEF SignKept
  <2> QED BY <2>1, <2>2, <2>3
<1>9. ASSUME SignKept(o), NEW r \in Refreshing, ReadShare(r) \/ WriteShare(r)
      PROVE  Clean(o)' /\ Enough
  <2>1. \A q \in Refreshing :
            /\ pc'[q] \in Writing <=> pc[q] \in Writing
            /\ result'[q] = result[q]
    BY <1>9, <1>a, <1>b DEF ReadShare, WriteShare, Writing
  <2>2. WritersOf(k)' = WritersOf(k) /\ Completed(k)' = Completed(k)
    BY <1>9, <1>b, <2>1, SameRefreshes DEF SignKept
  <2> QED BY <1>9, <1>b, <1>c, <1>k, <2>2, CleanFrame DEF SignKept
<1>10. ASSUME SignKept(o), NEW r \in Refreshing, BumpEpoch(r)
       PROVE  Clean(o)' /\ Enough
  <2>1. /\ pc[r] \in Writing
        /\ \A q \in Refreshing : q # r => pc'[q] = pc[q] /\ result'[q] = result[q]
    BY <1>10, <1>a, <1>b DEF BumpEpoch, Return, Writing
  <2>2. CASE target[r] # k
    <3>0. \A q \in Refreshing : target[q] = k =>
              /\ (pc'[q] \in Writing) <=> (pc[q] \in Writing)
              /\ (result'[q] = "ok") <=> (result[q] = "ok")
      BY <2>1, <2>2
    <3>1. WritersOf(k)' = WritersOf(k) /\ Completed(k)' = Completed(k)
      BY <1>10, <1>b, <3>0, SameRefreshes DEF SignKept
    <3> QED BY <1>10, <1>b, <1>c, <1>k, <3>1, CleanFrame DEF SignKept
  <2>3. CASE target[r] = k
    <3>1. WritersOf(k) # {}
      BY <2>1, <2>3 DEF WritersOf, OfKey
    <3>2. pc[o] \in InRound => o \in torn \/ k \in raced
      BY <1>c, <1>k, <3>1 DEF Clean
    <3> QED BY <1>10, <1>c, <1>k, <3>2 DEF Clean, SignKept
  <2> QED BY <2>2, <2>3
<1>11. CASE SignKept(o)
  BY <1>11, StepCases, <1>2, <1>7, <1>8, <1>9, <1>10
<1> QED BY SignCases, <1>3, <1>4, <1>5, <1>6, <1>11

-----------------------------------------------------------------------------
(* The theorems.                                                           *)

\* The inductive invariant holds initially: nothing is published, no call has
\* begun.
LEMMA InitIInv == Init => IInv
<1> SUFFICES ASSUME Init PROVE IInv
  OBVIOUS
<1> USE DEF Init
<1>1. TypeOK
  BY InitType
<1>2. /\ \A o \in Op : pc[o] = "idle" /\ got[o] = <<>> /\ result[o] = "none"
      /\ \A k \in Key : epoch[k] = 0 /\ target[k] = k
  BY DEF Op
<1>3. \A k \in Key : ~(epoch[k] > 0)
  BY SMTT(60), <1>2
<1>4. ControlInv
  BY <1>2, <1>3 DEF ControlInv, Op
<1>5. PublishedInv
  BY <1>2 DEF PublishedInv, Running, InRound, Writing, Op
<1>6. DealtInv
  BY <1>2 DEF DealtInv, Op
<1>7. PublishedKeyHasShares /\ SerialInv
  BY <1>3 DEF PublishedKeyHasShares, SerialInv, Serial
<1>8. CleanInv
  BY <1>2 DEF CleanInv, Clean, InRound, Op
<1> QED BY <1>1, <1>4, <1>5, <1>6, <1>7, <1>8 DEF IInv

\* Every step preserves the inductive invariant.
LEMMA NextIInv == IInv /\ [Next]_vars => IInv'
  BY TypeStep, ControlStep, PublishedStep, DealtStep, SerialStep, CleanStep
  DEF IInv

\* The inductive invariant holds in every reachable state.
THEOREM Inductive == Spec => []IInv
  BY InitIInv, NextIInv, PTL DEF Spec

\* Every variable keeps its type: no loop over the nodes runs past n + 1, no
\* call leaves the control states of keygen, sign and refresh.
THEOREM TypeCorrect == Spec => []TypeOK
<1>1. IInv => TypeOK
  BY DEF IInv
<1> QED BY <1>1, Inductive, PTL

\* A key that sign and refresh can find has its DKG share on all n nodes.
THEOREM SharesPublished == Spec => []PublishedKeyHasShares
<1>1. IInv => PublishedKeyHasShares
  BY DEF IInv
<1> QED BY <1>1, Inductive, PTL

\* Refreshes of a key that never overlap leave all n nodes on one sharing: the
\* DKG dealing plus the zero-sharing of every completed refresh.
THEOREM SerialRefresh == Spec => []SerialRefreshesAgree
<1>1. IInv => SerialRefreshesAgree
  BY DEF IInv, SerialInv, Serial, SerialRefreshesAgree
<1> QED BY <1>1, Inductive, PTL

\* The first t entries of a sequence at least t long are entries of it.
LEMMA QuorumCollected ==
    ASSUME TypeOK, NEW o \in Signing, T <= Len(got[o])
    PROVE  \A i \in DOMAIN Quorum(o) :
               i \in DOMAIN got[o] /\ Quorum(o)[i] = got[o][i]
<1>1. got[o] \in Seq(Answer)
  BY DEF TypeOK, Op
<1> QED BY SMTT(60), <1>1, ClusterParams DEF Quorum

\* A sign whose round no refresh of its key overlapped, on a key whose
\* refreshes never overlapped each other, returns a signature that verifies.
THEOREM UndisturbedSign == Spec => []UndisturbedSignVerifies
<1>1. IInv => UndisturbedSignVerifies
  <2> SUFFICES ASSUME IInv, NEW o \in Signing,
                      result[o] = "ok", o \notin torn, target[o] \notin raced
               PROVE  Verifies(o)
    BY DEF UndisturbedSignVerifies
  <2>1. /\ TypeOK
        /\ T <= Len(got[o])
        /\ \A i, j \in DOMAIN got[o] : got[o][i].dealt = got[o][j].dealt
    BY DEF IInv, CleanInv, Clean
  <2>2. \A i \in DOMAIN Quorum(o) :
            i \in DOMAIN got[o] /\ Quorum(o)[i] = got[o][i]
    BY <2>1, QuorumCollected
  <2>3. ASSUME NEW i \in DOMAIN Quorum(o), NEW j \in DOMAIN Quorum(o)
        PROVE  Quorum(o)[i].dealt = Quorum(o)[j].dealt
    <3>1. Quorum(o)[i] = got[o][i] /\ Quorum(o)[j] = got[o][j]
      BY <2>2
    <3>2. got[o][i].dealt = got[o][j].dealt
      BY <2>1, <2>2
    <3> QED BY <3>1, <3>2
  <2> QED BY <2>3 DEF Verifies
<1> QED BY <1>1, Inductive, PTL
=============================================================================
