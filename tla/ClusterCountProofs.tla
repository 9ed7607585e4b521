------------------------- MODULE ClusterCountProofs -------------------------
(***************************************************************************)
(* Proofs of the properties of ThresholdCluster that count: a signature    *)
(* takes shares of t different nodes, losing nodes costs a signature only  *)
(* when fewer than t stay responsive, and the epoch of a key counts its    *)
(* refreshes.  For every number of nodes, threshold and set of calls.      *)
(***************************************************************************)
EXTENDS ThresholdClusterProofs, FiniteSetTheorems

\* SMT proves the leaves that name no other prover.
USE SMTT(60)

-----------------------------------------------------------------------------
(* Counting.                                                               *)

\* The distinct entries of a sequence are as many as it is long.
LEMMA DistinctEntries ==
    ASSUME NEW n \in Nat, NEW f, f = [i \in 1..n |-> f[i]],
           \A i, j \in 1..n : f[i] = f[j] => i = j
    PROVE  /\ IsFiniteSet({f[i] : i \in 1..n})
           /\ Cardinality({f[i] : i \in 1..n}) = n
<1> DEFINE S == {f[i] : i \in 1..n}
<1>1. f \in [1..n -> S]
  OBVIOUS
<1>2. f \in Bijection(1..n, S)
  <2>1. f \in Injection(1..n, S)
    BY <1>1 DEF Injection, IsInjective
  <2>2. f \in Surjection(1..n, S)
    BY <1>1 DEF Surjection
  <2> QED BY <2>1, <2>2 DEF Bijection
<1>3. IsFiniteSet(1..n) /\ Cardinality(1..n) = n
  <2>1. 1 \in Int /\ n \in Int
    OBVIOUS
  <2>2. IsFiniteSet(1..n) /\ Cardinality(1..n) = IF 1 > n THEN 0 ELSE n - 1 + 1
    BY Zenon, <2>1, FS_Interval
  <2> QED BY <2>2
<1>4. ExistsBijection(1..n, S)
  BY <1>2 DEF ExistsBijection
<1> QED BY <1>3, <1>4, FS_Bijection

\* A sequence after one more entry.
LEMMA OneMore ==
    ASSUME NEW S, NEW s \in Seq(S), NEW e \in S
    PROVE  /\ Len(s \o <<e>>) = Len(s) + 1
           /\ \A i \in 1..Len(s) : (s \o <<e>>)[i] = s[i]
           /\ (s \o <<e>>)[Len(s) + 1] = e
OBVIOUS

\* One more entry, above all others, keeps the entries distinct and bounded.
LEMMA OneAbove ==
    ASSUME NEW len \in Nat, NEW p \in Nat, NEW f, NEW g,
           \A i \in 1..len : f[i].node \in Nat /\ f[i].node < p,
           \A i, j \in 1..len : f[i].node = f[j].node => i = j,
           \A i \in 1..len : g[i] = f[i],
           g[len + 1].node = p
    PROVE  /\ \A i, j \in 1..(len + 1) : g[i].node = g[j].node => i = j
           /\ \A i \in 1..(len + 1) : g[i].node < p + 1
<1>1. \A i \in 1..(len + 1) : i = len + 1 \/ i \in 1..len
  OBVIOUS
<1>2. \A i \in 1..len : g[i].node \in Nat /\ g[i].node < p
  OBVIOUS
<1>3. ASSUME NEW i \in 1..(len + 1) PROVE g[i].node < p + 1
  BY <1>1, <1>2
<1>4. ASSUME NEW i \in 1..(len + 1), NEW j \in 1..(len + 1),
             g[i].node = g[j].node
      PROVE  i = j
  <2>1. CASE i \in 1..len /\ j \in 1..len
    BY <1>4, <2>1
  <2>2. CASE i = len + 1 /\ j \in 1..len
    BY <1>2, <1>4, <2>2
  <2>3. CASE j = len + 1 /\ i \in 1..len
    BY <1>2, <1>4, <2>3
  <2> QED BY <1>1, <2>1, <2>2, <2>3
<1> QED BY <1>3, <1>4

-----------------------------------------------------------------------------
(* What a sign has collected when its loop has reached node at[o].         *)

\* Whom it has heard: each node behind at[o] at most once, and every such node
\* that has been responsive all along.
HeardInv(o) ==
    /\ pc[o] = "idle" => at[o] = 1
    /\ \A i, j \in 1..Len(got[o]) : got[o][i].node = got[o][j].node => i = j
    /\ pc[o] \in InRound =>
           /\ \A i \in 1..Len(got[o]) : got[o][i].node < at[o]
           /\ \A n \in steady[o] :
                  n < at[o] => \E i \in 1..Len(got[o]) : got[o][i].node = n

SteadyInv(o) ==
    /\ steady[o] \subseteq Responsive
    /\ pc[o] = "late" => at[o] \notin steady[o]

\* A failed sign was short of responsive nodes.
MissedInv(o) ==
    result[o] = "QuorumNotMet" => pc[o] = "done" /\ Cardinality(steady[o]) < T

SignInv == \A o \in Signing : HeardInv(o) /\ SteadyInv(o) /\ MissedInv(o)

\* Shorthand for what the steps of one sign may rely on.
LEMMA SignTypes ==
    ASSUME TypeOK, NEW o \in Signing
    PROVE  /\ o \in Op /\ DOMAIN pc = Op /\ DOMAIN at = Op /\ DOMAIN got = Op
           /\ DOMAIN result = Op /\ DOMAIN steady = Signing
           /\ at[o] \in 1..(N + 1) /\ got[o] \in Seq(Answer)
           /\ Len(got[o]) \in Nat
           /\ steady[o] \subseteq Node /\ N \in Nat /\ T \in 1..N
           /\ \A i \in 1..Len(got[o]) : got[o][i].node \in Node
<1>1. o \in Op /\ got[o] \in Seq(Answer)
  BY DEF TypeOK, Op
<1>2. ASSUME NEW i \in 1..Len(got[o]) PROVE got[o][i].node \in Node
  <2>1. got[o][i] \in Answer
    BY <1>1
  <2> QED BY <2>1 DEF Answer
<1> QED BY <1>1, <1>2, ClusterParams DEF TypeOK

\* The nodes are finitely many.
LEMMA NodesFinite ==
    ASSUME NEW S \in SUBSET Node
    PROVE  IsFiniteSet(S) /\ Cardinality(S) \in Nat
<1>1. 1 \in Int /\ N \in Int
  BY ClusterParams
<1>2. IsFiniteSet(Node)
  BY Zenon, <1>1, FS_Interval DEF Node
<1> QED BY <1>2, FS_Subset, FS_CardinalityType

\* Steps of other calls and of the nodes.
LEMMA OtherSteps ==
    ASSUME TypeOK, NEW o \in Signing, SignKept(o),
           HeardInv(o), SteadyInv(o), MissedInv(o)
    PROVE  HeardInv(o)' /\ SteadyInv(o)' /\ MissedInv(o)'
<1>1. HeardInv(o)'
  BY DEF SignKept, HeardInv
<1>2. SteadyInv(o)'
  BY DEF SignKept, SteadyInv
<1>3. MissedInv(o)'
  <2> SUFFICES ASSUME result'[o] = "QuorumNotMet"
               PROVE  pc'[o] = "done" /\ Cardinality(steady'[o]) < T
    BY DEF MissedInv
  <2>1. pc'[o] = "done" /\ Cardinality(steady[o]) < T
    BY DEF MissedInv, SignKept
  <2>2. steady[o] \in SUBSET Node /\ steady'[o] \in SUBSET steady[o]
    BY SignTypes DEF SignKept
  <2>3. Cardinality(steady'[o]) <= Cardinality(steady[o])
    BY <2>2, NodesFinite, FS_Subset
  <2>4. Cardinality(steady[o]) \in Nat /\ Cardinality(steady'[o]) \in Nat
    BY <2>2, NodesFinite
  <2> QED BY <2>1, <2>3, <2>4, ClusterParams
<1> QED BY <1>1, <1>2, <1>3

\* Sign checks that the key is known and enters its round at the first node.
LEMMA BeginSteps ==
    ASSUME TypeOK, ControlInv, NEW o \in Signing, BeginSign(o),
           HeardInv(o), SteadyInv(o), MissedInv(o)
    PROVE  HeardInv(o)' /\ SteadyInv(o)' /\ MissedInv(o)'
<1>1. /\ pc[o] = "idle" /\ got[o] = <<>> /\ at[o] = 1
      /\ UNCHANGED <<at, got, nodeVars>>
  BY SignTypes DEF BeginSign, ControlInv, HeardInv
<1>2. \/ pc'[o] = "round" /\ result'[o] = result[o] /\ steady'[o] = Responsive
      \/ pc'[o] = "done" /\ result'[o] = "UnknownKey" /\ steady'[o] = steady[o]
  BY SignTypes DEF BeginSign, EnterRound, Return
<1>3. Responsive' = Responsive /\ Responsive \subseteq Node
  BY <1>1 DEF Responsive, nodeVars, TypeOK
<1>4. \A n \in Node : ~(n < 1)
  BY ClusterParams DEF Node
<1>5. HeardInv(o)'
  <2>1. Len(got'[o]) = 0 /\ at'[o] = 1 /\ pc'[o] # "idle"
    BY <1>1, <1>2
  <2>2. \A n \in steady'[o] : ~(n < 1)
    BY <1>2, <1>3, <1>4, SignTypes
  <2> QED BY <2>1, <2>2 DEF HeardInv
<1>6. SteadyInv(o)'
  BY <1>2, <1>3 DEF SteadyInv
<1>7. MissedInv(o)'
  BY <1>1, <1>2 DEF MissedInv
<1> QED BY <1>5, <1>6, <1>7

\* A node is skipped, asked, or timed out.
LEMMA SilentSteps ==
    ASSUME TypeOK, NEW o \in Signing, AskNode(o) \/ TimeoutNode(o),
           HeardInv(o), SteadyInv(o), MissedInv(o)
    PROVE  HeardInv(o)' /\ SteadyInv(o)' /\ MissedInv(o)'
<1>1. /\ UNCHANGED <<got, online, slow, result, steady>>
      /\ pc[o] \in InRound
      /\ \/ pc'[o] = "round" /\ at'[o] = at[o] + 1 /\ at[o] \notin steady[o]
         \/ pc'[o] = "asked" /\ at'[o] = at[o]
         \/ pc'[o] = "late" /\ at'[o] = at[o] /\ at[o] \in slow
  <2>1. CASE AskNode(o) /\ at[o] \notin online
    BY <2>1, SignTypes
       DEF AskNode, NextNode, nodeVars, histVars, InRound, SteadyInv, Responsive
  <2>2. CASE AskNode(o) /\ at[o] \in online
    BY <2>2, SignTypes DEF AskNode, nodeVars, histVars, InRound
  <2>3. CASE TimeoutNode(o)
    BY <2>3, SignTypes
       DEF TimeoutNode, NextNode, nodeVars, histVars, InRound, SteadyInv
  <2> QED BY <2>1, <2>2, <2>3
<1>2. HeardInv(o)'
  <2>1. pc'[o] # "idle" /\ got'[o] = got[o] /\ steady'[o] = steady[o]
    BY <1>1
  <2>2. \A i \in 1..Len(got[o]) : got[o][i].node < at'[o]
    BY <1>1, SignTypes DEF HeardInv, Node
  <2>3. \A n \in steady[o] : n < at'[o] => n < at[o]
    BY <1>1, SignTypes DEF Node
  <2> QED BY <1>1, <2>1, <2>2, <2>3 DEF HeardInv
<1>3. SteadyInv(o)'
  BY <1>1 DEF SteadyInv, Responsive
<1>4. MissedInv(o)'
  BY <1>1 DEF MissedInv, InRound
<1> QED BY <1>2, <1>3, <1>4

\* A node answers: it has a share of a published key, so it is counted.
LEMMA AnswerSteps ==
    ASSUME TypeOK, ControlInv, PublishedInv, PublishedKeyHasShares,
           NEW o \in Signing, AnswerNode(o),
           HeardInv(o), SteadyInv(o), MissedInv(o)
    PROVE  HeardInv(o)' /\ SteadyInv(o)' /\ MissedInv(o)'
<1>1. /\ pc[o] = "asked" /\ pc'[o] = "round" /\ at'[o] = at[o] + 1
      /\ UNCHANGED <<online, slow, result, steady>>
      /\ got'[o] = got[o] \o Respond(o, at[o])
  BY SignTypes, ZenonT(60) DEF AnswerNode, NextNode, nodeVars, histVars
<1>2. at[o] \in Node /\ target[o] \in Key
  BY <1>1, SignTypes DEF ControlInv, TypeOK
<1>3. share[at[o]][target[o]] # {}
  <2>1. epoch[target[o]] > 0
    BY <1>1 DEF PublishedInv, Running, InRound
  <2> QED BY <1>2, <2>1 DEF PublishedKeyHasShares
<1> DEFINE a == [node |-> at[o], dealt |-> share[at[o]][target[o]]]
<1>4. got'[o] = got[o] \o <<a>>
  BY <1>1, <1>3, ZenonT(60) DEF Respond
<1>a. a \in Answer /\ a.node = at[o]
  BY <1>2, SignTypes DEF Answer, TypeOK
<1> HIDE DEF a
<1>5. /\ Len(got'[o]) = Len(got[o]) + 1
      /\ \A i \in 1..Len(got[o]) : got'[o][i] = got[o][i]
      /\ got'[o][Len(got[o]) + 1].node = at[o]
  BY <1>4, <1>a, SignTypes, OneMore
<1>6. /\ \A i, j \in 1..Len(got[o]) : got[o][i].node = got[o][j].node => i = j
      /\ \A i \in 1..Len(got[o]) : got[o][i].node < at[o] /\ got[o][i].node \in Nat
      /\ at[o] \in Nat /\ Len(got[o]) \in Nat
  BY <1>1, SignTypes DEF HeardInv, InRound, Node
<1>b. \A n \in steady[o] : n \in Nat
  BY SignTypes DEF Node
<1>c. \A n \in steady[o] :
          n < at[o] => \E i \in 1..Len(got[o]) : got[o][i].node = n
  BY <1>1 DEF HeardInv, InRound
<1>7. HeardInv(o)'
  <2>1. /\ \A i, j \in 1..(Len(got[o]) + 1) :
               got'[o][i].node = got'[o][j].node => i = j
        /\ \A i \in 1..(Len(got[o]) + 1) : got'[o][i].node < at[o] + 1
    BY <1>5, <1>6, OneAbove, ZenonT(60)
  <2>2. Len(got'[o]) = Len(got[o]) + 1 /\ at'[o] = at[o] + 1
    BY <1>1, <1>5
  <2>3. ASSUME NEW n \in steady[o], n < at'[o]
        PROVE  \E i \in 1..Len(got'[o]) : got'[o][i].node = n
    <3>1. CASE n = at[o]
      <4>1. Len(got[o]) + 1 \in 1..Len(got'[o])
        BY <1>5, <1>6
      <4> QED BY <3>1, <4>1, <1>5
    <3>2. CASE n < at[o]
      <4>1. PICK i \in 1..Len(got[o]) : got[o][i].node = n
        BY <3>2, <1>c
      <4>2. i \in 1..Len(got'[o]) /\ got'[o][i] = got[o][i]
        BY <1>5, <1>6
      <4> QED BY <4>1, <4>2
    <3>3. n \in Nat /\ at[o] \in Nat /\ n < at[o] + 1
      BY <1>6, <1>b, <2>2, <2>3
    <3>4. n = at[o] \/ n < at[o]
      BY <3>3
    <3> QED BY <3>1, <3>2, <3>4
  <2>4. \A n \in steady'[o] :
            n < at'[o] => \E i \in 1..Len(got'[o]) : got'[o][i].node = n
    BY <1>1, <2>3, ZenonT(60)
  <2>5. /\ \A i, j \in 1..Len(got'[o]) :
               got'[o][i].node = got'[o][j].node => i = j
        /\ \A i \in 1..Len(got'[o]) : got'[o][i].node < at'[o]
    BY Zenon, <2>1, <2>2
  <2>6. pc'[o] # "idle"
    BY <1>1
  <2> QED BY Zenon, <2>4, <2>5, <2>6 DEF HeardInv
<1>8. SteadyInv(o)'
  BY <1>1 DEF SteadyInv, Responsive
<1>9. MissedInv(o)'
  BY <1>1 DEF MissedInv
<1> QED BY <1>7, <1>8, <1>9

\* The entries collected at the end of a round are of as many nodes.
LEMMA HeardCount ==
    ASSUME TypeOK, NEW o \in Signing, HeardInv(o)
    PROVE  /\ IsFiniteSet({got[o][i].node : i \in 1..Len(got[o])})
           /\ Cardinality({got[o][i].node : i \in 1..Len(got[o])}) = Len(got[o])
<1>1. PICK n \in Nat : n = Len(got[o])
  BY SignTypes
<1> DEFINE f == [i \in 1..n |-> got[o][i].node]
<1>2. /\ f = [i \in 1..n |-> f[i]]
      /\ \A i, j \in 1..n : f[i] = f[j] => i = j
  BY <1>1 DEF HeardInv
<1>3. {f[i] : i \in 1..n} = {got[o][i].node : i \in 1..Len(got[o])}
  BY <1>1, ZenonT(60)
<1> HIDE DEF f
<1>4. /\ IsFiniteSet({f[i] : i \in 1..n})
      /\ Cardinality({f[i] : i \in 1..n}) = n
  BY <1>2, DistinctEntries
<1> QED BY <1>1, <1>3, <1>4, ZenonT(60)

\* The quorum check, and the loss of the caller.
LEMMA EndSteps ==
    ASSUME TypeOK, NEW o \in Signing, FinishSign(o) \/ DropCall(o),
           HeardInv(o), SteadyInv(o), MissedInv(o)
    PROVE  HeardInv(o)' /\ SteadyInv(o)' /\ MissedInv(o)'
<1>1. /\ UNCHANGED <<at, got, online, slow, steady>>
      /\ pc[o] \in InRound /\ pc'[o] = "done"
      /\ result'[o] = "QuorumNotMet" => /\ Len(got[o]) < T
                                        /\ at[o] = N + 1
  BY SignTypes DEF FinishSign, DropCall, Return, nodeVars, histVars, InRound
<1>2. HeardInv(o)'
  BY <1>1 DEF HeardInv, InRound
<1>3. SteadyInv(o)'
  BY <1>1 DEF SteadyInv, Responsive
<1>4. ASSUME result'[o] = "QuorumNotMet" PROVE Cardinality(steady[o]) < T
  <2> DEFINE H == {got[o][i].node : i \in 1..Len(got[o])}
  <2>1. IsFiniteSet(H) /\ Cardinality(H) = Len(got[o])
    BY HeardCount
  <2>2. steady[o] \in SUBSET H
    <3>1. \A n \in steady[o] : n < at[o]
      BY <1>1, <1>4, SignTypes DEF Node
    <3> QED BY <1>1, <3>1 DEF HeardInv
  <2> HIDE DEF H
  <2>3. Cardinality(steady[o]) <= Cardinality(H) /\ Cardinality(steady[o]) \in Nat
    BY <2>1, <2>2, FS_Subset, FS_CardinalityType
  <2> QED BY <1>1, <1>4, <2>1, <2>3, SignTypes
<1>5. MissedInv(o)'
  BY <1>1, <1>4 DEF MissedInv
<1> QED BY <1>2, <1>3, <1>5

\* Every step keeps what is known of every sign.
LEMMA SignStepInv == IInv /\ SignInv /\ [Next]_vars => SignInv'
<1> SUFFICES ASSUME IInv, SignInv, [Next]_vars, NEW o \in Signing
             PROVE  HeardInv(o)' /\ SteadyInv(o)' /\ MissedInv(o)'
  BY DEF SignInv
<1>1. /\ TypeOK /\ ControlInv /\ PublishedInv /\ PublishedKeyHasShares
      /\ HeardInv(o) /\ SteadyInv(o) /\ MissedInv(o)
  BY DEF IInv, SignInv
<1>2. \/ BeginSign(o) \/ RoundStep(o) \/ FinishSign(o) \/ DropCall(o)
      \/ SignKept(o)
  BY <1>1, SignCases
<1> QED
  BY <1>1, <1>2, OtherSteps, BeginSteps, SilentSteps, AnswerSteps, EndSteps
     DEF RoundStep

\* No sign has begun at first.
LEMMA SignInit == Init => SignInv
<1> SUFFICES ASSUME Init, NEW o \in Signing
             PROVE  HeardInv(o) /\ SteadyInv(o) /\ MissedInv(o)
  BY DEF SignInv
<1>1. /\ pc[o] = "idle" /\ at[o] = 1 /\ got[o] = <<>> /\ steady[o] = {}
      /\ result[o] = "none"
  BY DEF Init, Op
<1> QED BY <1>1 DEF HeardInv, SteadyInv, MissedInv, InRound

\* The first t of at least t distinct entries are t.
LEMMA QuorumCount ==
    ASSUME TypeOK, NEW o \in Signing, HeardInv(o), T <= Len(got[o])
    PROVE  Cardinality({Quorum(o)[i].node : i \in DOMAIN Quorum(o)}) = T
<1>1. /\ got[o] \in Seq(Answer) /\ T \in Nat /\ T <= Len(got[o])
      /\ Len(got[o]) \in Nat
  BY SignTypes
<1>2. /\ DOMAIN Quorum(o) = 1..T
      /\ \A i \in 1..T : Quorum(o)[i] = got[o][i] /\ i \in 1..Len(got[o])
  BY <1>1 DEF Quorum
<1> DEFINE f == [i \in 1..T |-> Quorum(o)[i].node]
<1>3. /\ f = [i \in 1..T |-> f[i]]
      /\ \A i, j \in 1..T : f[i] = f[j] => i = j
  BY <1>2 DEF HeardInv
<1>4. {f[i] : i \in 1..T} = {Quorum(o)[i].node : i \in DOMAIN Quorum(o)}
  BY <1>2
<1> HIDE DEF f
<1>5. Cardinality({f[i] : i \in 1..T}) = T
  BY <1>1, <1>3, DistinctEntries, ZenonT(60)
<1> QED BY <1>4, <1>5, ZenonT(60)

\* Sign succeeds only with the shares of t different nodes, for every n and t
\* and whatever nodes and calls do during its round.
THEOREM QuorumDistinct == Spec => []QuorumOfDistinctNodes
<1>1. Spec => []SignInv
  BY SignInit, SignStepInv, Inductive, PTL DEF Spec
<1>2. IInv /\ SignInv => QuorumOfDistinctNodes
  BY QuorumCount DEF IInv, CleanInv, SignInv, QuorumOfDistinctNodes
<1> QED BY <1>1, <1>2, Inductive, PTL

\* Sign reports QuorumNotMet only when fewer than t nodes were online and in
\* time throughout its round: the loss of any n - t nodes is tolerated.
THEOREM LossIsTolerated == Spec => []LossTolerated
<1>1. Spec => []SignInv
  BY SignInit, SignStepInv, Inductive, PTL DEF Spec
<1>2. SignInv => LossTolerated
  BY DEF SignInv, MissedInv, LossTolerated
<1> QED BY <1>1, <1>2, PTL

-----------------------------------------------------------------------------
(* The epoch counts the refreshes.                                         *)

CountInv ==
    EpochCountsRefreshes /\ \A k \in Key : IsFiniteSet(Completed(k))

\* No refresh of an unpublished key has completed.
LEMMA NoneBefore ==
    ASSUME TypeOK, PublishedInv, NEW k \in Key, epoch[k] = 0
    PROVE  Completed(k) = {}
BY DEF PublishedInv, Completed, OfKey

\* Steps that publish and complete nothing.
LEMMA QuietCount ==
    ASSUME CountInv, UNCHANGED <<target, epoch>>,
           \A r \in Refreshing : (result'[r] = "ok") <=> (result[r] = "ok")
    PROVE  CountInv'
<1>1. ASSUME NEW k \in Key PROVE Completed(k)' = Completed(k)
  BY DEF Completed, OfKey
<1> QED BY <1>1 DEF CountInv, EpochCountsRefreshes

\* Keygen publishes the key with epoch 1.
LEMMA PublishCount ==
    ASSUME IInv, CountInv, NEW k \in Key, PublishKey(k)
    PROVE  CountInv'
<1>1. /\ TypeOK /\ ControlInv /\ PublishedInv
      /\ k \in Op /\ k \notin Refreshing /\ DOMAIN result = Op
      /\ epoch \in [Key -> Nat]
  BY DistinctCalls, ZenonT(60) DEF IInv, TypeOK, Op
<1>2. target' = target /\ \A r \in Refreshing : result'[r] = result[r]
  BY <1>1 DEF PublishKey, Return, Op
<1>3. ASSUME NEW j \in Key PROVE Completed(j)' = Completed(j)
  BY <1>2 DEF Completed, OfKey
<1>4. epoch[k] = 0 /\ Completed(k) = {}
  <2>1. epoch[k] = 0
    BY <1>1 DEF PublishKey, ControlInv
  <2> QED BY <1>1, <2>1, NoneBefore
<1>5. epoch' = epoch \/ epoch' = [epoch EXCEPT ![k] = 1]
  BY DEF PublishKey
<1>6. ASSUME NEW j \in Key, epoch'[j] > 0
      PROVE  epoch'[j] = 1 + Cardinality(Completed(j))
  <2>1. CASE epoch'[j] = epoch[j]
    BY <1>6, <2>1 DEF CountInv, EpochCountsRefreshes
  <2>2. CASE epoch'[j] # epoch[j]
    <3>1. j = k /\ epoch'[j] = 1
      BY <1>1, <1>5, <2>2
    <3> QED BY <1>4, <3>1, FS_EmptySet
  <2> QED BY <2>1, <2>2
<1> QED BY <1>3, <1>6 DEF CountInv, EpochCountsRefreshes

\* A refresh completes.
LEMMA BumpCount ==
    ASSUME IInv, CountInv, NEW o \in Refreshing, BumpEpoch(o)
    PROVE  CountInv'
<1>1. /\ TypeOK /\ ControlInv /\ PublishedInv
      /\ o \in Op /\ DOMAIN result = Op /\ epoch \in [Key -> Nat]
      /\ target[o] \in Key
      /\ \A r \in Refreshing : r \in Op
  BY DEF IInv, TypeOK, Op
<1>2. /\ pc[o] = "apply" /\ target' = target
      /\ epoch' = [epoch EXCEPT ![target[o]] = @ + 1]
      /\ result' = [result EXCEPT ![o] = "ok"]
  BY DEF BumpEpoch, Return
<1>3. epoch[target[o]] > 0 /\ result[o] # "ok"
  BY <1>1, <1>2 DEF PublishedInv, ControlInv, Running, Writing
<1>4. ASSUME NEW j \in Key, j # target[o]
      PROVE  Completed(j)' = Completed(j) /\ epoch'[j] = epoch[j]
  BY <1>1, <1>2, <1>4 DEF Completed, OfKey
<1> DEFINE C == Completed(target[o])
<1>5. Completed(target[o])' = C \cup {o} /\ o \notin C
  BY <1>1, <1>2, <1>3 DEF Completed, OfKey
<1>6. IsFiniteSet(C) /\ epoch[target[o]] = 1 + Cardinality(C)
  BY <1>1, <1>3 DEF CountInv, EpochCountsRefreshes
<1> HIDE DEF C
<1>7. /\ IsFiniteSet(C \cup {o}) /\ Cardinality(C \cup {o}) = Cardinality(C) + 1
      /\ Cardinality(C) \in Nat
  BY <1>5, <1>6, FS_AddElement, FS_CardinalityType
<1>8. epoch'[target[o]] = 1 + Cardinality(C \cup {o})
  BY <1>1, <1>2, <1>6, <1>7
<1>9. ASSUME NEW j \in Key
      PROVE  /\ IsFiniteSet(Completed(j)')
             /\ epoch'[j] > 0 => epoch'[j] = 1 + Cardinality(Completed(j)')
  <2>1. CASE j = target[o]
    BY <1>2, <1>5, <1>7, <1>8, <2>1
  <2>2. CASE j # target[o]
    BY <1>4, <2>2 DEF CountInv, EpochCountsRefreshes
  <2> QED BY <2>1, <2>2
<1> QED BY <1>9 DEF CountInv, EpochCountsRefreshes

\* Every step keeps the count.
LEMMA CountStep == IInv /\ CountInv /\ [Next]_vars => CountInv'
<1> SUFFICES ASSUME IInv, CountInv, [Next]_vars PROVE CountInv'
  OBVIOUS
<1>1. CASE SharesKept
  BY <1>1, QuietCount DEF SharesKept
<1>2. ASSUME NEW k \in Key, StartDealing(k) \/ DealShare(k) PROVE CountInv'
  BY <1>2, QuietCount DEF StartDealing, DealShare
<1>3. ASSUME NEW o \in Refreshing,
             StartRefreshing(o) \/ ReadShare(o) \/ WriteShare(o)
      PROVE  CountInv'
  BY <1>3, QuietCount DEF StartRefreshing, ReadShare, WriteShare
<1>4. TypeOK /\ ControlInv
  BY DEF IInv
<1> QED BY <1>1, <1>2, <1>3, <1>4, StepCases, PublishCount, BumpCount

\* The epoch of a key is one more than the number of its completed refreshes,
\* for any number of refreshes at once: BumpEpoch adds under the write lock.
THEOREM EpochCounts == Spec => []EpochCountsRefreshes
<1>1. Init => CountInv
  <2> SUFFICES ASSUME Init PROVE CountInv
    OBVIOUS
  <2>1. ASSUME NEW k \in Key PROVE Completed(k) = {} /\ epoch[k] = 0
    BY DEF Init, Completed, OfKey, Op
  <2> QED BY <2>1, FS_EmptySet DEF CountInv, EpochCountsRefreshes
<1>2. CountInv => EpochCountsRefreshes
  BY DEF CountInv
<1> QED BY <1>1, <1>2, CountStep, Inductive, PTL DEF Spec
=============================================================================
