---------------------------- MODULE ServiceProofs ----------------------------
(***************************************************************************)
(* Proofs about the service and its in-house engine, for any calls, any    *)
(* operations and any environments: the engine's key map and the clusters  *)
(* agree, a reported key is found and epochs advance; the epoch of a key   *)
(* counts its rotations.                                                   *)
(***************************************************************************)
EXTENDS Service, WellFoundedInduction, FiniteSetTheorems, TLAPS

\* The SMT solver proves the leaves that name no other prover.
USE SMTT(90)

-----------------------------------------------------------------------------
(* The inductive invariant.                                                *)

Place == {"idle", "start", "keygen", "record", "refresh", "public_key", "epoch",
          "sign", "provider", "done", "dropped"}

\* Where an operation on an existing key has found its scheme.
OnKey == {"refresh", "public_key", "epoch", "sign"}

Codes == {"InvalidArgument", "ProviderUnavailable", "KeyNotFound", "Denied",
          "Internal"}

Answers == {NoReply} \cup [kind : {"err"}, code : Codes]
           \cup [kind : {"created", "rotated", "metadata"}, epoch : Nat]
           \cup [kind : {"restored", "signed", "custody"}]

Shape ==
    /\ pc \in [Call -> Place]
    /\ op = [c \in Call |-> op[c]]
    /\ reply \in [Call -> Answers]
    /\ keys \in [Call -> Scheme \cup {"none"}]
    /\ published \in [Scheme -> SUBSET Call]
    /\ epoch \in [Call -> Nat]
    /\ known \in SUBSET Call
    /\ seen \in [Call -> Nat]

\* A key id is recorded by its own dkg, and between the two inserts it is in
\* exactly the cluster where it is about to be recorded.
MapInv ==
    /\ KeyMapMatchesClusters
    /\ \A k \in Call :
           pc[k] \in {"idle", "start", "keygen", "record"} => keys[k] = "none"
    /\ \A k \in Call, s \in Scheme :
           pc[k] = "record" => (k \in published[s] <=> s = scheme(op[k].chain))

Live(k) == k \in Call /\ keys[k] # "none"

\* What a call has been told, or has found, is of a recorded key.
TalkInv ==
    \A c \in Call :
        /\ pc[c] # "done" => reply[c] = NoReply
        /\ pc[c] = "idle" => c \notin known
        /\ pc[c] \in OnKey => Live(op[c].key)
        /\ reply[c].kind = "created" => keys[c] # "none"
        /\ reply[c].kind \in {"rotated", "metadata"} => Live(op[c].key)
        /\ c \in known => Live(op[c].key) /\ reply[c] # Err("KeyNotFound")

\* No epoch told is ahead of the key's.
EpochInv ==
    \A c \in Call :
        /\ reply[c].kind = "created" => reply[c].epoch <= epoch[c]
        /\ reply[c].kind \in {"rotated", "metadata"} =>
               reply[c].epoch <= epoch[op[c].key]
        /\ pc[c] = "record" => 1 <= epoch[c]
        /\ IF c \in known THEN seen[c] <= epoch[op[c].key] ELSE seen[c] = 0

IInv == Shape /\ MapInv /\ TalkInv /\ EpochInv /\ EpochsAdvance

-----------------------------------------------------------------------------
(* Helpers.                                                                *)

\* Every chain is signed on one of the two curves.
LEMMA SchemeType == \A chain : scheme(chain) \in Scheme
BY DEF scheme, Scheme

\* A bounded set of naturals has a greatest element, or is empty.
LEMMA GreatestExists ==
    ASSUME NEW S \in SUBSET Nat, NEW b \in Nat, \A f \in S : f <= b
    PROVE  \E e \in S \cup {0} : \A f \in S : f <= e
<1> DEFINE B == {n \in Nat : \A f \in S : f <= n}
<1>1. B \subseteq Nat /\ B # {}
  OBVIOUS
<1>2. PICK m \in B : \A y \in B : ~(<<y, m>> \in OpToRel(<, Nat))
  BY Zenon, <1>1, NatLessThanWellFounded, WFMin
<1>3. \A y \in B : ~(y < m)
  BY <1>1, <1>2, ZenonT(90) DEF OpToRel
<1>4. CASE m = 0
  BY <1>4
<1>5. CASE m # 0
  <2>1. m - 1 \in Nat /\ m - 1 < m
    BY <1>5
  <2>2. PICK f \in S : ~(f <= m - 1)
    BY <1>3, <2>1
  <2>3. f = m
    BY <2>2
  <2> QED BY <2>3
<1> QED BY <1>4, <1>5

\* The answers the handlers form.
LEMMA AnswerTypes ==
    /\ NoReply \in Answers
    /\ \A code \in Codes : Err(code) \in Answers
    /\ \A e \in Nat : /\ [kind |-> "created", epoch |-> e] \in Answers
                      /\ [kind |-> "rotated", epoch |-> e] \in Answers
                      /\ [kind |-> "metadata", epoch |-> e] \in Answers
    /\ [kind |-> "restored"] \in Answers
    /\ [kind |-> "signed"] \in Answers
    /\ [kind |-> "custody"] \in Answers
BY DEF Answers, Err

\* Epochs in answers are numbers.
LEMMA ToldEpochType ==
    ASSUME Shape, NEW c \in Call,
           reply[c].kind \in {"created", "rotated", "metadata"}
    PROVE  reply[c].epoch \in Nat
BY DEF Shape, Answers, NoReply

\* A key that is in the map has been published by the cluster of its scheme.
LEMMA LiveIsPublished ==
    ASSUME IInv, NEW k, Live(k)
    PROVE  k \in published[keys[k]] /\ keys[k] \in Scheme
BY DEF IInv, Shape, MapInv, KeyMapMatchesClusters, Live

-----------------------------------------------------------------------------
(* What the steps of a call do, by kind.                                   *)

\* A new engine knows no key.
LEMMA InitInv == ASSUME EngineInit PROVE IInv
<1> USE DEF EngineInit
<1>1. Shape
  <2>1. op = [c \in Call |-> op[c]] OBVIOUS
  <2>2. reply \in [Call -> Answers] BY AnswerTypes
  <2> QED BY <2>1, <2>2 DEF Shape, Place, Scheme
<1>2. MapInv BY DEF MapInv, KeyMapMatchesClusters, Scheme
<1>3. TalkInv BY DEF TalkInv, OnKey, NoReply
<1>4. EpochInv BY DEF EpochInv, NoReply
<1>5. EpochsAdvance BY DEF EpochsAdvance, NoReply
<1> QED BY <1>1, <1>2, <1>3, <1>4, <1>5 DEF IInv

\* The end of the process loses the key map, the clusters and every call at
\* once, and the next one starts like the first.
LEMMA LostInv == ASSUME EngineLost PROVE IInv'
<1> USE DEF EngineLost
<1>1. Shape'
  <2>1. op' = [c \in Call |-> op'[c]] OBVIOUS
  <2>2. reply' \in [Call -> Answers] BY AnswerTypes
  <2> QED BY <2>1, <2>2 DEF Shape, Place, Scheme
<1>2. MapInv' BY DEF MapInv, KeyMapMatchesClusters, Scheme
<1>3. TalkInv' BY DEF TalkInv, OnKey, NoReply
<1>4. EpochInv' BY DEF EpochInv, NoReply
<1>5. EpochsAdvance' BY DEF EpochsAdvance, NoReply
<1> QED BY <1>1, <1>2, <1>3, <1>4, <1>5 DEF IInv

\* A call moves on and touches nothing else.
LEMMA GotoInv ==
    ASSUME IInv, NEW c \in Call, NEW place \in Place \ {"idle", "record", "done"},
           pc[c] \notin {"idle", "record", "done"},
           Goto(c, place), UNCHANGED keyVars,
           place \in {"start", "keygen"} => pc[c] \in {"start", "keygen"},
           place \in OnKey => Live(op[c].key)
    PROVE  IInv'
<1> USE DEF IInv, Goto, keyVars
<1>1. Shape' BY DEF Shape
<1>2. MapInv' BY DEF MapInv, KeyMapMatchesClusters, Shape
<1>3. TalkInv' BY DEF TalkInv, Live, Shape
<1>4. EpochInv' BY DEF EpochInv, Shape
<1>5. EpochsAdvance' BY DEF EpochsAdvance, Shape
<1> QED BY <1>1, <1>2, <1>3, <1>4, <1>5

\* A call is answered and nothing else happens.
LEMMA AnswerInv ==
    ASSUME IInv, NEW c \in Call, NEW r \in Answers,
           pc[c] \notin {"idle", "record", "done"},
           Answer(c, r), UNCHANGED keyVars,
           r.kind \notin {"created", "rotated"},
           r.kind = "metadata" => Live(op[c].key) /\ r.epoch = epoch[op[c].key],
           c \in known => r # Err("KeyNotFound")
    PROVE  IInv'
<1> USE DEF IInv, Answer, keyVars
<1>1. Shape' BY DEF Shape, Place
<1>2. MapInv' BY DEF MapInv, KeyMapMatchesClusters, Shape
<1>3. TalkInv' BY DEF TalkInv, Live, Shape, OnKey
<1>4. EpochInv' BY DEF EpochInv, Shape, Live
<1>5. EpochsAdvance' BY DEF EpochsAdvance, Shape, EpochInv, Live
<1> QED BY <1>1, <1>2, <1>3, <1>4, <1>5

\* Keygen publishes the key in its cluster, with epoch 1.
LEMMA PublishInv ==
    ASSUME IInv, NEW c \in Call, pc[c] = "keygen", Goto(c, "record"),
           published' = [published EXCEPT ![scheme(op[c].chain)] = @ \cup {c}],
           epoch' = [epoch EXCEPT ![c] = 1], UNCHANGED keys
    PROVE  IInv'
<1> USE SchemeType DEF IInv, Goto
<1>1. Shape' BY DEF Shape, Place
<1>2. MapInv'
  <2>1. \A k \in Call : k # c =>
            /\ pc'[k] = pc[k]
            /\ \A s \in Scheme : k \in published'[s] <=> k \in published[s]
    BY DEF Shape
  <2>2. pc'[c] = "record" /\ keys[c] = "none"
    BY DEF Shape, MapInv
  <2>3. \A s \in Scheme : c \notin published[s]
    BY DEF MapInv, KeyMapMatchesClusters, Scheme
  <2>4. \A s \in Scheme : c \in published'[s] <=> s = scheme(op[c].chain)
    BY <2>3 DEF Shape
  <2> QED BY <2>1, <2>2, <2>4 DEF MapInv, KeyMapMatchesClusters
<1>3. TalkInv' BY DEF TalkInv, Live, Shape, OnKey
<1>4. EpochInv' BY DEF EpochInv, Shape, MapInv, TalkInv, Live
<1>5. EpochsAdvance' BY DEF EpochsAdvance, Shape
<1> QED BY <1>1, <1>2, <1>3, <1>4, <1>5

\* The engine records the key and answers.
LEMMA RecordInv ==
    ASSUME IInv, NEW c \in Call, RecordKey(c)
    PROVE  IInv'
<1> USE SchemeType, AnswerTypes DEF IInv, RecordKey, Answer
<1>1. Shape' BY ZenonT(90) DEF Shape, Place
<1>2. MapInv' BY DEF MapInv, KeyMapMatchesClusters, Shape
<1>3. TalkInv' BY DEF TalkInv, Live, Shape, OnKey, Scheme, MapInv, Err
<1>4. EpochInv' BY DEF EpochInv, Shape
<1>5. EpochsAdvance' BY DEF EpochsAdvance, Shape
<1> QED BY <1>1, <1>2, <1>3, <1>4, <1>5

\* A refresh raises the epoch of its key and reports it.
LEMMA BumpInv ==
    ASSUME IInv, NEW c \in Call, NEW k, k = op[c].key, pc[c] = "refresh",
           epoch' = [epoch EXCEPT ![k] = @ + 1],
           Answer(c, [kind |-> "rotated", epoch |-> epoch[k] + 1]),
           UNCHANGED <<keys, published>>
    PROVE  IInv'
<1> USE DEF IInv, Answer
<1>0. Live(k) /\ k \in Call /\ epoch[k] \in Nat
  BY DEF TalkInv, OnKey, Live, Shape
<1>1. Shape'
  <2>0. epoch[k] + 1 \in Nat BY <1>0
  <2>1. [kind |-> "rotated", epoch |-> epoch[k] + 1] \in Answers
    BY <2>0 DEF Answers
  <2> QED BY <1>0, <2>1 DEF Shape, Place
<1>2. MapInv' BY DEF MapInv, KeyMapMatchesClusters, Shape
<1>3. TalkInv' BY <1>0 DEF TalkInv, Live, Shape, OnKey, Err
<1>4. EpochInv'
  <2>1. \A j \in Call : epoch[j] <= epoch'[j] /\ epoch[j] \in Nat
                          /\ epoch'[j] \in Nat
    BY <1>0 DEF Shape
  <2>2. ASSUME NEW d \in Call, d # c
        PROVE  /\ pc'[d] = pc[d] /\ reply'[d] = reply[d]
               /\ reply[d].kind \in {"created", "rotated", "metadata"} =>
                      reply[d].epoch \in Nat
               /\ seen[d] \in Nat
    BY <2>2, ToldEpochType DEF Shape
  <2>3. pc'[c] = "done" /\ reply'[c] = [kind |-> "rotated", epoch |-> epoch[k] + 1]
        /\ epoch'[k] = epoch[k] + 1 /\ seen[c] \in Nat
    BY <1>0 DEF Shape
  <2> QED BY <1>0, <2>1, <2>2, <2>3 DEF EpochInv, TalkInv, Live
<1>5. EpochsAdvance' BY <1>0 DEF EpochsAdvance, EpochInv, Shape, TalkInv, Live
<1> QED BY <1>1, <1>2, <1>3, <1>4, <1>5

-----------------------------------------------------------------------------
(* The actions.                                                            *)

\* The epochs told of a key that anything was told of: it is recorded, and they
\* do not exceed its epoch.
LEMMA ToldBounded ==
    ASSUME IInv, NEW k
    PROVE  /\ ToldEpochs(k) \in SUBSET Nat
           /\ ToldEpochs(k) # {} => Live(k)
           /\ ToldEpochs(k) # {} => \A e \in ToldEpochs(k) : e <= epoch[k]
<1>1. ASSUME NEW e \in ToldEpochs(k) PROVE e \in Nat /\ Live(k) /\ e <= epoch[k]
  <2>1. PICK d \in Call : /\ e = reply[d].epoch
                          /\ \/ reply[d].kind = "created" /\ d = k
                             \/ reply[d].kind \in {"rotated", "metadata"} /\ op[d].key = k
    BY <1>1 DEF ToldEpochs
  <2>2. e \in Nat
    BY <2>1, ToldEpochType DEF IInv
  <2> QED BY <2>1, <2>2 DEF IInv, TalkInv, EpochInv, Live
<1> QED BY <1>1

\* A call arrives and what its caller knows by then is noted.
LEMMA InvokeInv ==
    ASSUME IInv, NEW c \in Call, NEW q, Invoke(c, q)
    PROVE  IInv'
<1> DEFINE told == IF q.name = "dkg" THEN {} ELSE ToldEpochs(q.key)
<1> DEFINE top == CHOOSE e \in told \cup {0} : \A f \in told : f <= e
<1>1. /\ pc[c] = "idle" /\ pc' = [pc EXCEPT ![c] = "start"]
      /\ op' = [op EXCEPT ![c] = q]
      /\ known' = IF told # {} THEN known \cup {c} ELSE known
      /\ seen' = [seen EXCEPT ![c] = top]
      /\ UNCHANGED <<reply, keys, published, epoch>>
  BY DEF Invoke, keyVars
<1>2. told \in SUBSET Nat /\ (told # {} => Live(q.key))
      /\ \A e \in told : e <= epoch[q.key]
  BY ToldBounded
<1>3. top \in told \cup {0} /\ \A f \in told : f <= top
  <2>1. CASE told = {}
    <3>1. \E e \in told \cup {0} : \A f \in told : f <= e BY <2>1
    <3> QED BY <3>1
  <2>2. CASE told # {}
    <3>1. epoch[q.key] \in Nat BY <1>2, <2>2 DEF IInv, Shape, Live
    <3>2. \E e \in told \cup {0} : \A f \in told : f <= e
      BY <1>2, <3>1, GreatestExists, ZenonT(90)
    <3> QED BY <3>2
  <2> QED BY <2>1, <2>2
<1>4. top \in Nat /\ (told # {} => top <= epoch[q.key]) /\ (told = {} => top = 0)
  <2>1. told # {} => epoch[q.key] \in Nat BY <1>2 DEF IInv, Shape, Live
  <2> QED BY <1>2, <1>3, <2>1
<1> HIDE DEF told, top
<1>5. reply[c] = NoReply /\ c \notin known /\ keys[c] = "none"
  BY <1>1 DEF IInv, TalkInv, MapInv
<1>6. Shape' BY <1>1, <1>4, ZenonT(90) DEF IInv, Shape, Place
<1>7. MapInv' BY <1>1 DEF IInv, Shape, MapInv, KeyMapMatchesClusters
<1>8. TalkInv' BY <1>1, <1>2, <1>5 DEF IInv, Shape, TalkInv, Live, OnKey, NoReply, Err
<1>9. EpochInv' BY <1>1, <1>4, <1>5 DEF IInv, Shape, EpochInv, NoReply
<1>10. EpochsAdvance' BY <1>1, <1>5 DEF IInv, Shape, EpochsAdvance, NoReply
<1> QED BY <1>6, <1>7, <1>8, <1>9, <1>10 DEF IInv

\* A refused or failed cluster operation.
LEMMA ErrInv ==
    ASSUME IInv, NEW c \in Call, NEW code \in Codes,
           pc[c] \notin {"idle", "record", "done"},
           Answer(c, Err(code)), UNCHANGED keyVars,
           c \in known => code # "KeyNotFound"
    PROVE  IInv'
<1>1. Err(code) \in Answers /\ Err(code).kind = "err"
      /\ (code # "KeyNotFound" => Err(code) # Err("KeyNotFound"))
  BY AnswerTypes DEF Err
<1> QED BY <1>1, AnswerInv

\* A cluster operation fails with one of its errors.
LEMMA FailsInv ==
    ASSUME IInv, NEW c \in Call, pc[c] \notin {"idle", "record", "done"},
           NEW error \in {"QuorumNotMet", "ReconstructFailed"}, Fails(c, error)
    PROVE  IInv'
<1> DEFINE code == FromThresholdError[error]
<1>1. code \in {"ProviderUnavailable", "Internal"}
  BY DEF FromThresholdError
<1>2. Answer(c, Err(code)) /\ UNCHANGED keyVars
  BY DEF Fails
<1> HIDE DEF code
<1>3. code \in Codes /\ code # "KeyNotFound"
  BY <1>1 DEF Codes
<1> QED BY <1>2, <1>3, ErrInv DEF Codes

\* with_scheme: the key is looked up in the map, or not found.
LEMMA WithSchemeInv ==
    ASSUME IInv, NEW c \in Call, NEW place \in OnKey, pc[c] = "start",
           WithScheme(c, place)
    PROVE  IInv'
<1>1. CASE scheme_for(op[c].key) = "none"
  <2>1. c \notin known
    BY <1>1 DEF scheme_for, IInv, TalkInv, Live
  <2>2. Answer(c, Err("KeyNotFound")) /\ UNCHANGED keyVars
    BY <1>1 DEF WithScheme
  <2> QED BY <2>1, <2>2, ErrInv DEF Codes
<1>2. CASE scheme_for(op[c].key) # "none"
  <2>1. Live(op[c].key)
    BY <1>2 DEF scheme_for, Live
  <2>2. place \in Place \ {"idle", "record", "done", "start", "keygen"}
    BY DEF OnKey, Place
  <2>3. Goto(c, place) /\ UNCHANGED keyVars
    BY <1>2 DEF WithScheme
  <2> QED BY <2>1, <2>2, <2>3, GotoInv
<1> QED BY <1>1, <1>2

\* The steps of the engine, one case for each operation of the trait.
LEMMA EngineStepInv ==
    ASSUME IInv, NEW c \in Call, EngineStep(c)
    PROVE  IInv'
<1>1. CASE BeginDkg(c)
  BY <1>1, GotoInv DEF BeginDkg, Begins, Place, OnKey
<1>2. CASE Keygen(c)
  <2>1. ASSUME NEW error \in {"QuorumNotMet", "ReconstructFailed"}, Fails(c, error)
        PROVE  IInv'
    BY <1>2, <2>1, FailsInv DEF Keygen
  <2> QED BY <1>2, <2>1, PublishInv DEF Keygen
<1>3. CASE RecordKey(c)
  BY <1>3, RecordInv
<1>4. CASE BeginRotate(c)
  BY <1>4, WithSchemeInv DEF BeginRotate, Begins, OnKey
<1>5. CASE Refresh(c)
  <2>1. op[c].key \in published[keys[op[c].key]]
    BY <1>5, LiveIsPublished DEF Refresh, IInv, TalkInv, OnKey
  <2>2. CASE Fails(c, "QuorumNotMet")
    BY <1>5, <2>2, FailsInv DEF Refresh
  <2> QED BY <1>5, <2>1, <2>2, BumpInv DEF Refresh
<1>6. CASE BeginMetadata(c)
  BY <1>6, WithSchemeInv DEF BeginMetadata, Begins, OnKey
<1>7. CASE ReadMetadata(c)
  <2>1. pc[c] \in OnKey /\ Live(op[c].key) /\ epoch[op[c].key] \in Nat
    BY <1>7 DEF ReadMetadata, IInv, TalkInv, OnKey, Live, Shape
  <2>2. op[c].key \in published[keys[op[c].key]]
    BY <2>1, LiveIsPublished
  <2>3. CASE pc[c] = "public_key"
    BY <1>7, <2>1, <2>2, <2>3, GotoInv DEF ReadMetadata, Place
  <2>4. CASE pc[c] = "epoch"
    <3>1. [kind |-> "metadata", epoch |-> epoch[op[c].key]] \in Answers
      BY <2>1, AnswerTypes, ZenonT(90)
    <3> QED BY <1>7, <2>1, <2>4, <3>1, AnswerInv DEF ReadMetadata, Err
  <2> QED BY <1>7, <2>3, <2>4 DEF ReadMetadata
<1>8. CASE RestoreShare(c)
  <2>1. c \in known => scheme_for(op[c].key) # "none"
    BY DEF IInv, TalkInv, Live, scheme_for
  <2>2. CASE ~op[c].proof
    <3>1. Answer(c, Err("Denied")) /\ UNCHANGED keyVars /\ pc[c] = "start"
      BY <1>8, <2>2 DEF RestoreShare, Begins
    <3> QED BY <3>1, ErrInv DEF Codes
  <2>3. CASE op[c].proof /\ scheme_for(op[c].key) = "none"
    <3>1. Answer(c, Err("KeyNotFound")) /\ UNCHANGED keyVars /\ pc[c] = "start"
      BY <1>8, <2>3 DEF RestoreShare, Begins
    <3> QED BY <2>1, <2>3, <3>1, ErrInv DEF Codes
  <2>4. CASE op[c].proof /\ scheme_for(op[c].key) # "none"
    BY <1>8, <2>4, AnswerTypes, AnswerInv DEF RestoreShare, Begins, Err
  <2> QED BY <2>2, <2>3, <2>4
<1>9. CASE BeginSign(c)
  <2>1. CASE scheme_for(op[c].key) \notin {"none", scheme(op[c].chain)}
    <3>1. Answer(c, Err("Denied")) /\ UNCHANGED keyVars /\ pc[c] = "start"
      BY <1>9, <2>1 DEF BeginSign, Begins
    <3> QED BY <3>1, ErrInv DEF Codes
  <2>2. CASE scheme_for(op[c].key) \in {"none", scheme(op[c].chain)}
    BY <1>9, <2>2, WithSchemeInv DEF BeginSign, Begins, OnKey
  <2> QED BY <2>1, <2>2
<1>10. CASE Sign(c)
  <2>1. op[c].key \in published[keys[op[c].key]]
    BY <1>10, LiveIsPublished DEF Sign, IInv, TalkInv, OnKey
  <2>2. ASSUME NEW error \in {"QuorumNotMet", "ReconstructFailed"}, Fails(c, error)
        PROVE  IInv'
    BY <1>10, <2>2, FailsInv DEF Sign
  <2>3. CASE Answer(c, [kind |-> "signed"]) /\ UNCHANGED keyVars
    BY <1>10, <2>3, AnswerTypes, AnswerInv DEF Sign, Err
  <2> QED BY <1>10, <2>1, <2>2, <2>3 DEF Sign
<1> QED BY <1>1, <1>2, <1>3, <1>4, <1>5, <1>6, <1>7, <1>8, <1>9, <1>10 DEF EngineStep

\* The steps of a call, with the checks its handler makes first.
LEMMA CallStepInv ==
    ASSUME IInv, NEW c \in Call, Step(c)
    PROVE  IInv'
<1>1. CASE Rejects(c)
  <2>1. Answer(c, Err("InvalidArgument")) /\ UNCHANGED keyVars /\ pc[c] = "start"
    BY <1>1 DEF Rejects
  <2> QED BY <2>1, ErrInv DEF Codes
<1>2. CASE CustodyStep(c)
  <2>1. CASE pc[c] = "start"
    BY <1>2, <2>1, GotoInv DEF CustodyStep, Place, OnKey
  <2>2. CASE Answer(c, [kind |-> "custody"]) /\ pc[c] = "provider"
    BY <1>2, <2>2, AnswerTypes, AnswerInv DEF CustodyStep, Err
  <2>3. CASE Answer(c, Err("ProviderUnavailable")) /\ pc[c] = "provider"
    <3>1. UNCHANGED keyVars
      BY <1>2 DEF CustodyStep
    <3> QED BY <2>3, <3>1, ErrInv DEF Codes
  <2> QED BY <1>2, <2>1, <2>2, <2>3 DEF CustodyStep
<1> QED BY <1>1, <1>2, EngineStepInv DEF Step

\* The future of a call is dropped at an await.
LEMMA DropInv ==
    ASSUME IInv, NEW c \in Call, DropCall(c)
    PROVE  IInv'
BY GotoInv DEF DropCall, AwaitsRound, Place, OnKey

\* Start-up, signals and the end of the process.
LEMMA ProcessInv ==
    ASSUME IInv, NEW ACTION step, ProcessStep(step)
    PROVE  IInv'
<1>1. CASE main' = "exited"
  BY <1>1, LostInv DEF ProcessStep
<1>2. CASE UNCHANGED engineVars
  BY <1>2 DEF engineVars, callVars, keyVars, IInv, Shape, MapInv, TalkInv, EpochInv,
              EpochsAdvance, KeyMapMatchesClusters, Live
<1> QED BY <1>1, <1>2 DEF ProcessStep

\* Every step of Next is one of these.
LEMMA NextInv ==
    ASSUME IInv, [Next]_vars
    PROVE  IInv'
<1>1. CASE UNCHANGED vars
  BY <1>1 DEF vars, engineVars, callVars, keyVars, IInv, Shape, MapInv, TalkInv,
              EpochInv, EpochsAdvance, KeyMapMatchesClusters, Live
<1>2. ASSUME NEW c \in Call, NEW q \in Operation[c], Invoke(c, q) PROVE IInv'
  BY <1>2, InvokeInv
<1>3. ASSUME NEW c \in Call, Step(c) PROVE IInv'
  BY <1>3, CallStepInv
<1>4. ASSUME NEW c \in Call, DropCall(c) PROVE IInv'
  BY <1>4, DropInv
<1>5. CASE ProcessStep(Main(InFlight)) BY <1>5, ProcessInv
<1>6. CASE ProcessStep(HttpTask) BY <1>6, ProcessInv
<1>7. CASE ProcessStep(Signal) BY <1>7, ProcessInv
<1>8. CASE ProcessStep(Crash) BY <1>8, ProcessInv
<1>9. CASE ProcessStep(Start) BY <1>9, ProcessInv
<1>10. CASE ProcessStep(Clients) BY <1>10, ProcessInv
<1> QED
  BY <1>1, <1>2, <1>3, <1>4, <1>5, <1>6, <1>7, <1>8, <1>9, <1>10 DEF Next

\* The strengthened invariant holds in every reachable state of the service.
THEOREM Inductive == Spec => []IInv
<1>1. Init => IInv BY InitInv DEF Init
<1>2. IInv /\ [Next]_vars => IInv' BY NextInv
<1> QED BY <1>1, <1>2, PTL DEF Spec

\* ThresholdEngine's key map and the clusters' maps agree, for any number of
\* concurrent dkg, rotate_key, restore and metadata calls and any restarts.
THEOREM KeyMapAgrees == Spec => []KeyMapMatchesClusters
<1>1. IInv => KeyMapMatchesClusters BY DEF IInv, MapInv
<1> QED BY <1>1, Inductive, PTL

\* A key the service has reported is found by every later call of the same
\* process: with_scheme never misses it.
THEOREM KnownKeys == Spec => []KnownKeyIsFound
<1>1. IInv => KnownKeyIsFound BY DEF IInv, TalkInv, KnownKeyIsFound, Shape
<1> QED BY <1>1, Inductive, PTL

\* rotate_key and get_key_metadata never show a caller an epoch older than one
\* it could know of, and no two rotations of a key report the same epoch.
THEOREM EpochOrder == Spec => []EpochsAdvance
<1>1. IInv => EpochsAdvance BY DEF IInv
<1> QED BY <1>1, Inductive, PTL
-----------------------------------------------------------------------------
(* Start-up.                                                               *)

Engines == {"none", "in_house", "fireblocks", "dfns", "turnkey"}

\* What main builds, as far as it has got.
BuiltType ==
    service \in [verifier : BOOLEAN, wallet : BOOLEAN, sink : BOOLEAN,
                 tls : BOOLEAN, engine : Engines]

\* A process that has ended serves nothing.
LEMMA EndStage == ASSUME End PROVE BuiltType'
BY DEF End, BuiltType, NoService, Engines

\* The stages of main.
LEMMA StageMain ==
    ASSUME BuiltType, NEW calls, Main(calls)
    PROVE  BuiltType'
<1>2. CASE BuildVerifier
  BY <1>2, EndStage, ZenonT(90) DEF BuildVerifier, Stage, Continue, BuiltType
<1>3. CASE BuildWallet
  BY <1>3, EndStage, ZenonT(90) DEF BuildWallet, Stage, Continue, BuiltType
<1>4. CASE BuildEngine
  <2>1. from_env(env).custody_provider \in Engines
    BY DEF from_env, parse, Engines
  <2> QED BY <1>4, <2>1, EndStage DEF BuildEngine, Stage, Continue, BuiltType
<1>5. CASE BuildAudit
  BY <1>5, EndStage, ZenonT(90) DEF BuildAudit, Stage, Continue, BuiltType
<1>6. CASE BindHttp
  BY <1>6, EndStage DEF BindHttp, BuiltType
<1>7. CASE LoadTls
  BY <1>7, EndStage, ZenonT(90) DEF LoadTls, Stage, Continue, BuiltType
<1>8. CASE BindGrpc
  BY <1>8, EndStage DEF BindGrpc, Continue, BuiltType
<1>9. CASE Drained(calls)
  BY <1>9, EndStage DEF Drained
<1> QED BY <1>2, <1>3, <1>4, <1>5, <1>6, <1>7, <1>8, <1>9 DEF Main

\* Calls and signals leave what was built alone.
LEMMA StageNext ==
    ASSUME BuiltType, [Next]_vars
    PROVE  BuiltType'
<1>1. CASE UNCHANGED processVars
  BY <1>1 DEF processVars, BuiltType
<1>2. CASE Main(InFlight)
  BY <1>2, StageMain
<1>3. CASE HttpTask
  BY <1>3 DEF HttpTask, BuiltType
<1>4. CASE Signal
  BY <1>4, EndStage DEF Signal, BuiltType
<1>5. CASE Crash
  BY <1>5, EndStage DEF Crash
<1>6. CASE Start
  BY <1>6 DEF Start, BuiltType
<1>7. CASE Clients
  BY <1>7 DEF Clients, BuiltType
<1>8. ASSUME NEW c \in Call, (\E q \in Operation[c] : Invoke(c, q)) \/ Step(c) \/ DropCall(c)
      PROVE  UNCHANGED processVars
  BY <1>8 DEF Invoke, Step, DropCall
<1> QED
  BY <1>1, <1>2, <1>3, <1>4, <1>5, <1>6, <1>7, <1>8 DEF Next, ProcessStep, vars
-----------------------------------------------------------------------------
(* Types.  The bound on a key's epoch is a count: one for its dkg and one  *)
(* for every call that was answered with a rotation of it.                 *)

Rotations(k) == {c \in Call : reply[c].kind = "rotated" /\ op[c].key = k}

CountInv ==
    /\ \A c \in Call : pc[c] = "done" => reply[c] # NoReply
    /\ \A k \in Call : keys[k] # "none" => pc[k] = "done"
    /\ \A k \in Call : epoch[k] <= Cardinality({k} \cup Rotations(k))

\* A call goes on: of the epochs, at most that of its own key is set.
Moves(c, place) ==
    /\ pc[c] # "done" /\ place # "done"
    /\ pc' = [pc EXCEPT ![c] = place]
    /\ reply' = reply /\ keys' = keys
    /\ \A d \in Call \ {c} : op'[d] = op[d]
    /\ epoch' = epoch \/ epoch' = [epoch EXCEPT ![c] = 1]

\* A call is answered: an epoch is raised only by one told of the rotation.
Told(c, r) ==
    /\ pc[c] # "done" /\ r # NoReply
    /\ pc' = [pc EXCEPT ![c] = "done"]
    /\ reply' = [reply EXCEPT ![c] = r]
    /\ op' = op
    /\ keys' = keys \/ keys' = [keys EXCEPT ![c] = scheme(op[c].chain)]
    /\ \/ epoch' = epoch
       \/ /\ r.kind = "rotated" /\ Live(op[c].key)
          /\ epoch' = [epoch EXCEPT ![op[c].key] = @ + 1]

\* The steps of the engine are of these two kinds.
LEMMA EngineStepKinds ==
    ASSUME IInv, NEW c \in Call, EngineStep(c)
    PROVE  (\E place : Moves(c, place)) \/ (\E r : Told(c, r))
<1> USE DEF keyVars
<1>1. ASSUME NEW place, place # "done", pc[c] # "done", Goto(c, place),
             UNCHANGED keyVars
      PROVE  Moves(c, place)
  BY <1>1 DEF Goto, Moves
<1>2. ASSUME NEW r, r # NoReply, pc[c] # "done", Answer(c, r), UNCHANGED keyVars
      PROVE  Told(c, r)
  BY <1>2 DEF Answer, Told
<1>3. \A code : Err(code) # NoReply
  BY DEF Err, NoReply
<1>4. ASSUME NEW error, pc[c] # "done", Fails(c, error)
      PROVE  \E r : Told(c, r)
  BY <1>2, <1>3, <1>4 DEF Fails
<1>5. ASSUME NEW place, place # "done", pc[c] # "done", WithScheme(c, place)
      PROVE  (\E p : Moves(c, p)) \/ (\E r : Told(c, r))
  BY <1>1, <1>2, <1>3, <1>5 DEF WithScheme
<1>6. CASE BeginDkg(c)
  BY <1>1, <1>6 DEF BeginDkg, Begins
<1>7. CASE Keygen(c)
  <2>1. ASSUME NEW s, epoch' = [epoch EXCEPT ![c] = 1], keys' = keys,
               Goto(c, "record")
        PROVE  Moves(c, "record")
    BY <1>7, <2>1 DEF Keygen, Goto, Moves
  <2> QED BY <1>4, <1>7, <2>1 DEF Keygen
<1>8. CASE RecordKey(c)
  BY <1>8, ZenonT(90) DEF RecordKey, Answer, Told, NoReply
<1>9. CASE BeginRotate(c) \/ BeginMetadata(c)
  BY <1>5, <1>9 DEF BeginRotate, BeginMetadata, Begins
<1>10. CASE Refresh(c)
  <2>1. CASE \E error : Fails(c, error)
    BY <1>4, <1>10, <2>1 DEF Refresh
  <2>2. Live(op[c].key)
    BY <1>10 DEF Refresh, IInv, TalkInv, OnKey
  <2>3. ASSUME NEW e, epoch' = [epoch EXCEPT ![op[c].key] = @ + 1],
               Answer(c, [kind |-> "rotated", epoch |-> e]), keys' = keys
        PROVE  Told(c, [kind |-> "rotated", epoch |-> e])
    BY <1>10, <2>2, <2>3 DEF Refresh, Answer, Told, NoReply
  <2> QED BY <1>10, <2>1, <2>3 DEF Refresh
<1>11. CASE ReadMetadata(c)
  <2>1. CASE pc[c] = "public_key"
    BY <1>1, <1>2, <1>3, <1>11, <2>1 DEF ReadMetadata
  <2>2. CASE pc[c] = "epoch"
    BY <1>2, <1>11, <2>2 DEF ReadMetadata, NoReply
  <2> QED BY <1>11, <2>1, <2>2 DEF ReadMetadata
<1>12. CASE RestoreShare(c)
  <2>1. [kind |-> "restored"] # NoReply
    BY DEF NoReply
  <2> QED BY <1>2, <1>3, <1>12, <2>1 DEF RestoreShare, Begins
<1>13. CASE BeginSign(c)
  BY <1>2, <1>3, <1>5, <1>13 DEF BeginSign, Begins
<1>14. CASE Sign(c)
  BY <1>2, <1>4, <1>14 DEF Sign, NoReply
<1> QED
  BY <1>6, <1>7, <1>8, <1>9, <1>10, <1>11, <1>12, <1>13, <1>14 DEF EngineStep

\* So are those of the handler and of its caller.
LEMMA CallStepKinds ==
    ASSUME IInv, NEW c \in Call,
           (\E q : Invoke(c, q)) \/ Step(c) \/ DropCall(c)
    PROVE  (\E place : Moves(c, place)) \/ (\E r : Told(c, r))
<1> USE DEF keyVars
<1>1. ASSUME NEW q, Invoke(c, q)
      PROVE  Moves(c, "start")
  BY <1>1 DEF Invoke, Moves, IInv, Shape
<1>2. CASE Rejects(c)
  BY <1>2, ZenonT(90) DEF Rejects, Answer, Told, Err, NoReply
<1>3. CASE CustodyStep(c)
  <2>1. CASE pc[c] = "start"
    BY <1>3, <2>1 DEF CustodyStep, Goto, Moves
  <2>2. CASE pc[c] = "provider"
    BY <1>3, <2>2 DEF CustodyStep, Answer, Told, Err, NoReply
  <2> QED BY <1>3, <2>1, <2>2 DEF CustodyStep
<1>4. CASE DropCall(c)
  BY <1>4, ZenonT(90) DEF DropCall, AwaitsRound, Goto, Moves
<1> QED BY <1>1, <1>2, <1>3, <1>4, EngineStepKinds DEF Step

\* One rotation more is one element more.
LEMMA OneMoreCounted ==
    ASSUME NEW S \in SUBSET Call, NEW c \in Call \ S
    PROVE  /\ Cardinality(S) \in Nat
           /\ Cardinality(S \cup {c}) = Cardinality(S) + 1
<1>1. IsFiniteSet(S)
  BY FiniteCalls, FS_Subset
<1> QED BY <1>1, FS_AddElement, FS_CardinalityType

\* A key's dkg alone counts one.
LEMMA CountsOne ==
    ASSUME NEW k \in Call, NEW S \in SUBSET Call
    PROVE  Cardinality({k} \cup S) \in Nat /\ 1 <= Cardinality({k} \cup S)
<1>1. IsFiniteSet({k} \cup S)
  <2>1. {k} \cup S \subseteq Call
    OBVIOUS
  <2> QED BY <2>1, FiniteCalls, FS_Subset
<1>2. Cardinality({k} \cup S) \in Nat /\ Cardinality({k} \cup S) # 0
  BY <1>1, FS_CardinalityType, FS_EmptySet
<1> QED BY <1>2

\* A call that goes on keeps the count.
LEMMA MovesKeepsCount ==
    ASSUME IInv, CountInv, NEW c \in Call, NEW place, Moves(c, place)
    PROVE  CountInv'
<1>1. reply[c] = NoReply /\ keys[c] = "none"
  BY DEF Moves, IInv, TalkInv, CountInv, Shape
<1>2. \A k \in Call : Rotations(k)' = Rotations(k)
  BY <1>1 DEF Rotations, Moves, NoReply
<1>3. \A k \in Call : (epoch[k] <= Cardinality({k} \cup Rotations(k)))'
  <2> SUFFICES ASSUME NEW k \in Call
               PROVE  epoch'[k] <= Cardinality({k} \cup Rotations(k))
    BY <1>2
  <2>1. epoch'[k] = epoch[k] \/ epoch'[k] = 1
    BY DEF Moves, IInv, Shape
  <2>2. Rotations(k) \in SUBSET Call
    BY DEF Rotations
  <2>3. 1 <= Cardinality({k} \cup Rotations(k))
    BY <2>2, CountsOne
  <2> QED BY <2>1, <2>3 DEF CountInv
<1>4. /\ \A d \in Call : pc'[d] = "done" => reply'[d] # NoReply
      /\ \A k \in Call : keys'[k] # "none" => pc'[k] = "done"
  BY <1>1 DEF Moves, CountInv, IInv, Shape
<1> QED BY <1>3, <1>4 DEF CountInv

\* A call that is answered with a rotation is counted with it.
LEMMA ToldKeepsCount ==
    ASSUME IInv, CountInv, NEW c \in Call, NEW r, Told(c, r)
    PROVE  CountInv'
<1>1. reply[c] = NoReply /\ keys[c] = "none"
  BY DEF Told, IInv, TalkInv, CountInv, Shape
<1>2. /\ \A d \in Call : pc'[d] = "done" => reply'[d] # NoReply
      /\ \A k \in Call : keys'[k] # "none" => pc'[k] = "done"
  BY <1>1 DEF Told, CountInv, IInv, Shape
<1>3. ASSUME NEW k \in Call
      PROVE  (epoch[k] <= Cardinality({k} \cup Rotations(k)))'
  <2> DEFINE Old == {k} \cup Rotations(k)
             New == {k} \cup {d \in Call : reply'[d].kind = "rotated" /\ op'[d].key = k}
  <2>1. /\ Old \in SUBSET Call /\ c \notin Rotations(k)
        /\ New = Old \/ New = Old \cup {c}
        /\ r.kind = "rotated" /\ op[c].key = k => New = Old \cup {c}
    BY <1>1 DEF Rotations, Told, IInv, Shape, NoReply
  <2>2. epoch[k] \in Nat /\ epoch[k] <= Cardinality(Old)
    BY DEF CountInv, IInv, Shape
  <2>3. Cardinality(Old) \in Nat
    BY <2>1, FiniteCalls, FS_Subset, FS_CardinalityType
  <2>4. c \notin Old => Cardinality(Old \cup {c}) = Cardinality(Old) + 1
    BY <2>1, OneMoreCounted
  <2>5. \/ epoch'[k] = epoch[k]
        \/ /\ r.kind = "rotated" /\ op[c].key = k /\ c # k
           /\ epoch'[k] = epoch[k] + 1
    BY DEF Told, IInv, Shape, CountInv, Live
  <2>6. c # k => c \notin Old
    BY <2>1
  <2>7. c \in Old => Old \cup {c} = Old
    OBVIOUS
  <2> HIDE DEF Old, New
  <2>8. epoch'[k] <= Cardinality(New)
    <3>1. CASE c \in Old
      BY <2>1, <2>2, <2>3, <2>5, <2>6, <2>7, <3>1
    <3>2. CASE New = Old \cup {c} /\ c \notin Old
      <4>1. Cardinality(New) = Cardinality(Old) + 1
        BY <2>4, <3>2
      <4> QED BY <2>2, <2>3, <2>5, <4>1
    <3>3. CASE New = Old /\ c \notin Old
      <4>1. epoch'[k] = epoch[k]
        BY <2>1, <2>5, <3>3
      <4> QED BY <2>2, <3>3, <4>1
    <3> QED BY <2>1, <3>1, <3>2, <3>3
  <2> QED BY <2>8 DEF New, Rotations
<1> QED BY <1>2, <1>3 DEF CountInv

\* Every step keeps the count.
LEMMA CountStep ==
    ASSUME IInv, CountInv, [Next]_vars
    PROVE  CountInv'
<1>1. CASE UNCHANGED engineVars
  BY <1>1 DEF engineVars, callVars, keyVars, CountInv, Rotations
<1>2. CASE EngineLost
  <2>1. \A k \in Call : 0 <= Cardinality({k} \cup Rotations(k)')
    BY CountsOne DEF Rotations
  <2>2. \A k \in Call : epoch'[k] = 0 /\ pc'[k] = "idle" /\ keys'[k] = "none"
    BY <1>2 DEF EngineLost
  <2> QED BY <2>1, <2>2 DEF CountInv
<1>3. ASSUME NEW c \in Call, (\E q : Invoke(c, q)) \/ Step(c) \/ DropCall(c)
      PROVE  CountInv'
  BY <1>3, CallStepKinds, MovesKeepsCount, ToldKeepsCount
<1> QED BY <1>1, <1>2, <1>3 DEF Next, ProcessStep, vars

\* main, the HTTP task and the clients are where they can be.
ProcessType ==
    /\ env \in Environment
    /\ main \in {"verifier", "wallet", "engine", "audit", "http", "tls", "bind",
                 "serving", "draining", "exited"}
    /\ http \in {"none", "spawned", "listening", "draining", "down"}
    /\ peers \in BOOLEAN

\* Every stage of main, the HTTP task and signals keep to these places.
LEMMA ProcessTypeStep ==
    ASSUME ProcessType, [Next]_vars
    PROVE  ProcessType'
<1>1. CASE UNCHANGED processVars
  BY <1>1 DEF processVars, ProcessType
<1>2. CASE End
  BY ZenonT(60), <1>2 DEF End, ProcessType
<1>3. CASE Main(InFlight)
  BY ZenonT(90), <1>2, <1>3
     DEF Main, BuildVerifier, BuildWallet, BuildEngine, BuildAudit, BindHttp,
         LoadTls, BindGrpc, Drained, Stage, Continue, ProcessType
<1>4. CASE HttpTask
  BY <1>4 DEF HttpTask, ProcessType
<1>5. CASE Signal
  BY <1>2, <1>5 DEF Signal, ProcessType
<1>6. CASE Start
  BY <1>6 DEF Start, ProcessType
<1>7. CASE Clients
  BY ZenonT(60), <1>7 DEF Clients, ProcessType
<1>8. ASSUME NEW c \in Call, (\E q \in Operation[c] : Invoke(c, q)) \/ Step(c) \/ DropCall(c)
      PROVE  UNCHANGED processVars
  BY <1>8 DEF Invoke, Step, DropCall
<1> QED
  BY <1>1, <1>2, <1>3, <1>4, <1>5, <1>6, <1>7, <1>8
     DEF Next, ProcessStep, Crash, vars

\* The service keeps its types for any finite set of calls; in particular a
\* key's epoch never exceeds the number of calls, because each rotation that
\* raises it is the answer of one call and the key's own dkg is another.
THEOREM ServiceTypeCorrect == Spec => []TypeOK
<1>1. Init => CountInv /\ ProcessType
  <2> SUFFICES ASSUME Init PROVE CountInv /\ ProcessType
    OBVIOUS
  <2>1. \A k \in Call : 0 <= Cardinality({k} \cup Rotations(k))
    BY CountsOne DEF Rotations
  <2>2. \A k \in Call : epoch[k] = 0 /\ pc[k] = "idle" /\ keys[k] = "none"
    BY DEF Init, EngineInit
  <2>3. CountInv
    BY <2>1, <2>2 DEF CountInv
  <2> QED BY ZenonT(60), <2>3 DEF Init, StartupInit, ProcessType
<1>2. Init => BuiltType
  BY DEF Init, StartupInit, BuiltType, NoService, Engines
<1>3. IInv /\ CountInv /\ ProcessType /\ BuiltType => TypeOK
  <2> SUFFICES ASSUME IInv, CountInv, ProcessType, BuiltType PROVE TypeOK
    OBVIOUS
  <2>1. epoch \in [Call -> 0..Cardinality(Call)]
    <3> SUFFICES ASSUME NEW k \in Call PROVE epoch[k] \in 0..Cardinality(Call)
      BY DEF IInv, Shape
    <3>1. {k} \cup Rotations(k) \subseteq Call
      BY DEF Rotations
    <3>2. /\ Cardinality({k} \cup Rotations(k)) <= Cardinality(Call)
          /\ Cardinality({k} \cup Rotations(k)) \in Nat
      BY <3>1, FiniteCalls, FS_Subset, FS_CardinalityType
    <3>3. Cardinality(Call) \in Nat
      BY FiniteCalls, FS_CardinalityType
    <3> QED BY <3>2, <3>3 DEF CountInv, IInv, Shape
  <2>2. \A c \in Call : (pc[c] = "done") <=> (reply[c] # NoReply)
    BY DEF IInv, TalkInv, CountInv
  <2> QED BY <2>1, <2>2 DEF TypeOK, IInv, Shape, ProcessType, BuiltType, Engines
<1> QED
  BY <1>1, <1>2, <1>3, Inductive, CountStep, ProcessTypeStep, StageNext, PTL
     DEF Spec
==============================================================================
