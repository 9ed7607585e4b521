--------------------------- MODULE ThresholdEngine ---------------------------
(***************************************************************************)
(* The in-house engine (src/engine/threshold/mod.rs) under the handlers of *)
(* the gRPC service that reach it (src/grpc/service.rs): a map from key id *)
(* to scheme over two clusters, each with key maps of its own.  The        *)
(* clusters' rounds are in ThresholdCluster; here a cluster operation has  *)
(* a beginning, the await of its round, and an end.                        *)
(*                                                                         *)
(* A key id is fresh for every dkg, so the call names the key.             *)
(***************************************************************************)
EXTENDS Naturals, FiniteSets

CONSTANTS
    Call,       \* the calls, and the ids of the keys they create
    Operation   \* for each call, the operations it may be

\* A process serves finitely many calls in its life.
ASSUME FiniteCalls == IsFiniteSet(Call)

VARIABLES
    pc,         \* where each call is
    op,         \* its operation
    reply,      \* what it was answered
    keys,       \* ThresholdEngine.keys: the scheme of each key id
    published,  \* the keys of each scheme's cluster
    epoch,      \* their epochs
    known,      \* history: calls whose key was reported live when they began
    seen        \* history: the epoch reported by then

callVars == <<pc, op, reply, known, seen>>
keyVars == <<keys, published, epoch>>
engineVars == <<callVars, keyVars>>

Scheme == {"Ecdsa", "Eddsa"}
NoOp == [name |-> "none"]
NoReply == [kind |-> "none"]

scheme(chain) == IF chain \in {"evm", "bitcoin"} THEN "Ecdsa" ELSE "Eddsa"

EngineInit ==
    /\ pc = [c \in Call |-> "idle"]
    /\ op = [c \in Call |-> NoOp]
    /\ reply = [c \in Call |-> NoReply]
    /\ keys = [k \in Call |-> "none"]
    /\ published = [s \in Scheme |-> {}]
    /\ epoch = [k \in Call |-> 0]
    /\ known = {}
    /\ seen = [c \in Call |-> 0]

InFlight == {c \in Call : pc[c] \notin {"idle", "done", "dropped"}}

Goto(c, place) ==
    pc' = [pc EXCEPT ![c] = place] /\ UNCHANGED <<op, reply, known, seen>>

Answer(c, r) ==
    /\ pc' = [pc EXCEPT ![c] = "done"]
    /\ reply' = [reply EXCEPT ![c] = r]
    /\ UNCHANGED <<op, known, seen>>

Err(code) == [kind |-> "err", code |-> code]

FromThresholdError == [QuorumNotMet |-> "ProviderUnavailable",
                       UnknownKey |-> "KeyNotFound",
                       ReconstructFailed |-> "Internal",
                       InvalidParams |-> "Denied"]

Fails(c, error) == Answer(c, Err(FromThresholdError[error])) /\ UNCHANGED keyVars

scheme_for(k) == IF k \in Call THEN keys[k] ELSE "none"

\* The look-up every operation on an existing key begins with.
WithScheme(c, place) ==
    /\ IF scheme_for(op[c].key) = "none"
       THEN Answer(c, Err("KeyNotFound")) ELSE Goto(c, place)
    /\ UNCHANGED keyVars

-----------------------------------------------------------------------------
(* The handlers' own checks.                                               *)

Invalid(q) ==
    CASE q.name = "dkg" -> q.chain = "unspecified"
      [] q.name = "restore_share" -> q.key = "" \/ ~q.node
      [] OTHER -> q.key = ""

Rejects(c) ==
    /\ pc[c] = "start" /\ Invalid(op[c])
    /\ Answer(c, Err("InvalidArgument"))
    /\ UNCHANGED keyVars

Begins(c, name) == pc[c] = "start" /\ op[c].name = name /\ ~Invalid(op[c])

-----------------------------------------------------------------------------
(* dkg: the key is published by its cluster, then recorded by the engine.  *)

\* Mutant: the key is recorded before it exists.
BeginDkgRecorded(c) ==
    /\ Begins(c, "dkg")
    /\ Goto(c, "keygen")
    /\ keys' = [keys EXCEPT ![c] = scheme(op[c].chain)]
    /\ UNCHANGED <<published, epoch>>

BeginDkg(c) == Begins(c, "dkg") /\ Goto(c, "keygen") /\ UNCHANGED keyVars

Keygen(c) ==
    /\ pc[c] = "keygen"
    /\ \/ \E error \in {"QuorumNotMet", "ReconstructFailed"} : Fails(c, error)
       \/ LET s == scheme(op[c].chain)
          IN  /\ published' = [published EXCEPT ![s] = @ \cup {c}]
              /\ epoch' = [epoch EXCEPT ![c] = 1]
              /\ Goto(c, "record")
              /\ UNCHANGED keys

\* Mutant: the answer is sent and the record forgotten.
RecordNothing(c) ==
    /\ pc[c] = "record"
    /\ Answer(c, [kind |-> "created", epoch |-> 1])
    /\ UNCHANGED keyVars

RecordKey(c) ==
    /\ pc[c] = "record"
    /\ keys' = [keys EXCEPT ![c] = scheme(op[c].chain)]
    /\ Answer(c, [kind |-> "created", epoch |-> 1])
    /\ UNCHANGED <<published, epoch>>

(* rotate_key.                                                             *)

BeginRotate(c) == Begins(c, "rotate_key") /\ WithScheme(c, "refresh")

\* Mutant: the epoch is read before it is raised.
RefreshOldEpoch(c) ==
    LET k == op[c].key
    IN  /\ pc[c] = "refresh"
        /\ epoch' = [epoch EXCEPT ![k] = @ + 1]
        /\ Answer(c, [kind |-> "rotated", epoch |-> epoch[k]])
        /\ UNCHANGED <<keys, published>>

\* Mutant: the epoch is raised once in the cluster and once by the engine.
RefreshCountsTwice(c) ==
    LET k == op[c].key
    IN  /\ pc[c] = "refresh"
        /\ epoch' = [epoch EXCEPT ![k] = @ + 2]
        /\ Answer(c, [kind |-> "rotated", epoch |-> epoch[k] + 2])
        /\ UNCHANGED <<keys, published>>

Refresh(c) ==
    LET k == op[c].key
    IN  /\ pc[c] = "refresh"
        /\ \/ Fails(c, "QuorumNotMet")
           \/ IF k \notin published[keys[k]] THEN Fails(c, "UnknownKey")
              ELSE /\ epoch' = [epoch EXCEPT ![k] = @ + 1]
                   /\ Answer(c, [kind |-> "rotated", epoch |-> epoch[k] + 1])
                   /\ UNCHANGED <<keys, published>>

(* get_key_metadata: three look-ups under three locks.                     *)

BeginMetadata(c) == Begins(c, "get_key_metadata") /\ WithScheme(c, "public_key")

ReadMetadata(c) ==
    LET k == op[c].key
    IN  /\ \/ /\ pc[c] = "public_key"
              /\ IF k \in published[keys[k]] THEN Goto(c, "epoch")
                 ELSE Answer(c, Err("KeyNotFound"))
           \/ /\ pc[c] = "epoch"
              /\ Answer(c, [kind |-> "metadata", epoch |-> epoch[k]])
        /\ UNCHANGED keyVars

(* restore_share: nothing is moved, the cluster holds every node's share.  *)

RestoreShare(c) ==
    /\ Begins(c, "restore_share")
    /\ Answer(c, IF ~op[c].proof THEN Err("Denied")
                 ELSE IF scheme_for(op[c].key) = "none" THEN Err("KeyNotFound")
                 ELSE [kind |-> "restored"])
    /\ UNCHANGED keyVars

(* sign, as the SignTx handler calls it.                                   *)

BeginSign(c) ==
    LET s == scheme_for(op[c].key)
    IN  /\ Begins(c, "sign")
        /\ IF s \notin {"none", scheme(op[c].chain)}
           THEN Answer(c, Err("Denied")) /\ UNCHANGED keyVars
           ELSE WithScheme(c, "sign")

\* A key is never removed, so the public key read after the signature is there.
Sign(c) ==
    LET k == op[c].key
    IN  /\ pc[c] = "sign"
        /\ \/ \E error \in {"QuorumNotMet", "ReconstructFailed"} : Fails(c, error)
           \/ IF k \notin published[keys[k]] THEN Fails(c, "UnknownKey")
              ELSE Answer(c, [kind |-> "signed"]) /\ UNCHANGED keyVars

EngineStep(c) ==
    \/ BeginDkg(c) \/ Keygen(c) \/ RecordKey(c)
    \/ BeginRotate(c) \/ Refresh(c)
    \/ BeginMetadata(c) \/ ReadMetadata(c)
    \/ RestoreShare(c) \/ BeginSign(c) \/ Sign(c)

AwaitsRound(c) == pc[c] \in {"keygen", "refresh", "sign"}

\* The process has ended: its memory is gone and its calls are over, answered
\* or not.  The next process has calls of its own, under the same names.
EngineLost ==
    /\ pc' = [c \in Call |-> "idle"]
    /\ op' = [c \in Call |-> NoOp]
    /\ reply' = [c \in Call |-> NoReply]
    /\ keys' = [k \in Call |-> "none"]
    /\ published' = [s \in Scheme |-> {}]
    /\ epoch' = [k \in Call |-> 0]
    /\ known' = {}
    /\ seen' = [c \in Call |-> 0]
=============================================================================
