---------------------------- MODULE AuditEmitter ----------------------------
(***************************************************************************)
(* The asynchronous audit path (src/audit.rs): handlers hand signed        *)
(* records to emit, which puts them on a bounded channel or drops them; one*)
(* background task takes them off in order and hands each to the sink with *)
(* a bounded number of retries.                                            *)
(*                                                                         *)
(* The sink is a Kafka producer that resends on its own, without           *)
(* idempotence, to a topic whose partitions have no common order.  A send  *)
(* may therefore reach the log at any time after it was made, more than    *)
(* once, and even when deliver returned an error or the process is gone:   *)
(* the log is a set that any send may enter later, and only Ok says that a *)
(* record is in it.  What the service itself decides is its sequence of    *)
(* sends.  Everything but the log lives in memory.                         *)
(***************************************************************************)
EXTENDS Naturals, Sequences, FiniteSets, SequencesExt

CONSTANTS
    Session,   \* signing sessions; each gives rise to at most one record
    Capacity,  \* slots of the channel (1024 in the code)
    Retries,   \* deliveries tried again after the first (3 in the code)
    Sinks      \* which of "a sink is configured" to explore, a set of BOOLEAN

ASSUME EmitterParams ==
    /\ Capacity \in Nat \ {0}
    /\ Retries \in Nat
    /\ Sinks \subseteq BOOLEAN

AuditResult == {"Signed", "Denied", "Failed"}
AuditRecord == [session : Session, result : AuditResult]

VARIABLES
    sink,      \* a sink is configured
    queue,     \* records in the channel, oldest first
    current,   \* the record being delivered, as a sequence of length 0 or 1
    attempt,   \* the delivery loop's counter
    topic,     \* external: the records that are in the audit.v1 log
    sends,     \* history: the record of each call of deliver, in order
    emitted,   \* history: every record handed to emit, in order
    lost       \* history: records the service has given up on

emitterVars == <<sink, queue, current, attempt, topic, sends, emitted, lost>>

EmitterTypeOK ==
    /\ sink \in BOOLEAN
    /\ queue \in Seq(AuditRecord) /\ Len(queue) <= Capacity
    /\ current \in Seq(AuditRecord) /\ Len(current) <= 1
    /\ attempt \in 0..Retries
    /\ topic \subseteq AuditRecord
    /\ sends \in Seq(AuditRecord)
    /\ emitted \in Seq(AuditRecord)
    /\ lost \subseteq AuditRecord

EmitterInit ==
    /\ sink \in Sinks
    /\ queue = <<>>
    /\ current = <<>>
    /\ attempt = 0
    /\ topic = {}
    /\ sends = <<>>
    /\ emitted = <<>>
    /\ lost = {}

-----------------------------------------------------------------------------
\* Mutant: the channel takes one record too many.
EmitOver(rec) ==
    /\ emitted' = Append(emitted, rec)
    /\ IF Len(queue) <= Capacity
       THEN queue' = Append(queue, rec) /\ UNCHANGED lost
       ELSE lost' = lost \cup {rec} /\ UNCHANGED queue
    /\ UNCHANGED <<sink, current, attempt, topic, sends>>

\* AuditEmitter::emit: try_send, which never blocks the caller.
Emit(rec) ==
    /\ emitted' = Append(emitted, rec)
    /\ IF Len(queue) < Capacity
       THEN queue' = Append(queue, rec) /\ UNCHANGED lost
       ELSE lost' = lost \cup {rec} /\ UNCHANGED queue
    /\ UNCHANGED <<sink, current, attempt, topic, sends>>

\* Mutant: the next record is taken before the delivery of the last has ended.
ReceiveEager ==
    /\ queue # <<>>
    /\ queue' = Tail(queue)
    /\ attempt' = 0
    /\ current' = <<Head(queue)>>
    /\ sends' = Append(sends, Head(queue))
    /\ UNCHANGED <<sink, topic, emitted, lost>>

\* rx.recv(), and the first call of deliver; without a sink the record is
\* logged and forgotten.
Receive ==
    /\ current = <<>>
    /\ queue # <<>>
    /\ queue' = Tail(queue)
    /\ attempt' = 0
    /\ IF sink
       THEN /\ current' = <<Head(queue)>>
            /\ sends' = Append(sends, Head(queue))
            /\ UNCHANGED lost
       ELSE lost' = lost \cup {Head(queue)} /\ UNCHANGED <<current, sends>>
    /\ UNCHANGED <<sink, topic, emitted>>

\* The broker has acknowledged the record.
DeliverOk ==
    /\ current # <<>>
    /\ topic' = topic \cup {Head(current)}
    /\ current' = <<>>
    /\ UNCHANGED <<sink, queue, attempt, sends, emitted, lost>>

\* Mutant: one retry too many.
DeliverErrOnceMore ==
    /\ current # <<>>
    /\ IF attempt <= Retries
       THEN /\ attempt' = attempt + 1
            /\ sends' = Append(sends, Head(current))
            /\ UNCHANGED <<current, lost>>
       ELSE /\ current' = <<>>
            /\ lost' = lost \cup {Head(current)}
            /\ UNCHANGED <<attempt, sends>>
    /\ UNCHANGED <<sink, queue, topic, emitted>>

\* Mutant: a record that fails lets the ones behind it go first.
DeliverErrRequeues ==
    /\ current # <<>>
    /\ IF attempt < Retries
       THEN /\ attempt' = attempt + 1
            /\ current' = <<Head(queue \o current)>>
            /\ sends' = Append(sends, Head(queue \o current))
            /\ queue' = Tail(queue \o current)
            /\ UNCHANGED lost
       ELSE /\ current' = <<>>
            /\ lost' = lost \cup {Head(current)}
            /\ UNCHANGED <<attempt, queue, sends>>
    /\ UNCHANGED <<sink, topic, emitted>>

\* Mutant: delivery is tried until it succeeds.
DeliverErrForEver ==
    /\ current # <<>>
    /\ attempt' = (attempt + 1) % (Retries + 1)
    /\ UNCHANGED <<sink, queue, current, topic, sends, emitted, lost>>

\* deliver returned an error, which says nothing about the log: the record is
\* sent again after a pause, or dropped after the last attempt.
DeliverErr ==
    /\ current # <<>>
    /\ IF attempt < Retries
       THEN /\ attempt' = attempt + 1
            /\ sends' = Append(sends, Head(current))
            /\ UNCHANGED <<current, lost>>
       ELSE /\ current' = <<>>
            /\ lost' = lost \cup {Head(current)}
            /\ UNCHANGED <<attempt, sends>>
    /\ UNCHANGED <<sink, queue, topic, emitted>>

Worker == Receive \/ DeliverOk \/ DeliverErr

\* External: the broker stores a record that was sent to it, at any time.
BrokerStores ==
    /\ \E rec \in ToSet(sends) \ topic : topic' = topic \cup {rec}
    /\ UNCHANGED <<sink, queue, current, attempt, sends, emitted, lost>>

\* The process ends, cleanly or not: main does not drain the channel.
EmitterCrash ==
    /\ lost' = lost \cup ToSet(queue) \cup ToSet(current)
    /\ queue' = <<>>
    /\ current' = <<>>
    /\ attempt' = 0
    /\ UNCHANGED <<sink, topic, sends, emitted>>

-----------------------------------------------------------------------------
(* The emitter on its own: each session emits its one record at any time.  *)

EmitOnce ==
    \E rec \in AuditRecord :
        /\ \A i \in DOMAIN emitted : emitted[i].session # rec.session
        /\ Emit(rec)

EmitterNext == EmitOnce \/ Worker \/ BrokerStores \/ EmitterCrash

\* The background task is scheduled by the runtime and each delivery is
\* bounded by the producer's five-second timeout.  Nothing is asked of the
\* broker.
EmitterSpec ==
    EmitterInit /\ [][EmitterNext]_emitterVars /\ WF_emitterVars(Worker)

-----------------------------------------------------------------------------
(* Correctness.                                                            *)

Pending == ToSet(queue) \cup ToSet(current)

\* No record disappears without a trace: what was handed to emit is still
\* pending, is in the log, or was given up with a log line (full channel,
\* retries exhausted, no sink) or with the process.
RecordsAccounted ==
    ToSet(emitted) \subseteq Pending \cup topic \cup lost

\* The service adds a bounded number of duplicates of its own: it hands a
\* record to the producer at most Retries + 1 times, over all crashes and
\* late acknowledgements, and only a record a handler emitted is ever sent or
\* found in the log.
BoundedSends ==
    /\ topic \subseteq ToSet(sends)
    /\ \A rec \in ToSet(sends) :
           /\ rec \in ToSet(emitted)
           /\ Cardinality({i \in DOMAIN sends : sends[i] = rec}) <= Retries + 1

\* The service never sends a record before one emitted earlier: a failing
\* delivery holds back the records behind it, and once a later record has
\* been sent an earlier one is not sent again.
SentInOrder ==
    \A i, j \in DOMAIN sends : \A a, b \in DOMAIN emitted :
        (i < j /\ sends[i] = emitted[a] /\ sends[j] = emitted[b]) => a <= b

\* A record leaves the channel for good, even when every delivery fails: the
\* bounded retry cannot wedge the task that all sessions share.
QueueDrains ==
    \A rec \in AuditRecord : (rec \in Pending) ~> (rec \notin Pending)
=============================================================================
