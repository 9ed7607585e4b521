------------------------- MODULE AuditEmitterProofs -------------------------
(***************************************************************************)
(* Proofs about the audit emitter, for any sessions, channel capacity and  *)
(* number of retries: the channel and the retry counter keep their bounds, *)
(* no record disappears without a trace, records are sent in the order of  *)
(* emission, and none is sent more often than the retries allow.           *)
(***************************************************************************)
EXTENDS AuditEmitter, SequenceTheorems, FiniteSetTheorems, TLAPS

\* SMT proves the leaves that name no other prover.
USE SMTT(60)

-----------------------------------------------------------------------------
(* The elements of a sequence.                                             *)

\* What a sequence holds after a record is added at its end.
LEMMA ToSetAppend ==
    ASSUME NEW s \in Seq(AuditRecord), NEW rec \in AuditRecord
    PROVE  ToSet(Append(s, rec)) = ToSet(s) \cup {rec}
<1>1. /\ Len(Append(s, rec)) = Len(s) + 1
      /\ \A i \in 1..Len(s) : Append(s, rec)[i] = s[i]
      /\ Append(s, rec)[Len(s) + 1] = rec
      /\ Append(s, rec) \in Seq(AuditRecord)
  OBVIOUS
<1>2. ToSet(Append(s, rec)) \subseteq ToSet(s) \cup {rec}
  BY <1>1 DEF ToSet
<1>3. ToSet(s) \cup {rec} \subseteq ToSet(Append(s, rec))
  BY <1>1 DEF ToSet
<1> QED BY <1>2, <1>3

\* A sequence holds its head and what its tail holds.
LEMMA ToSetTail ==
    ASSUME NEW s \in Seq(AuditRecord), s # <<>>
    PROVE  ToSet(s) = ToSet(Tail(s)) \cup {Head(s)}
<1>1. /\ Len(s) >= 1 /\ Len(Tail(s)) = Len(s) - 1 /\ Head(s) = s[1]
      /\ \A i \in 1..(Len(s) - 1) : Tail(s)[i] = s[i + 1]
      /\ Tail(s) \in Seq(AuditRecord)
  OBVIOUS
<1>2. ToSet(s) \subseteq ToSet(Tail(s)) \cup {Head(s)}
  <2> SUFFICES ASSUME NEW i \in 1..Len(s)
               PROVE  s[i] \in ToSet(Tail(s)) \cup {Head(s)}
    BY DEF ToSet
  <2>1. CASE i = 1
    BY <1>1, <2>1
  <2>2. CASE i # 1
    <3>1. i - 1 \in 1..(Len(s) - 1) /\ (i - 1) + 1 = i
      BY <2>2
    <3>2. Tail(s)[i - 1] = s[i] /\ i - 1 \in 1..Len(Tail(s))
      BY <1>1, <3>1
    <3>3. DOMAIN Tail(s) = 1..Len(Tail(s))
      BY <1>1
    <3> QED BY <3>2, <3>3, ZenonT(60) DEF ToSet
  <2> QED BY <2>1, <2>2
<1>3. ToSet(Tail(s)) \cup {Head(s)} \subseteq ToSet(s)
  BY <1>1 DEF ToSet
<1> QED BY <1>2, <1>3

\* A sequence of one record.
LEMMA ToSetOne ==
    /\ ToSet(<<>>) = {}
    /\ \A rec : ToSet(<<rec>>) = {rec}
BY DEF ToSet

\* What one more record does to a sequence.
LEMMA SeqGrows ==
    ASSUME NEW s \in Seq(AuditRecord), NEW rec \in AuditRecord
    PROVE  /\ DOMAIN s = 1..Len(s) /\ Len(s) \in Nat
           /\ DOMAIN Append(s, rec) = 1..(Len(s) + 1)
           /\ \A i \in 1..Len(s) : Append(s, rec)[i] = s[i]
           /\ Append(s, rec)[Len(s) + 1] = rec
           /\ Append(s, rec) \in Seq(AuditRecord)
           /\ ToSet(Append(s, rec)) = ToSet(s) \cup {rec}
BY ToSetAppend

-----------------------------------------------------------------------------
(* The invariant.                                                          *)

EmitterInv == EmitterTypeOK /\ RecordsAccounted

\* Nothing has been emitted at first.
LEMMA EmitterInitInv == EmitterInit => EmitterInv
<1> SUFFICES ASSUME EmitterInit PROVE EmitterInv
  OBVIOUS
<1>1. EmitterTypeOK
  BY EmitterParams DEF EmitterInit, EmitterTypeOK
<1>2. RecordsAccounted
  BY ToSetOne DEF EmitterInit, RecordsAccounted
<1> QED BY <1>1, <1>2 DEF EmitterInv

\* try_send keeps the channel within its capacity.
LEMMA EmitType ==
    ASSUME EmitterTypeOK, NEW rec \in AuditRecord, Emit(rec)
    PROVE  EmitterTypeOK'
<1> USE DEF Emit
<1>1. /\ Append(emitted, rec) \in Seq(AuditRecord)
      /\ Append(queue, rec) \in Seq(AuditRecord)
      /\ Len(Append(queue, rec)) = Len(queue) + 1
      /\ Len(queue) \in Nat /\ Capacity \in Nat
  BY EmitterParams DEF EmitterTypeOK
<1>2. CASE Len(queue) < Capacity
  <2>1. queue' = Append(queue, rec) /\ lost' = lost
    BY <1>2
  <2>2. queue' \in Seq(AuditRecord) /\ Len(queue') <= Capacity
    BY <1>1, <1>2, <2>1
  <2> QED BY <1>1, <2>1, <2>2 DEF EmitterTypeOK
<1>3. CASE ~(Len(queue) < Capacity)
  <2>1. queue' = queue /\ lost' = lost \cup {rec}
    BY <1>3
  <2> QED BY <1>1, <2>1 DEF EmitterTypeOK
<1> QED BY <1>2, <1>3

\* Taking a record off the channel makes it the one being delivered.
LEMMA ReceiveType ==
    ASSUME EmitterTypeOK, Receive
    PROVE  EmitterTypeOK'
<1> USE DEF Receive
<1>1. /\ Tail(queue) \in Seq(AuditRecord)
      /\ Len(Tail(queue)) = Len(queue) - 1
      /\ Head(queue) \in AuditRecord
      /\ Len(queue) \in Nat /\ Capacity \in Nat /\ Retries \in Nat
  BY EmitterParams DEF EmitterTypeOK
<1>2. /\ queue' \in Seq(AuditRecord) /\ Len(queue') <= Capacity
      /\ attempt' \in 0..Retries
  BY <1>1 DEF EmitterTypeOK
<1>3. <<Head(queue)>> \in Seq(AuditRecord) /\ Len(<<Head(queue)>>) = 1
  BY <1>1
<1>4. CASE sink
  <2>1. /\ current' = <<Head(queue)>> /\ lost' = lost
        /\ sends' = Append(sends, Head(queue))
    BY <1>4
  <2>2. current' \in Seq(AuditRecord) /\ Len(current') <= 1
    BY <1>3, <2>1
  <2>3. sends' \in Seq(AuditRecord)
    BY <1>1, <2>1, SeqGrows DEF EmitterTypeOK
  <2> QED BY <1>2, <2>1, <2>2, <2>3 DEF EmitterTypeOK
<1>5. CASE ~sink
  <2>1. current' = current /\ lost' = lost \cup {Head(queue)} /\ sends' = sends
    BY <1>5
  <2> QED BY <1>1, <1>2, <2>1 DEF EmitterTypeOK
<1> QED BY <1>4, <1>5

Deliver == DeliverOk \/ DeliverErr

\* What the end of a delivery does: the record is sent again, or it is done
\* with, in the log or given up.
LEMMA DeliverEffect ==
    ASSUME EmitterTypeOK, Deliver
    PROVE  /\ Head(current) \in AuditRecord /\ current = <<Head(current)>>
           /\ UNCHANGED <<sink, queue, emitted>>
           /\ \/ /\ sends' = Append(sends, Head(current))
                 /\ UNCHANGED <<current, lost, topic>>
                 /\ attempt < Retries /\ attempt' = attempt + 1
              \/ /\ current' = <<>> /\ UNCHANGED <<attempt, sends>>
                 /\ \/ topic' = topic \cup {Head(current)} /\ lost' = lost
                    \/ topic' = topic /\ lost' = lost \cup {Head(current)}
<1>1. current # <<>>
  BY DEF Deliver, DeliverOk, DeliverErr
<1>2. Head(current) \in AuditRecord /\ current = <<Head(current)>>
  <2>1. current \in Seq(AuditRecord) /\ Len(current) <= 1
    BY DEF EmitterTypeOK
  <2>2. Len(current) = 1
    BY <1>1, <2>1, EmptySeq
  <2>3. Head(current) = current[1] /\ current[1] \in AuditRecord
    BY <2>1, <2>2
  <2> QED BY <2>1, <2>2, <2>3
<1>3. CASE DeliverOk
  BY <1>2, <1>3 DEF DeliverOk
<1>4. CASE DeliverErr
  BY <1>2, <1>4 DEF DeliverErr
<1> QED BY <1>3, <1>4 DEF Deliver

\* A delivery keeps the retry counter within its bound.
LEMMA DeliverType ==
    ASSUME EmitterTypeOK, Deliver
    PROVE  EmitterTypeOK'
<1>1. /\ sends \in Seq(AuditRecord) /\ topic \subseteq AuditRecord
      /\ current \in Seq(AuditRecord) /\ Len(current) <= 1
      /\ <<>> \in Seq(AuditRecord) /\ Len(<<>>) <= 1
  BY DEF EmitterTypeOK
<1>2. sends' \in Seq(AuditRecord)
  <2>1. Append(sends, Head(current)) \in Seq(AuditRecord)
    BY <1>1, DeliverEffect, SeqGrows
  <2> QED BY <1>1, <2>1, DeliverEffect
<1>3. attempt' \in 0..Retries
  BY DeliverEffect, EmitterParams DEF EmitterTypeOK
<1>4. current' \in Seq(AuditRecord) /\ Len(current') <= 1
  <2>1. current' = current \/ current' = <<>>
    BY DeliverEffect
  <2> QED BY <1>1, <2>1, ZenonT(60)
<1>5. lost' \subseteq AuditRecord /\ topic' \subseteq AuditRecord
  BY DeliverEffect DEF EmitterTypeOK
<1>6. UNCHANGED <<sink, queue, emitted>>
  BY DeliverEffect
<1> QED BY <1>2, <1>3, <1>4, <1>5, <1>6 DEF EmitterTypeOK

\* Only what was sent gets into the log.
LEMMA BrokerType ==
    ASSUME EmitterTypeOK, BrokerStores
    PROVE  EmitterTypeOK'
<1>1. ToSet(sends) \subseteq AuditRecord
  BY DEF EmitterTypeOK, ToSet
<1> QED BY <1>1 DEF EmitterTypeOK, BrokerStores

\* The end of the process gives up what is pending.
LEMMA CrashType ==
    ASSUME EmitterTypeOK, EmitterCrash
    PROVE  EmitterTypeOK'
<1>1. ToSet(queue) \subseteq AuditRecord /\ ToSet(current) \subseteq AuditRecord
  BY DEF EmitterTypeOK, ToSet
<1> QED BY <1>1, EmitterParams DEF EmitterTypeOK, EmitterCrash

\* try_send queues the record or gives it up.
LEMMA EmitInv ==
    ASSUME EmitterInv, NEW rec \in AuditRecord, Emit(rec)
    PROVE  EmitterInv'
<1>1. EmitterTypeOK'
  BY EmitType DEF EmitterInv
<1>2. /\ ToSet(emitted)' = ToSet(emitted) \cup {rec}
      /\ \/ ToSet(queue)' = ToSet(queue) \cup {rec} /\ lost' = lost
         \/ queue' = queue /\ lost' = lost \cup {rec}
      /\ current' = current /\ topic' = topic
  BY ToSetAppend, ZenonT(60) DEF EmitterInv, EmitterTypeOK, Emit
<1>3. RecordsAccounted'
  BY <1>2 DEF EmitterInv, RecordsAccounted, Pending
<1> QED BY <1>1, <1>3 DEF EmitterInv

\* The task takes the oldest record, or gives it up when there is no sink.
LEMMA ReceiveInv ==
    ASSUME EmitterInv, Receive
    PROVE  EmitterInv'
<1>1. EmitterTypeOK'
  BY ReceiveType DEF EmitterInv
<1>2. /\ ToSet(queue) = ToSet(queue)' \cup {Head(queue)}
      /\ ToSet(current) = {}
      /\ \/ ToSet(current)' = {Head(queue)} /\ lost' = lost
         \/ lost' = lost \cup {Head(queue)}
      /\ emitted' = emitted /\ topic' = topic
  BY ToSetTail, ToSetOne DEF EmitterInv, EmitterTypeOK, Receive
<1>3. RecordsAccounted'
  BY <1>2 DEF EmitterInv, RecordsAccounted, Pending
<1> QED BY <1>1, <1>3 DEF EmitterInv

\* A delivery succeeds, fails and is tried again, or fails for the last time.
LEMMA DeliverInv ==
    ASSUME EmitterInv, Deliver
    PROVE  EmitterInv'
<1>1. EmitterTypeOK /\ EmitterTypeOK'
  BY DeliverType DEF EmitterInv
<1>2. ToSet(current) = {Head(current)}
  BY <1>1, DeliverEffect, ToSetOne
<1>3. RecordsAccounted'
  BY <1>1, <1>2, DeliverEffect, ToSetOne
     DEF EmitterInv, RecordsAccounted, Pending
<1> QED BY <1>1, <1>3 DEF EmitterInv

\* The log only grows.
LEMMA BrokerInv ==
    ASSUME EmitterInv, BrokerStores
    PROVE  EmitterInv'
<1>1. EmitterTypeOK'
  BY BrokerType DEF EmitterInv
<1>2. RecordsAccounted'
  BY DEF EmitterInv, BrokerStores, RecordsAccounted, Pending
<1> QED BY <1>1, <1>2 DEF EmitterInv

\* The end of the process gives up what is pending.
LEMMA CrashInv ==
    ASSUME EmitterInv, EmitterCrash
    PROVE  EmitterInv'
<1>1. EmitterTypeOK'
  BY CrashType DEF EmitterInv
<1>2. RecordsAccounted'
  BY DEF EmitterInv, EmitterCrash, RecordsAccounted, Pending
<1> QED BY <1>1, <1>2 DEF EmitterInv

\* Every step of the emitter is one of these.
LEMMA EmitterNextInv == EmitterInv /\ [EmitterNext]_emitterVars => EmitterInv'
<1> SUFFICES ASSUME EmitterInv, [EmitterNext]_emitterVars PROVE EmitterInv'
  OBVIOUS
<1>1. CASE UNCHANGED emitterVars
  BY <1>1 DEF emitterVars, EmitterInv, EmitterTypeOK, RecordsAccounted, Pending
<1> QED
  BY <1>1, EmitInv, ReceiveInv, DeliverInv, BrokerInv, CrashInv
     DEF EmitterNext, EmitOnce, Worker, Deliver

\* The channel never holds more than its capacity and the delivery loop never
\* counts past its last retry, whatever the handlers, the log and crashes do.
THEOREM EmitterTypeCorrect == EmitterSpec => []EmitterTypeOK
<1>1. EmitterSpec => []EmitterInv
  BY EmitterInitInv, EmitterNextInv, PTL DEF EmitterSpec
<1> QED BY <1>1, PTL DEF EmitterInv

\* Every record handed to emit is pending, delivered, or knowingly given up,
\* for every capacity, number of retries and number of sessions.
THEOREM NoRecordVanishes == EmitterSpec => []RecordsAccounted
<1>1. EmitterSpec => []EmitterInv
  BY EmitterInitInv, EmitterNextInv, PTL DEF EmitterSpec
<1> QED BY <1>1, PTL DEF EmitterInv

-----------------------------------------------------------------------------
(* The order of the sends.  Records travel from the channel through the    *)
(* one being delivered and never overtake: what is further on was emitted  *)
(* earlier.                                                                *)

\* No session emits twice.
OneRecordEach ==
    \A i, j \in DOMAIN emitted : emitted[i].session = emitted[j].session => i = j

\* Record r was not emitted after record s.
Before(r, s) ==
    \A a, b \in DOMAIN emitted : (emitted[a] = r /\ emitted[b] = s) => a <= b

OrderInv ==
    /\ OneRecordEach
    /\ topic \cup ToSet(current) \subseteq ToSet(sends)
    /\ ToSet(sends) \cup Pending \subseteq ToSet(emitted)
    /\ \A r \in ToSet(sends), s \in ToSet(current) : Before(r, s)
    /\ \A r \in ToSet(sends) \cup ToSet(current), s \in ToSet(queue) :
           Before(r, s) /\ r # s
    /\ \A i, j \in DOMAIN queue :
           i < j => Before(queue[i], queue[j]) /\ queue[i] # queue[j]
    /\ \A i, j \in DOMAIN sends : i < j => Before(sends[i], sends[j])

\* Nothing has been emitted at first.
LEMMA OrderInit == EmitterInit => OrderInv
BY ToSetOne DEF EmitterInit, OrderInv, OneRecordEach, Pending

\* What a new record does to the order: it comes last.
LEMMA EmitOrder ==
    ASSUME NEW s \in Seq(AuditRecord), NEW rec \in AuditRecord,
           \A i \in DOMAIN s : s[i].session # rec.session
    PROVE  /\ DOMAIN Append(s, rec) = 1..(Len(s) + 1) /\ DOMAIN s = 1..Len(s)
           /\ Len(s) \in Nat
           /\ \A i \in 1..Len(s) : Append(s, rec)[i] = s[i] /\ s[i] # rec
           /\ Append(s, rec)[Len(s) + 1] = rec
<1>1. /\ DOMAIN Append(s, rec) = 1..(Len(s) + 1) /\ DOMAIN s = 1..Len(s)
      /\ Len(s) \in Nat
      /\ \A i \in 1..Len(s) : Append(s, rec)[i] = s[i]
      /\ Append(s, rec)[Len(s) + 1] = rec
  OBVIOUS
<1>2. \A i \in 1..Len(s) : s[i] # rec
  BY <1>1
<1> QED BY <1>1, <1>2

\* A new record is emitted after all others and waits behind them.
LEMMA EmitKeepsOrder ==
    ASSUME EmitterTypeOK, OrderInv, NEW rec \in AuditRecord, Emit(rec),
           \A i \in DOMAIN emitted : emitted[i].session # rec.session
    PROVE  OrderInv'
<1> DEFINE n == Len(emitted)
<1>1. /\ emitted' = Append(emitted, rec)
      /\ current' = current /\ sends' = sends /\ topic' = topic
      /\ queue' = queue \/ queue' = Append(queue, rec)
  BY DEF Emit
<1>2. /\ DOMAIN emitted' = 1..(n + 1) /\ DOMAIN emitted = 1..n /\ n \in Nat
      /\ \A i \in 1..n : emitted'[i] = emitted[i] /\ emitted[i] # rec
      /\ emitted'[n + 1] = rec
  BY <1>1, EmitOrder DEF EmitterTypeOK
<1> HIDE DEF n
<1>3. OneRecordEach'
  <2> SUFFICES ASSUME NEW i \in DOMAIN emitted', NEW j \in DOMAIN emitted',
                      emitted'[i].session = emitted'[j].session
               PROVE  i = j
    BY DEF OneRecordEach
  <2>1. CASE i \in 1..n /\ j \in 1..n
    BY <1>2, <2>1 DEF OrderInv, OneRecordEach
  <2>2. CASE i = n + 1 /\ j = n + 1
    BY <2>2
  <2>3. \A k \in 1..n : emitted'[k].session # rec.session
    BY <1>2
  <2> QED BY <1>2, <2>1, <2>2, <2>3
<1>4. /\ rec \notin ToSet(emitted)
      /\ ToSet(emitted)' = ToSet(emitted) \cup {rec}
  <2>1. rec \notin ToSet(emitted)
    BY <1>2 DEF ToSet
  <2> QED BY <1>1, <2>1, ToSetAppend DEF EmitterTypeOK
<1>5. \A r \in ToSet(emitted) : Before(r, rec)'
  BY <1>2 DEF Before
<1>6. \A r, s \in ToSet(emitted) : Before(r, s) => Before(r, s)'
  <2> SUFFICES ASSUME NEW r \in ToSet(emitted), NEW s \in ToSet(emitted),
                      Before(r, s),
                      NEW a \in DOMAIN emitted', NEW b \in DOMAIN emitted',
                      emitted'[a] = r, emitted'[b] = s
               PROVE  a <= b
    BY DEF Before
  <2>1. a \in 1..n /\ b \in 1..n
    BY <1>2, <1>4
  <2> QED BY <1>2, <2>1 DEF Before
<1>7. ToSet(queue)' \subseteq ToSet(queue) \cup {rec}
  <2>1. queue \in Seq(AuditRecord)
    BY DEF EmitterTypeOK
  <2>2. ToSet(Append(queue, rec)) = ToSet(queue) \cup {rec}
    BY <2>1, ToSetAppend
  <2> QED BY <1>1, <2>2, ZenonT(60)
<1>8. \A i, j \in DOMAIN queue' :
          i < j => /\ Before(queue[i], queue[j])'
                   /\ queue'[i] # queue'[j]
  <2>1. /\ DOMAIN queue = 1..Len(queue) /\ Len(queue) \in Nat
        /\ \A i \in 1..Len(queue) : queue[i] \in ToSet(queue)
    BY DEF EmitterTypeOK, ToSet
  <2>2. CASE queue' = queue
    BY <1>6, <2>1, <2>2 DEF OrderInv, Pending
  <2>3. CASE queue' = Append(queue, rec)
    <3>1. /\ DOMAIN queue' = 1..(Len(queue) + 1)
          /\ \A i \in 1..Len(queue) : queue'[i] = queue[i]
          /\ queue'[Len(queue) + 1] = rec
      BY <2>3 DEF EmitterTypeOK
    <3> SUFFICES ASSUME NEW i \in DOMAIN queue', NEW j \in DOMAIN queue', i < j
                 PROVE  /\ Before(queue[i], queue[j])'
                        /\ queue'[i] # queue'[j]
      OBVIOUS
    <3>2. i \in 1..Len(queue) /\ queue'[i] = queue[i] /\ queue[i] \in ToSet(emitted)
      BY <2>1, <3>1 DEF OrderInv, Pending
    <3>3. CASE j = Len(queue) + 1
      BY <1>4, <1>5, <3>1, <3>2, <3>3
    <3>4. CASE j \in 1..Len(queue)
      BY <1>6, <2>1, <3>1, <3>2, <3>4 DEF OrderInv, Pending
    <3> QED BY <2>1, <3>1, <3>3, <3>4
  <2> QED BY <1>1, <2>2, <2>3
<1>9. /\ ToSet(sends)' = ToSet(sends) /\ ToSet(current)' = ToSet(current)
      /\ ToSet(sends) \cup ToSet(current) \cup ToSet(queue) \subseteq ToSet(emitted)
  BY <1>1 DEF OrderInv, Pending
<1>10. \A i, j \in DOMAIN sends' : i < j => Before(sends[i], sends[j])'
  <2>1. \A i \in DOMAIN sends : sends[i] \in ToSet(emitted)
    BY <1>9 DEF ToSet
  <2> QED BY <1>1, <1>6, <2>1 DEF OrderInv
<1>11. (\A r \in ToSet(sends), s \in ToSet(current) : Before(r, s))'
  BY <1>6, <1>9 DEF OrderInv
<1>12. (\A r \in ToSet(sends) \cup ToSet(current), s \in ToSet(queue) :
            Before(r, s) /\ r # s)'
  BY <1>4, <1>5, <1>6, <1>7, <1>9 DEF OrderInv
<1>13. (ToSet(sends) \cup Pending \subseteq ToSet(emitted))'
  BY <1>4, <1>7, <1>9 DEF Pending
<1>14. (topic \cup ToSet(current) \subseteq ToSet(sends))'
  BY <1>1 DEF OrderInv
<1> QED BY <1>3, <1>8, <1>10, <1>11, <1>12, <1>13, <1>14 DEF OrderInv

\* The order depends on what has been emitted alone.
LEMMA BeforeFrame ==
    ASSUME emitted' = emitted
    PROVE  \A r, s : Before(r, s)' = Before(r, s)
BY DEF Before

\* A record sent once more goes behind records that were not emitted after it.
LEMMA SendKeepsOrder ==
    ASSUME EmitterTypeOK, OrderInv, NEW rec \in AuditRecord, emitted' = emitted,
           sends' = Append(sends, rec),
           \A r \in ToSet(sends) : Before(r, rec)
    PROVE  (\A i, j \in DOMAIN sends : i < j => Before(sends[i], sends[j]))'
<1>1. /\ DOMAIN sends = 1..Len(sends) /\ Len(sends) \in Nat
      /\ DOMAIN sends' = 1..(Len(sends) + 1)
      /\ \A i \in 1..Len(sends) : sends'[i] = sends[i]
      /\ sends'[Len(sends) + 1] = rec
  BY SeqGrows DEF EmitterTypeOK
<1> SUFFICES ASSUME NEW i \in DOMAIN sends', NEW j \in DOMAIN sends', i < j
             PROVE  Before(sends[i], sends[j])'
  OBVIOUS
<1>2. i \in 1..Len(sends) /\ sends'[i] = sends[i] /\ sends[i] \in ToSet(sends)
  BY <1>1 DEF ToSet
<1>3. CASE j = Len(sends) + 1
  BY <1>1, <1>2, <1>3, BeforeFrame
<1>4. CASE j \in 1..Len(sends)
  BY <1>1, <1>2, <1>4, BeforeFrame DEF OrderInv
<1> QED BY <1>1, <1>3, <1>4

\* A record was not emitted after itself.
LEMMA BeforeSelf ==
    ASSUME EmitterTypeOK, OneRecordEach, NEW rec
    PROVE  Before(rec, rec)
<1>1. DOMAIN emitted = 1..Len(emitted) /\ Len(emitted) \in Nat
  BY DEF EmitterTypeOK
<1>2. \A a, b \in DOMAIN emitted : (emitted[a] = rec /\ emitted[b] = rec) => a = b
  BY DEF OneRecordEach
<1> QED BY <1>1, <1>2 DEF Before

\* The record taken off the channel is the one emitted first of those in it.
LEMMA ReceiveKeepsOrder ==
    ASSUME EmitterTypeOK, OrderInv, Receive
    PROVE  OrderInv'
<1>1. /\ emitted' = emitted /\ topic' = topic /\ queue' = Tail(queue)
      /\ queue # <<>> /\ current = <<>>
      /\ \/ current' = <<>> /\ sends' = sends
         \/ current' = <<Head(queue)>> /\ sends' = Append(sends, Head(queue))
  BY DEF Receive
<1>2. /\ queue \in Seq(AuditRecord) /\ Len(queue) \in Nat /\ Len(queue) >= 1
      /\ DOMAIN queue = 1..Len(queue)
      /\ Head(queue) = queue[1] /\ DOMAIN Tail(queue) = 1..(Len(queue) - 1)
      /\ \A i \in 1..(Len(queue) - 1) : Tail(queue)[i] = queue[i + 1]
  <2>1. queue \in Seq(AuditRecord)
    BY DEF EmitterTypeOK
  <2> QED BY <1>1, <2>1
<1>3. /\ ToSet(queue) = ToSet(queue)' \cup {Head(queue)}
      /\ ToSet(current)' \subseteq {Head(queue)} /\ ToSet(current) = {}
      /\ ToSet(emitted)' = ToSet(emitted)
  BY <1>1, <1>2, ToSetTail, ToSetOne
<1>4. \A s \in ToSet(queue)' : Before(Head(queue), s) /\ Head(queue) # s
  <2> SUFFICES ASSUME NEW i \in 1..(Len(queue) - 1)
               PROVE  /\ Before(Head(queue), Tail(queue)[i])
                      /\ Head(queue) # Tail(queue)[i]
    BY <1>1, <1>2 DEF ToSet
  <2>1. 1 \in DOMAIN queue /\ i + 1 \in DOMAIN queue /\ 1 < i + 1
    BY <1>2
  <2> QED BY <1>2, <2>1 DEF OrderInv
<1>5. (\A i, j \in DOMAIN queue :
           i < j => Before(queue[i], queue[j]) /\ queue[i] # queue[j])'
  <2> SUFFICES ASSUME NEW i \in 1..(Len(queue) - 1), NEW j \in 1..(Len(queue) - 1),
                      i < j
               PROVE  /\ Before(Tail(queue)[i], Tail(queue)[j])
                      /\ Tail(queue)[i] # Tail(queue)[j]
    BY <1>1, <1>2, BeforeFrame
  <2>1. i + 1 \in DOMAIN queue /\ j + 1 \in DOMAIN queue /\ i + 1 < j + 1
    BY <1>2
  <2> QED BY <1>2, <2>1 DEF OrderInv
<1>6. /\ Head(queue) \in ToSet(queue) /\ Head(queue) \in AuditRecord
      /\ Before(Head(queue), Head(queue))
  BY <1>2, <1>3, BeforeSelf DEF OrderInv
<1>7. /\ ToSet(sends) \cup ToSet(current)' \subseteq ToSet(sends)'
       /\ ToSet(sends)' \subseteq ToSet(sends) \cup {Head(queue)}
  <2>1. ToSet(Append(sends, Head(queue))) = ToSet(sends) \cup {Head(queue)}
    BY <1>6, SeqGrows DEF EmitterTypeOK
  <2> QED BY <1>1, <2>1, ToSetOne, ZenonT(60)
<1>8. /\ (\A r \in ToSet(sends), s \in ToSet(current) : Before(r, s))'
      /\ (\A r \in ToSet(sends) \cup ToSet(current), s \in ToSet(queue) :
              Before(r, s) /\ r # s)'
  BY <1>1, <1>3, <1>4, <1>6, <1>7, BeforeFrame DEF OrderInv
<1>9. (\A i, j \in DOMAIN sends : i < j => Before(sends[i], sends[j]))'
  <2>1. CASE sends' = sends
    BY <1>1, <2>1, BeforeFrame DEF OrderInv
  <2>2. CASE sends' = Append(sends, Head(queue))
    <3>1. \A r \in ToSet(sends) : Before(r, Head(queue))
      BY <1>6 DEF OrderInv
    <3> QED BY <1>1, <1>6, <2>2, <3>1, SendKeepsOrder
  <2> QED BY <1>1, <2>1, <2>2
<1>10. /\ (ToSet(sends) \cup Pending \subseteq ToSet(emitted))'
      /\ (topic \cup ToSet(current) \subseteq ToSet(sends))'
  BY <1>1, <1>3, <1>6, <1>7 DEF OrderInv, Pending
<1>11. OneRecordEach'
  BY <1>1 DEF OrderInv, OneRecordEach
<1> QED BY <1>5, <1>8, <1>9, <1>10, <1>11 DEF OrderInv

\* A retry sends the record that was sent last.
LEMMA DeliverKeepsOrder ==
    ASSUME EmitterTypeOK, OrderInv, Deliver
    PROVE  OrderInv'
<1> DEFINE rec == Head(current)
<1>1. /\ rec \in AuditRecord /\ ToSet(current) = {rec}
      /\ sends' = sends \/ sends' = Append(sends, rec)
      /\ topic' = topic \/ topic' = topic \cup {rec}
      /\ queue' = queue /\ emitted' = emitted
      /\ ToSet(current)' \subseteq {rec}
  BY DeliverEffect, ToSetOne
<1> HIDE DEF rec
<1>2. /\ ToSet(sends) \subseteq ToSet(sends)'
      /\ ToSet(sends)' \subseteq ToSet(sends) \cup {rec}
  <2>1. ToSet(Append(sends, rec)) = ToSet(sends) \cup {rec}
    BY <1>1, SeqGrows DEF EmitterTypeOK
  <2> QED BY <1>1, <2>1, ZenonT(60)
<1>3. Before(rec, rec) /\ rec \in ToSet(emitted) /\ rec \in ToSet(sends)
  BY <1>1, BeforeSelf DEF OrderInv, Pending
<1>4. (\A i, j \in DOMAIN sends : i < j => Before(sends[i], sends[j]))'
  <2>1. CASE sends' = sends
    BY <1>1, <2>1, BeforeFrame DEF OrderInv
  <2>2. CASE sends' = Append(sends, rec)
    <3>1. \A r \in ToSet(sends) : Before(r, rec)
      BY <1>1 DEF OrderInv
    <3> QED BY <1>1, <2>2, <3>1, SendKeepsOrder
  <2> QED BY <1>1, <2>1, <2>2
<1>5. /\ (\A r \in ToSet(sends), s \in ToSet(current) : Before(r, s))'
      /\ (\A r \in ToSet(sends) \cup ToSet(current), s \in ToSet(queue) :
              Before(r, s) /\ r # s)'
  BY <1>1, <1>2, <1>3, BeforeFrame DEF OrderInv
<1>6. (\A i, j \in DOMAIN queue :
           i < j => Before(queue[i], queue[j]) /\ queue[i] # queue[j])'
  BY <1>1, BeforeFrame DEF OrderInv
<1>7. OneRecordEach'
  BY <1>1 DEF OrderInv, OneRecordEach
<1>8. /\ (ToSet(sends) \cup Pending \subseteq ToSet(emitted))'
      /\ (topic \cup ToSet(current) \subseteq ToSet(sends))'
  BY <1>1, <1>2, <1>3 DEF OrderInv, Pending
<1> QED BY <1>4, <1>5, <1>6, <1>7, <1>8 DEF OrderInv

\* The log takes only what was sent.
LEMMA BrokerKeepsOrder ==
    ASSUME OrderInv, BrokerStores
    PROVE  OrderInv'
<1>1. /\ UNCHANGED <<emitted, sends, queue, current>>
      /\ topic' \subseteq ToSet(sends)
  BY DEF OrderInv, BrokerStores
<1> QED BY <1>1, BeforeFrame DEF OrderInv, OneRecordEach, Pending

\* Losing what is pending disturbs no order.
LEMMA CrashKeepsOrder ==
    ASSUME OrderInv, EmitterCrash
    PROVE  OrderInv'
<1>1. /\ emitted' = emitted /\ sends' = sends /\ topic' = topic
      /\ queue' = <<>> /\ current' = <<>>
  BY DEF EmitterCrash
<1>2. ToSet(queue)' = {} /\ ToSet(current)' = {} /\ DOMAIN queue' = {}
  BY <1>1, ToSetOne
<1> QED BY <1>1, <1>2, BeforeFrame DEF OrderInv, OneRecordEach, Pending

\* Every step keeps the order.
LEMMA OrderStep == EmitterTypeOK /\ OrderInv /\ [EmitterNext]_emitterVars => OrderInv'
<1> SUFFICES ASSUME EmitterTypeOK, OrderInv, [EmitterNext]_emitterVars
             PROVE  OrderInv'
  OBVIOUS
<1>1. CASE EmitOnce
  BY <1>1, EmitKeepsOrder DEF EmitOnce
<1>2. CASE UNCHANGED emitterVars
  BY <1>2, BeforeFrame DEF emitterVars, OrderInv, OneRecordEach, Pending
<1> QED
  BY <1>1, <1>2, ReceiveKeepsOrder, DeliverKeepsOrder, BrokerKeepsOrder,
     CrashKeepsOrder
     DEF EmitterNext, Worker, Deliver

\* The single delivery task, which takes records in order and keeps the one
\* that fails in front, never sends a record before one emitted earlier,
\* whatever fails, is retried, is lost or is stored late.
THEOREM SendsInOrder == EmitterSpec => []SentInOrder
<1>1. EmitterSpec => []OrderInv
  BY EmitterTypeCorrect, OrderInit, OrderStep, PTL DEF EmitterSpec
<1>2. OrderInv => SentInOrder
  BY DEF OrderInv, SentInOrder, Before
<1> QED BY <1>1, <1>2, PTL

-----------------------------------------------------------------------------
(* The number of sends.                                                    *)

Copies(rec) == {i \in DOMAIN sends : sends[i] = rec}

\* The record being delivered was sent once, and once more for every attempt
\* that has failed.
CopiesInv ==
    /\ \A rec \in AuditRecord : Cardinality(Copies(rec)) <= Retries + 1
    /\ \A rec \in ToSet(current) : Cardinality(Copies(rec)) <= attempt + 1

\* The sends of a record can be counted.
LEMMA CopiesFinite ==
    ASSUME EmitterTypeOK, NEW rec
    PROVE  IsFiniteSet(Copies(rec)) /\ Cardinality(Copies(rec)) \in Nat
<1>1. DOMAIN sends = 1..Len(sends) /\ Len(sends) \in Int /\ 1 \in Int
  BY DEF EmitterTypeOK
<1>2. IsFiniteSet(DOMAIN sends)
  BY <1>1, FS_Interval, Zenon
<1>3. Copies(rec) \subseteq DOMAIN sends
  BY DEF Copies
<1>4. IsFiniteSet(Copies(rec))
  BY <1>2, <1>3, FS_Subset
<1> QED BY <1>4, FS_CardinalityType

\* A send counts for the record sent.
LEMMA CopiesGrow ==
    ASSUME EmitterTypeOK, NEW rec \in AuditRecord, sends' = Append(sends, rec)
    PROVE  /\ Cardinality(Copies(rec))' = Cardinality(Copies(rec)) + 1
           /\ \A r \in AuditRecord \ {rec} : Copies(r)' = Copies(r)
<1>1. sends \in Seq(AuditRecord)
  BY DEF EmitterTypeOK
<1>2. /\ DOMAIN sends = 1..Len(sends) /\ Len(sends) \in Nat
      /\ DOMAIN sends' = 1..(Len(sends) + 1)
      /\ \A i \in 1..Len(sends) : sends'[i] = sends[i]
      /\ sends'[Len(sends) + 1] = rec
  BY <1>1, SeqGrows
<1>3. Copies(rec)' = Copies(rec) \cup {Len(sends) + 1}
  BY <1>2 DEF Copies
<1>4. \A r \in AuditRecord \ {rec} : Copies(r)' = Copies(r)
  BY <1>2 DEF Copies
<1>5. Len(sends) + 1 \notin Copies(rec)
  BY <1>2 DEF Copies
<1>6. Cardinality(Copies(rec) \cup {Len(sends) + 1}) = Cardinality(Copies(rec)) + 1
  BY <1>5, CopiesFinite, FS_AddElement, ZenonT(60)
<1>7. Cardinality(Copies(rec))' = Cardinality(Copies(rec)) + 1
  BY <1>3, <1>6
<1> QED BY <1>4, <1>7

\* Where nothing is sent, the counts stay as they are.
LEMMA CopiesFrame ==
    ASSUME sends' = sends
    PROVE  \A rec : Copies(rec)' = Copies(rec)
BY DEF Copies

\* Every step keeps the sends within the attempts.
LEMMA CopiesStep ==
    EmitterTypeOK /\ OrderInv /\ CopiesInv /\ [EmitterNext]_emitterVars => CopiesInv'
<1> SUFFICES ASSUME EmitterTypeOK, OrderInv, CopiesInv, [EmitterNext]_emitterVars
             PROVE  CopiesInv'
  OBVIOUS
<1>0. Retries \in Nat /\ attempt \in Nat /\ attempt <= Retries
  BY EmitterParams DEF EmitterTypeOK
<1>1. CASE Receive
  <2>0. /\ queue # <<>> /\ queue \in Seq(AuditRecord)
        /\ attempt' = 0 /\ current = <<>>
        /\ \/ current' = <<>> /\ sends' = sends
           \/ current' = <<Head(queue)>> /\ sends' = Append(sends, Head(queue))
    BY <1>1 DEF Receive, EmitterTypeOK
  <2>1. PICK rec \in AuditRecord : rec = Head(queue)
    BY <2>0
  <2>2. rec \in ToSet(queue)
    BY <2>0, <2>1, ToSetTail
  <2>3. Copies(rec) = {}
    BY <2>2 DEF OrderInv, Copies, ToSet
  <2>4. Cardinality(Copies(rec)) = 0
    BY <2>3, FS_EmptySet
  <2>5. CASE current' = <<>> /\ sends' = sends
    BY <2>5, CopiesFrame, ToSetOne DEF CopiesInv
  <2>6. CASE current' = <<rec>> /\ sends' = Append(sends, rec)
    <3>1. /\ Cardinality(Copies(rec))' = 1
          /\ \A r \in AuditRecord \ {rec} : Copies(r)' = Copies(r)
      BY <2>4, <2>6, CopiesGrow
    <3>2. ToSet(current)' = {rec}
      BY <2>6, ToSetOne
    <3>3. 1 <= attempt' + 1 /\ 1 <= Retries + 1
      BY <1>0, <2>0
    <3> QED BY <3>1, <3>2, <3>3 DEF CopiesInv
  <2> QED BY <2>0, <2>1, <2>5, <2>6
<1>2. CASE Deliver
  <2>0. PICK rec \in AuditRecord : rec = Head(current)
    BY <1>2, DeliverEffect
  <2>1. /\ ToSet(current) = {rec}
        /\ \/ /\ sends' = Append(sends, rec) /\ ToSet(current)' = {rec}
              /\ attempt < Retries /\ attempt' = attempt + 1
           \/ sends' = sends /\ ToSet(current)' = {}
    BY <1>2, <2>0, DeliverEffect, ToSetOne
  <2>2. CASE sends' = sends /\ ToSet(current)' = {}
    BY <2>2, CopiesFrame DEF CopiesInv
  <2>3. CASE /\ sends' = Append(sends, rec) /\ ToSet(current)' = {rec}
             /\ attempt < Retries /\ attempt' = attempt + 1
    <3>1. /\ Cardinality(Copies(rec))' = Cardinality(Copies(rec)) + 1
          /\ \A r \in AuditRecord \ {rec} : Copies(r)' = Copies(r)
      BY <2>3, CopiesGrow
    <3>2. Cardinality(Copies(rec)) <= attempt + 1 /\ Cardinality(Copies(rec)) \in Nat
      BY <2>1, CopiesFinite DEF CopiesInv
    <3>3. /\ Cardinality(Copies(rec))' <= attempt' + 1
          /\ Cardinality(Copies(rec))' <= Retries + 1
      BY <1>0, <2>3, <3>1, <3>2
    <3> QED BY <2>3, <3>1, <3>3 DEF CopiesInv
  <2> QED BY <2>1, <2>2, <2>3
<1>3. CASE EmitOnce
  <2>1. sends' = sends /\ current' = current /\ attempt' = attempt
    BY <1>3 DEF EmitOnce, Emit
  <2> QED BY <2>1, CopiesFrame DEF CopiesInv
<1>4. CASE EmitterCrash
  <2>1. sends' = sends /\ current' = <<>>
    BY <1>4 DEF EmitterCrash
  <2> QED BY <2>1, CopiesFrame, ToSetOne DEF CopiesInv
<1>5. CASE UNCHANGED emitterVars
  BY <1>5, CopiesFrame DEF emitterVars, CopiesInv
<1>6. CASE BrokerStores
  BY <1>6, CopiesFrame DEF BrokerStores, CopiesInv
<1> QED BY <1>1, <1>2, <1>3, <1>4, <1>5, <1>6 DEF EmitterNext, Worker, Deliver

\* Only what a handler emitted is sent or in the log, and the bounded retry of
\* the delivery loop sends a record at most Retries times more, however many
\* acknowledgements are lost: a record taken from the channel was never sent.
THEOREM SendsBounded == EmitterSpec => []BoundedSends
<1>1. EmitterSpec => []OrderInv
  BY EmitterTypeCorrect, OrderInit, OrderStep, PTL DEF EmitterSpec
<1>2. EmitterInit => CopiesInv
  <2> SUFFICES ASSUME EmitterInit PROVE CopiesInv
    OBVIOUS
  <2>1. \A rec : Copies(rec) = {}
    BY DEF EmitterInit, Copies
  <2>2. \A rec : Cardinality(Copies(rec)) = 0
    BY <2>1, FS_EmptySet
  <2> QED BY <2>2, ToSetOne, EmitterParams DEF EmitterInit, CopiesInv
<1>3. EmitterSpec => []CopiesInv
  BY <1>1, <1>2, EmitterTypeCorrect, CopiesStep, PTL DEF EmitterSpec
<1>4. EmitterTypeOK /\ OrderInv /\ CopiesInv => BoundedSends
  <2> SUFFICES ASSUME EmitterTypeOK, OrderInv, CopiesInv, NEW rec \in ToSet(sends)
               PROVE  /\ rec \in ToSet(emitted)
                      /\ Cardinality(Copies(rec)) <= Retries + 1
    BY DEF OrderInv, BoundedSends, Copies
  <2>1. rec \in AuditRecord
    BY DEF EmitterTypeOK, ToSet
  <2> QED BY <2>1 DEF OrderInv, CopiesInv
<1> QED BY <1>1, <1>3, <1>4, EmitterTypeCorrect, PTL
=============================================================================
