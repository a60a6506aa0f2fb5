-------------------------- MODULE ConnectorProofs --------------------------
(***************************************************************************)
(* Machine-checked proofs about the dvm connector: type correctness for    *)
(* any number of cards, the safety properties for one card, and that the   *)
(* connector of one card implements the bounded FIFO of ReportQueue, for   *)
(* every size of cn_msg_buf and every number of reports.                   *)
(***************************************************************************)
EXTENDS Connector, SequenceTheorems, TLAPS

\* A producer that has a message in hand has a message: what TypeOK needs to be
\* inductive.
HasMessage ==
    \A d \in Devices : prod[d].pc \in {"check", "publish"} => prod[d].m \in Msgs

TypeInv == TypeOK /\ HasMessage

-----------------------------------------------------------------------------
(* Ring arithmetic.                                                        *)

\* The wrapping of connector.c's index arithmetic, without the modulus.
LEMMA SuccWraps ==
    ASSUME NEW i \in Slots
    PROVE  Succ(i) = IF i + 1 < N THEN i + 1 ELSE 0
<1>1. CASE i + 1 < N
  BY <1>1, SizeAssumption DEF Slots, Succ
<1>2. CASE i + 1 = N
  BY <1>2, SizeAssumption DEF Slots, Succ
<1> QED
  BY <1>1, <1>2, SizeAssumption DEF Slots

\* The next index of a slot is a slot.
LEMMA SuccType ==
    ASSUME NEW i \in Slots
    PROVE  Succ(i) \in Slots
BY SuccWraps, SizeAssumption DEF Slots

\* Freeing messages keeps the allocation table well typed.
LEMMA KfreeType ==
    ASSUME NEW h \in [Msgs -> {"unused", "live", "freed"}], NEW ms
    PROVE  kfree(h, ms) \in [Msgs -> {"unused", "live", "freed"}]
BY DEF kfree

-----------------------------------------------------------------------------
(* Type correctness.                                                       *)

LEMMA TypeInit == Init => TypeInv
<1> SUFFICES ASSUME Init PROVE TypeInv
  OBVIOUS
<1>1. 0 \in Slots
  BY SizeAssumption DEF Slots
<1> QED
  BY <1>1 DEF Init, TypeInv, TypeOK, HasMessage, IdleProd, IdleWork

LEMMA TypeStep == TypeInv /\ [Next]_vars => TypeInv'
<1> SUFFICES ASSUME TypeInv, [Next]_vars PROVE TypeInv'
  OBVIOUS
<1> USE DEF TypeInv, TypeOK, HasMessage
<1>0. 0 \in Slots
  BY SizeAssumption DEF Slots
<1>1. CASE Insmod
  BY <1>0, <1>1 DEF Insmod, histVars
<1>2. CASE Register
  BY <1>0, <1>2 DEF Register, privVars, histVars
<1>3. CASE RegisterFails
  BY <1>3, KfreeType DEF RegisterFails, FreeRing, privVars, ringVars, histVars
<1>4. CASE Exit
  BY <1>4, KfreeType DEF Exit, FreeRing, privVars, ringVars, histVars
<1>5. ASSUME NEW d \in Devices, Device(d) PROVE TypeInv'
  <2>1. \/ dev' = [dev EXCEPT ![d] = "loaded"]
        \/ dev' = [dev EXCEPT ![d] = "booting"]
        \/ dev' = [dev EXCEPT ![d] = "running"]
        \/ dev' = [dev EXCEPT ![d] = "flushing"]
        \/ dev' = [dev EXCEPT ![d] = "off"]
    BY <1>5 DEF Device, OpModeStart, MacStart, AliveStart, StartFails, Restart, MacStop,
                FlushDone, OpModeStop, SetDev
  <2>2. priv' \in Devices \cup {NULL} /\ alive' \subseteq Devices
    BY <1>5 DEF Device, OpModeStart, MacStart, AliveStart, StartFails, Restart, MacStop,
                FlushDone, OpModeStop, privVars
  <2>4. stale' \in BOOLEAN
    BY <1>5 DEF Device, OpModeStart, MacStart, AliveStart, StartFails, Restart, MacStop,
                FlushDone, OpModeStop, privVars
  <2>3. UNCHANGED <<module, ringVars, pending, prod, work, heap, histVars>>
    BY <1>5 DEF Device, OpModeStart, MacStart, AliveStart, StartFails, Restart, MacStop,
                FlushDone, OpModeStop
  <2> QED
    BY <2>1, <2>2, <2>3, <2>4 DEF ringVars, histVars
<1>6. ASSUME NEW d \in Devices, NEW m \in Msgs, SendMsg(d, m) PROVE TypeInv'
  BY <1>6 DEF SendMsg, lifeVars, privVars, ringVars, histVars
<1>7. ASSUME NEW d \in Devices, Drop(d) PROVE TypeInv'
  BY <1>0, <1>7, KfreeType DEF Drop, IdleProd, lifeVars, privVars, ringVars, histVars
<1>8. ASSUME NEW d \in Devices, Store(d) PROVE TypeInv'
  BY <1>8 DEF Store, lifeVars, privVars, histVars
<1>9. ASSUME NEW d \in Devices, Publish(d) PROVE TypeInv'
  <2>1. Succ(prod[d].end) \in Slots
    BY SuccType
  <2>2. published' \in Seq(Msgs)
    <3>1. prod[d].m \in Msgs
      BY <1>9 DEF Publish
    <3> QED
      BY <1>9, <3>1 DEF Publish
  <2>3. prod' \in [Devices -> [pc : {"idle", "check", "publish", "queue"},
                               m : Msgs \cup {NULL}, start : Slots, end : Slots]]
    <3>1. prod \in [Devices -> [pc : {"idle", "check", "publish", "queue"},
                                m : Msgs \cup {NULL}, start : Slots, end : Slots]]
      OBVIOUS
    <3> HIDE DEF TypeInv, TypeOK, HasMessage
    <3> QED
      BY <1>9, <3>1 DEF Publish
  <2>4. HasMessage'
    BY <1>9 DEF Publish
  <2> QED
    BY <1>9, <2>1, <2>2, <2>3, <2>4 DEF Publish, lifeVars, privVars
<1>10. ASSUME NEW d \in Devices, QueueWork(d) PROVE TypeInv'
  BY <1>0, <1>10 DEF QueueWork, IdleProd, lifeVars, privVars, ringVars, histVars
<1>11. ASSUME NEW d \in Devices, BeginWork(d) PROVE TypeInv'
  BY <1>11 DEF BeginWork, lifeVars, privVars, ringVars, histVars
<1>12. ASSUME NEW d \in Devices, Send(d) PROVE TypeInv'
  <2>1. buf[work[d].i] \in Msgs \cup {NULL}
    OBVIOUS
  <2>2. sent' \in Seq(Msgs \cup {NULL})
    BY <1>12, <2>1 DEF Send
  <2>3. work' \in [Devices -> [pc : {"idle", "loop", "free"}, i : Slots, end : Slots]]
    <3>1. work \in [Devices -> [pc : {"idle", "loop", "free"}, i : Slots, end : Slots]]
      OBVIOUS
    <3> HIDE DEF TypeInv, TypeOK, HasMessage
    <3> QED
      BY <1>12, <3>1 DEF Send
  <2> QED
    BY <1>12, <2>2, <2>3 DEF Send, lifeVars, privVars, ringVars
<1>13. ASSUME NEW d \in Devices, Free(d) PROVE TypeInv'
  <2>1. Succ(work[d].i) \in Slots
    BY SuccType
  <2>2. work' \in [Devices -> [pc : {"idle", "loop", "free"}, i : Slots, end : Slots]]
    <3>1. work \in [Devices -> [pc : {"idle", "loop", "free"}, i : Slots, end : Slots]]
      OBVIOUS
    <3> HIDE DEF TypeInv, TypeOK, HasMessage
    <3> QED
      BY <1>13, <2>1, <3>1 DEF Free
  <2>3. heap' \in [Msgs -> {"unused", "live", "freed"}]
    BY <1>13, KfreeType DEF Free
  <2> QED
    BY <1>13, <2>2, <2>3 DEF Free, lifeVars, privVars, ringVars, histVars
<1>14. ASSUME NEW d \in Devices, EndWork(d) PROVE TypeInv'
  BY <1>0, <1>14 DEF EndWork, IdleWork, lifeVars, privVars, histVars
<1>15. CASE UNCHANGED vars
  BY <1>15 DEF vars
<1>16. ASSUME NEW d \in Devices, UseFreedPriv(d) PROVE TypeInv'
  BY <1>16 DEF UseFreedPriv, privVars, ringVars, histVars
<1> QED
  BY <1>1, <1>2, <1>3, <1>4, <1>5, <1>6, <1>7, <1>8, <1>9, <1>10, <1>11, <1>12,
     <1>13, <1>14, <1>15, <1>16
  DEF Next, Life, Released, Producer, Worker

\* The state of the connector is well typed for any number of cards and any size
\* of cn_msg_buf: in particular no index ever leaves the array.
THEOREM TypeCorrect == Spec => []TypeOK
<1>1. TypeInv => TypeOK
  BY DEF TypeInv
<1> QED
  BY TypeInit, TypeStep, <1>1, PTL DEF Spec

-----------------------------------------------------------------------------
(* More ring arithmetic, for the safety proof.                             *)

LEMMA DistType ==
    ASSUME NEW a \in Slots, NEW b \in Slots
    PROVE  /\ Dist(a, b) \in Slots
           /\ Dist(a, b) = 0 <=> a = b
BY SizeAssumption DEF Dist, Slots

\* One slot further is one more, as long as the ring does not close.
LEMMA DistSucc ==
    ASSUME NEW a \in Slots, NEW b \in Slots
    PROVE  /\ Succ(b) # a => Dist(a, Succ(b)) = Dist(a, b) + 1
           /\ Succ(b) = a <=> Dist(a, b) = N - 1
<1>1. Succ(b) = IF b + 1 < N THEN b + 1 ELSE 0
  BY SuccWraps
<1> QED
  BY <1>1, SizeAssumption DEF Dist, Slots

\* Different slots are at different distances.
LEMMA DistInjective ==
    ASSUME NEW a \in Slots, NEW b \in Slots, NEW c \in Slots,
           Dist(a, b) = Dist(a, c)
    PROVE  b = c
BY SizeAssumption DEF Dist, Slots

\* Slot and Dist are inverse to each other.
LEMMA SlotDist ==
    ASSUME rd \in Slots, NEW b \in Slots, NEW j \in Slots
    PROVE  /\ Slot(j) \in Slots
           /\ Slot(Dist(rd, b)) = b
           /\ Slot(j) = b => j = Dist(rd, b)
BY SizeAssumption DEF Dist, Slot, Slots

\* Moving the start of the ring forward to b.
LEMMA DistSplit ==
    ASSUME NEW a \in Slots, NEW b \in Slots, NEW c \in Slots,
           Dist(a, b) <= Dist(a, c)
    PROVE  Dist(b, c) = Dist(a, c) - Dist(a, b)
BY SizeAssumption DEF Dist, Slots

\* The abstract interval of slots the properties speak of, as distances.
LEMMA IntervalDist ==
    ASSUME NEW a \in Slots, NEW b \in Slots, NEW x \in Slots
    PROVE  x \in Interval(a, b) <=> Dist(a, x) < Dist(a, b)
BY SizeAssumption DEF Interval, Dist, Slots

-----------------------------------------------------------------------------
(* One card, whose interface comes up after iwl_init has returned.         *)

OneCard == (\E d : Devices = {d}) /\ ~EarlyUp

\* At rest: nothing is in the ring, nobody is at work on it.
LEMMA AtRest ==
    ASSUME NEW d \in Devices, TypeInv, LifeOK, dev[d] = "off" \/ module = "loading"
    PROVE  prod[d].pc = "idle" /\ pending # d /\ work[d].pc = "idle" /\ rd = wr
BY DEF TypeInv, TypeOK, LifeOK, Seen

\* Distances are ordered like numbers.
LEMMA SlotsOrdered ==
    ASSUME NEW x \in Slots, NEW y \in Slots, NEW z \in Slots, x <= y, y <= z
    PROVE  x <= z /\ (x # y => x < z)
BY SizeAssumption DEF Slots

\* The positions the invariant speaks of, as numbers.
LEMMA Bounds ==
    ASSUME NEW d \in Devices, TypeInv, RingOK, WorkerOK
    PROVE  /\ Occ \in Slots /\ Pos(d) \in Slots /\ Base \in Nat
           /\ Len(published) \in Nat /\ Len(sent) \in Nat
           /\ Len(published) = Base + Occ
           /\ Pos(d) <= Occ
           /\ work[d].pc # "idle" /\ work[d].i # work[d].end => Pos(d) < Occ
           /\ Len(sent) <= Len(published)
<1> USE SizeAssumption DEF TypeInv, TypeOK
<1>1. Occ \in Slots /\ Len(published) \in Nat /\ Len(sent) \in Nat
  BY DistType DEF Occ
<1>2. Base \in Nat /\ Len(published) = Base + Occ
  BY <1>1 DEF Base, RingOK, Slots
<1>3. Dist(rd, work[d].i) \in Slots /\ Dist(rd, work[d].end) \in Slots
  BY DistType
<1>4. work[d].i # work[d].end => Dist(rd, work[d].i) # Dist(rd, work[d].end)
  BY DistInjective
<1>5. CASE work[d].pc = "idle"
  <2>1. Pos(d) = 0
    BY <1>5 DEF Pos
  <2>2. Len(sent) = Base
    <3>1. Len(sent) = Base + 0 + 0
      BY <1>5, <2>1 DEF WorkerOK
    <3> HIDE DEF TypeInv, TypeOK
    <3> QED
      BY <1>2, <3>1
  <2> QED
    BY <1>1, <1>2, <1>5, <2>1, <2>2 DEF Slots
<1>6. CASE work[d].pc # "idle"
  <2>1. Pos(d) = Dist(rd, work[d].i)
    BY <1>6 DEF Pos
  <2>2. /\ Dist(rd, work[d].i) <= Dist(rd, work[d].end)
        /\ Dist(rd, work[d].end) <= Occ
    BY <1>6 DEF WorkerOK
  <2>3. Pos(d) <= Occ /\ (work[d].i # work[d].end => Pos(d) < Occ)
    BY <1>1, <1>3, <1>4, <2>1, <2>2, SlotsOrdered
  <2>4. Len(sent) <= Len(published)
    <3>1. CASE work[d].pc = "free"
      <4>1. Len(sent) = Base + Pos(d) + 1 /\ work[d].i # work[d].end
        BY <3>1 DEF WorkerOK
      <4> HIDE DEF TypeInv, TypeOK
      <4> QED
        BY <1>1, <1>2, <1>3, <2>1, <2>3, <4>1 DEF Slots
    <3>2. CASE work[d].pc # "free"
      <4>1. Len(sent) = Base + Pos(d)
        BY <1>1, <1>2, <1>3, <2>1, <3>2 DEF WorkerOK, Slots
      <4> HIDE DEF TypeInv, TypeOK
      <4> QED
        BY <1>1, <1>2, <1>3, <2>1, <2>2, <4>1 DEF Slots
    <3> QED
      BY <3>1, <3>2
  <2> QED
    BY <1>1, <1>2, <1>3, <2>1, <2>3, <2>4
<1> QED
  BY <1>5, <1>6

LEMMA RingInit == OneCard /\ Init => RingInv
<1> SUFFICES ASSUME OneCard, Init PROVE RingInv
  OBVIOUS
<1> USE SizeAssumption, NullAssumption
<1>1. PICK d : Devices = {d}
  BY DEF OneCard
<1>2. Occ = 0 /\ Len(published) = 0 /\ Len(sent) = 0
  BY DEF Init, Occ, Dist
<1>3. Base = 0 /\ Pos(d) = 0 /\ Seen(d) = wr
  BY <1>1, <1>2 DEF Init, Base, Pos, Seen, IdleWork
<1>4. RingOK
  BY <1>2 DEF RingOK
<1>5. WorkerOK
  BY <1>1, <1>2, <1>3 DEF Init, WorkerOK, IdleWork
<1>6. HeapOK
  BY <1>2 DEF Init, HeapOK
<1>7. ProducerOK
  BY DEF Init, ProducerOK, IdleProd
<1>8. LifeOK
  BY <1>1, <1>3 DEF Init, LifeOK, IdleProd, IdleWork
<1> QED
  BY <1>2, <1>4, <1>5, <1>6, <1>7, <1>8 DEF RingInv

\* Steps that empty an empty ring: insmod and the registration.
LEMMA ResetStep ==
    ASSUME NEW d, Devices = {d}, TypeInv, RingInv,
           dev[d] = "off" \/ module = "loading", dev[d] \in {"off", "loaded"},
           rd' = 0, wr' = 0, pending' = NULL,
           UNCHANGED <<dev, prod, work, heap, histVars>>,
           module' = "ready" \/ module' = "loading"
    PROVE  RingInv'
<1> USE SizeAssumption, NullAssumption DEF TypeInv, TypeOK
<1>1. prod[d].pc = "idle" /\ work[d].pc = "idle" /\ rd = wr
  BY AtRest DEF RingInv
<1>2. Occ = 0 /\ Occ' = 0
  BY <1>1 DEF Occ, Dist, Slots
<1>3. Base = Len(published) /\ Base' = Len(published) /\ published' = published
  BY <1>2 DEF Base, histVars
<1>4. Pos(d) = 0 /\ Pos(d)' = 0 /\ Seen(d)' = wr'
  BY <1>1 DEF Pos, Seen
<1>5. RingOK'
  BY <1>2, <1>3 DEF RingOK
<1>6. WorkerOK'
  BY <1>1, <1>3, <1>4 DEF WorkerOK, RingInv, histVars
<1>7. HeapOK'
  BY <1>1, <1>3, <1>4 DEF HeapOK, RingInv, histVars
<1>8. ProducerOK'
  BY <1>1 DEF ProducerOK
<1>9. LifeOK'
  BY <1>1, <1>4 DEF LifeOK
<1> QED
  BY <1>5, <1>6, <1>7, <1>8, <1>9 DEF RingInv, histVars

\* Steps of the device's life: they touch neither the ring nor the threads.
LEMMA DeviceStep ==
    ASSUME OneCard, NEW d, Devices = {d}, TypeInv, RingInv, Device(d)
    PROVE  RingInv'
<1> USE DEF TypeInv, TypeOK
<1>1. UNCHANGED <<module, buf, rd, wr, pending, prod, work, heap, published, sent>>
  BY DEF Device, OpModeStart, MacStart, AliveStart, StartFails, Restart, MacStop, FlushDone,
         OpModeStop, ringVars, histVars
<1>2. RingOK' /\ WorkerOK' /\ HeapOK' /\ ProducerOK'
  BY <1>1 DEF RingInv, RingOK, WorkerOK, HeapOK, ProducerOK, Occ, Base, Pos, Slot
<1>3. LifeOK'
  <2>1. LifeOK
    BY DEF RingInv
  <2>2. Seen(d)' = Seen(d)
    BY <1>1 DEF Seen
  <2>3. priv' = priv \/ priv' = d
    BY DEF Device, OpModeStart, MacStart, AliveStart, StartFails, Restart, MacStop,
           FlushDone, OpModeStop, privVars
  <2>4. CASE OpModeStart(d)
    BY <1>1, <2>1, <2>2, <2>3, <2>4 DEF LifeOK, OpModeStart, SetDev
  <2>5. CASE MacStart(d)
    BY <1>1, <2>1, <2>2, <2>3, <2>5 DEF LifeOK, MacStart, SetDev, OneCard
  <2>6. CASE AliveStart(d)
    BY <1>1, <2>1, <2>2, <2>3, <2>6 DEF LifeOK, AliveStart, SetDev
  <2>7. CASE Restart(d)
    BY <1>1, <2>1, <2>2, <2>3, <2>7 DEF LifeOK, Restart, SetDev
  <2>8. CASE MacStop(d)
    BY <1>1, <2>1, <2>2, <2>3, <2>8 DEF LifeOK, MacStop, SetDev
  <2>9. CASE FlushDone(d)
    BY <1>1, <2>1, <2>2, <2>3, <2>9 DEF LifeOK, FlushDone, Flushed, SetDev
  <2>10. CASE OpModeStop(d)
    BY <1>1, <2>1, <2>2, <2>3, <2>10 DEF LifeOK, OpModeStop, Flushed, SetDev
  <2>11. CASE StartFails(d)
    BY <1>1, <2>1, <2>2, <2>3, <2>11 DEF LifeOK, StartFails, SetDev
  <2> QED
    BY <2>4, <2>5, <2>6, <2>7, <2>8, <2>9, <2>10, <2>11 DEF Device
<1> QED
  BY <1>1, <1>2, <1>3 DEF RingInv

\* Unregistering the connector finds the ring empty: nothing is freed.
LEMMA UnregisterStep ==
    ASSUME NEW d, Devices = {d}, TypeInv, RingInv,
           dev[d] = "off" \/ module = "loading", FreeRing,
           UNCHANGED <<dev, priv, ringVars, pending, prod, work, histVars>>,
           module' = "failed" \/ (module' = "out" /\ dev[d] = "off")
    PROVE  RingInv'
<1> USE SizeAssumption DEF TypeInv, TypeOK
<1>1. rd = wr
  BY AtRest DEF RingInv
<1>2. Interval(rd, wr) = {}
  BY <1>1 DEF Interval, Slots
<1>3. heap' = heap
  BY <1>2 DEF FreeRing, kfree
<1>4. RingOK' /\ WorkerOK' /\ HeapOK' /\ ProducerOK'
  BY <1>3 DEF RingInv, RingOK, WorkerOK, HeapOK, ProducerOK, Occ, Base, Pos, Slot,
              ringVars, histVars
<1>5. LifeOK'
  BY DEF RingInv, LifeOK, Seen, ringVars
<1> QED
  BY <1>4, <1>5 DEF RingInv, histVars

-----------------------------------------------------------------------------
(* The producer.                                                           *)

LEMMA SendMsgStep ==
    ASSUME NEW d, Devices = {d}, TypeInv, RingInv, NEW m \in Msgs, SendMsg(d, m)
    PROVE  RingInv'
<1> USE DEF TypeInv, TypeOK
<1>1. UNCHANGED <<module, dev, priv, buf, rd, wr, pending, work, published, sent>>
  BY DEF SendMsg, lifeVars, privVars, ringVars, histVars
<1>2. prod'[d] = [pc |-> "check", m |-> m, start |-> rd, end |-> wr]
  BY DEF SendMsg
<1>3. /\ heap[m] = "unused" /\ heap'[m] = "live"
      /\ \A x \in Msgs : x # m => heap'[x] = heap[x]
  BY DEF SendMsg
<1>4. \A k \in 1 .. Len(published) : published[k] \in Msgs /\ published[k] # m
  BY <1>3 DEF RingInv, HeapOK
<1>5. RingOK' /\ WorkerOK'
  BY <1>1 DEF RingInv, RingOK, WorkerOK, Occ, Base, Pos, Slot
<1>6. HeapOK'
  <2>1. Base' = Base /\ Pos(d)' = Pos(d)
    BY <1>1 DEF Base, Pos, Occ
  <2>2. \A k \in 1 .. Len(published) : heap'[published[k]] = heap[published[k]]
    BY <1>3, <1>4
  <2>3. \A x \in Msgs : heap'[x] = "live" =>
           \/ \E k \in 1 .. Len(published) : published[k] = x
           \/ prod'[d].pc \in {"check", "publish"} /\ prod'[d].m = x
    <3>1. prod[d].pc = "idle"
      BY DEF SendMsg
    <3> QED
      BY <1>2, <1>3, <3>1 DEF RingInv, HeapOK
  <2>4. HeapOK
    BY DEF RingInv
  <2> HIDE DEF TypeInv, TypeOK
  <2> QED
    BY <1>1, <2>1, <2>2, <2>3, <2>4 DEF HeapOK
<1>7. ProducerOK'
  <2>1. Occ' = Dist(prod'[d].start, wr') /\ Occ' \in Slots
    BY <1>1, <1>2, DistType DEF Occ, Dist
  <2>2. Occ' <= Dist(prod'[d].start, wr')
    BY <2>1, SizeAssumption DEF Slots
  <2>3. /\ prod'[d].pc = "check" /\ prod'[d].m = m /\ prod'[d].end = wr'
        /\ heap'[m] = "live" /\ published' = published
    BY <1>1, <1>2, <1>3
  <2> QED
    BY <1>4, <2>2, <2>3 DEF ProducerOK, Dist
<1>8. LifeOK'
  <2>1. Seen(d)' = Seen(d)
    BY <1>1 DEF Seen
  <2>2. LifeOK /\ dev[d] \in {"booting", "running"} /\ prod[d].pc = "idle"
    BY DEF RingInv, SendMsg
  <2> QED
    BY <1>1, <1>2, <2>1, <2>2 DEF LifeOK
<1> QED
  BY <1>1, <1>5, <1>6, <1>7, <1>8 DEF RingInv

LEMMA DropStep ==
    ASSUME NEW d, Devices = {d}, TypeInv, RingInv, Drop(d)
    PROVE  RingInv'
<1> USE DEF TypeInv, TypeOK
<1>1. UNCHANGED <<module, dev, priv, buf, rd, wr, pending, work, published, sent>>
  BY DEF Drop, lifeVars, privVars, ringVars, histVars
<1>2. prod'[d].pc = "idle" /\ prod[d].pc = "check"
  BY DEF Drop, IdleProd
<1>3. \A x \in Msgs : heap'[x] = IF x = prod[d].m THEN "freed" ELSE heap[x]
  BY DEF Drop, kfree
<1>4. \A k \in 1 .. Len(published) : heap'[published[k]] = heap[published[k]]
  BY <1>2, <1>3 DEF RingInv, ProducerOK
<1>5. RingOK' /\ WorkerOK'
  BY <1>1 DEF RingInv, RingOK, WorkerOK, Occ, Base, Pos, Slot
<1>6. HeapOK'
  <2>1. Base' = Base /\ Pos(d)' = Pos(d)
    BY <1>1 DEF Base, Pos, Occ
  <2>2. \A x \in Msgs : heap'[x] = "live" =>
           \E k \in 1 .. Len(published) : published[k] = x
    BY <1>3 DEF RingInv, HeapOK
  <2> QED
    BY <1>1, <1>4, <2>1, <2>2 DEF RingInv, HeapOK
<1>7. ProducerOK'
  BY <1>2 DEF ProducerOK
<1>8. LifeOK'
  BY <1>1, <1>2 DEF RingInv, LifeOK, Seen
<1> QED
  BY <1>1, <1>5, <1>6, <1>7, <1>8 DEF RingInv

\* The message goes into the free slot at the write index: the occupied slots keep
\* theirs.  The room test with the old read index is on the safe side.
LEMMA StoreStep ==
    ASSUME NEW d, Devices = {d}, TypeInv, RingInv, Store(d)
    PROVE  RingInv'
<1> USE SizeAssumption DEF TypeInv, TypeOK
<1>1. UNCHANGED <<module, dev, priv, rd, wr, pending, work, heap, published, sent>>
  BY DEF Store, lifeVars, privVars, histVars
<1>2. /\ prod[d].pc = "check" /\ prod'[d].pc = "publish"
      /\ prod'[d].m = prod[d].m /\ prod'[d].end = prod[d].end
  BY DEF Store
<1>3. prod[d].end = wr /\ Occ <= Dist(prod[d].start, wr)
  BY <1>2 DEF RingInv, ProducerOK
<1>4. Occ \in Slots
  BY DistType DEF Occ
<1>5. Occ < N - 1
  <2>1. Succ(wr) # prod[d].start
    BY <1>3 DEF Store, HasRoom
  <2>2. Dist(prod[d].start, wr) # N - 1
    BY <2>1, DistSucc
  <2>3. Dist(prod[d].start, wr) \in Slots
    BY DistType
  <2> QED
    BY <1>3, <1>4, <2>2, <2>3 DEF Slots
<1>6. buf'[wr] = prod[d].m /\ \A x \in Slots : x # wr => buf'[x] = buf[x]
  BY <1>3 DEF Store
<1>7. RingOK'
  <2>1. Occ' = Occ /\ Base' = Base
    BY <1>1 DEF Occ, Base
  <2>2. ASSUME NEW j \in 0 .. Occ - 1
        PROVE  buf'[Slot(j)'] = published[Base + j + 1]
    <3>1. j \in Slots /\ j # Occ
      BY <1>4, <2>2 DEF Slots
    <3>2. Slot(j) \in Slots /\ Slot(j) # wr /\ Slot(j)' = Slot(j)
      BY <1>1, <3>1, SlotDist DEF Occ, Slot
    <3> QED
      BY <1>6, <2>2, <3>2 DEF RingInv, RingOK
  <2> QED
    BY <1>1, <2>1, <2>2 DEF RingInv, RingOK
<1>8. WorkerOK'
  BY <1>1 DEF RingInv, WorkerOK, Occ, Base, Pos
<1>9. HeapOK'
  BY <1>1, <1>2 DEF RingInv, HeapOK, Occ, Base, Pos
<1>10. ProducerOK'
  <2>1. Occ' = Occ
    BY <1>1 DEF Occ
  <2> QED
    BY <1>1, <1>2, <1>3, <1>5, <1>6, <2>1 DEF RingInv, ProducerOK
<1>11. LifeOK'
  BY <1>1, <1>2 DEF RingInv, LifeOK, Seen, Store
<1> QED
  BY <1>1, <1>7, <1>8, <1>9, <1>10, <1>11 DEF RingInv

\* The message becomes the newest of the ring and of the history.
LEMMA PublishStep ==
    ASSUME NEW d, Devices = {d}, TypeInv, RingInv, Publish(d)
    PROVE  RingInv'
<1> USE SizeAssumption DEF TypeInv, TypeOK
<1> DEFINE m == prod[d].m
           L == Len(published)
<1>1. UNCHANGED <<module, dev, priv, buf, rd, pending, work, heap, sent>>
  BY DEF Publish, lifeVars, privVars
<1>2. prod[d].pc = "publish" /\ prod'[d].pc = "queue"
  BY DEF Publish
<1>3. /\ m \in Msgs /\ heap[m] = "live" /\ prod[d].end = wr
      /\ \A k \in 1 .. L : published[k] # m
      /\ buf[wr] = m /\ Occ < N - 1
  BY <1>2 DEF RingInv, ProducerOK
<1>4. /\ L \in Nat /\ Len(published') = L + 1 /\ published'[L + 1] = m
      /\ \A k \in 1 .. L : published'[k] = published[k]
  BY <1>3 DEF Publish
<1>5. Occ \in Slots /\ wr' = Succ(wr) /\ wr' \in Slots
  BY <1>3, DistType, SuccType DEF Occ, Publish
<1>6. Occ' = Occ + 1 /\ wr' # rd
  <2>1. Succ(wr) # rd
    BY <1>3, <1>5, DistSucc DEF Occ
  <2>2. Dist(rd, Succ(wr)) = Dist(rd, wr) + 1
    BY <2>1, DistSucc
  <2> QED
    BY <1>1, <1>5, <2>1, <2>2 DEF Occ, Dist
<1>7. Base' = Base /\ Base \in Nat /\ L = Base + Occ
  BY <1>4, <1>5, <1>6, Bounds DEF Base, RingInv, Slots
<1>8. Pos(d)' = Pos(d) /\ Pos(d) \in Slots /\ Pos(d) <= Occ
  <2>1. Pos(d)' = Pos(d)
    BY <1>1 DEF Pos, Dist
  <2> QED
    BY <2>1, Bounds DEF RingInv
<1>9. RingOK'
  <2>1. ASSUME NEW j \in 0 .. Occ
        PROVE  buf[Slot(j)] = published'[Base + j + 1]
    <3>1. CASE j = Occ
      <4>1. Slot(Occ) = wr
        BY SlotDist, <1>5 DEF Occ
      <4> QED
        BY <1>3, <1>4, <1>7, <3>1, <4>1
    <3>2. CASE j # Occ
      <4>1. j \in 0 .. Occ - 1 /\ Base + j + 1 \in 1 .. L
        BY <1>5, <1>7, <3>2 DEF Slots
      <4>2. buf[Slot(j)] = published[Base + j + 1]
        BY <4>1 DEF RingInv, RingOK
      <4> QED
        BY <1>4, <4>1, <4>2
    <3> QED
      BY <3>1, <3>2
  <2>2. \A j : Slot(j)' = Slot(j)
    BY <1>1 DEF Slot
  <2>3. Occ' - 1 = Occ /\ Occ' <= Len(published')
    <3> HIDE DEF TypeInv, TypeOK
    <3> QED
      BY <1>4, <1>5, <1>6, <1>7 DEF Slots
  <2> QED
    BY <1>1, <1>7, <2>1, <2>2, <2>3 DEF RingOK
<1>10. WorkerOK'
  <2>1. WorkerOK
    BY DEF RingInv
  <2>2. Dist(rd, work[d].end) \in Slots
    BY DistType
  <2>3. work[d].pc # "idle" => Dist(rd, work[d].end) <= Occ'
    <3> HIDE DEF TypeInv, TypeOK
    <3> QED
      BY <1>5, <1>6, <2>1, <2>2 DEF WorkerOK, Slots
  <2> QED
    BY <1>1, <1>7, <1>8, <2>1, <2>3 DEF WorkerOK, Dist
<1>11. HeapOK'
  <2>1. \A j, k \in 1 .. L + 1 : published'[j] = published'[k] => j = k
    BY <1>3, <1>4 DEF RingInv, HeapOK
  <2>2. ASSUME NEW k \in 1 .. L + 1
        PROVE  heap[published'[k]] = IF k <= Base + Pos(d) THEN "freed" ELSE "live"
    <3>1. CASE k = L + 1
      BY <1>3, <1>4, <1>5, <1>7, <1>8, <3>1 DEF Slots
    <3>2. CASE k # L + 1
      BY <1>4, <3>2 DEF RingInv, HeapOK
    <3> QED
      BY <3>1, <3>2
  <2>3. ASSUME NEW x \in Msgs, heap[x] = "live"
        PROVE  \E k \in 1 .. L + 1 : published'[k] = x
    <3>1. CASE x = m
      <4>1. L + 1 \in 1 .. L + 1
        BY <1>4
      <4> QED
        BY <1>4, <3>1, <4>1
    <3>2. CASE x # m
      <4>1. PICK k \in 1 .. L : published[k] = x
        BY <2>3, <3>2 DEF RingInv, HeapOK
      <4> QED
        BY <1>4, <4>1
    <3> QED
      BY <3>1, <3>2
  <2> QED
    BY <1>1, <1>4, <1>7, <1>8, <2>1, <2>2, <2>3 DEF HeapOK
<1>12. ProducerOK'
  BY <1>2 DEF ProducerOK
<1>13. LifeOK'
  <2>1. LifeOK
    BY DEF RingInv
  <2> QED
    BY <1>1, <1>2, <2>1 DEF LifeOK
<1>14. \A k \in 1 .. Len(sent') : sent'[k] = published'[k]
  <2>1. Len(sent) <= L /\ Len(sent) \in Nat
    BY Bounds DEF RingInv
  <2> QED
    BY <1>1, <1>4, <2>1 DEF RingInv
<1> QED
  BY <1>9, <1>10, <1>11, <1>12, <1>13, <1>14 DEF RingInv

LEMMA QueueWorkStep ==
    ASSUME NEW d, Devices = {d}, TypeInv, RingInv, QueueWork(d)
    PROVE  RingInv'
<1> USE NullAssumption DEF TypeInv, TypeOK
<1>1. UNCHANGED <<module, dev, priv, buf, rd, wr, work, heap, published, sent>>
  BY DEF QueueWork, lifeVars, privVars, ringVars, histVars
<1>2. prod[d].pc = "queue" /\ prod'[d].pc = "idle"
  BY DEF QueueWork, IdleProd
<1>3. pending' = d /\ dev[d] \in {"booting", "running"}
  BY <1>2 DEF QueueWork, RingInv, LifeOK
<1>4. RingOK' /\ WorkerOK'
  BY <1>1 DEF RingInv, RingOK, WorkerOK, Occ, Base, Pos, Slot
<1>5. HeapOK'
  BY <1>1, <1>2 DEF RingInv, HeapOK, Occ, Base, Pos
<1>6. ProducerOK'
  BY <1>2 DEF ProducerOK
<1>7. LifeOK'
  BY <1>1, <1>2, <1>3 DEF RingInv, LifeOK
<1> QED
  BY <1>1, <1>4, <1>5, <1>6, <1>7 DEF RingInv

-----------------------------------------------------------------------------
(* The worker.                                                             *)

LEMMA BeginWorkStep ==
    ASSUME NEW d, Devices = {d}, TypeInv, RingInv, BeginWork(d)
    PROVE  RingInv'
<1> USE SizeAssumption, NullAssumption DEF TypeInv, TypeOK
<1>1. UNCHANGED <<module, dev, priv, buf, rd, wr, prod, heap, published, sent>>
  BY DEF BeginWork, lifeVars, privVars, ringVars, histVars
<1>2. /\ work[d].pc = "idle" /\ work'[d] = [pc |-> "loop", i |-> rd, end |-> wr]
      /\ pending = d /\ pending' = NULL /\ module = "ready"
  BY DEF BeginWork
<1>3. Occ' = Occ /\ Base' = Base /\ Occ \in Slots
  BY <1>1, DistType DEF Occ, Base
<1>4. Pos(d) = 0 /\ Pos(d)' = 0 /\ Dist(rd, rd) = 0 /\ Dist(rd, wr) = Occ
  BY <1>1, <1>2, DistType DEF Pos, Dist, Occ
<1>5. RingOK'
  BY <1>1, <1>3 DEF RingInv, RingOK, Slot
<1>6. WorkerOK'
  <2>2. Len(sent) = Base + 0 + 0
    BY <1>2, <1>4 DEF RingInv, WorkerOK
  <2>3. /\ work'[d].pc = "loop" /\ work'[d].i = rd' /\ work'[d].end = wr'
        /\ sent' = sent
    BY <1>1, <1>2
  <2>4. 0 <= Occ
    BY <1>3 DEF Slots
  <2>5. Dist(rd, work[d].i)' = 0 /\ Dist(rd, work[d].end)' = Occ'
    BY <1>1, <1>3, <1>4, <2>3 DEF Dist
  <2>6. Len(sent') = Base' + Pos(d)' + 0
    BY <1>3, <1>4, <2>2, <2>3
  <2>7. /\ Dist(rd, work[d].i)' <= Dist(rd, work[d].end)'
        /\ Dist(rd, work[d].end)' <= Occ'
    BY <1>3, <2>4, <2>5 DEF Slots
  <2> QED
    BY <2>3, <2>6, <2>7 DEF WorkerOK
<1>7. HeapOK'
  <2>1. HeapOK
    BY DEF RingInv
  <2> HIDE DEF TypeInv, TypeOK
  <2> QED
    BY <1>1, <1>3, <1>4, <2>1 DEF HeapOK
<1>8. ProducerOK'
  BY <1>1, <1>3 DEF RingInv, ProducerOK, Dist
<1>9. LifeOK'
  <2>1. Seen(d)' = wr'
    BY <1>1, <1>2 DEF Seen
  <2> QED
    BY <1>1, <1>2, <2>1 DEF RingInv, LifeOK
<1> QED
  BY <1>1, <1>5, <1>6, <1>7, <1>8, <1>9 DEF RingInv

\* The message in the worker's slot is the oldest one not sent.
LEMMA NextMessage ==
    ASSUME NEW d \in Devices, TypeInv, RingInv,
           work[d].pc # "idle", work[d].i # work[d].end
    PROVE  /\ Base + Pos(d) + 1 \in 1 .. Len(published)
           /\ buf[work[d].i] = published[Base + Pos(d) + 1]
<1> USE SizeAssumption DEF TypeInv, TypeOK
<1>1. /\ Pos(d) < Occ /\ Occ \in Slots /\ Pos(d) \in Slots /\ Base \in Nat
      /\ Len(published) = Base + Occ
  BY Bounds DEF RingInv
<1>2. Pos(d) = Dist(rd, work[d].i)
  BY DEF Pos
<1>3. Slot(Pos(d)) = work[d].i
  BY <1>1, <1>2, SlotDist
<1>4. Pos(d) \in 0 .. Occ - 1
  BY <1>1 DEF Slots
<1>5. buf[Slot(Pos(d))] = published[Base + Pos(d) + 1]
  BY <1>4 DEF RingInv, RingOK
<1>6. Base + Pos(d) + 1 \in 1 .. Len(published)
  <2>1. Pos(d) \in Nat /\ Occ \in Nat
    BY <1>1 DEF Slots
  <2>2. ASSUME NEW b \in Nat, NEW q \in Nat, NEW o \in Nat, q < o
        PROVE  b + q + 1 \in 1 .. b + o
    BY <2>2
  <2> QED
    BY <1>1, <2>1, <2>2
<1> QED
  BY <1>3, <1>5, <1>6

LEMMA SendStep ==
    ASSUME NEW d, Devices = {d}, TypeInv, RingInv, Send(d)
    PROVE  RingInv'
<1> USE SizeAssumption DEF TypeInv, TypeOK
<1>1. UNCHANGED <<module, dev, priv, buf, rd, wr, pending, prod, heap, published>>
  BY DEF Send, lifeVars, privVars, ringVars
<1>2. /\ work[d].pc = "loop" /\ work[d].i # work[d].end
      /\ work'[d].pc = "free" /\ work'[d].i = work[d].i /\ work'[d].end = work[d].end
  BY DEF Send
<1>3. Occ' = Occ /\ Base' = Base /\ Pos(d)' = Pos(d) /\ Seen(d)' = Seen(d)
  BY <1>1, <1>2 DEF Occ, Base, Pos, Seen
<1>4. Base \in Nat /\ Pos(d) \in Nat /\ Len(sent) = Base + Pos(d)
  <2>1. Base \in Nat /\ Pos(d) \in Slots
    BY Bounds DEF RingInv
  <2>2. Len(sent) = Base + Pos(d) + 0
    BY <1>2 DEF RingInv, WorkerOK
  <2> QED
    BY <2>1, <2>2 DEF Slots
<1>5. buf[work[d].i] \in Msgs \cup {NULL}
  OBVIOUS
<1>6. /\ Len(sent') = Len(sent) + 1
      /\ sent'[Len(sent) + 1] = buf[work[d].i]
      /\ \A k \in 1 .. Len(sent) : sent'[k] = sent[k]
  BY <1>5 DEF Send
<1>7. \A k \in 1 .. Len(sent') : sent'[k] = published'[k]
  <2>1. buf[work[d].i] = published[Len(sent) + 1]
    BY <1>2, <1>4, NextMessage
  <2> QED
    BY <1>1, <1>4, <1>6, <2>1 DEF RingInv
<1>8. RingOK'
  BY <1>1, <1>3 DEF RingInv, RingOK, Slot
<1>9. WorkerOK'
  <2>1. Len(sent') = Base' + Pos(d)' + 1
    BY <1>3, <1>4, <1>6
  <2>2. /\ Dist(rd, work[d].i) <= Dist(rd, work[d].end)
        /\ Dist(rd, work[d].end) <= Occ
    BY <1>2 DEF RingInv, WorkerOK
  <2> QED
    BY <1>1, <1>2, <1>3, <2>1, <2>2 DEF WorkerOK, Dist
<1>10. HeapOK'
  <2>1. HeapOK
    BY DEF RingInv
  <2> HIDE DEF TypeInv, TypeOK
  <2> QED
    BY <1>1, <1>3, <2>1 DEF HeapOK
<1>11. ProducerOK'
  BY <1>1, <1>3 DEF RingInv, ProducerOK, Dist
<1>12. LifeOK'
  BY <1>1, <1>2, <1>3 DEF RingInv, LifeOK
<1> QED
  BY <1>7, <1>8, <1>9, <1>10, <1>11, <1>12 DEF RingInv

LEMMA FreeStep ==
    ASSUME NEW d, Devices = {d}, TypeInv, RingInv, Free(d)
    PROVE  RingInv'
<1> USE SizeAssumption DEF TypeInv, TypeOK
<1> DEFINE p == Base + Pos(d) + 1
<1>1. UNCHANGED <<module, dev, priv, buf, rd, wr, pending, prod, published, sent>>
  BY DEF Free, lifeVars, privVars, ringVars, histVars
<1>2. /\ work[d].pc = "free" /\ work'[d].pc = "loop"
      /\ work'[d].i = Succ(work[d].i) /\ work'[d].end = work[d].end
  BY DEF Free
<1>3. work[d].i # work[d].end
  BY <1>2 DEF RingInv, WorkerOK
<1>4. p \in 1 .. Len(published) /\ buf[work[d].i] = published[p]
  BY <1>2, <1>3, NextMessage
<1>5. /\ Occ \in Slots /\ Pos(d) \in Slots /\ Base \in Nat /\ Pos(d) < Occ
      /\ Len(published) = Base + Occ
  BY <1>2, <1>3, Bounds DEF RingInv
<1>6. Occ' = Occ /\ Base' = Base /\ Seen(d)' = Seen(d)
  BY <1>1, <1>2 DEF Occ, Base, Seen
<1>7. /\ Pos(d) = Dist(rd, work[d].i)
      /\ Pos(d)' = Pos(d) + 1 /\ Dist(rd, work'[d].i) = Pos(d) + 1
  <2>1. Pos(d) = Dist(rd, work[d].i)
    BY <1>2 DEF Pos
  <2>2. Dist(rd, work[d].i) # N - 1
    BY <1>5, <2>1 DEF Slots
  <2>3. Succ(work[d].i) # rd
    BY <2>2, DistSucc
  <2>4. Dist(rd, Succ(work[d].i)) = Dist(rd, work[d].i) + 1
    BY <2>3, DistSucc
  <2> QED
    BY <1>1, <1>2, <2>1, <2>4 DEF Pos, Dist
<1>8. \A x \in Msgs : heap'[x] = IF x = published[p] THEN "freed" ELSE heap[x]
  BY <1>4 DEF Free, kfree
<1>9. RingOK'
  BY <1>1, <1>6 DEF RingInv, RingOK, Slot
<1>10. WorkerOK'
  <2>1. /\ Dist(rd, work[d].i) <= Dist(rd, work[d].end)
        /\ Dist(rd, work[d].end) <= Occ
        /\ Len(sent) = Base + Pos(d) + 1
    BY <1>2 DEF RingInv, WorkerOK
  <2>2. Dist(rd, work[d].i) # Dist(rd, work[d].end)
    BY <1>3, DistInjective
  <2>3. Dist(rd, work[d].end) \in Slots
    BY DistType
  <2>4. Dist(rd, work'[d].i) <= Dist(rd, work[d].end)
    <3> HIDE DEF TypeInv, TypeOK
    <3> QED
      BY <1>5, <1>7, <2>1, <2>2, <2>3 DEF Slots
  <2>5. Len(sent') = Base' + Pos(d)' + 0
    <3> HIDE DEF TypeInv, TypeOK
    <3> QED
      BY <1>1, <1>5, <1>6, <1>7, <2>1 DEF Slots
  <2> QED
    BY <1>1, <1>2, <1>6, <2>1, <2>4, <2>5 DEF WorkerOK, Dist
<1>11. HeapOK'
  <2>1. ASSUME NEW k \in 1 .. Len(published)
        PROVE  heap'[published[k]] =
                  IF k <= Base + Pos(d) + 1 THEN "freed" ELSE "live"
    <3>1. published[k] \in Msgs
      OBVIOUS
    <3>2. heap[published[k]] = IF k <= Base + Pos(d) THEN "freed" ELSE "live"
      BY DEF RingInv, HeapOK
    <3>3. published[k] = published[p] <=> k = p
      BY <1>4 DEF RingInv, HeapOK
    <3>4. k = p => ~(k <= Base + Pos(d)) /\ k <= Base + Pos(d) + 1
      BY <1>5 DEF Slots
    <3>5. k # p => (k <= Base + Pos(d) <=> k <= Base + Pos(d) + 1)
      <4> HIDE DEF TypeInv, TypeOK
      <4> QED
        BY <1>5 DEF Slots
    <3> QED
      BY <1>8, <3>1, <3>2, <3>3, <3>4, <3>5
  <2>2. \A x \in Msgs : heap'[x] = "live" => heap[x] = "live"
    BY <1>8
  <2>3. Base' + Pos(d)' = Base + Pos(d) + 1
    BY <1>5, <1>6, <1>7 DEF Slots
  <2> QED
    BY <1>1, <2>1, <2>2, <2>3 DEF RingInv, HeapOK
<1>12. ProducerOK'
  <2>1. prod[d].pc \in {"check", "publish"} => prod[d].m # published[p]
    BY <1>4 DEF RingInv, ProducerOK
  <2> QED
    BY <1>1, <1>6, <1>8, <2>1 DEF RingInv, ProducerOK, Dist
<1>13. LifeOK'
  BY <1>1, <1>2, <1>6 DEF RingInv, LifeOK
<1> QED
  BY <1>1, <1>9, <1>10, <1>11, <1>12, <1>13 DEF RingInv

\* cn_buf_read moves to where the worker has come: the slots it has finished are
\* given back, and the rest of the ring keeps its messages.
LEMMA EndWorkStep ==
    ASSUME NEW d, Devices = {d}, TypeInv, RingInv, EndWork(d)
    PROVE  RingInv'
<1> USE SizeAssumption DEF TypeInv, TypeOK
<1> DEFINE e == work[d].end
           q == Dist(rd, e)
<1>1. UNCHANGED <<module, dev, priv, buf, wr, pending, prod, heap, published, sent>>
  BY DEF EndWork, lifeVars, privVars, histVars
<1>2. /\ work[d].pc = "loop" /\ work[d].i = e
      /\ work'[d].pc = "idle" /\ rd' = e /\ e \in Slots
  BY DEF EndWork, IdleWork
<1>3. Pos(d) = q /\ q <= Occ /\ q \in Slots
  <2>1. Pos(d) = q
    BY <1>2 DEF Pos
  <2>2. q <= Occ
    BY <1>2 DEF RingInv, WorkerOK
  <2> QED
    BY <1>2, <2>1, <2>2, DistType
<1>4. /\ Occ \in Slots /\ Base \in Nat /\ Len(published) \in Nat
      /\ Len(published) = Base + Occ
  BY Bounds DEF RingInv
<1>5. Occ' = Occ - q
  <2>1. Dist(e, wr) = Dist(rd, wr) - Dist(rd, e)
    BY <1>2, <1>3, DistSplit DEF Occ
  <2>2. Occ' = Dist(e, wr)
    BY <1>1, <1>2 DEF Occ, Dist
  <2> QED
    BY <2>1, <2>2 DEF Occ
<1>6. Base' = Base + q /\ Base' \in Nat
  <2>1. Base' = Len(published) - Occ'
    BY <1>1 DEF Base
  <2> HIDE DEF TypeInv, TypeOK, q
  <2> QED
    BY <1>3, <1>4, <1>5, <2>1 DEF Slots
<1>7. Pos(d)' = 0 /\ Seen(d) = e /\ Seen(d)' = e
  BY <1>2 DEF Pos, Seen
<1>8. RingOK'
  <2>1. ASSUME NEW j \in 0 .. Occ' - 1
        PROVE  buf'[Slot(j)'] = published'[Base' + j + 1]
    <3>1. j + q \in 0 .. Occ - 1
      <4> HIDE DEF TypeInv, TypeOK, q
      <4> QED
        BY <1>3, <1>4, <1>5, <2>1 DEF Slots
    <3>2. buf[Slot(j + q)] = published[Base + (j + q) + 1]
      BY <3>1 DEF RingInv, RingOK
    <3>3. Slot(j)' = Slot(j + q)
      <4>1. j \in Nat /\ q \in Nat /\ j + q < N
        BY <1>3, <1>4, <3>1, <2>1 DEF Slots
      <4>2. Slot(j)' = IF e + j < N THEN e + j ELSE e + j - N
        BY <1>2 DEF Slot
      <4> HIDE DEF e
      <4>3. (IF e + j < N THEN e + j ELSE e + j - N)
              = IF rd + (j + q) < N THEN rd + (j + q) ELSE rd + (j + q) - N
        BY <1>2, <4>1 DEF Dist, Slots
      <4> QED
        BY <4>2, <4>3 DEF Slot
    <3>4. Base' + j + 1 = Base + (j + q) + 1
      <4> HIDE DEF TypeInv, TypeOK, q
      <4> QED
        BY <1>3, <1>4, <1>6, <2>1 DEF Slots
    <3> QED
      BY <1>1, <3>2, <3>3, <3>4
  <2>2. Occ' <= Len(published')
    BY <1>1, <1>3, <1>4, <1>5 DEF Slots
  <2> QED
    BY <2>1, <2>2 DEF RingOK
<1>9. WorkerOK'
  <2>1. Len(sent) = Base + Pos(d) + 0
    BY <1>2 DEF RingInv, WorkerOK
  <2>2. Len(sent') = Base' + Pos(d)' + 0
    BY <1>1, <1>3, <1>4, <1>6, <1>7, <2>1 DEF Slots
  <2> QED
    BY <1>2, <2>2 DEF WorkerOK
<1>10. HeapOK'
  <2>1. Base' + Pos(d)' = Base + Pos(d)
    BY <1>3, <1>4, <1>6, <1>7 DEF Slots
  <2> QED
    BY <1>1, <2>1 DEF RingInv, HeapOK
<1>11. ProducerOK'
  <2>1. Occ' <= Occ /\ Occ' \in Int
    BY <1>3, <1>4, <1>5 DEF Slots
  <2>2. Dist(prod[d].start, wr)' = Dist(prod[d].start, wr)
    BY <1>1 DEF Dist
  <2>3. prod[d].pc = "check" => Occ' <= Dist(prod[d].start, wr)'
    <3>1. Dist(prod[d].start, wr) \in Slots
      BY DistType
    <3>2. prod[d].pc = "check" => Occ <= Dist(prod[d].start, wr)
      BY DEF RingInv, ProducerOK
    <3> QED
      BY <1>4, <2>1, <2>2, <3>1, <3>2 DEF Slots
  <2>4. prod[d].pc = "publish" => buf[wr] = prod[d].m /\ Occ' < N - 1
    BY <1>4, <2>1 DEF RingInv, ProducerOK, Slots
  <2> QED
    BY <1>1, <2>3, <2>4 DEF RingInv, ProducerOK
<1>12. LifeOK'
  BY <1>1, <1>2, <1>7 DEF RingInv, LifeOK
<1> QED
  BY <1>1, <1>8, <1>9, <1>10, <1>11, <1>12 DEF RingInv

\* A use of the freed iwl_priv ends the model and leaves everything as it is.
LEMMA UseFreedStep ==
    ASSUME NEW d, Devices = {d}, TypeInv, RingInv, UseFreedPriv(d)
    PROVE  RingInv'
<1>1. UNCHANGED <<dev, priv, buf, rd, wr, pending, prod, work, heap, published, sent>>
  BY DEF UseFreedPriv, privVars, ringVars, histVars
<1>2. module' = "failed"
  BY DEF UseFreedPriv
<1>3. RingOK' /\ WorkerOK' /\ HeapOK' /\ ProducerOK'
  BY <1>1 DEF RingInv, RingOK, WorkerOK, HeapOK, ProducerOK, Occ, Base, Pos, Slot
<1>4. LifeOK'
  BY <1>1, <1>2 DEF RingInv, LifeOK, Seen
<1> QED
  BY <1>1, <1>3, <1>4 DEF RingInv

-----------------------------------------------------------------------------
(* The inductive invariant and what follows from it.                       *)

LEMMA RingStep == OneCard /\ TypeInv /\ RingInv /\ [Next]_vars => RingInv'
<1> SUFFICES ASSUME OneCard, TypeInv, RingInv, [Next]_vars PROVE RingInv'
  OBVIOUS
<1>0. PICK d : Devices = {d}
  BY DEF OneCard
<1>1. CASE Insmod
  BY <1>0, <1>1, ResetStep DEF Insmod, RingInv, LifeOK
<1>2. CASE Register
  BY <1>0, <1>2, ResetStep DEF Register, privVars, RingInv, LifeOK
<1>3. CASE RegisterFails
  BY <1>0, <1>3, UnregisterStep DEF RegisterFails, privVars, RingInv, LifeOK
<1>4. CASE Exit
  BY <1>0, <1>4, UnregisterStep DEF Exit, privVars
<1>5. CASE Device(d)
  BY <1>0, <1>5, DeviceStep
<1>6. CASE \E m \in Msgs : SendMsg(d, m)
  BY <1>0, <1>6, SendMsgStep
<1>7. CASE Producer(d)
  BY <1>0, <1>7, DropStep, StoreStep, PublishStep, QueueWorkStep, UseFreedStep
  DEF Producer
<1>8. CASE Worker(d)
  BY <1>0, <1>8, BeginWorkStep, SendStep, FreeStep, EndWorkStep DEF Worker
<1>9. CASE UNCHANGED vars
  BY <1>9 DEF vars, RingInv, RingOK, WorkerOK, HeapOK, ProducerOK, LifeOK, Occ,
              Base, Pos, Seen, Slot, Dist
<1> QED
  BY <1>0, <1>1, <1>2, <1>3, <1>4, <1>5, <1>6, <1>7, <1>8, <1>9
  DEF Next, Life, Released

\* The two invariants hold together: RingInv is inductive relative to TypeInv.
LEMMA Always == OneCard /\ Spec => [](TypeInv /\ RingInv)
<1> SUFFICES ASSUME OneCard PROVE Spec => [](TypeInv /\ RingInv)
  OBVIOUS
<1>1. Init => TypeInv /\ RingInv
  BY TypeInit, RingInit
<1>2. TypeInv /\ RingInv /\ [Next]_vars => (TypeInv /\ RingInv)'
  BY TypeStep, RingStep
<1> QED
  BY <1>1, <1>2, PTL DEF Spec

\* With one card whose interface comes up after iwl_init, the invariant that ties
\* cn_msg_buf, its indices, the threads' copies of them and the allocations to the
\* history of the reports holds for every size of the buffer and every number of
\* reports.
THEOREM RingCorrect == OneCard /\ Spec => []RingInv
BY Always, PTL

\* What connector_send_all sends and frees, and what the unregistration would free,
\* is allocated: no use after free, no double free.
THEOREM NeverUsesFreed == OneCard /\ Spec => []MemorySafe
<1> SUFFICES ASSUME OneCard PROVE Spec => []MemorySafe
  OBVIOUS
<1>1. TypeInv /\ RingInv => MemorySafe
  <2> SUFFICES ASSUME TypeInv, RingInv PROVE MemorySafe
    OBVIOUS
  <2> USE DEF TypeInv, TypeOK
  <2>1. ASSUME NEW d \in Devices, Touches(d) PROVE Live(buf[work[d].i])
    <3>1. work[d].pc # "idle" /\ work[d].i # work[d].end
      BY <2>1 DEF Touches, RingInv, WorkerOK
    <3> DEFINE p == Base + Pos(d) + 1
    <3>2. p \in 1 .. Len(published) /\ buf[work[d].i] = published[p]
      BY <3>1, NextMessage
    <3>3. Base \in Nat /\ Pos(d) \in Nat
      <4>1. Base \in Nat /\ Pos(d) \in Slots
        BY Bounds DEF RingInv
      <4> QED
        BY <4>1, SizeAssumption DEF Slots
    <3>4. heap[published[p]] = "live"
      <4>1. ~(p <= Base + Pos(d))
        BY <3>3
      <4> QED
        BY <3>2, <4>1 DEF RingInv, HeapOK
    <3> QED
      BY <3>2, <3>4 DEF Live
  <2>2. ASSUME Unregistering PROVE Ring = {}
    <3>1. PICK d : Devices = {d}
      BY DEF OneCard
    <3>2. rd = wr
      BY <2>2, <3>1, AtRest DEF Unregistering, RingInv, LifeOK
    <3> QED
      BY <3>2, SizeAssumption DEF Ring, Interval, Slots
  <2> QED
    BY <2>1, <2>2 DEF MemorySafe
<1> QED
  BY <1>1, Always, PTL

\* No message is leaked: an allocated one is in the hands of the producer or in a
\* slot of the ring that is still to be freed.
THEOREM NothingLeaks == OneCard /\ Spec => []NoLeak
<1> SUFFICES ASSUME OneCard PROVE Spec => []NoLeak
  OBVIOUS
<1>1. TypeInv /\ RingInv => NoLeak
  <2> SUFFICES ASSUME TypeInv, RingInv, NEW m \in Msgs, heap[m] = "live",
                      ~ \E d \in Devices :
                          prod[d].pc \in {"check", "publish"} /\ prod[d].m = m
               PROVE  \E i \in Unfreed : buf[i] = m
    BY DEF NoLeak
  <2> USE SizeAssumption DEF TypeInv, TypeOK
  <2>1. PICK d : Devices = {d}
    BY DEF OneCard
  <2>2. PICK k \in 1 .. Len(published) : published[k] = m
    BY DEF RingInv, HeapOK
  <2>3. k > Base + Pos(d)
    <3>1. Base \in Nat /\ Pos(d) \in Nat
      BY <2>1, Bounds DEF RingInv, Slots
    <3>2. ~(k <= Base + Pos(d))
      BY <2>1, <2>2 DEF RingInv, HeapOK
    <3> QED
      BY <2>2, <3>1, <3>2
  <2> DEFINE j == k - Base - 1
             i == Slot(j)
  <2>4. /\ Occ \in Slots /\ Pos(d) \in Slots /\ Base \in Nat
        /\ Len(published) = Base + Occ
    BY <2>1, Bounds DEF RingInv
  <2>5. j \in 0 .. Occ - 1 /\ Pos(d) <= j /\ Base + j + 1 = k
    BY <2>2, <2>3, <2>4 DEF Slots
  <2>6. buf[i] = m
    BY <2>2, <2>5 DEF RingInv, RingOK
  <2>7. i \in Slots /\ Dist(rd, i) = j
    <3>1. j \in Slots
      BY <2>4, <2>5 DEF Slots
    <3>2. i \in Slots
      BY <3>1, SlotDist
    <3> QED
      BY <3>1, <3>2, SlotDist
  <2>8. i \in Ring
    <3>1. Dist(rd, i) < Dist(rd, wr)
      BY <2>4, <2>5, <2>7 DEF Occ, Slots
    <3> QED
      BY <2>7, <3>1, IntervalDist DEF Ring
  <2>9. i \notin Done(d)
    <3>1. CASE work[d].pc = "idle"
      BY <3>1 DEF Done
    <3>2. CASE work[d].pc # "idle"
      <4>1. Pos(d) = Dist(rd, work[d].i) /\ work[d].i \in Slots
        BY <2>1, <3>2 DEF Pos
      <4>2. ~(Dist(rd, i) < Dist(rd, work[d].i))
        BY <2>4, <2>5, <2>7, <4>1 DEF Slots
      <4>3. i \notin Interval(rd, work[d].i)
        BY <2>7, <4>1, <4>2, IntervalDist
      <4> QED
        BY <3>2, <4>3 DEF Done
    <3> QED
      BY <3>1, <3>2
  <2>10. i \in Unfreed
    BY <2>1, <2>8, <2>9 DEF Unfreed
  <2> QED
    BY <2>6, <2>10
<1> QED
  BY <1>1, Always, PTL

\* The reports reach cn_netlink_send in the order of their enqueueing, each once.
THEOREM SentInOrder == OneCard /\ Spec => []InOrder
<1> SUFFICES ASSUME OneCard PROVE Spec => []InOrder
  OBVIOUS
<1>1. TypeInv /\ RingInv => InOrder
  <2> SUFFICES ASSUME TypeInv, RingInv PROVE InOrder
    OBVIOUS
  <2>1. PICK d : d \in Devices
    BY DEF OneCard
  <2>2. Len(sent) <= Len(published)
    BY <2>1, Bounds DEF RingInv
  <2> QED
    BY <2>2 DEF InOrder, RingInv
<1> QED
  BY <1>1, Always, PTL

\* At module exit the ring is empty: the flush of the work queue has sent what was
\* in it.
THEOREM ExitIsClean == OneCard /\ Spec => []ExitLosesNothing
<1> SUFFICES ASSUME OneCard PROVE Spec => []ExitLosesNothing
  OBVIOUS
<1>1. TypeInv /\ RingInv => ExitLosesNothing
  <2> SUFFICES ASSUME TypeInv, RingInv PROVE ExitLosesNothing
    OBVIOUS
  <2>1. PICK d : Devices = {d}
    BY DEF OneCard
  <2> QED
    BY <2>1, AtRest DEF ExitLosesNothing, RingInv
<1> QED
  BY <1>1, Always, PTL

\* priv of a card that has come alive is set anew by every op mode before the one
\* that is freed could be used: the module is reloaded, or the card bound again, only
\* when the card has been stopped.
LEMMA PrivStep ==
    ASSUME OneCard, TypeInv, RingInv, PrivOK, [Next]_vars
    PROVE  PrivOK'
<1>0. PICK d : Devices = {d}
  BY DEF OneCard
<1> SUFFICES ASSUME d \in alive' PROVE priv' = d /\ ~stale' /\ dev'[d] # "off"
  BY <1>0 DEF PrivOK
<1> USE <1>0 DEF PrivOK, privVars
<1>1. CASE Insmod
  BY <1>1 DEF Insmod, RingInv, LifeOK
<1>2. CASE Register \/ RegisterFails \/ Exit
  BY <1>2 DEF Register, RegisterFails, Exit
<1>3. CASE OpModeStart(d) \/ MacStart(d) \/ StartFails(d) \/ Restart(d) \/ MacStop(d)
           \/ FlushDone(d)
  BY <1>3 DEF OpModeStart, MacStart, StartFails, Restart, MacStop, FlushDone, SetDev,
              TypeInv, TypeOK
<1>4. CASE AliveStart(d)
  BY <1>4 DEF AliveStart, SetDev, TypeInv, TypeOK
<1>5. CASE OpModeStop(d)
  BY <1>5 DEF OpModeStop
<1>6. CASE \E m \in Msgs : SendMsg(d, m)
  BY <1>6 DEF SendMsg, lifeVars
<1>7. CASE Producer(d)
  BY <1>7 DEF Producer, Drop, Store, Publish, QueueWork, UseFreedPriv, lifeVars
<1>8. CASE Worker(d)
  BY <1>8 DEF Worker, BeginWork, Send, Free, EndWork, lifeVars
<1>9. CASE UNCHANGED vars
  BY <1>9 DEF vars
<1> QED
  BY <1>1, <1>2, <1>3, <1>4, <1>5, <1>6, <1>7, <1>8, <1>9
  DEF Next, Life, Released, Device

\* Once a card has come alive, connector_enqueue_msg never queues its reports on a work
\* queue that has been destroyed, although no stop resets priv.
THEOREM PrivStaysAlive == OneCard /\ Spec => []PrivAlive
<1> SUFFICES ASSUME OneCard PROVE Spec => []PrivAlive
  OBVIOUS
<1>1. Init => PrivOK
  BY DEF Init, PrivOK
<1>2. TypeInv /\ RingInv /\ PrivOK /\ [Next]_vars => PrivOK'
  BY PrivStep
<1>3. PrivOK => PrivAlive
  BY NullAssumption DEF PrivOK, PrivAlive
<1>4. Spec => [](TypeInv /\ RingInv)
  BY Always
<1> QED
  BY <1>1, <1>2, <1>3, <1>4, PTL DEF Spec

-----------------------------------------------------------------------------
(* The refinement of ReportQueue.  The reports that wait are the suffix of *)
(* the published ones that has not been sent; Publish is the step that     *)
(* accepts, Send the one that delivers, and every other step of            *)
(* connector.c leaves both sequences alone.                                *)

\* The elements of a sequence after the first n.
After(s, n) == SubSeq(s, n + 1, Len(s))

\* They are as many as are left, in the same order.
LEMMA AfterIs ==
    ASSUME NEW S, NEW s \in Seq(S), NEW n \in 0 .. Len(s)
    PROVE  /\ After(s, n) \in Seq(S)
           /\ Len(After(s, n)) = Len(s) - n
           /\ \A i \in 1 .. Len(s) - n : After(s, n)[i] = s[n + i]
<1>1. Len(s) \in Nat /\ n \in Nat /\ n <= Len(s) /\ \A i \in n + 1 .. Len(s) : s[i] \in S
  OBVIOUS
<1>2. /\ After(s, n) \in Seq(S)
      /\ Len(After(s, n)) = IF n + 1 <= Len(s) THEN Len(s) - (n + 1) + 1 ELSE 0
      /\ \A i \in 1 .. Len(s) - (n + 1) + 1 : After(s, n)[i] = s[(n + 1) + i - 1]
  BY <1>1, SubSeqProperties DEF After
<1> QED
  BY <1>1, <1>2

\* A new element comes last.
LEMMA AfterAppend ==
    ASSUME NEW S, NEW s \in Seq(S), NEW e \in S, NEW n \in 0 .. Len(s)
    PROVE  After(Append(s, e), n) = Append(After(s, n), e)
<1> DEFINE t == Append(s, e)
           left == After(t, n)
           right == Append(After(s, n), e)
<1>1. /\ t \in Seq(S) /\ Len(t) = Len(s) + 1 /\ Len(s) \in Nat /\ n \in 0 .. Len(t)
      /\ \A i \in 1 .. Len(s) : t[i] = s[i]
      /\ t[Len(s) + 1] = e
  OBVIOUS
<1>2. /\ left \in Seq(S) /\ Len(left) = Len(t) - n
      /\ \A i \in 1 .. Len(t) - n : left[i] = t[n + i]
  BY <1>1, AfterIs
<1>3. /\ After(s, n) \in Seq(S) /\ Len(After(s, n)) = Len(s) - n
      /\ \A i \in 1 .. Len(s) - n : After(s, n)[i] = s[n + i]
  BY AfterIs
<1>4. /\ right \in Seq(S) /\ Len(right) = Len(s) - n + 1
      /\ \A i \in 1 .. Len(s) - n : right[i] = s[n + i]
      /\ right[Len(s) - n + 1] = e
  BY <1>1, <1>3, AppendProperties
<1> HIDE DEF t, left, right
<1>5. Len(left) = Len(right)
  BY <1>1, <1>2, <1>4
<1>6. ASSUME NEW i \in 1 .. Len(left) PROVE left[i] = right[i]
  <2>1. CASE i = Len(s) - n + 1
    BY <1>1, <1>2, <1>4, <2>1
  <2>2. CASE i # Len(s) - n + 1
    <3>1. i \in 1 .. Len(s) - n /\ n + i \in 1 .. Len(s) /\ i \in 1 .. Len(t) - n
      BY <1>1, <1>2, <2>2
    <3> QED
      BY <1>1, <1>2, <1>4, <3>1
  <2> QED
    BY <2>1, <2>2
<1>7. left = right
  BY <1>2, <1>4, <1>5, <1>6, SeqEqual
<1> QED
  BY <1>7 DEF left, right, t

\* The next element is the head, the ones after it are the tail.
LEMMA AfterNext ==
    ASSUME NEW S, NEW s \in Seq(S), NEW n \in Nat, n < Len(s)
    PROVE  /\ After(s, n) # << >>
           /\ Head(After(s, n)) = s[n + 1]
           /\ After(s, n + 1) = Tail(After(s, n))
<1> DEFINE a == After(s, n)
           b == After(s, n + 1)
<1>1. n \in 0 .. Len(s) /\ n + 1 \in 0 .. Len(s) /\ Len(s) \in Nat
  OBVIOUS
<1>2. /\ a \in Seq(S) /\ Len(a) = Len(s) - n
      /\ \A i \in 1 .. Len(s) - n : a[i] = s[n + i]
  BY <1>1, AfterIs
<1>3. /\ b \in Seq(S) /\ Len(b) = Len(s) - (n + 1)
      /\ \A i \in 1 .. Len(s) - (n + 1) : b[i] = s[(n + 1) + i]
  BY <1>1, AfterIs
<1> HIDE DEF a, b
<1>4. a # << >> /\ Head(a) = s[n + 1]
  BY <1>1, <1>2
<1>5. /\ Tail(a) \in Seq(S) /\ Len(Tail(a)) = Len(a) - 1
      /\ \A i \in 1 .. Len(Tail(a)) : Tail(a)[i] = a[i + 1]
  BY <1>2, <1>4, HeadTailProperties
<1>6. Len(b) = Len(Tail(a))
  BY <1>1, <1>2, <1>3, <1>5
<1>7. ASSUME NEW i \in 1 .. Len(b) PROVE b[i] = Tail(a)[i]
  <2>1. /\ i \in 1 .. Len(s) - (n + 1) /\ i \in 1 .. Len(Tail(a))
        /\ i + 1 \in 1 .. Len(s) - n /\ (n + 1) + i = n + (i + 1)
    BY <1>1, <1>2, <1>3, <1>6
  <2> QED
    BY <1>2, <1>3, <1>5, <2>1
<1>8. b = Tail(a)
  BY <1>3, <1>5, <1>6, <1>7, SeqEqual
<1> QED
  BY <1>4, <1>8 DEF a, b

-----------------------------------------------------------------------------
(* The steps.                                                              *)

\* The reports that wait.
Waiting == After(published, Len(sent))

\* The connector starts empty.
LEMMA QueueInit == Init => Queue!QInit
BY SubSeqEmpty DEF Init, Queue!QInit

\* A step that changes neither history is no step of the queue.
LEMMA QueueStutters ==
    ASSUME UNCHANGED <<published, sent>>
    PROVE  UNCHANGED Queue!qvars
BY DEF Queue!qvars

\* connector_enqueue_msg accepts a new report, and only with room for it.
LEMMA PublishAccepts ==
    ASSUME NEW d \in Devices, TypeInv, RingInv, Publish(d)
    PROVE  \E r \in Msgs : Queue!Accept(r)
<1> DEFINE m == prod[d].m
<1>1. /\ published' = Append(published, m) /\ sent' = sent /\ prod[d].pc = "publish"
  BY DEF Publish
<1>2. /\ m \in Msgs /\ Occ < N - 1 /\ \A k \in 1 .. Len(published) : published[k] # m
  BY <1>1 DEF RingInv, ProducerOK
<1>3. /\ Occ \in Slots /\ Pos(d) \in Slots /\ Base \in Nat
      /\ Len(published) = Base + Occ /\ Len(sent) <= Len(published)
      /\ Len(sent) \in Nat /\ Len(published) \in Nat
  BY Bounds DEF RingInv
<1>4. published \in Seq(Msgs) /\ sent \in Seq(Msgs \cup {NULL}) /\ Len(sent) \in 0 .. Len(published)
  BY <1>3 DEF TypeInv, TypeOK
<1>5. /\ Waiting \in Seq(Msgs) /\ Len(Waiting) = Len(published) - Len(sent)
      /\ \A i \in 1 .. Len(published) - Len(sent) : Waiting[i] = published[Len(sent) + i]
  BY <1>4, AfterIs DEF Waiting
<1>6. Waiting' = Append(Waiting, m)
  BY <1>1, <1>2, <1>4, AfterAppend DEF Waiting
<1>7. Len(Waiting) < N - 1
  <2>1. Len(sent) >= Base
    <3>1. Len(sent) = Base + Pos(d) + (IF work[d].pc = "free" THEN 1 ELSE 0)
      BY DEF RingInv, WorkerOK
    <3> QED
      BY <1>3, <3>1 DEF Slots
  <2> QED
    BY <1>2, <1>3, <1>5, <2>1, SizeAssumption DEF Slots
<1>8. \A i \in 1 .. Len(Waiting) : Waiting[i] # m
  BY <1>2, <1>3, <1>5
<1>9. \A i \in 1 .. Len(sent) : sent[i] # m
  BY <1>2, <1>3 DEF RingInv
<1> QED
  BY <1>1, <1>2, <1>6, <1>7, <1>8, <1>9 DEF Queue!Accept, Queue!Elements, Waiting, After

\* cn_netlink_send is given the report that waits longest.
LEMMA SendDelivers ==
    ASSUME NEW d \in Devices, TypeInv, RingInv, Send(d)
    PROVE  Queue!Deliver
<1>1. /\ work[d].pc = "loop" /\ work[d].i # work[d].end
      /\ sent' = Append(sent, buf[work[d].i]) /\ published' = published
  BY DEF Send
<1>2. /\ Occ \in Slots /\ Pos(d) \in Slots /\ Base \in Nat
      /\ Len(published) = Base + Occ /\ Len(sent) \in Nat /\ Len(published) \in Nat
  BY Bounds DEF RingInv
<1>3. Len(sent) = Base + Pos(d)
  <2>1. Len(sent) = Base + Pos(d) + 0
    BY <1>1 DEF RingInv, WorkerOK
  <2> QED
    BY <1>2, <2>1 DEF Slots
<1>4. Len(sent) + 1 \in 1 .. Len(published) /\ buf[work[d].i] = published[Len(sent) + 1]
  BY <1>1, <1>3, NextMessage
<1>5. published \in Seq(Msgs) /\ Len(sent) < Len(published)
  BY <1>2, <1>4 DEF TypeInv, TypeOK
<1>6. /\ Waiting # << >> /\ Head(Waiting) = published[Len(sent) + 1]
      /\ After(published, Len(sent) + 1) = Tail(Waiting)
  BY <1>2, <1>5, AfterNext DEF Waiting
<1>7. Len(sent') = Len(sent) + 1
  BY <1>1 DEF TypeInv, TypeOK
<1>8. Waiting' = Tail(Waiting)
  BY <1>1, <1>6, <1>7 DEF Waiting
<1>9. sent' = Append(sent, Head(Waiting))
  BY <1>1, <1>4, <1>6
<1> QED
  BY <1>6, <1>8, <1>9 DEF Queue!Deliver, Waiting, After

\* Every step of the connector is a step of the queue, or none of it.
LEMMA QueueStep ==
    ASSUME OneCard, TypeInv, RingInv, [Next]_vars
    PROVE  [Queue!QNext]_Queue!qvars
<1>0. PICK d : Devices = {d}
  BY DEF OneCard
<1>1. CASE Publish(d)
  BY <1>0, <1>1, PublishAccepts DEF Queue!QNext
<1>2. CASE Send(d)
  BY <1>0, <1>2, SendDelivers DEF Queue!QNext
<1>3. CASE ~Publish(d) /\ ~Send(d)
  <2> SUFFICES UNCHANGED <<published, sent>>
    BY QueueStutters
  <2>1. CASE Life \/ UNCHANGED vars
    BY <2>1 DEF Life, Insmod, Register, RegisterFails, Exit, Released, vars, histVars
  <2>2. CASE Device(d)
    BY <2>2 DEF Device, OpModeStart, MacStart, AliveStart, StartFails, Restart, MacStop,
       FlushDone, OpModeStop, histVars
  <2>3. CASE \E m \in Msgs : SendMsg(d, m)
    BY <2>3 DEF SendMsg, histVars
  <2>4. CASE Drop(d) \/ Store(d) \/ QueueWork(d) \/ UseFreedPriv(d)
    BY <2>4 DEF Drop, Store, QueueWork, UseFreedPriv, histVars
  <2>5. CASE BeginWork(d) \/ Free(d) \/ EndWork(d)
    BY <2>5 DEF BeginWork, Free, EndWork, histVars
  <2> QED
    BY <1>0, <1>3, <2>1, <2>2, <2>3, <2>4, <2>5 DEF Next, Producer, Worker
<1> QED
  BY <1>1, <1>2, <1>3

\* With one card whose interface comes up after iwl_init, connector.c is a bounded
\* FIFO: it holds at most CN_BUF_SIZE - 1 reports, never takes one twice and sends
\* them in the order of acceptance, whatever the size of the buffer.
THEOREM ConnectorIsQueue == OneCard /\ Spec => ImplementsQueue
<1> SUFFICES ASSUME OneCard PROVE Spec => ImplementsQueue
  OBVIOUS
<1>1. TypeInv /\ RingInv /\ [Next]_vars => [Queue!QNext]_Queue!qvars
  BY QueueStep
<1>2. Spec => [](TypeInv /\ RingInv)
  BY Always
<1> QED
  BY <1>1, <1>2, QueueInit, PTL DEF Spec, ImplementsQueue, Queue!QSpec
=============================================================================
