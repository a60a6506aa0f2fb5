------------------------------ MODULE Connector ------------------------------
(***************************************************************************)
(* The 5300 (dvm) side of the CSI tool: dvm/connector.c.  Beamforming,     *)
(* noise and MPDU reports received from the firmware are copied into       *)
(* kmalloc'ed messages, put into the ring cn_msg_buf by the receive path,  *)
(* and sent to user space by one work item that runs on the work queue of  *)
(* the device `priv' points to.                                            *)
(*                                                                         *)
(* Every device has a receive thread (the producer, RX notifications are   *)
(* handled one at a time) and an ordered work queue (the worker).  The     *)
(* ring, its two indices, `priv' and the work item are global to the       *)
(* module.  A step of this specification ends where the code leaves a      *)
(* critical section or touches a shared variable outside one.              *)
(*                                                                         *)
(* connector_send_msg returns without any effect when kmalloc fails.       *)
(***************************************************************************)
EXTENDS Integers, Sequences, FiniteSets

CONSTANTS
    Devices,    \* the 5300 cards in the machine
    Msgs,       \* the messages kmalloc ever returns (bounds a behaviour)
    N,          \* CN_BUF_SIZE
    NULL,       \* the null pointer
    EarlyUp     \* may an interface be brought up before iwl_init has returned?

ASSUME SizeAssumption == N \in Nat /\ N > 1
ASSUME NullAssumption == NULL \notin Devices /\ NULL \notin Msgs
ASSUME EarlyUpAssumption == EarlyUp \in BOOLEAN

VARIABLES
    module,     \* life cycle of the iwldvm module
    dev,        \* dev[d]: life cycle of the op mode of card d
    priv,       \* connector.c: the device whose work queue is used
    stale,      \* the struct iwl_priv that priv points to has been freed
    alive,      \* history: the devices alive at least once since their op mode started
    buf,        \* cn_msg_buf
    rd,         \* cn_buf_read
    wr,         \* cn_buf_write
    pending,    \* the queue the work item is pending on, NULL if on none
    prod,       \* prod[d]: locals of connector_enqueue_msg run by card d
    work,       \* work[d]: locals of connector_send_all run by queue d
    heap,       \* heap[m]: allocation state of message m
    published,  \* history: the messages enqueued, in order
    sent        \* history: the messages given to cn_netlink_send, in order

privVars == <<priv, stale, alive>>
lifeVars == <<module, dev, privVars>>
ringVars == <<buf, rd, wr>>
histVars == <<published, sent>>
vars == <<module, dev, priv, stale, alive, buf, rd, wr, pending, prod, work,
          heap, published, sent>>

Slots == 0 .. N - 1

\* Faulty variant: the index does not wrap.
Succ_NoWrap(i) == i + 1

\* The index arithmetic of the C code.
Succ(i) == (i + 1) % N

\* The slots of the half-open ring interval [from, to).
Interval(from, to) ==
    IF from <= to THEN from .. to - 1 ELSE (from .. N - 1) \cup (0 .. to - 1)

IdleProd == [pc |-> "idle", m |-> NULL, start |-> 0, end |-> 0]
IdleWork == [pc |-> "idle", i |-> 0, end |-> 0]

kfree(h, ms) == [m \in Msgs |-> IF m \in ms THEN "freed" ELSE h[m]]

TypeOK ==
    /\ module \in {"out", "loading", "ready", "failed"}
    /\ dev \in [Devices -> {"off", "loaded", "booting", "running", "flushing"}]
    /\ priv \in Devices \cup {NULL}
    /\ stale \in BOOLEAN
    /\ alive \subseteq Devices
    /\ buf \in [Slots -> Msgs \cup {NULL}]
    /\ rd \in Slots
    /\ wr \in Slots
    /\ pending \in Devices \cup {NULL}
    /\ prod \in [Devices -> [pc : {"idle", "check", "publish", "queue"},
                             m : Msgs \cup {NULL}, start : Slots, end : Slots]]
    /\ work \in [Devices -> [pc : {"idle", "loop", "free"},
                             i : Slots, end : Slots]]
    /\ heap \in [Msgs -> {"unused", "live", "freed"}]
    /\ published \in Seq(Msgs)
    /\ sent \in Seq(Msgs \cup {NULL})

Init ==
    /\ module = "out"
    /\ dev = [d \in Devices |-> "off"]
    /\ priv = NULL
    /\ stale = FALSE
    /\ alive = {}
    /\ buf = [i \in Slots |-> NULL]
    /\ rd = 0
    /\ wr = 0
    /\ pending = NULL
    /\ prod = [d \in Devices |-> IdleProd]
    /\ work = [d \in Devices |-> IdleWork]
    /\ heap = [m \in Msgs |-> "unused"]
    /\ published = << >>
    /\ sent = << >>

-----------------------------------------------------------------------------
(* The module: iwl_init and iwl_exit of dvm/main.c.                        *)

\* insmod: the static variables are zero, iwl_init registers the op mode.
Insmod ==
    /\ module = "out"
    /\ module' = "loading"
    /\ buf' = [i \in Slots |-> NULL]
    /\ rd' = 0
    /\ wr' = 0
    /\ priv' = NULL
    /\ stale' = FALSE
    /\ pending' = NULL
    /\ UNCHANGED <<dev, alive, prod, work, heap, histVars>>

\* iwlagn_register_connector, when cn_add_callback succeeds.  INIT_WORK forgets
\* whether the work item was pending.
Register ==
    /\ module = "loading"
    /\ module' = "ready"
    /\ rd' = 0
    /\ wr' = 0
    /\ pending' = NULL
    /\ UNCHANGED <<dev, privVars, buf, prod, work, heap, histVars>>

\* iwlagn_unregister_connector frees what is between the indices, and leaves
\* the indices as they are.
FreeRing == heap' = kfree(heap, {buf[i] : i \in Interval(rd, wr)})

\* cn_add_callback fails: iwl_init unregisters the connector and returns the
\* error.  The kernel then releases the module; nothing after it is modelled.
RegisterFails ==
    /\ module = "loading"
    /\ module' = "failed"
    /\ FreeRing
    /\ UNCHANGED <<dev, privVars, ringVars, pending, prod, work, histVars>>

\* iwl_exit: iwl_opmode_deregister has stopped every device (OpModeStop), then
\* the connector is unregistered.
Exit ==
    /\ module = "ready"
    /\ \A d \in Devices : dev[d] = "off"
    /\ module' = "out"
    /\ FreeRing
    /\ UNCHANGED <<dev, privVars, ringVars, pending, prod, work, histVars>>

-----------------------------------------------------------------------------
(* A device: the op mode's start and stop, the interface's up and down.    *)

SetDev(d, from, to) ==
    /\ dev[d] = from
    /\ dev' = [dev EXCEPT ![d] = to]

\* Faulty variant: stopping does not wait for the work queue.
Flushed_NoWait(d) == d \in Devices

\* Nothing runs on the work queue of d and nothing waits to.
Flushed(d) == pending # d /\ work[d].pc = "idle"

\* iwl_op_mode_dvm_start: a new struct iwl_priv with a new work queue.
OpModeStart(d) ==
    /\ module \in {"loading", "ready"}
    /\ SetDev(d, "off", "loaded")
    /\ UNCHANGED <<module, privVars, ringVars, pending, prod, work, heap, histVars>>

\* ifconfig up: the firmware is loaded, from here on notifications arrive.
MacStart(d) ==
    /\ module = "ready" \/ (EarlyUp /\ module = "loading")
    /\ SetDev(d, "loaded", "booting")
    /\ UNCHANGED <<module, privVars, ringVars, pending, prod, work, heap, histVars>>

\* Faulty variant: priv is set only once, when it is not known yet.
AliveStart_Once(d) ==
    /\ module # "failed"
    /\ SetDev(d, "booting", "running")
    /\ priv' = IF priv = NULL THEN d ELSE priv
    /\ stale' = (stale /\ priv # NULL)
    /\ alive' = alive \cup {d}
    /\ UNCHANGED <<module, ringVars, pending, prod, work, heap, histVars>>

\* The tail of iwl_alive_start: iwl_connector_set_priv.
AliveStart(d) ==
    /\ module # "failed"
    /\ SetDev(d, "booting", "running")
    /\ priv' = d
    /\ stale' = FALSE
    /\ alive' = alive \cup {d}
    /\ UNCHANGED <<module, ringVars, pending, prod, work, heap, histVars>>

\* iwlagn_mac_stop: iwl_down stops the receive path, then the queue is flushed.
\* `priv' keeps its value.  The interface may go down during a restart, too.
MacStop(d) ==
    /\ module # "failed"
    /\ prod[d].pc = "idle"
    /\ SetDev(d, "booting", "flushing") \/ SetDev(d, "running", "flushing")
    /\ UNCHANGED <<module, privVars, ringVars, pending, prod, work, heap, histVars>>

\* __iwl_up fails: iwl_down stops the receive path, and nobody flushes the queue.
StartFails(d) ==
    /\ module # "failed"
    /\ prod[d].pc = "idle"
    /\ SetDev(d, "booting", "loaded")
    /\ UNCHANGED <<module, privVars, ringVars, pending, prod, work, heap, histVars>>

\* iwl_bg_restart after a firmware error: the device goes down and mac80211
\* starts it again.  The connector's work item is not cancelled.
Restart(d) ==
    /\ module # "failed"
    /\ prod[d].pc = "idle"
    /\ SetDev(d, "running", "booting")
    /\ UNCHANGED <<module, privVars, ringVars, pending, prod, work, heap, histVars>>

FlushDone(d) ==
    /\ module # "failed"
    /\ Flushed(d)
    /\ SetDev(d, "flushing", "loaded")
    /\ UNCHANGED <<module, privVars, ringVars, pending, prod, work, heap, histVars>>

\* iwl_op_mode_dvm_stop: flush_workqueue, destroy_workqueue, and the struct iwl_priv
\* is freed.  `priv' keeps its value: when it pointed there it dangles from now on, also
\* while a new op mode of the card, which has another iwl_priv, is started.
OpModeStop(d) ==
    /\ module # "failed"
    /\ Flushed(d)
    /\ SetDev(d, "loaded", "off")
    /\ stale' = (stale \/ priv = d)
    /\ alive' = alive \ {d}
    /\ UNCHANGED <<module, priv, ringVars, pending, prod, work, heap, histVars>>

-----------------------------------------------------------------------------
(* The producer: connector_send_msg and connector_enqueue_msg.             *)

\* A report arrives: the message is allocated and filled, the indices are read
\* under the lock.
SendMsg(d, m) ==
    /\ module # "failed"
    /\ dev[d] \in {"booting", "running"}
    /\ prod[d].pc = "idle"
    /\ heap[m] = "unused"
    /\ heap' = [heap EXCEPT ![m] = "live"]
    /\ prod' = [prod EXCEPT ![d] =
                  [pc |-> "check", m |-> m, start |-> rd, end |-> wr]]
    /\ UNCHANGED <<lifeVars, ringVars, pending, work, histVars>>

\* Faulty variant: the full test is missing.
HasRoom_Always(d) == d \in Devices

\* Room for one more message, judged by the indices read before.
HasRoom(d) == Succ(prod[d].end) # prod[d].start

\* The buffer is full, or no device has come alive: the message is freed.
Drop(d) ==
    /\ module # "failed"
    /\ prod[d].pc = "check"
    /\ ~HasRoom(d) \/ priv = NULL
    /\ heap' = kfree(heap, {prod[d].m})
    /\ prod' = [prod EXCEPT ![d] = IdleProd]
    /\ UNCHANGED <<lifeVars, ringVars, pending, work, histVars>>

\* cn_msg_buf[end] = m, outside the lock.
Store(d) ==
    /\ module # "failed"
    /\ prod[d].pc = "check"
    /\ HasRoom(d) /\ priv # NULL
    /\ buf' = [buf EXCEPT ![prod[d].end] = prod[d].m]
    /\ prod' = [prod EXCEPT ![d].pc = "publish"]
    /\ UNCHANGED <<lifeVars, rd, wr, pending, work, heap, histVars>>

\* cn_buf_write = (end + 1) % CN_BUF_SIZE, under the lock.
Publish(d) ==
    /\ module # "failed"
    /\ prod[d].pc = "publish"
    /\ wr' = Succ(prod[d].end)
    /\ published' = Append(published, prod[d].m)
    /\ prod' = [prod EXCEPT ![d].pc = "queue"]
    /\ UNCHANGED <<lifeVars, buf, rd, pending, work, heap, sent>>

\* Faulty variant: a running work item is not queued again.
QueueWork_IfIdle(d) ==
    /\ module # "failed"
    /\ prod[d].pc = "queue"
    /\ ~stale
    /\ pending' = IF pending = NULL /\ work[priv].pc = "idle" THEN priv ELSE pending
    /\ prod' = [prod EXCEPT ![d] = IdleProd]
    /\ UNCHANGED <<lifeVars, ringVars, work, heap, histVars>>

\* queue_work(priv->workqueue, ...) does nothing while the item is pending.
QueueWork(d) ==
    /\ module # "failed"
    /\ prod[d].pc = "queue"
    /\ ~stale
    /\ pending' = IF pending = NULL THEN priv ELSE pending
    /\ prod' = [prod EXCEPT ![d] = IdleProd]
    /\ UNCHANGED <<lifeVars, ringVars, work, heap, histVars>>

\* The same line with a freed priv: what it does is undefined, and the model ends.
UseFreedPriv(d) ==
    /\ module # "failed"
    /\ prod[d].pc = "queue"
    /\ stale
    /\ module' = "failed"
    /\ UNCHANGED <<dev, privVars, ringVars, pending, prod, work, heap, histVars>>

-----------------------------------------------------------------------------
(* The worker: connector_work, that is connector_send_all.                 *)

\* The work item starts: it is no longer pending, so it can be queued again
\* while it runs.  The indices are read under the lock.  One queue never runs
\* the item twice at the same time, two queues may.
BeginWork(d) ==
    /\ module = "ready"
    /\ pending = d
    /\ work[d].pc = "idle"
    /\ pending' = NULL
    /\ work' = [work EXCEPT ![d] = [pc |-> "loop", i |-> rd, end |-> wr]]
    /\ UNCHANGED <<lifeVars, ringVars, prod, heap, histVars>>

\* Faulty variant: the slot after the right one is sent.
Send_NextSlot(d) ==
    /\ module # "failed"
    /\ work[d].pc = "loop"
    /\ work[d].i # work[d].end
    /\ sent' = Append(sent, buf[Succ(work[d].i)])
    /\ work' = [work EXCEPT ![d].pc = "free"]
    /\ UNCHANGED <<lifeVars, ringVars, pending, prod, heap, published>>

\* cn_netlink_send(cn_msg_buf[i]).
Send(d) ==
    /\ module # "failed"
    /\ work[d].pc = "loop"
    /\ work[d].i # work[d].end
    /\ sent' = Append(sent, buf[work[d].i])
    /\ work' = [work EXCEPT ![d].pc = "free"]
    /\ UNCHANGED <<lifeVars, ringVars, pending, prod, heap, published>>

\* kfree(cn_msg_buf[i]) and the loop's increment.
Free(d) ==
    /\ module # "failed"
    /\ work[d].pc = "free"
    /\ heap' = kfree(heap, {buf[work[d].i]})
    /\ work' = [work EXCEPT ![d].pc = "loop", ![d].i = Succ(work[d].i)]
    /\ UNCHANGED <<lifeVars, ringVars, pending, prod, histVars>>

\* Faulty variant: cn_buf_read is not advanced.
EndWork_KeepsRead(d) ==
    /\ module # "failed"
    /\ work[d].pc = "loop"
    /\ work[d].i = work[d].end
    /\ work' = [work EXCEPT ![d] = IdleWork]
    /\ UNCHANGED <<lifeVars, ringVars, pending, prod, heap, histVars>>

\* cn_buf_read = end, under the lock.
EndWork(d) ==
    /\ module # "failed"
    /\ work[d].pc = "loop"
    /\ work[d].i = work[d].end
    /\ rd' = work[d].end
    /\ work' = [work EXCEPT ![d] = IdleWork]
    /\ UNCHANGED <<lifeVars, buf, wr, pending, prod, heap, histVars>>

-----------------------------------------------------------------------------
\* The model ends where a module whose initialisation failed is released, and where
\* freed memory has been used.
Released == module = "failed" /\ UNCHANGED vars

Life == Insmod \/ Register \/ RegisterFails \/ Exit \/ Released

Device(d) ==
    \/ OpModeStart(d) \/ MacStart(d) \/ AliveStart(d) \/ StartFails(d)
    \/ Restart(d) \/ MacStop(d) \/ FlushDone(d) \/ OpModeStop(d)

Producer(d) ==
    Drop(d) \/ Store(d) \/ Publish(d) \/ QueueWork(d) \/ UseFreedPriv(d)

Worker(d) == BeginWork(d) \/ Send(d) \/ Free(d) \/ EndWork(d)

Next ==
    \/ Life
    \/ \E d \in Devices :
          \/ Device(d)
          \/ \E m \in Msgs : SendMsg(d, m)
          \/ Producer(d)
          \/ Worker(d)

Spec == Init /\ [][Next]_vars

\* The receive thread finishes what it has begun and the kernel runs a pending
\* work item.  Nothing makes reports arrive or interfaces go up.
FairSpec ==
    /\ Spec
    /\ \A d \in Devices : WF_vars(Producer(d)) /\ WF_vars(Worker(d))

-----------------------------------------------------------------------------
(* Properties.                                                             *)

Ring == Interval(rd, wr)

\* The slots whose message the worker on d has already freed.
Done(d) == IF work[d].pc = "idle" THEN {} ELSE Interval(rd, work[d].i)

\* The slots whose message is still allocated.
Unfreed == Ring \ UNION {Done(d) : d \in Devices}

Live(m) == m \in Msgs /\ heap[m] = "live"

\* The worker on d is about to send or to free the message in its slot.
Touches(d) ==
    \/ work[d].pc = "free"
    \/ work[d].pc = "loop" /\ work[d].i # work[d].end

\* The states iwlagn_unregister_connector is called in.
Unregistering ==
    \/ module = "loading"
    \/ module = "ready" /\ \A d \in Devices : dev[d] = "off"

\* Memory safety of connector_send_all and iwlagn_unregister_connector: the
\* message the worker is about to send or to free, and every message the kfree
\* loop of the unregistration would reach, is allocated and not freed yet.
MemorySafe ==
    /\ \A d \in Devices : Touches(d) => Live(buf[work[d].i])
    /\ Unregistering => \A i \in Ring : Live(buf[i])

\* "Will drop and free if full" (connector.c:57) and "Sends and frees all the
\* queued messages" (connector.c:97): an allocated message is held by the
\* producer that is enqueueing it, or is in a slot of the ring that the worker
\* has not freed.  A message that is neither is lost and leaked.
NoLeak ==
    \A m \in Msgs : heap[m] = "live" =>
        \/ \E d \in Devices : prod[d].pc \in {"check", "publish"} /\ prod[d].m = m
        \/ \E i \in Unfreed : buf[i] = m

\* What cn_netlink_send has been given is what was enqueued, in that order, each
\* message once: the CSI reports reach user space in the order of their capture.
InOrder ==
    /\ Len(sent) <= Len(published)
    /\ \A k \in 1 .. Len(sent) : sent[k] = published[k]

\* When the last device has been stopped the flushes have emptied the ring, so
\* that iwlagn_unregister_connector throws no report away at module exit.
ExitLosesNothing ==
    (module = "ready" /\ \A d \in Devices : dev[d] = "off") => rd = wr

\* priv->workqueue is used by connector_enqueue_msg after the unlock (connector.c:93),
\* and no stop resets priv.  From the moment iwl_alive_start has run for a card until its
\* op mode is stopped the work queue exists: through firmware restarts, failing starts,
\* the interface going down and up, and when the card was bound and released before.
\* Before that moment it need not: a report that arrives in the first start after the
\* card was bound again finds the freed iwl_priv (UseFreedPriv).
PrivAlive ==
    \A d \in Devices :
        prod[d].pc = "queue" /\ d \in alive => priv # NULL /\ ~stale /\ dev[priv] # "off"

\* Every enqueued report is sent in the end, unless the model ends: no
\* interleaving of the producer's queue_work with a worker that is about to finish
\* leaves one behind.
EventuallySent ==
    \A m \in Msgs :
        (\E k \in 1 .. Len(published) : published[k] = m)
        ~> ((\E k \in 1 .. Len(sent) : sent[k] = m) \/ module = "failed")

\* The promise of the connector: a bounded FIFO whose waiting reports are the
\* ones enqueued and not yet given to cn_netlink_send.
Queue == INSTANCE ReportQueue WITH
    Reports <- Msgs,
    Capacity <- N - 1,
    queue <- SubSeq(published, Len(sent) + 1, Len(published)),
    delivered <- sent

\* connector.c implements that FIFO: it never holds more than CN_BUF_SIZE - 1
\* reports, never accepts one twice and sends in the order of acceptance.
ImplementsQueue == Queue!QSpec
-----------------------------------------------------------------------------
(***************************************************************************)
(* The invariant behind the properties, for one card whose interface comes *)
(* up after iwl_init.  Base counts the messages whose slot has been given  *)
(* back to the producer, Pos(d) the slots the worker has finished since.   *)
(***************************************************************************)
Dist(from, to) == IF from <= to THEN to - from ELSE to - from + N

Occ == Dist(rd, wr)

\* The j-th slot of the ring after rd.
Slot(j) == IF rd + j < N THEN rd + j ELSE rd + j - N

Base == Len(published) - Occ

Pos(d) == IF work[d].pc = "idle" THEN 0 ELSE Dist(rd, work[d].i)

\* Up to where the worker knows the ring to be filled.
Seen(d) == IF work[d].pc = "idle" THEN rd ELSE work[d].end

\* The ring holds the last Occ published messages, oldest first.
RingOK ==
    /\ Occ <= Len(published)
    /\ \A j \in 0 .. Occ - 1 : buf[Slot(j)] = published[Base + j + 1]

\* The worker walks the occupied slots from rd, and what it has sent is all that
\* was published before its position.
WorkerOK ==
    \A d \in Devices :
        /\ work[d].pc # "idle" =>
              /\ Dist(rd, work[d].i) <= Dist(rd, work[d].end)
              /\ Dist(rd, work[d].end) <= Occ
        /\ work[d].pc = "free" => work[d].i # work[d].end
        /\ Len(sent) = Base + Pos(d) + (IF work[d].pc = "free" THEN 1 ELSE 0)

\* Published messages are distinct, and freed exactly up to the worker's position;
\* any other allocated message is in the hands of the producer.
HeapOK ==
    /\ \A j, k \in 1 .. Len(published) : published[j] = published[k] => j = k
    /\ \A d \in Devices : \A k \in 1 .. Len(published) :
          heap[published[k]] = IF k <= Base + Pos(d) THEN "freed" ELSE "live"
    /\ \A m \in Msgs : heap[m] = "live" =>
          \/ \E k \in 1 .. Len(published) : published[k] = m
          \/ \E d \in Devices : prod[d].pc \in {"check", "publish"} /\ prod[d].m = m

\* The producer's copy of the write index is current, its copy of the read index
\* is at most behind, and its message is in nobody else's hands.
ProducerOK ==
    \A d \in Devices :
        /\ prod[d].pc \in {"check", "publish"} =>
              /\ prod[d].m \in Msgs
              /\ heap[prod[d].m] = "live"
              /\ \A k \in 1 .. Len(published) : published[k] # prod[d].m
              /\ prod[d].end = wr
        /\ prod[d].pc = "check" => Occ <= Dist(prod[d].start, wr)
        /\ prod[d].pc = "publish" => buf[wr] = prod[d].m /\ Occ < N - 1

\* Who may be active when: the receive path only while the firmware runs, the work
\* queue only until the op mode has flushed it, and whoever leaves unseen messages in the ring
\* has queued the work item or is about to.
LifeOK ==
    \A d \in Devices :
        /\ prod[d].pc # "idle" => dev[d] \in {"booting", "running"}
        /\ prod[d].pc \in {"publish", "queue"} => priv = d
        /\ (pending = d \/ work[d].pc # "idle") =>
              dev[d] # "off" /\ module # "loading"
        /\ wr # Seen(d) => pending = d \/ prod[d].pc = "queue"
        /\ module = "loading" => dev[d] \in {"off", "loaded"}
        /\ module = "out" => dev[d] = "off"

\* A card that has come alive is the one priv points to until its op mode is stopped.
PrivOK == \A d \in Devices : d \in alive => priv = d /\ ~stale /\ dev[d] # "off"

RingInv ==
    /\ RingOK
    /\ WorkerOK
    /\ HeapOK
    /\ ProducerOK
    /\ LifeOK
    /\ \A k \in 1 .. Len(sent) : sent[k] = published[k]
=============================================================================
