------------------------------- MODULE RxBuffers -------------------------------
(***************************************************************************)
(* The receive buffers of the PCIe transport (pcie/rx.c, multi-queue       *)
(* hardware): the queues polled by NAPI (iwl_pcie_rx_handle), which give   *)
(* buffers whose page was taken to an allocator and claim them back in     *)
(* batches, and the allocator's work item (iwl_pcie_rx_allocator).  Every  *)
(* CSI event arrives in one of these buffers.                              *)
(*                                                                         *)
(* Buffers are interchangeable: a list is its length.  A queue's lock      *)
(* leaves its own lists to its poll; rba->lock covers one list operation   *)
(* each, and the two request counters are atomics, so every access to the  *)
(* allocator is a step.  Nothing but the poll that reads it depends on     *)
(* when the device fills a buffer and for which queue, so the buffers of   *)
(* the device are one number, whether filled or not, and a poll, which may *)
(* end after any buffer, reads one of them.                                *)
(***************************************************************************)
EXTENDS Integers, FiniteSets

CONSTANTS
    Queues,       \* trans->num_rx_queues of them
    CLAIM,        \* RX_CLAIM_REQ_ALLOC
    POST,         \* RX_POST_REQ_ALLOC
    QueueSize,    \* rxq->queue_size
    WriteStep,    \* the device is told the write pointer in multiples of this
    Batch,        \* buffers of an emergency handled between two refills
    AllocFails,   \* page allocations for the queues can fail; the allocator's are retried
    MaxRestarts   \* bound: restarts of the device

ASSUME RxAssumption ==
    /\ IsFiniteSet(Queues) /\ Queues # {}
    /\ {CLAIM, POST, QueueSize, WriteStep, Batch} \subseteq Nat \ {0}
    /\ POST < CLAIM /\ QueueSize % WriteStep = 0
    /\ AllocFails \in BOOLEAN /\ MaxRestarts \in Nat

VARIABLES
    enabled,      \* STATUS_DEVICE_ENABLED
    hw,           \* buffers the device may fill, or has filled
    unwritten,    \* per queue: buffers past the last write pointer told
    rx_free, rx_used, used_count,   \* struct iwl_rxq
    rbd_empty, rbd_allocated, req_pending, req_ready,  \* struct iwl_rb_allocator
    work,         \* rba->rx_alloc is queued
    at,           \* per queue: where its poll is
    rb_pending_alloc, emergency, count,  \* per queue: locals of iwl_pcie_rx_handle
    wat,          \* where the work item is
    pending, local_empty, local_allocated,  \* its locals
    restarts

deviceVars == <<enabled, hw, unwritten>>
queueVars == <<rx_free, rx_used, used_count>>
rbaVars == <<rbd_empty, rbd_allocated, req_pending, req_ready, work>>
pollVars == <<at, rb_pending_alloc, emergency, count>>
workVars == <<wat, pending, local_empty, local_allocated>>
vars == <<deviceVars, queueVars, rbaVars, pollVars, workVars, restarts>>

\* Faulty variant: one spare batch for all queues instead of one for each.
Pool_Shared == CLAIM - POST

\* The buffers of the allocator's pool, and those of the queues.
Pool == Cardinality(Queues) * (CLAIM - POST)
QueueBuffers == QueueSize - 1

Zero == [q \in Queues |-> 0]

\* The queue that is filled first, trans_pcie->rxq[0].
DefaultQueue == CHOOSE q \in Queues : TRUE

(***************************************************************************)
(* Receive initialisation and restock                                      *)
(***************************************************************************)

\* iwl_pcie_rxq_alloc_rbs: how many of k used buffers get a page.
Refills(k) == IF AllocFails THEN 0..k ELSE {k}

\* The write pointer told after a first restock with n buffers.
Written(n) == (n \div WriteStep) * WriteStep
InDefault(n) == [Zero EXCEPT ![DefaultQueue] = n]

\* The state after _iwl_pcie_rx_init and the first restock.  The buffers of the
\* queues that got no page stay in rx_used, and nothing counts them.
Init ==
    /\ enabled = TRUE
    /\ \E n \in Refills(QueueBuffers) :
           /\ hw = Written(n) /\ unwritten = InDefault(n - Written(n))
           /\ rx_used = InDefault(QueueBuffers - n)
    /\ rx_free = Zero /\ used_count = Zero
    /\ rbd_empty = Pool /\ rbd_allocated = 0
    /\ req_pending = 0 /\ req_ready = 0 /\ work = FALSE
    /\ at = [q \in Queues |-> "idle"]
    /\ rb_pending_alloc = Zero /\ count = Zero
    /\ emergency = [q \in Queues |-> FALSE]
    /\ wat = "idle" /\ pending = 0 /\ local_empty = 0 /\ local_allocated = 0
    /\ restarts = 0

\* iwl_pcie_rxmq_restock of q, which holds n free buffers: all are written to
\* the ring, and the device is told of whole multiples of WriteStep.
Restock(q, n) ==
    IF enabled
    THEN LET written == unwritten[q] + n IN
         /\ hw' = hw + (written \div WriteStep) * WriteStep
         /\ unwritten' = [unwritten EXCEPT ![q] = written % WriteStep]
         /\ rx_free' = [rx_free EXCEPT ![q] = 0]
    ELSE /\ rx_free' = [rx_free EXCEPT ![q] = n]
         /\ UNCHANGED <<hw, unwritten>>

\* iwl_pcie_rxq_alloc_rbs(GFP_ATOMIC) and the restock that follows.
RefillAndRestock(q) ==
    \E n \in Refills(rx_used[q]) :
        /\ rx_used' = [rx_used EXCEPT ![q] = @ - n]
        /\ Restock(q, rx_free[q] + n)

\* iwl_pcie_rx_move_to_allocator
MoveToAllocator(q) ==
    /\ rbd_empty' = rbd_empty + rx_used[q]
    /\ rx_used' = [rx_used EXCEPT ![q] = 0]

Goto(q, where) == at' = [at EXCEPT ![q] = where]

(***************************************************************************)
(* The poll of a queue                                                     *)
(***************************************************************************)

\* Faulty variant: no emergency, the allocator is relied on.
SampleRequests_Trusting(q) ==
    /\ at[q] \in {"idle", "loop"} /\ hw > 0
    /\ hw' = hw - 1
    /\ Goto(q, "buffer")
    /\ UNCHANGED <<enabled, unwritten, queueVars, rbaVars, rb_pending_alloc, emergency, count,
                   workVars, restarts>>

\* iwl_pcie_napi_poll calls iwl_pcie_rx_handle, or its loop goes on, as the
\* device has filled a buffer for q, which is the poll's from here on.  The
\* head of the loop reads the number of requests not served, and keeps it for
\* the end of an emergency.
SampleRequests(q) ==
    /\ at[q] \in {"idle", "loop"} /\ hw > 0
    /\ hw' = hw - 1
    /\ LET waiting == req_pending * CLAIM
           enter == waiting >= QueueSize \div 2 /\ ~emergency[q] IN
       /\ Goto(q, IF enter THEN "enter" ELSE "buffer")
       /\ rb_pending_alloc' = [rb_pending_alloc EXCEPT
              ![q] = IF enter \/ emergency[q] THEN waiting ELSE 0]
    /\ UNCHANGED <<enabled, unwritten, queueVars, rbaVars, emergency, count, workVars, restarts>>

EnterEmergency(q) ==
    /\ at[q] = "enter"
    /\ MoveToAllocator(q)
    /\ emergency' = [emergency EXCEPT ![q] = TRUE]
    /\ Goto(q, "buffer")
    /\ UNCHANGED <<deviceVars, rx_free, used_count, rbd_allocated, req_pending, req_ready,
                   work, rb_pending_alloc, count, workVars, restarts>>

\* iwl_pcie_rx_handle_rb, when nobody took the page (every CSI notification),
\* and a buffer that is part of a longer one
HandleReused(q) ==
    /\ at[q] = "buffer"
    /\ rx_free' = [rx_free EXCEPT ![q] = @ + 1]
    /\ Goto(q, "claim")
    /\ UNCHANGED <<deviceVars, rx_used, used_count, rbaVars,
                   rb_pending_alloc, emergency, count, workVars, restarts>>

\* iwl_pcie_rx_handle_rb and iwl_pcie_rx_reuse_rbd, when the page was taken: in
\* an emergency the buffer is not counted, else the POST-th of CLAIM posts.
HandleStolen(q) ==
    /\ at[q] = "buffer"
    /\ rx_used' = [rx_used EXCEPT ![q] = @ + 1]
    /\ used_count' = IF emergency[q] THEN used_count
                     ELSE [used_count EXCEPT ![q] = @ + 1]
    /\ Goto(q, IF ~emergency[q] /\ (used_count[q] + 1) % CLAIM = POST
               THEN "post" ELSE "claim")
    /\ UNCHANGED <<deviceVars, rx_free, rbaVars,
                   rb_pending_alloc, emergency, count, workVars, restarts>>

PostMove(q) ==
    /\ at[q] = "post"
    /\ MoveToAllocator(q)
    /\ Goto(q, "request")
    /\ UNCHANGED <<deviceVars, rx_free, used_count, rbd_allocated, req_pending, req_ready,
                   work, rb_pending_alloc, emergency, count, workVars, restarts>>

PostRequest(q) ==
    /\ at[q] = "request"
    /\ req_pending' = req_pending + 1
    /\ Goto(q, "queue")
    /\ UNCHANGED <<deviceVars, queueVars, rbd_empty, rbd_allocated, req_ready, work,
                   rb_pending_alloc, emergency, count, workVars, restarts>>

\* Faulty variant: an item that is running is not queued again.
QueueWork_Running(q) ==
    /\ at[q] = "queue"
    /\ work' = (work \/ wat = "idle")
    /\ Goto(q, "claim")
    /\ UNCHANGED <<deviceVars, queueVars, rbd_empty, rbd_allocated, req_pending, req_ready,
                   rb_pending_alloc, emergency, count, workVars, restarts>>

\* queue_work, which also queues an item that is running
QueueWork(q) ==
    /\ at[q] = "queue"
    /\ work' = TRUE
    /\ Goto(q, "claim")
    /\ UNCHANGED <<deviceVars, queueVars, rbd_empty, rbd_allocated, req_pending, req_ready,
                   rb_pending_alloc, emergency, count, workVars, restarts>>

\* Faulty variant: the ready request is tested and not taken.
Claim_Peek(q) ==
    /\ at[q] = "claim"
    /\ Goto(q, IF used_count[q] >= CLAIM /\ req_ready > 0 THEN "take" ELSE "recycle")
    /\ UNCHANGED <<deviceVars, queueVars, rbaVars, rb_pending_alloc, emergency, count,
                   workVars, restarts>>

\* iwl_pcie_rx_allocator_get, up to atomic_dec_if_positive
Claim(q) ==
    /\ at[q] = "claim"
    /\ IF used_count[q] >= CLAIM /\ req_ready > 0
       THEN req_ready' = req_ready - 1 /\ Goto(q, "take")
       ELSE Goto(q, "recycle") /\ UNCHANGED req_ready
    /\ UNCHANGED <<deviceVars, queueVars, rbd_empty, rbd_allocated, req_pending, work,
                   rb_pending_alloc, emergency, count, workVars, restarts>>

\* Faulty variant: used_count is not reduced.
TakeBatch_Keep(q) ==
    /\ at[q] = "take"
    /\ rbd_allocated >= CLAIM
    /\ rbd_allocated' = rbd_allocated - CLAIM
    /\ rx_free' = [rx_free EXCEPT ![q] = @ + CLAIM]
    /\ Goto(q, "recycle")
    /\ UNCHANGED <<deviceVars, rx_used, used_count, rbd_empty, req_pending, req_ready, work,
                   rb_pending_alloc, emergency, count, workVars, restarts>>

\* the rest of it: CLAIM buffers of rbd_allocated, without asking whether it
\* has them.  A shorter list is the state ReadyIsBacked excludes.
TakeBatch(q) ==
    /\ at[q] = "take"
    /\ rbd_allocated >= CLAIM
    /\ rbd_allocated' = rbd_allocated - CLAIM
    /\ rx_free' = [rx_free EXCEPT ![q] = @ + CLAIM]
    /\ used_count' = [used_count EXCEPT ![q] = @ - CLAIM]
    /\ Goto(q, "recycle")
    /\ UNCHANGED <<deviceVars, rx_used, rbd_empty, req_pending, req_ready, work,
                   rb_pending_alloc, emergency, count, workVars, restarts>>

\* The end of the loop's body outside an emergency
Recycle(q) ==
    /\ at[q] = "recycle" /\ ~emergency[q]
    /\ IF used_count[q] % CLAIM = 0 THEN MoveToAllocator(q)
                                    ELSE UNCHANGED <<rbd_empty, rx_used>>
    /\ Goto(q, "loop")
    /\ UNCHANGED <<deviceVars, rx_free, used_count, rbd_allocated, req_pending, req_ready,
                   work, rb_pending_alloc, emergency, count, workVars, restarts>>

\* and in one: each Batch buffers the queue gets pages itself and starts again
RecycleEmergency(q) ==
    /\ at[q] = "recycle" /\ emergency[q]
    /\ IF count[q] + 1 = Batch
       THEN /\ count' = [count EXCEPT ![q] = 0]
            /\ emergency' = [emergency EXCEPT
                   ![q] = rb_pending_alloc[q] >= QueueSize \div 3]
            /\ RefillAndRestock(q)
       ELSE /\ count' = [count EXCEPT ![q] = @ + 1]
            /\ UNCHANGED <<emergency, rx_used, rx_free, hw, unwritten>>
    /\ Goto(q, "loop")
    /\ UNCHANGED <<enabled, used_count, rbaVars, rb_pending_alloc,
                   workVars, restarts>>

\* Faulty variant: used buffers of an emergency stay where they are.
PollEnds_NoRefill(q) ==
    /\ at[q] = "loop"
    /\ Restock(q, rx_free[q])
    /\ Goto(q, "idle")
    /\ rb_pending_alloc' = [rb_pending_alloc EXCEPT ![q] = 0]
    /\ emergency' = [emergency EXCEPT ![q] = FALSE]
    /\ count' = [count EXCEPT ![q] = 0]
    /\ UNCHANGED <<enabled, rx_used, used_count, rbaVars, workVars, restarts>>

\* Nothing left, or the budget of the poll is used up
PollEnds(q) ==
    /\ at[q] = "loop"
    /\ IF emergency[q] /\ count[q] > 0
       THEN RefillAndRestock(q)
       ELSE Restock(q, rx_free[q]) /\ UNCHANGED rx_used
    /\ Goto(q, "idle")
    /\ rb_pending_alloc' = [rb_pending_alloc EXCEPT ![q] = 0]
    /\ emergency' = [emergency EXCEPT ![q] = FALSE]
    /\ count' = [count EXCEPT ![q] = 0]
    /\ UNCHANGED <<enabled, used_count, rbaVars, workVars, restarts>>

(***************************************************************************)
(* The allocator's work item                                               *)
(***************************************************************************)

WorkBegins ==
    /\ wat = "idle" /\ work
    /\ work' = FALSE
    /\ pending' = req_pending
    /\ wat' = "swap"
    /\ UNCHANGED <<deviceVars, queueVars, rbd_empty, rbd_allocated, req_pending, req_ready,
                   pollVars, local_empty, local_allocated, restarts>>

NextBatch(n) == IF n > 0 THEN "allocate" ELSE "return"

SwapEmpty ==
    /\ wat = "swap"
    /\ local_empty' = rbd_empty /\ rbd_empty' = 0
    /\ wat' = NextBatch(pending)
    /\ UNCHANGED <<deviceVars, queueVars, rbd_allocated, req_pending, req_ready, work,
                   pollVars, pending, local_allocated, restarts>>

\* A page for each of CLAIM buffers; a failure is tried again at once.  With
\* fewer buffers the code stops at its BUG_ON: BatchCovered excludes it.
AllocateBatch ==
    /\ wat = "allocate" /\ local_empty >= CLAIM
    /\ local_empty' = local_empty - CLAIM
    /\ local_allocated' = CLAIM
    /\ wat' = "served"
    /\ UNCHANGED <<deviceVars, queueVars, rbaVars, pollVars, pending, restarts>>

CountServed ==
    /\ wat = "served"
    /\ req_pending' = req_pending - 1
    /\ pending' = pending - 1
    /\ wat' = IF pending = 1 THEN "look" ELSE "splice"
    /\ UNCHANGED <<deviceVars, queueVars, rbd_empty, rbd_allocated, req_ready, work,
                   pollVars, local_empty, local_allocated, restarts>>

LookForMore ==
    /\ wat = "look"
    /\ pending' = req_pending
    /\ wat' = "splice"
    /\ UNCHANGED <<deviceVars, queueVars, rbaVars, pollVars, local_empty, local_allocated,
                   restarts>>

SpliceBatch ==
    /\ wat = "splice"
    /\ rbd_allocated' = rbd_allocated + local_allocated /\ local_allocated' = 0
    /\ local_empty' = local_empty + rbd_empty /\ rbd_empty' = 0
    /\ wat' = "ready"
    /\ UNCHANGED <<deviceVars, queueVars, req_pending, req_ready, work, pollVars, pending,
                   restarts>>

AnnounceReady ==
    /\ wat = "ready"
    /\ req_ready' = req_ready + 1
    /\ wat' = NextBatch(pending)
    /\ UNCHANGED <<deviceVars, queueVars, rbd_empty, rbd_allocated, req_pending, work,
                   pollVars, pending, local_empty, local_allocated, restarts>>

ReturnUnused ==
    /\ wat = "return"
    /\ rbd_empty' = rbd_empty + local_empty /\ local_empty' = 0
    /\ wat' = "idle"
    /\ UNCHANGED <<deviceVars, queueVars, rbd_allocated, req_pending, req_ready, work,
                   pollVars, pending, local_allocated, restarts>>

(***************************************************************************)
(* Stop and start of the device                                            *)
(***************************************************************************)

\* _iwl_trans_pcie_gen2_stop_device: the device fills no more buffers
StopDevice ==
    /\ enabled /\ restarts < MaxRestarts
    /\ enabled' = FALSE /\ restarts' = restarts + 1
    /\ UNCHANGED <<hw, unwritten, queueVars, rbaVars, pollVars, workVars>>

\* iwl_pcie_gen2_rx_init after iwl_pcie_rx_napi_sync; it cancels the work item,
\* or waits for it to end, and starts all over.
PollsDone == \A q \in Queues : at[q] = "idle"
WorkDone == wat = "idle"

RxInit ==
    /\ ~enabled /\ PollsDone /\ WorkDone
    /\ enabled' = TRUE
    /\ \E n \in Refills(QueueBuffers) :
           /\ hw' = Written(n) /\ unwritten' = InDefault(n - Written(n))
           /\ rx_used' = InDefault(QueueBuffers - n)
    /\ rx_free' = Zero /\ used_count' = Zero
    /\ rbd_empty' = Pool /\ rbd_allocated' = 0
    /\ req_pending' = 0 /\ req_ready' = 0 /\ work' = FALSE
    /\ UNCHANGED <<pollVars, workVars, restarts>>

Poll(q) ==
    \/ SampleRequests(q) \/ EnterEmergency(q)
    \/ HandleReused(q) \/ HandleStolen(q)
    \/ PostMove(q) \/ PostRequest(q) \/ QueueWork(q)
    \/ Claim(q) \/ TakeBatch(q) \/ Recycle(q) \/ RecycleEmergency(q) \/ PollEnds(q)

Work ==
    \/ WorkBegins \/ SwapEmpty \/ AllocateBatch \/ CountServed \/ LookForMore
    \/ SpliceBatch \/ AnnounceReady \/ ReturnUnused

Next ==
    \/ \E q \in Queues : Poll(q)
    \/ Work
    \/ StopDevice \/ RxInit

Spec == Init /\ [][Next]_vars

\* The work item is scheduled and the memory it asks for is found in the end;
\* a poll that has begun goes on.
FairSpec == Spec /\ WF_vars(Work) /\ \A q \in Queues : WF_vars(Poll(q))
--------------------------------------------------------------------------------
(***************************************************************************)
(* Properties                                                              *)
(***************************************************************************)

Total == Pool + QueueBuffers

\* The buffers of all queues, where queue q has f[q] of them: the size of the
\* disjoint union of the intervals 1 .. f[q].
Units(f) == UNION {{q} \X (1 .. f[q]) : q \in Queues}
SumOver(f) == Cardinality(Units(f))

\* Every list and counter is a natural number no larger than the number of
\* buffers allows: none of the unsigned counters of struct iwl_rxq wraps.
TypeOK ==
    /\ enabled \in BOOLEAN /\ work \in BOOLEAN
    /\ {hw, rbd_empty, rbd_allocated, req_pending, req_ready, local_empty, local_allocated}
           \subseteq 0..Total
    /\ {unwritten, rx_free, rx_used, used_count} \subseteq [Queues -> 0..Total]
    /\ count \in [Queues -> 0..Batch - 1]
    /\ pending \in 0..Total /\ restarts \in 0..MaxRestarts
    /\ rb_pending_alloc \in [Queues -> Nat] /\ emergency \in [Queues -> BOOLEAN]
    /\ at \in [Queues -> {"idle", "loop", "enter", "buffer", "post", "request",
                          "queue", "claim", "take", "recycle"}]
    /\ wat \in {"idle", "swap", "allocate", "served", "look", "splice", "ready", "return"}

\* The buffers without a place in a queue's ring.
Held == rbd_empty + local_empty + local_allocated + rbd_allocated + SumOver(rx_used)

\* The allocator has a buffer for every page of a batch it has begun: the
\* BUG_ON(list_empty(&local_empty)) of rx.c is never reached, although a request
\* is posted when only POST of its CLAIM buffers have been given back.
BatchCovered == wat = "allocate" => local_empty >= CLAIM

\* Whoever has obtained a ready request finds CLAIM buffers on rbd_allocated,
\* and so will everyone who can obtain one: iwl_pcie_rx_allocator_get takes
\* them without looking.
ReadyIsBacked ==
    rbd_allocated >= CLAIM * (req_ready + Cardinality({q \in Queues : at[q] = "take"}))

\* The rings are never given more buffers than they have room for, and a full
\* completion ring never looks like an empty one: iwl_pcie_rxmq_restock writes
\* every free buffer without asking for space.
RingsFit ==
    hw + SumOver(unwritten) + SumOver(rx_free)
       + Cardinality({q \in Queues : at[q] \in {"enter", "buffer"}}) <= QueueSize - 1

\* Between polls, used_count counts what the queues can claim back: no buffer
\* of an emergency went to the allocator untracked.
NoneLost == PollsDone => Held = Pool + SumOver(used_count)

\* When every poll has ended and the allocator is done, the device still has
\* buffers to fill or has filled one: claims are made only by a poll, polls
\* only follow a filled buffer, so otherwise reception would be over for good.
NotDry ==
    enabled /\ PollsDone /\ WorkDone /\ ~work => hw > 0

\* A request that was posted is served, also one posted while the work item is
\* about to return, unless the device is stopped: neither queue_work nor the
\* last look at the counter may miss it.
RequestsServed == req_pending > 0 ~> req_ready > 0 \/ ~enabled

================================================================================
