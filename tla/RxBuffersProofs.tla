-------------------------- MODULE RxBuffersProofs --------------------------
(***************************************************************************)
(* Machine-checked proofs about the receive buffers of pcie/rx.c, for any  *)
(* number of queues, any batch sizes with POST < CLAIM, any ring size and  *)
(* any number of restarts.                                                 *)
(*                                                                         *)
(* The inductive invariant IInv has five parts: the shape of the locals of *)
(* the polls and of the work item; what backs the ready requests; what     *)
(* covers the requests not served; the relation of used_count to the       *)
(* buffers out of the rings; and the conservation of buffers.  The last    *)
(* three speak of sums over the queues, so the module begins with the      *)
(* arithmetic of SumOver; that of remainders is in Remainders.             *)
(*                                                                         *)
(* That the device never runs dry needs more, DryInv: every request is on  *)
(* account of a queue that counted POST buffers of a batch; few requests   *)
(* wait, because a poll that sees many counts no more; so a queue cannot   *)
(* be left with many batches it has not claimed.                           *)
(***************************************************************************)
EXTENDS RxBuffers, Remainders, FiniteSetTheorems, TLAPS

-----------------------------------------------------------------------------
(* Sums over the queues.                                                   *)

\* The part of Units(f) that belongs to queue q.
Row(f, q) == {q} \X (1 .. f[q])

\* Queue q contributes f[q] units.
LEMMA RowSize ==
    ASSUME NEW f \in [Queues -> Nat], NEW q \in Queues
    PROVE  IsFiniteSet(Row(f, q)) /\ Cardinality(Row(f, q)) = f[q]
<1>1. IsFiniteSet({q}) /\ Cardinality({q}) = 1
  BY FS_Singleton
<1>2. f[q] \in Nat
  OBVIOUS
<1>3. IsFiniteSet(1 .. f[q]) /\ Cardinality(1 .. f[q]) = f[q]
  BY <1>2, FS_Interval
<1>4. /\ IsFiniteSet({q} \X (1 .. f[q]))
      /\ Cardinality({q} \X (1 .. f[q])) = 1 * f[q]
  BY <1>1, <1>3, FS_Product
<1> QED
  BY <1>2, <1>4 DEF Row

\* The units of some of the queues are finitely many.
LEMMA UnitsFinite ==
    ASSUME NEW f \in [Queues -> Nat], NEW S \in SUBSET Queues
    PROVE  IsFiniteSet(UNION {Row(f, q) : q \in S})
<1> DEFINE T == {Row(f, q) : q \in S}
           h == [q \in S |-> Row(f, q)]
<1>1. IsFiniteSet(S)
  BY RxAssumption, FS_Subset
<1>2. h \in Surjection(S, T)
  BY DEF Surjection
<1>3. IsFiniteSet(T)
  BY <1>1, <1>2, FS_Surjection
<1>4. \A R \in T : IsFiniteSet(R)
  BY RowSize
<1> QED
  BY <1>3, <1>4, FS_UNION

\* A sum is the part of one queue and the rest.
LEMMA SumSplit ==
    ASSUME NEW f \in [Queues -> Nat], NEW q \in Queues
    PROVE  LET rest == UNION {Row(f, p) : p \in Queues \ {q}} IN
           /\ Cardinality(rest) \in Nat
           /\ SumOver(f) = Cardinality(rest) + f[q]
<1> DEFINE rest == UNION {Row(f, p) : p \in Queues \ {q}}
<1>1. IsFiniteSet(rest)
  BY UnitsFinite
<1>2. Units(f) = rest \cup Row(f, q)
  BY DEF Units, Row
<1>3. rest \cap Row(f, q) = {}
  BY DEF Row
<1>4. Cardinality(rest \cap Row(f, q)) = 0
  BY <1>3, FS_EmptySet
<1>5. IsFiniteSet(Row(f, q)) /\ Cardinality(Row(f, q)) = f[q]
  BY RowSize
<1>6. Cardinality(rest) \in Nat
  BY <1>1, FS_CardinalityType
<1>7. Cardinality(rest \cup Row(f, q)) = Cardinality(rest) + f[q] - 0
  BY <1>1, <1>4, <1>5, FS_Union
<1> QED
  BY <1>2, <1>6, <1>7 DEF SumOver

\* A sum is a natural number no smaller than any of its terms.
LEMMA SumType ==
    ASSUME NEW f \in [Queues -> Nat]
    PROVE  /\ SumOver(f) \in Nat
           /\ \A q \in Queues : f[q] <= SumOver(f)
<1>1. ASSUME NEW q \in Queues PROVE SumOver(f) \in Nat /\ f[q] <= SumOver(f)
  <2> DEFINE n == Cardinality(UNION {Row(f, p) : p \in Queues \ {q}})
  <2>1. n \in Nat /\ SumOver(f) = n + f[q]
    BY SumSplit
  <2>2. f[q] \in Nat
    OBVIOUS
  <2> HIDE DEF n
  <2> QED
    BY <2>1, <2>2
<1> QED
  BY <1>1, RxAssumption

\* A step of one queue changes the sum by the change of its term.
LEMMA SumStep ==
    ASSUME NEW f \in [Queues -> Nat], NEW h \in [Queues -> Nat], NEW q \in Queues,
           \A p \in Queues \ {q} : h[p] = f[p]
    PROVE  SumOver(h) = SumOver(f) - f[q] + h[q]
<1> DEFINE rf == UNION {Row(f, p) : p \in Queues \ {q}}
           rh == UNION {Row(h, p) : p \in Queues \ {q}}
<1>1. rf = rh
  BY DEF Row
<1>2. Cardinality(rf) \in Nat /\ SumOver(f) = Cardinality(rf) + f[q]
  BY SumSplit
<1>3. SumOver(h) = Cardinality(rh) + h[q]
  BY SumSplit
<1>4. f[q] \in Nat /\ h[q] \in Nat
  OBVIOUS
<1> HIDE DEF rf, rh
<1> QED
  BY <1>1, <1>2, <1>3, <1>4

\* The same for an update of one queue.
LEMMA SumExcept ==
    ASSUME NEW f \in [Queues -> Nat], NEW q \in Queues, NEW v \in Nat
    PROVE  SumOver([f EXCEPT ![q] = v]) = SumOver(f) - f[q] + v
<1> DEFINE h == [f EXCEPT ![q] = v]
<1>1. h \in [Queues -> Nat] /\ h[q] = v /\ \A p \in Queues \ {q} : h[p] = f[p]
  OBVIOUS
<1> HIDE DEF h
<1>2. SumOver(h) = SumOver(f) - f[q] + v
  BY <1>1, SumStep
<1> QED
  BY <1>2 DEF h

\* Sums are monotonic.
LEMMA SumBelow ==
    ASSUME NEW f \in [Queues -> Nat], NEW h \in [Queues -> Nat],
           \A q \in Queues : f[q] <= h[q]
    PROVE  SumOver(f) <= SumOver(h)
<1>1. Units(f) \subseteq Units(h)
  <2> SUFFICES ASSUME NEW q \in Queues, NEW i \in 1 .. f[q]
               PROVE  <<q, i>> \in Units(h)
    BY DEF Units
  <2>1. i \in 1 .. h[q]
    OBVIOUS
  <2> QED
    BY <2>1 DEF Units
<1>2. IsFiniteSet(Units(h))
  BY UnitsFinite DEF Units, Row
<1> QED
  BY <1>1, <1>2, FS_Subset DEF SumOver

\* The sum of equal terms.
LEMMA SumConstant ==
    ASSUME NEW v \in Nat
    PROVE  SumOver([q \in Queues |-> v]) = Cardinality(Queues) * v
<1>1. Units([q \in Queues |-> v]) = Queues \X (1 .. v)
  BY DEF Units
<1>2. IsFiniteSet(1 .. v) /\ Cardinality(1 .. v) = v
  BY FS_Interval
<1>3. Cardinality(Queues \X (1 .. v)) = Cardinality(Queues) * v
  BY <1>2, RxAssumption, FS_Product
<1> QED
  BY <1>1, <1>3 DEF SumOver
-----------------------------------------------------------------------------
(* The shape of the state.                                                 *)

\* The places of a poll and of the work item.
Places == {"idle", "loop", "enter", "buffer", "post", "request", "queue", "claim",
           "take", "recycle"}
Stages == {"idle", "swap", "allocate", "served", "look", "splice", "ready", "return"}

\* Every counter is a natural number and every place is known.  That none is
\* decremented at zero needs the two shapes below; the upper bounds of TypeOK
\* need the rest of IInv.
Counters ==
    /\ enabled \in BOOLEAN /\ work \in BOOLEAN
    /\ hw \in Nat /\ rbd_empty \in Nat /\ rbd_allocated \in Nat
    /\ req_pending \in Nat /\ req_ready \in Nat /\ pending \in Nat
    /\ local_empty \in Nat /\ local_allocated \in Nat
    /\ unwritten \in [Queues -> Nat] /\ rx_free \in [Queues -> Nat]
    /\ rx_used \in [Queues -> Nat] /\ used_count \in [Queues -> Nat]
    /\ count \in [Queues -> 0..Batch - 1] /\ restarts \in 0..MaxRestarts
    /\ rb_pending_alloc \in [Queues -> Nat] /\ emergency \in [Queues -> BOOLEAN]
    /\ at \in [Queues -> Places] /\ wat \in Stages

\* What a poll knows at each place: it posts only outside an emergency and at
\* the POST-th buffer, has given its used buffers away when it makes the
\* request, and takes a batch only when it is owed one.
PollShape ==
    \A q \in Queues :
        /\ at[q] \in {"idle", "enter", "post", "request"} => ~emergency[q]
        /\ at[q] \in {"post", "request"} => used_count[q] % CLAIM = POST
        /\ at[q] = "request" => rx_used[q] = 0
        /\ at[q] = "take" => used_count[q] >= CLAIM

\* What the work item holds at each stage: a batch between its allocation and
\* its splice, and never a count of requests above the one in the allocator.
WorkShape ==
    /\ wat \in {"idle", "swap"} => local_empty = 0
    /\ wat \in {"idle", "look", "return"} => pending = 0
    /\ wat \in {"allocate", "served"} => pending > 0
    /\ pending <= req_pending
    /\ local_allocated = IF wat \in {"served", "look", "splice"} THEN CLAIM ELSE 0

\* The part of the invariant without sums.
Shape == Counters /\ PollShape /\ WorkShape

\* A restock of n free buffers loses none: what is not told to the device is
\* past the write pointer, or still free while the device is disabled.
LEMMA RestockWrites ==
    ASSUME Counters, NEW q \in Queues, NEW n \in Nat, Restock(q, n)
    PROVE  /\ hw' \in Nat /\ unwritten' \in [Queues -> Nat] /\ rx_free' \in [Queues -> Nat]
           /\ hw' + SumOver(unwritten') + SumOver(rx_free')
                = hw + SumOver(unwritten) + SumOver(rx_free) - rx_free[q] + n
<1> DEFINE w == unwritten[q] + n
           told == (w \div WriteStep) * WriteStep
           left == w % WriteStep
<1>1. /\ hw \in Nat /\ unwritten \in [Queues -> Nat] /\ rx_free \in [Queues -> Nat]
      /\ unwritten[q] \in Nat /\ rx_free[q] \in Nat
  BY DEF Counters
<1>2. w \in Nat /\ w \in Int /\ WriteStep \in Nat \ {0}
  BY <1>1, RxAssumption
<1>3. told \in Nat /\ left \in Nat /\ told + left = w
  <2> DEFINE d == w \div WriteStep
  <2> HIDE DEF w
  <2>1. d \in Nat /\ left \in 0 .. WriteStep - 1 /\ w = WriteStep * d + left
    BY <1>2, DivMod
  <2> HIDE DEF d, left
  <2>2. d * WriteStep \in Nat /\ d * WriteStep + left = w
    BY <1>2, <2>1
  <2> QED
    BY <2>1, <2>2 DEF d
<1>4. SumOver(unwritten) \in Nat /\ SumOver(rx_free) \in Nat
  BY <1>1, SumType
<1>5. CASE enabled
  <2>1. /\ hw' = hw + told
        /\ unwritten' = [unwritten EXCEPT ![q] = left]
        /\ rx_free' = [rx_free EXCEPT ![q] = 0]
    BY <1>5 DEF Restock
  <2>2. SumOver(unwritten') = SumOver(unwritten) - unwritten[q] + left
    BY <1>1, <1>3, <2>1, SumExcept
  <2>3. SumOver(rx_free') = SumOver(rx_free) - rx_free[q] + 0
    BY <1>1, <2>1, SumExcept
  <2>4. told + left = unwritten[q] + n
    BY <1>3
  <2> HIDE DEF told, left
  <2>5. hw' \in Nat /\ unwritten' \in [Queues -> Nat] /\ rx_free' \in [Queues -> Nat]
    BY <1>1, <1>3, <2>1
  <2> QED
    BY <1>1, <1>3, <1>4, <2>1, <2>2, <2>3, <2>4, <2>5
<1>6. CASE ~enabled
  <2>1. /\ hw' = hw /\ unwritten' = unwritten
        /\ rx_free' = [rx_free EXCEPT ![q] = n]
    BY <1>6 DEF Restock
  <2>2. SumOver(rx_free') = SumOver(rx_free) - rx_free[q] + n
    BY <1>1, <2>1, SumExcept
  <2>3. hw' \in Nat /\ unwritten' \in [Queues -> Nat] /\ rx_free' \in [Queues -> Nat]
    BY <1>1, <2>1
  <2> QED
    BY <1>1, <1>4, <2>1, <2>2, <2>3
<1> QED
  BY <1>5, <1>6

\* A refill with pages moves used buffers to the rings, all of them unless
\* page allocations can fail.
LEMMA RefillWrites ==
    ASSUME Counters, NEW q \in Queues, RefillAndRestock(q)
    PROVE  /\ hw' \in Nat /\ unwritten' \in [Queues -> Nat] /\ rx_free' \in [Queues -> Nat]
           /\ rx_used' \in [Queues -> Nat]
           /\ \A p \in Queues \ {q} : rx_used'[p] = rx_used[p]
           /\ rx_used'[q] <= rx_used[q]
           /\ ~AllocFails => rx_used'[q] = 0
           /\ hw' + SumOver(unwritten') + SumOver(rx_free') + SumOver(rx_used')
                = hw + SumOver(unwritten) + SumOver(rx_free) + SumOver(rx_used)
<1>1. /\ hw \in Nat /\ unwritten \in [Queues -> Nat] /\ rx_free \in [Queues -> Nat]
      /\ rx_used \in [Queues -> Nat] /\ rx_used[q] \in Nat /\ rx_free[q] \in Nat
  BY DEF Counters
<1>2. PICK n \in Refills(rx_used[q]) :
          rx_used' = [rx_used EXCEPT ![q] = @ - n] /\ Restock(q, rx_free[q] + n)
  BY DEF RefillAndRestock
<1>3. n \in 0 .. rx_used[q] /\ (~AllocFails => n = rx_used[q])
  BY <1>1 DEF Refills
<1>4. rx_used[q] - n \in Nat /\ rx_free[q] + n \in Nat
  BY <1>1, <1>3
<1>5. rx_used' = [rx_used EXCEPT ![q] = rx_used[q] - n]
  BY <1>2
<1>6. /\ rx_used' \in [Queues -> Nat] /\ rx_used'[q] = rx_used[q] - n
      /\ \A p \in Queues \ {q} : rx_used'[p] = rx_used[p]
  BY <1>1, <1>4, <1>5
<1>7. SumOver(rx_used') = SumOver(rx_used) - rx_used[q] + (rx_used[q] - n)
  BY <1>1, <1>4, <1>5, SumExcept
<1>8. /\ hw' \in Nat /\ unwritten' \in [Queues -> Nat] /\ rx_free' \in [Queues -> Nat]
      /\ hw' + SumOver(unwritten') + SumOver(rx_free')
           = hw + SumOver(unwritten) + SumOver(rx_free) - rx_free[q] + (rx_free[q] + n)
  BY <1>2, <1>4, RestockWrites
<1>9. /\ SumOver(unwritten) \in Nat /\ SumOver(rx_free) \in Nat /\ SumOver(rx_used) \in Nat
      /\ SumOver(unwritten') \in Nat /\ SumOver(rx_free') \in Nat
  BY <1>1, <1>8, SumType
<1>10. /\ rx_used'[q] <= rx_used[q]
       /\ ~AllocFails => rx_used'[q] = 0
  BY <1>1, <1>3, <1>6
<1>11. hw' + SumOver(unwritten') + SumOver(rx_free') + SumOver(rx_used')
          = hw + SumOver(unwritten) + SumOver(rx_free) + SumOver(rx_used)
  BY <1>1, <1>3, <1>7, <1>8, <1>9
<1> QED
  BY <1>6, <1>8, <1>10, <1>11

\* Sums over the queues when at most the first one has buffers.
LEMMA FirstBuffers ==
    /\ QueueBuffers \in Nat /\ DefaultQueue \in Queues
    /\ Zero \in [Queues -> Nat] /\ SumOver(Zero) = 0
    /\ \A n \in Nat : InDefault(n) \in [Queues -> Nat] /\ SumOver(InDefault(n)) = n
<1>1. QueueBuffers \in Nat
  BY RxAssumption DEF QueueBuffers
<1>2. DefaultQueue \in Queues
  BY RxAssumption DEF DefaultQueue
<1>3. Zero \in [Queues -> Nat] /\ \A q \in Queues : Zero[q] = 0
  BY DEF Zero
<1>4. Cardinality(Queues) \in Nat
  BY RxAssumption, FS_CardinalityType
<1>5. SumOver(Zero) = 0
  <2>1. SumOver(Zero) = Cardinality(Queues) * 0
    BY SumConstant DEF Zero
  <2> QED
    BY <1>4, <2>1
<1>6. ASSUME NEW n \in Nat
      PROVE  InDefault(n) \in [Queues -> Nat] /\ SumOver(InDefault(n)) = n
  <2>1. InDefault(n) \in [Queues -> Nat]
    BY <1>2, <1>3 DEF InDefault
  <2>2. SumOver(InDefault(n)) = SumOver(Zero) - Zero[DefaultQueue] + n
    BY <1>2, <1>3, SumExcept DEF InDefault
  <2> QED
    BY <1>2, <1>3, <1>5, <2>1, <2>2
<1> QED
  BY <1>1, <1>2, <1>3, <1>5, <1>6

\* The buffers are with the device, as far as pages were found for them.
Filled ==
    \E n \in Refills(QueueBuffers) :
        /\ hw = Written(n) /\ unwritten = InDefault(n - Written(n))
        /\ rx_used = InDefault(QueueBuffers - n)

\* The first restock loses none of them.
LEMMA FilledIs ==
    ASSUME Filled
    PROVE  /\ hw \in Nat /\ unwritten \in [Queues -> Nat] /\ rx_used \in [Queues -> Nat]
           /\ hw + SumOver(unwritten) + SumOver(rx_used) = QueueBuffers
           /\ \A q \in Queues : unwritten[q] < WriteStep
           /\ ~AllocFails => rx_used = Zero
<1>1. PICK n \in Refills(QueueBuffers) :
          /\ hw = Written(n) /\ unwritten = InDefault(n - Written(n))
          /\ rx_used = InDefault(QueueBuffers - n)
  BY DEF Filled
<1>2. /\ n \in Nat /\ QueueBuffers - n \in Nat /\ n + (QueueBuffers - n) = QueueBuffers
      /\ ~AllocFails => QueueBuffers - n = 0
  BY FirstBuffers DEF Refills
<1>3. Written(n) \in Nat /\ n - Written(n) \in 0 .. WriteStep - 1 /\ WriteStep \in Nat \ {0}
  <2> DEFINE d == n \div WriteStep
             r == n % WriteStep
  <2>1. n \in Int /\ WriteStep \in Nat \ {0}
    BY <1>2, RxAssumption
  <2>2. r \in 0 .. WriteStep - 1 /\ d \in Nat /\ n = WriteStep * d + r
    BY <1>2, <2>1, DivMod
  <2>3. Written(n) = d * WriteStep
    BY DEF Written
  <2> HIDE DEF d, r
  <2> QED
    BY <1>2, <2>1, <2>2, <2>3
<1> DEFINE w == n - Written(n)
           u == QueueBuffers - n
<1>4. w \in Nat /\ w < WriteStep /\ u \in Nat /\ (~AllocFails => u = 0)
      /\ Written(n) + w + u = QueueBuffers /\ WriteStep > 0
  BY <1>2, <1>3, FirstBuffers
<1>5. hw = Written(n) /\ unwritten = InDefault(w) /\ rx_used = InDefault(u)
  BY <1>1
<1> HIDE DEF w, u
<1>6. \A q \in Queues : unwritten[q] < WriteStep
  BY <1>4, <1>5 DEF InDefault, Zero
<1>7. ~AllocFails => rx_used = Zero
  BY <1>4, <1>5, FirstBuffers DEF InDefault, Zero
<1>8. /\ unwritten \in [Queues -> Nat] /\ rx_used \in [Queues -> Nat]
      /\ SumOver(unwritten) = w /\ SumOver(rx_used) = u
  BY <1>4, <1>5, FirstBuffers
<1> QED
  BY <1>3, <1>4, <1>5, <1>6, <1>7, <1>8

\* In the next state too.
LEMMA FilledNext ==
    ( Filled =>
        /\ hw \in Nat /\ unwritten \in [Queues -> Nat] /\ rx_used \in [Queues -> Nat]
        /\ hw + SumOver(unwritten) + SumOver(rx_used) = QueueBuffers
        /\ \A q \in Queues : unwritten[q] < WriteStep
        /\ ~AllocFails => rx_used = Zero )'
<1>1. Filled =>
        /\ hw \in Nat /\ unwritten \in [Queues -> Nat] /\ rx_used \in [Queues -> Nat]
        /\ hw + SumOver(unwritten) + SumOver(rx_used) = QueueBuffers
        /\ \A q \in Queues : unwritten[q] < WriteStep
        /\ ~AllocFails => rx_used = Zero
  BY FilledIs
<1> QED
  BY <1>1, PTL

\* The device is filled when it starts and when it starts again.
LEMMA FilledStart == Init => Filled
BY Zenon DEF Init, Filled

LEMMA FilledAgain == RxInit => Filled'
BY DEF RxInit, Filled, QueueBuffers, Refills, Written, InDefault, DefaultQueue, Zero

\* The assumption about the constants, one by one.
LEMMA Sizes ==
    /\ CLAIM \in Nat \ {0} /\ POST \in Nat \ {0} /\ QueueSize \in Nat \ {0}
    /\ WriteStep \in Nat \ {0} /\ Batch \in Nat \ {0} /\ MaxRestarts \in Nat
    /\ POST < CLAIM /\ CLAIM - POST \in Nat
BY RxAssumption

\* The pool of the allocator is a number.
LEMMA PoolType == Pool \in Nat /\ Cardinality(Queues) \in Nat
<1>1. Cardinality(Queues) \in Nat
  BY RxAssumption, FS_CardinalityType
<1>2. CLAIM - POST \in Nat
  BY RxAssumption
<1> QED
  BY <1>1, <1>2 DEF Pool
-----------------------------------------------------------------------------
\* The shape holds at first.
LEMMA ShapeInit == Init => Shape
<1> SUFFICES ASSUME Init PROVE Shape
  OBVIOUS
<1>0. Zero \in [Queues -> 0..Batch - 1]
  BY Sizes DEF Zero
<1>1. Counters
  <2>1. /\ at \in [Queues -> Places] /\ emergency \in [Queues -> BOOLEAN]
        /\ wat \in Stages
    BY DEF Init, Places, Stages
  <2>2. /\ hw \in Nat /\ rbd_empty \in Nat /\ unwritten \in [Queues -> Nat]
        /\ rx_free \in [Queues -> Nat] /\ rx_used \in [Queues -> Nat]
        /\ used_count \in [Queues -> Nat] /\ rb_pending_alloc \in [Queues -> Nat]
    BY FirstBuffers, FilledStart, FilledIs, PoolType DEF Init
  <2>3. /\ restarts \in 0..MaxRestarts /\ count \in [Queues -> 0..Batch - 1]
    BY <1>0, Sizes DEF Init
  <2>5. enabled \in BOOLEAN /\ work \in BOOLEAN
    BY Zenon DEF Init
  <2>4. /\ rbd_allocated \in Nat /\ req_pending \in Nat /\ req_ready \in Nat
        /\ pending \in Nat /\ local_empty \in Nat /\ local_allocated \in Nat
    BY DEF Init
  <2> QED
    BY <2>1, <2>2, <2>3, <2>4, <2>5 DEF Counters
<1>2. PollShape
  BY DEF Init, PollShape
<1>3. WorkShape
  BY DEF Init, WorkShape
<1> QED
  BY <1>1, <1>2, <1>3 DEF Shape

\* Every step of a poll keeps the shape.
LEMMA PollShapeStep ==
    ASSUME Shape, NEW q \in Queues, Poll(q)
    PROVE  Shape'
<1> USE DEF Shape, Goto, deviceVars, queueVars, rbaVars, workVars
<1>1. CASE SampleRequests(q)
  <2>1. Counters'
    BY Sizes, <1>1 DEF Counters, PollShape, Places, SampleRequests
  <2>2. PollShape'
    BY Sizes, <1>1 DEF Counters, PollShape, SampleRequests
  <2>3. WorkShape'
    BY Sizes, <1>1 DEF Counters, WorkShape, SampleRequests
  <2> QED
    BY <2>1, <2>2, <2>3
<1>2. CASE EnterEmergency(q)
  <2>1. Counters'
    BY Sizes, <1>2 DEF Counters, PollShape, Places, EnterEmergency, MoveToAllocator
  <2>2. PollShape'
    BY Sizes, <1>2 DEF Counters, PollShape, EnterEmergency, MoveToAllocator
  <2>3. WorkShape'
    BY Sizes, <1>2 DEF Counters, WorkShape, EnterEmergency, MoveToAllocator
  <2> QED
    BY <2>1, <2>2, <2>3
<1>3. CASE HandleReused(q)
  <2>1. Counters'
    BY Sizes, <1>3 DEF Counters, PollShape, Places, HandleReused
  <2>2. PollShape'
    BY Sizes, <1>3 DEF Counters, PollShape, HandleReused
  <2>3. WorkShape'
    BY Sizes, <1>3 DEF Counters, WorkShape, HandleReused
  <2> QED
    BY <2>1, <2>2, <2>3
<1>4. CASE HandleStolen(q)
  <2>1. Counters'
    BY Sizes, <1>4 DEF Counters, PollShape, Places, HandleStolen
  <2>2. PollShape'
    BY Sizes, <1>4 DEF Counters, PollShape, HandleStolen
  <2>3. WorkShape'
    BY Sizes, <1>4 DEF Counters, WorkShape, HandleStolen
  <2> QED
    BY <2>1, <2>2, <2>3
<1>5. CASE PostMove(q)
  <2>1. Counters'
    BY Sizes, <1>5 DEF Counters, PollShape, Places, PostMove, MoveToAllocator
  <2>2. PollShape'
    BY Sizes, <1>5 DEF Counters, PollShape, PostMove, MoveToAllocator
  <2>3. WorkShape'
    BY Sizes, <1>5 DEF Counters, WorkShape, PostMove, MoveToAllocator
  <2> QED
    BY <2>1, <2>2, <2>3
<1>6. CASE PostRequest(q)
  <2>1. Counters'
    BY Sizes, <1>6 DEF Counters, PollShape, Places, PostRequest
  <2>2. PollShape'
    BY Sizes, <1>6 DEF Counters, PollShape, PostRequest
  <2>3. WorkShape'
    BY Sizes, <1>6 DEF Counters, WorkShape, PostRequest
  <2> QED
    BY <2>1, <2>2, <2>3
<1>7. CASE QueueWork(q)
  <2>1. Counters'
    BY Sizes, <1>7 DEF Counters, PollShape, Places, QueueWork
  <2>2. PollShape'
    BY Sizes, <1>7 DEF Counters, PollShape, QueueWork
  <2>3. WorkShape'
    BY Sizes, <1>7 DEF Counters, WorkShape, QueueWork
  <2> QED
    BY <2>1, <2>2, <2>3
<1>8. CASE Claim(q)
  <2>1. Counters'
    BY Sizes, <1>8 DEF Counters, PollShape, Places, Claim
  <2>2. PollShape'
    BY Sizes, <1>8 DEF Counters, PollShape, Claim
  <2>3. WorkShape'
    BY Sizes, <1>8 DEF Counters, WorkShape, Claim
  <2> QED
    BY <2>1, <2>2, <2>3
<1>9. CASE TakeBatch(q)
  <2>1. Counters'
    BY Sizes, <1>9 DEF Counters, PollShape, Places, TakeBatch
  <2>2. PollShape'
    BY Sizes, <1>9 DEF Counters, PollShape, TakeBatch
  <2>3. WorkShape'
    BY Sizes, <1>9 DEF Counters, WorkShape, TakeBatch
  <2> QED
    BY <2>1, <2>2, <2>3
<1>10. CASE Recycle(q)
  <2>1. Counters'
    BY Sizes, <1>10 DEF Counters, PollShape, Places, Recycle, MoveToAllocator
  <2>2. PollShape'
    BY Sizes, <1>10 DEF Counters, PollShape, Recycle, MoveToAllocator
  <2>3. WorkShape'
    BY Sizes, <1>10 DEF Counters, WorkShape, Recycle, MoveToAllocator
  <2> QED
    BY <2>1, <2>2, <2>3
<1>11. CASE RecycleEmergency(q)
  <2>1. CASE count[q] + 1 = Batch
    <3>1. RefillAndRestock(q)
      BY <1>11, <2>1 DEF RecycleEmergency
    <3>2. /\ hw' \in Nat /\ unwritten' \in [Queues -> Nat] /\ rx_free' \in [Queues -> Nat]
          /\ rx_used' \in [Queues -> Nat]
          /\ \A p \in Queues \ {q} : rx_used'[p] = rx_used[p]
      BY <3>1, RefillWrites
    <3>3. (rb_pending_alloc[q] >= QueueSize \div 3) \in BOOLEAN
      OBVIOUS
    <3>4. Counters'
      <4>1. /\ at' \in [Queues -> Places] /\ count' \in [Queues -> 0..Batch - 1]
            /\ emergency' \in [Queues -> BOOLEAN]
        <5>1. at' \in [Queues -> Places] /\ count' \in [Queues -> 0..Batch - 1]
          BY Sizes, <1>11, <2>1 DEF Counters, Places, RecycleEmergency
        <5>2. emergency' = [emergency EXCEPT ![q] = rb_pending_alloc[q] >= QueueSize \div 3]
          BY <1>11, <2>1 DEF RecycleEmergency
        <5>3. emergency' \in [Queues -> BOOLEAN]
          BY Zenon, <3>3, <5>2 DEF Counters
        <5> QED
          BY <5>1, <5>3
      <4> QED
        BY <1>11, <3>2, <4>1 DEF Counters, RecycleEmergency
    <3>5. PollShape'
      BY <1>11, <2>1, <3>2 DEF Counters, PollShape, RecycleEmergency
    <3>6. WorkShape'
      BY <1>11 DEF WorkShape, RecycleEmergency
    <3> QED
      BY <3>4, <3>5, <3>6
  <2>2. CASE count[q] + 1 # Batch
    <3>1. Counters'
      BY Sizes, <1>11, <2>2 DEF Counters, Places, RecycleEmergency
    <3>2. PollShape'
      BY <1>11, <2>2 DEF Counters, PollShape, RecycleEmergency
    <3>3. WorkShape'
      BY <1>11 DEF WorkShape, RecycleEmergency
    <3> QED
      BY <3>1, <3>2, <3>3
  <2> QED
    BY <2>1, <2>2
<1>12. CASE PollEnds(q)
  <2>1. /\ hw' \in Nat /\ unwritten' \in [Queues -> Nat] /\ rx_free' \in [Queues -> Nat]
        /\ rx_used' \in [Queues -> Nat]
        /\ \A p \in Queues \ {q} : rx_used'[p] = rx_used[p]
    <3>1. CASE emergency[q] /\ count[q] > 0
      BY <1>12, <3>1, RefillWrites DEF PollEnds
    <3>2. CASE ~(emergency[q] /\ count[q] > 0)
      <4>1. Restock(q, rx_free[q]) /\ rx_used' = rx_used /\ rx_free[q] \in Nat
        BY <1>12, <3>2 DEF PollEnds, Counters
      <4> QED
        BY <4>1, RestockWrites DEF Counters
    <3> QED
      BY <3>1, <3>2
  <2>2. Counters'
    <3>1. /\ at' \in [Queues -> Places] /\ count' \in [Queues -> 0..Batch - 1]
          /\ emergency' \in [Queues -> BOOLEAN] /\ rb_pending_alloc' \in [Queues -> Nat]
      BY Sizes, <1>12 DEF Counters, Places, PollEnds
    <3> QED
      BY <1>12, <2>1, <3>1 DEF Counters, PollEnds
  <2>3. PollShape'
    BY <1>12, <2>1 DEF Counters, PollShape, PollEnds
  <2>4. WorkShape'
    BY <1>12 DEF WorkShape, PollEnds
  <2> QED
    BY <2>2, <2>3, <2>4
<1> QED
  BY <1>1, <1>2, <1>3, <1>4, <1>5, <1>6, <1>7, <1>8, <1>9, <1>10, <1>11, <1>12 DEF Poll

\* Every step of the work item keeps the shape.
LEMMA WorkShapeStep ==
    ASSUME Shape, Work
    PROVE  Shape'
<1> USE DEF Shape, deviceVars, queueVars, rbaVars, pollVars, NextBatch
<1>1. CASE WorkBegins
  <2>1. Counters'
    BY Sizes, <1>1 DEF Counters, WorkShape, Stages, WorkBegins
  <2>2. PollShape'
    BY <1>1 DEF PollShape, WorkBegins
  <2>3. WorkShape'
    BY Sizes, <1>1 DEF Counters, WorkShape, WorkBegins
  <2> QED
    BY <2>1, <2>2, <2>3
<1>2. CASE SwapEmpty
  <2>1. Counters'
    BY Sizes, <1>2 DEF Counters, WorkShape, Stages, SwapEmpty
  <2>2. PollShape'
    BY <1>2 DEF PollShape, SwapEmpty
  <2>3. WorkShape'
    BY Sizes, <1>2 DEF Counters, WorkShape, SwapEmpty
  <2> QED
    BY <2>1, <2>2, <2>3
<1>3. CASE AllocateBatch
  <2>1. Counters'
    BY Sizes, <1>3 DEF Counters, WorkShape, Stages, AllocateBatch
  <2>2. PollShape'
    BY <1>3 DEF PollShape, AllocateBatch
  <2>3. WorkShape'
    BY Sizes, <1>3 DEF Counters, WorkShape, AllocateBatch
  <2> QED
    BY <2>1, <2>2, <2>3
<1>4. CASE CountServed
  <2>1. Counters'
    BY Sizes, <1>4 DEF Counters, WorkShape, Stages, CountServed
  <2>2. PollShape'
    BY <1>4 DEF PollShape, CountServed
  <2>3. WorkShape'
    BY Sizes, <1>4 DEF Counters, WorkShape, CountServed
  <2> QED
    BY <2>1, <2>2, <2>3
<1>5. CASE LookForMore
  <2>1. Counters'
    BY Sizes, <1>5 DEF Counters, WorkShape, Stages, LookForMore
  <2>2. PollShape'
    BY <1>5 DEF PollShape, LookForMore
  <2>3. WorkShape'
    BY Sizes, <1>5 DEF Counters, WorkShape, LookForMore
  <2> QED
    BY <2>1, <2>2, <2>3
<1>6. CASE SpliceBatch
  <2>1. Counters'
    BY Sizes, <1>6 DEF Counters, WorkShape, Stages, SpliceBatch
  <2>2. PollShape'
    BY <1>6 DEF PollShape, SpliceBatch
  <2>3. WorkShape'
    BY Sizes, <1>6 DEF Counters, WorkShape, SpliceBatch
  <2> QED
    BY <2>1, <2>2, <2>3
<1>7. CASE AnnounceReady
  <2>1. Counters'
    BY Sizes, <1>7 DEF Counters, WorkShape, Stages, AnnounceReady
  <2>2. PollShape'
    BY <1>7 DEF PollShape, AnnounceReady
  <2>3. WorkShape'
    BY Sizes, <1>7 DEF Counters, WorkShape, AnnounceReady
  <2> QED
    BY <2>1, <2>2, <2>3
<1>8. CASE ReturnUnused
  <2>1. Counters'
    BY Sizes, <1>8 DEF Counters, WorkShape, Stages, ReturnUnused
  <2>2. PollShape'
    BY <1>8 DEF PollShape, ReturnUnused
  <2>3. WorkShape'
    BY Sizes, <1>8 DEF Counters, WorkShape, ReturnUnused
  <2> QED
    BY <2>1, <2>2, <2>3
<1> QED
  BY <1>1, <1>2, <1>3, <1>4, <1>5, <1>6, <1>7, <1>8 DEF Work

\* Stop and start of the device keep the shape.
LEMMA DeviceShapeStep ==
    ASSUME Shape, StopDevice \/ RxInit
    PROVE  Shape'
<1> USE DEF Shape
<1>1. CASE StopDevice
  <2>0. enabled' \in BOOLEAN
    BY Zenon, <1>1 DEF StopDevice
  <2>1. Counters'
    BY Sizes, <1>1, <2>0 DEF Counters, StopDevice, queueVars, rbaVars, pollVars, workVars
  <2>2. PollShape' /\ WorkShape'
    BY <1>1 DEF PollShape, WorkShape, StopDevice, queueVars, rbaVars, pollVars, workVars
  <2> QED
    BY <2>1, <2>2
<1>2. CASE RxInit
  <2>1. enabled' \in BOOLEAN /\ work' \in BOOLEAN
    BY Zenon, <1>2 DEF RxInit
  <2>2. /\ hw' \in Nat /\ rbd_empty' \in Nat /\ unwritten' \in [Queues -> Nat]
        /\ rx_free' \in [Queues -> Nat] /\ rx_used' \in [Queues -> Nat]
        /\ used_count' \in [Queues -> Nat]
        /\ rbd_allocated' \in Nat /\ req_pending' \in Nat /\ req_ready' \in Nat
    BY <1>2, FirstBuffers, FilledAgain, FilledNext, PoolType DEF RxInit
  <2>3. Counters'
    BY <1>2, <2>1, <2>2 DEF Counters, RxInit, pollVars, workVars
  <2>4. PollShape'
    BY <1>2 DEF PollShape, RxInit, PollsDone, pollVars
  <2>5. WorkShape'
    BY <1>2 DEF WorkShape, Counters, RxInit, WorkDone, workVars
  <2> QED
    BY <2>3, <2>4, <2>5
<1> QED
  BY <1>1, <1>2

\* Every step keeps the shape.
LEMMA ShapeStep == Shape /\ [Next]_vars => Shape'
<1> SUFFICES ASSUME Shape, [Next]_vars PROVE Shape'
  OBVIOUS
<1>1. CASE UNCHANGED vars
  BY <1>1 DEF Shape, Counters, PollShape, WorkShape, vars, deviceVars, queueVars, rbaVars,
     pollVars, workVars
<1> QED
  BY <1>1, PollShapeStep, WorkShapeStep, DeviceShapeStep DEF Next
-----------------------------------------------------------------------------
(* Counting the polls at a place.                                          *)

\* The queues whose poll is at one of the places, and the number of a truth.
At(a, places) == {q \in Queues : a[q] \in places}
One(b) == IF b THEN 1 ELSE 0

\* How the number of polls at some places changes when one poll moves.
LEMMA AtMoves ==
    ASSUME NEW a, NEW b, NEW places, NEW q \in Queues,
           \A p \in Queues \ {q} : b[p] = a[p]
    PROVE  /\ Cardinality(At(a, places)) \in Nat /\ Cardinality(At(b, places)) \in Nat
           /\ Cardinality(At(b, places)) = Cardinality(At(a, places))
                - One(a[q] \in places) + One(b[q] \in places)
<1> DEFINE R == {p \in Queues \ {q} : a[p] \in places}
<1>1. IsFiniteSet(R) /\ q \notin R
  BY RxAssumption, FS_Subset
<1>2. Cardinality(R) \in Nat
  BY <1>1, FS_CardinalityType
<1>3. At(a, places) = IF a[q] \in places THEN R \cup {q} ELSE R
  BY DEF At
<1>4. At(b, places) = IF b[q] \in places THEN R \cup {q} ELSE R
  BY DEF At
<1>5. Cardinality(R \cup {q}) = Cardinality(R) + 1
  BY <1>1, FS_AddElement
<1> HIDE DEF R
<1> QED
  BY <1>2, <1>3, <1>4, <1>5 DEF One

\* The polls at some places are finitely many.
LEMMA AtType ==
    ASSUME NEW a, NEW places
    PROVE  Cardinality(At(a, places)) \in Nat
<1>1. IsFiniteSet(At(a, places))
  BY RxAssumption, FS_Subset DEF At
<1> QED
  BY <1>1, FS_CardinalityType

\* and none when every poll is elsewhere.
LEMMA AtNone ==
    ASSUME NEW a, NEW places, \A q \in Queues : a[q] \notin places
    PROVE  Cardinality(At(a, places)) = 0
<1>1. At(a, places) = {}
  BY DEF At
<1> QED
  BY <1>1, FS_EmptySet

-----------------------------------------------------------------------------
(* Ready requests.                                                         *)

\* The requests that CLAIM buffers of rbd_allocated are set aside for: ready
\* ones, those a poll has obtained, and the one about to be announced.
Takers == Cardinality(At(at, {"take"}))
Owed == req_ready + Takers + One(wat = "ready")
\* rbd_allocated holds exactly those.
ReadyInv == rbd_allocated = CLAIM * Owed

\* No request is ready at first.
LEMMA ReadyInit == Init => ReadyInv
<1> SUFFICES ASSUME Init PROVE ReadyInv
  OBVIOUS
<1>1. Takers = 0
  BY AtNone DEF Init, Takers
<1>2. Owed = 0
  BY <1>1 DEF Init, Owed, One
<1> QED
  BY <1>2, Sizes DEF Init, ReadyInv

\* Every step keeps rbd_allocated equal to what is owed.
LEMMA ReadyStep ==
    ASSUME Shape, ReadyInv, [Next]_vars
    PROVE  ReadyInv'
<1> USE DEF ReadyInv, Owed, Shape
<1>0. Takers \in Nat /\ Takers' \in Nat
  BY AtType DEF Takers
<1>1. ASSUME NEW q \in Queues, Poll(q) PROVE ReadyInv'
  <2>1. \A p \in Queues \ {q} : at'[p] = at[p]
    BY <1>1 DEF Poll, Counters, SampleRequests, EnterEmergency, HandleReused, HandleStolen,
       PostMove, PostRequest, QueueWork, Claim, TakeBatch, Recycle, RecycleEmergency, PollEnds, Goto
  <2>2. Takers' = Takers - One(at[q] \in {"take"}) + One(at'[q] \in {"take"})
    BY <2>1, AtMoves DEF Takers
  <2>3. wat' = wat
    BY <1>1 DEF Poll, SampleRequests, EnterEmergency, HandleReused, HandleStolen, PostMove,
       PostRequest, QueueWork, Claim, TakeBatch, Recycle, RecycleEmergency, PollEnds, workVars
  <2>4. CASE Claim(q)
    <3>1. Owed' = Owed
      BY <1>0, <2>2, <2>3, <2>4 DEF Claim, Goto, Counters, One
    <3>2. rbd_allocated' = rbd_allocated
      BY <2>4 DEF Claim
    <3> QED
      BY <3>1, <3>2
  <2>5. CASE TakeBatch(q)
    <3>1. Owed' = Owed - 1 /\ Owed \in Nat
      BY <1>0, <2>2, <2>3, <2>5 DEF TakeBatch, Goto, Counters, One
    <3>2. rbd_allocated' = rbd_allocated - CLAIM
      BY <2>5 DEF TakeBatch
    <3> QED
      BY <3>1, <3>2, Sizes
  <2>6. CASE ~Claim(q) /\ ~TakeBatch(q)
    <3>1. at[q] # "take" /\ at'[q] # "take" /\ req_ready' = req_ready
          /\ rbd_allocated' = rbd_allocated
      BY <1>1, <2>6 DEF Poll, Counters, SampleRequests, EnterEmergency, HandleReused, HandleStolen,
         PostMove, PostRequest, QueueWork, Recycle, RecycleEmergency, PollEnds, Goto, rbaVars
    <3>2. Owed' = Owed
      BY <1>0, <2>2, <2>3, <3>1 DEF Counters, One
    <3> QED
      BY <3>1, <3>2
  <2> QED
    BY <2>4, <2>5, <2>6
<1>2. ASSUME Work PROVE ReadyInv'
  <2>1. at' = at
    BY <1>2 DEF Work, WorkBegins, SwapEmpty, AllocateBatch, CountServed, LookForMore,
       SpliceBatch, AnnounceReady, ReturnUnused, pollVars
  <2>2. Takers' = Takers
    BY <2>1 DEF Takers
  <2>3. CASE SpliceBatch
    <3>1. Owed' = Owed + 1 /\ Owed \in Nat
      BY <1>0, <2>2, <2>3 DEF SpliceBatch, Counters, One
    <3>2. rbd_allocated' = rbd_allocated + CLAIM
      BY <2>3 DEF SpliceBatch, WorkShape
    <3> QED
      BY <3>1, <3>2, Sizes
  <2>4. CASE AnnounceReady
    <3>1. Owed' = Owed /\ rbd_allocated' = rbd_allocated
      BY <1>0, <2>2, <2>4 DEF AnnounceReady, NextBatch, Counters, One
    <3> QED
      BY <3>1
  <2>5. CASE ~SpliceBatch /\ ~AnnounceReady
    <3>1. Owed' = Owed /\ rbd_allocated' = rbd_allocated
      BY <1>0, <1>2, <2>2, <2>5 DEF Work, WorkBegins, SwapEmpty, AllocateBatch, CountServed,
         LookForMore, ReturnUnused, NextBatch, rbaVars, Counters, One
    <3> QED
      BY <3>1
  <2> QED
    BY <2>3, <2>4, <2>5
<1>3. CASE StopDevice
  <2>1. Owed' = Owed /\ rbd_allocated' = rbd_allocated
    BY <1>3 DEF StopDevice, Takers, rbaVars, pollVars, workVars
  <2> QED
    BY <2>1
<1>4. CASE RxInit
  <2>1. \A q \in Queues : at'[q] \notin {"take"}
    BY <1>4 DEF RxInit, PollsDone, pollVars
  <2>2. Takers' = 0
    BY <2>1, AtNone DEF Takers
  <2>3. Owed' = 0 /\ rbd_allocated' = 0
    BY <1>4, <2>2 DEF RxInit, WorkDone, workVars, One
  <2> QED
    BY <2>3, Sizes
<1>5. CASE UNCHANGED vars
  <2>1. Owed' = Owed /\ rbd_allocated' = rbd_allocated
    BY <1>5 DEF Takers, vars, rbaVars, pollVars, workVars
  <2> QED
    BY <2>1
<1> QED
  BY <1>1, <1>2, <1>3, <1>4, <1>5 DEF Next
-----------------------------------------------------------------------------
(* Requests are covered.                                                   *)

\* The used buffers of a queue that its used_count counts: all outside an
\* emergency, none in one.
Counted == [q \in Queues |-> IF emergency[q] THEN 0 ELSE rx_used[q]]

\* How many more buffers the allocator's pool has to have on account of a queue
\* at m of CLAIM that still holds c counted ones: those the request that is
\* posted at POST will lack, before it is posted, and those it was posted
\* without, afterwards.
Need(m, c, posting) ==
    LET n == IF m < POST \/ posting THEN CLAIM - POST + m - c ELSE m - POST - c
    IN  IF n > 0 THEN n ELSE 0

\* A queue that has counted POST buffers and not made its request yet.
Posting(q) == at[q] \in {"post", "request"}
Missing == [q \in Queues |-> Need(used_count[q] % CLAIM, Counted[q], Posting(q))]

\* The buffers of the requests not served; the batch being served is in
\* local_allocated already.
Promised == CLAIM * (req_pending - One(wat = "served"))

\* The empty buffers cover all promises and all that the queues may still
\* lack, and the private list of the work item covers those it has read.
CoverInv ==
    /\ rbd_empty + local_empty >= Promised + SumOver(Missing)
    /\ wat \in {"allocate", "ready"} => local_empty >= CLAIM * pending
    /\ wat = "served" => local_empty >= CLAIM * (pending - 1)

\* The counted used buffers are natural numbers.
LEMMA CountedType ==
    ASSUME Counters
    PROVE  Counted \in [Queues -> Nat]
BY DEF Counters, Counted

\* used_count % CLAIM is below CLAIM.
LEMMA ModType ==
    ASSUME Counters, NEW q \in Queues
    PROVE  used_count[q] \in Nat /\ used_count[q] % CLAIM \in 0 .. CLAIM - 1
<1>1. used_count[q] \in Nat /\ used_count[q] \in Int
  BY DEF Counters
<1> QED
  BY <1>1, Sizes, DivMod

\* What a queue lacks is a natural number.
LEMMA NeedType ==
    ASSUME NEW m \in 0 .. CLAIM - 1, NEW c \in Nat, NEW posting \in BOOLEAN
    PROVE  Need(m, c, posting) \in Nat
BY Sizes DEF Need

\* What the queues lack are natural numbers,
LEMMA MissingType ==
    Counters => Missing \in [Queues -> Nat]
<1> SUFFICES ASSUME Counters, NEW q \in Queues
             PROVE  Need(used_count[q] % CLAIM, Counted[q], Posting(q)) \in Nat
  BY DEF Missing
<1>1. used_count[q] % CLAIM \in 0 .. CLAIM - 1
  BY ModType
<1>2. Counted[q] \in Nat
  BY CountedType
<1>3. Posting(q) \in BOOLEAN
  BY DEF Posting
<1> QED
  BY <1>1, <1>2, <1>3, NeedType

\* in the next state too.
LEMMA MissingTypeNext == (Counters => Missing \in [Queues -> Nat])'
BY MissingType, PTL

\* A queue that has counted nothing lacks CLAIM - POST buffers at most: the pool.
LEMMA CoverFirst ==
    ASSUME Counters, \A q \in Queues : at[q] = "idle" /\ used_count[q] = 0
    PROVE  SumOver(Missing) \in Nat /\ SumOver(Missing) <= Pool
<1> DEFINE h == [q \in Queues |-> CLAIM - POST]
<1>1. ASSUME NEW q \in Queues PROVE Missing[q] <= h[q]
  <2>1. used_count[q] % CLAIM = 0 /\ Counted[q] \in Nat /\ ~Posting(q)
    BY CountedType, Sizes DEF Posting
  <2>2. Need(0, Counted[q], Posting(q)) <= CLAIM - POST
    BY <2>1, Sizes DEF Need
  <2> QED
    BY <2>1, <2>2 DEF Missing
<1>2. h \in [Queues -> Nat] /\ SumOver(h) = Pool
  BY Sizes, SumConstant DEF Pool
<1>3. Missing \in [Queues -> Nat]
  BY MissingType
<1> HIDE DEF h
<1> QED
  BY <1>1, <1>2, <1>3, SumBelow, SumType

\* In the next state too.
LEMMA CoverFirstNext ==
    ( Counters /\ (\A q \in Queues : at[q] = "idle" /\ used_count[q] = 0) =>
          SumOver(Missing) \in Nat /\ SumOver(Missing) <= Pool )'
<1>1. Counters /\ (\A q \in Queues : at[q] = "idle" /\ used_count[q] = 0) =>
          SumOver(Missing) \in Nat /\ SumOver(Missing) <= Pool
  BY CoverFirst
<1> QED
  BY <1>1, PTL

\* The pool is what the queues may lack at first.
LEMMA CoverInit == Init => CoverInv
<1> SUFFICES ASSUME Init PROVE CoverInv
  OBVIOUS
<1>1. SumOver(Missing) \in Nat /\ SumOver(Missing) <= Pool
  BY ShapeInit, CoverFirst DEF Init, Shape, Zero
<1>2. Promised = 0
  BY Sizes DEF Init, Promised, One
<1> QED
  BY <1>1, <1>2, PoolType DEF Init, CoverInv

\* A poll leaves the lists and locals of the other queues alone.
LEMMA PollLocal ==
    ASSUME Counters, NEW q \in Queues, Poll(q), NEW p \in Queues \ {q}
    PROVE  /\ used_count'[p] = used_count[p] /\ rx_used'[p] = rx_used[p]
           /\ emergency'[p] = emergency[p] /\ at'[p] = at[p] /\ count'[p] = count[p]
<1>1. CASE RecycleEmergency(q)
  <2>1. rx_used'[p] = rx_used[p]
    <3>1. CASE count[q] + 1 = Batch
      BY <1>1, <3>1, RefillWrites DEF RecycleEmergency
    <3>2. CASE count[q] + 1 # Batch
      BY <1>1, <3>2 DEF RecycleEmergency
    <3> QED
      BY <3>1, <3>2
  <2> QED
    BY <1>1, <2>1 DEF RecycleEmergency, Goto, Counters
<1>2. CASE PollEnds(q)
  <2>1. rx_used'[p] = rx_used[p]
    <3>1. CASE emergency[q] /\ count[q] > 0
      BY <1>2, <3>1, RefillWrites DEF PollEnds
    <3>2. CASE ~(emergency[q] /\ count[q] > 0)
      BY <1>2, <3>2 DEF PollEnds
    <3> QED
      BY <3>1, <3>2
  <2> QED
    BY <1>2, <2>1 DEF PollEnds, Goto, Counters
<1>3. CASE ~RecycleEmergency(q) /\ ~PollEnds(q)
  BY <1>3 DEF Counters, Poll, SampleRequests, EnterEmergency, HandleReused, HandleStolen, PostMove,
     PostRequest, QueueWork, Claim, TakeBatch, Recycle, Goto, MoveToAllocator, queueVars
<1> QED
  BY <1>1, <1>2, <1>3

\* Every step of a poll keeps the cover.
LEMMA PollCover ==
    ASSUME Shape, Shape', CoverInv, NEW q \in Queues, Poll(q)
    PROVE  CoverInv'
<1> DEFINE m == used_count[q] % CLAIM
           c == Counted[q]
<1>1. m \in 0 .. CLAIM - 1 /\ c \in Nat /\ rx_used[q] \in Nat /\ used_count[q] \in Nat
  BY ModType, CountedType DEF Shape, Counters
<1>2. Missing \in [Queues -> Nat] /\ Missing' \in [Queues -> Nat]
  <2>1. Counters' => Missing' \in [Queues -> Nat]
    BY MissingTypeNext
  <2> QED
    BY <2>1, MissingType DEF Shape
<1>3. \A p \in Queues \ {q} : Missing'[p] = Missing[p]
  <2> SUFFICES ASSUME NEW p \in Queues \ {q} PROVE Missing'[p] = Missing[p]
    OBVIOUS
  <2>1. /\ used_count'[p] = used_count[p] /\ rx_used'[p] = rx_used[p]
        /\ emergency'[p] = emergency[p] /\ at'[p] = at[p]
    BY PollLocal DEF Shape
  <2> QED
    BY <2>1 DEF Missing, Counted, Posting
<1>4. SumOver(Missing') = SumOver(Missing) - Missing[q] + Missing'[q]
  BY <1>2, <1>3, SumStep
<1>5. SumOver(Missing) \in Nat /\ SumOver(Missing') \in Nat
  BY <1>2, SumType
<1>6. wat' = wat /\ local_empty' = local_empty /\ pending' = pending
  BY DEF Poll, SampleRequests, EnterEmergency, HandleReused, HandleStolen, PostMove,
     PostRequest, QueueWork, Claim, TakeBatch, Recycle, RecycleEmergency, PollEnds, workVars
<1>7. /\ Missing[q] = Need(m, c, Posting(q))
      /\ Missing'[q] = Need(used_count'[q] % CLAIM, Counted'[q], Posting(q)')
      /\ Counted[q] = IF emergency[q] THEN 0 ELSE rx_used[q]
      /\ Counted'[q] = IF emergency'[q] THEN 0 ELSE rx_used'[q]
  BY DEF Missing, Counted
<1>8. /\ rbd_empty \in Nat /\ rbd_empty' \in Nat /\ local_empty \in Nat
      /\ req_pending \in Nat /\ req_pending' \in Nat
      /\ rx_used'[q] \in Nat /\ Counted'[q] \in Nat
      /\ used_count'[q] % CLAIM \in 0 .. CLAIM - 1
  <2>1. rx_used'[q] \in Nat /\ used_count'[q] \in Int
    BY DEF Shape, Counters
  <2>2. used_count'[q] % CLAIM \in 0 .. CLAIM - 1
    BY <2>1, Sizes, DivMod
  <2> QED
    BY <1>7, <2>1, <2>2 DEF Shape, Counters
<1> HIDE DEF m, c
<1>9. Missing[q] \in Nat /\ Missing'[q] \in Nat
  BY <1>2
\* It is enough that what the step takes from the allocator is no more than what q misses less.
<1>10. ASSUME Promised' - Promised + Missing'[q] <= rbd_empty' - rbd_empty + Missing[q]
      PROVE  CoverInv'
  <2>1. Promised \in Int /\ Promised' \in Int
    BY Sizes, <1>8 DEF Promised, One
  <2>2. rbd_empty' + local_empty >= Promised' + SumOver(Missing')
    BY <1>4, <1>5, <1>8, <1>9, <1>10, <2>1 DEF CoverInv
  <2> QED
    BY <1>6, <2>2 DEF CoverInv
<1>11. ASSUME req_pending' = req_pending, Missing'[q] <= rbd_empty' - rbd_empty + Missing[q]
       PROVE  CoverInv'
  <2>1. Promised' = Promised /\ Promised \in Int
    BY <1>6, <1>8, <1>11, Sizes DEF Promised, One
  <2> QED
    BY <1>8, <1>9, <1>10, <1>11, <2>1
<1>12. CASE EnterEmergency(q) \/ PostMove(q)
  <2>1. /\ req_pending' = req_pending /\ rbd_empty' = rbd_empty + rx_used[q]
        /\ c = rx_used[q] /\ Counted'[q] = 0 /\ used_count'[q] % CLAIM = m
        /\ Posting(q)' = Posting(q)
    BY <1>7, <1>12 DEF EnterEmergency, PostMove, MoveToAllocator, Goto, Shape, PollShape,
       Counters, Posting, c, m
  <2> QED
    BY <1>1, <1>7, <1>8, <1>11, <2>1, Sizes DEF Need
<1>13. CASE PostRequest(q)
  <2>1. /\ m = POST /\ used_count'[q] % CLAIM = m /\ Posting(q) /\ ~Posting(q)'
        /\ c = 0 /\ Counted'[q] = 0 /\ rbd_empty' = rbd_empty /\ req_pending' = req_pending + 1
    BY <1>7, <1>13 DEF PostRequest, Goto, Shape, PollShape, Counters, Posting, queueVars, c, m
  <2>2. Missing[q] = CLAIM /\ Missing'[q] = 0
    BY <1>7, <2>1, Sizes DEF Need
  <2>3. Promised' = Promised + CLAIM /\ Promised \in Int
    BY <1>6, <1>8, <2>1, Sizes DEF Promised, One
  <2> QED
    BY <1>8, <1>10, <2>1, <2>2, <2>3, Sizes
<1>14. CASE HandleStolen(q) /\ ~emergency[q]
  <2>1. used_count'[q] = used_count[q] + 1
    BY <1>14 DEF HandleStolen, Shape, Counters
  <2>2. used_count'[q] % CLAIM = IF m + 1 = CLAIM THEN 0 ELSE m + 1
    <3>1. (used_count[q] + 1) % CLAIM = IF (used_count[q] % CLAIM) + 1 = CLAIM THEN 0
                                        ELSE (used_count[q] % CLAIM) + 1
      <4>1. used_count[q] \in Int /\ CLAIM \in Nat \ {0}
        BY <1>1, Sizes
      <4> QED
        BY <4>1, ModSucc
    <3> QED
      BY <2>1, <3>1 DEF m
  <2>3. /\ rbd_empty' = rbd_empty /\ req_pending' = req_pending
        /\ c = rx_used[q] /\ Counted'[q] = c + 1 /\ ~Posting(q)
    BY <1>7, <1>14 DEF HandleStolen, Shape, Counters, Posting, rbaVars, c
  <2>4. Posting(q)' <=> (used_count'[q] % CLAIM = POST)
    BY <1>14, <2>1 DEF HandleStolen, Goto, Shape, Counters, Posting
  <2>5. Missing'[q] = Missing[q]
    <3>1. CASE m + 1 = CLAIM
      BY <1>1, <1>7, <1>8, <2>2, <2>3, <2>4, <3>1, Sizes DEF Need
    <3>2. CASE m + 1 # CLAIM /\ m + 1 <= POST
      BY <1>1, <1>7, <1>8, <2>2, <2>3, <2>4, <3>2, Sizes DEF Need
    <3>3. CASE m + 1 # CLAIM /\ m + 1 > POST
      BY <1>1, <1>7, <1>8, <2>2, <2>3, <2>4, <3>3, Sizes DEF Need
    <3> QED
      BY <1>1, <3>1, <3>2, <3>3, Sizes
  <2> QED
    BY <1>8, <1>9, <1>11, <2>3, <2>5
<1>15. CASE HandleStolen(q) /\ emergency[q]
  <2>1. /\ rbd_empty' = rbd_empty /\ req_pending' = req_pending
        /\ c = 0 /\ Counted'[q] = c /\ used_count'[q] % CLAIM = m
        /\ ~Posting(q) /\ ~Posting(q)'
    BY <1>7, <1>15 DEF HandleStolen, Goto, Shape, Counters, Posting, rbaVars, c, m
  <2> QED
    BY <1>1, <1>7, <1>8, <1>11, <2>1, Sizes DEF Need
<1>16. CASE SampleRequests(q) \/ HandleReused(q) \/ QueueWork(q) \/ Claim(q)
  <2>1. /\ rbd_empty' = rbd_empty /\ req_pending' = req_pending
        /\ Counted'[q] = c /\ used_count'[q] % CLAIM = m
        /\ ~Posting(q) /\ ~Posting(q)'
    BY <1>7, <1>16 DEF SampleRequests, HandleReused, QueueWork, Claim, Goto, Shape, Counters,
       Posting, queueVars, rbaVars, c, m
  <2> QED
    BY <1>1, <1>7, <1>8, <1>11, <2>1, Sizes DEF Need
<1>17. CASE TakeBatch(q)
  <2>1. used_count'[q] = used_count[q] - CLAIM /\ used_count[q] >= CLAIM
    BY <1>17 DEF TakeBatch, Shape, Counters, PollShape
  <2>2. used_count'[q] % CLAIM = m
    <3>1. used_count[q] \in Int /\ CLAIM \in Nat \ {0}
      BY <1>1, Sizes
    <3> QED
      BY <2>1, <3>1, ModMinus DEF m
  <2>3. /\ rbd_empty' = rbd_empty /\ req_pending' = req_pending
        /\ Counted'[q] = c /\ ~Posting(q) /\ ~Posting(q)'
    BY <1>7, <1>17 DEF TakeBatch, Goto, Shape, Counters, Posting, c
  <2> QED
    BY <1>1, <1>7, <1>8, <1>11, <2>2, <2>3, Sizes DEF Need
<1>18. CASE Recycle(q)
  <2>1. /\ req_pending' = req_pending /\ used_count'[q] % CLAIM = m
        /\ ~Posting(q) /\ ~Posting(q)'
    BY <1>18 DEF Recycle, Goto, Shape, Counters, Posting, m
  <2>2. \/ rbd_empty' = rbd_empty + c /\ Counted'[q] = 0
        \/ rbd_empty' = rbd_empty /\ Counted'[q] = c
    BY <1>7, <1>18 DEF Recycle, MoveToAllocator, Shape, Counters, c
  <2>3. CASE rbd_empty' = rbd_empty + c /\ Counted'[q] = 0
    BY <1>1, <1>7, <1>8, <1>11, <2>1, <2>3, Sizes DEF Need
  <2>4. CASE rbd_empty' = rbd_empty /\ Counted'[q] = c
    <3>1. Missing'[q] = Missing[q] /\ req_pending' = req_pending
      BY <1>1, <1>7, <1>8, <2>1, <2>4 DEF Need
    <3>2. Missing'[q] <= rbd_empty' - rbd_empty + Missing[q]
      BY <1>8, <1>9, <2>4, <3>1
    <3> QED
      BY <1>11, <3>1, <3>2
  <2> QED
    BY <2>2, <2>3, <2>4
<1>19. CASE RecycleEmergency(q)
  <2>1. /\ rbd_empty' = rbd_empty /\ req_pending' = req_pending
        /\ c = 0 /\ used_count'[q] % CLAIM = m /\ ~Posting(q) /\ ~Posting(q)'
    BY <1>7, <1>19 DEF RecycleEmergency, Goto, Shape, Counters, Posting, rbaVars, c, m
  <2> QED
    BY <1>1, <1>7, <1>8, <1>11, <2>1, Sizes DEF Need
<1>20. CASE PollEnds(q)
  <2>1. /\ rbd_empty' = rbd_empty /\ req_pending' = req_pending
        /\ used_count'[q] % CLAIM = m /\ ~Posting(q) /\ ~Posting(q)'
    BY <1>20 DEF PollEnds, Goto, Shape, Counters, Posting, rbaVars, m
  <2>2. c <= Counted'[q]
    BY <1>7, <1>8, <1>20 DEF PollEnds, Shape, Counters, c
  <2> QED
    BY <1>1, <1>7, <1>8, <1>11, <2>1, <2>2, Sizes DEF Need
<1> QED
  BY <1>12, <1>13, <1>14, <1>15, <1>16, <1>17, <1>18, <1>19, <1>20 DEF Poll

\* Every step of the work item keeps the cover.
LEMMA WorkCover ==
    ASSUME Shape, CoverInv, Work
    PROVE  CoverInv'
<1>1. SumOver(Missing) \in Nat
  BY MissingType, SumType DEF Shape
<1>2. Missing' = Missing
  <2>1. /\ at' = at /\ emergency' = emergency /\ rx_used' = rx_used
        /\ used_count' = used_count
    BY DEF Work, WorkBegins, SwapEmpty, AllocateBatch, CountServed, LookForMore,
       SpliceBatch, AnnounceReady, ReturnUnused, queueVars, pollVars
  <2> QED
    BY <2>1 DEF Missing, Counted, Posting
<1>3. SumOver(Missing') = SumOver(Missing)
  BY <1>2
<1>4. CLAIM * pending <= CLAIM * req_pending
  BY Sizes DEF Shape, Counters, WorkShape
<1> USE DEF Shape, Counters, WorkShape, CoverInv, Promised, One, NextBatch
<1>5. CASE WorkBegins
  BY <1>1, <1>3, <1>5, Sizes DEF WorkBegins
<1>6. CASE SwapEmpty
  BY <1>1, <1>3, <1>4, <1>6, Sizes DEF SwapEmpty
<1>7. CASE AllocateBatch
  BY <1>1, <1>3, <1>7, Sizes DEF AllocateBatch, rbaVars
<1>8. CASE CountServed
  BY <1>1, <1>3, <1>8, Sizes DEF CountServed
<1>9. CASE LookForMore
  BY <1>1, <1>3, <1>9, Sizes DEF LookForMore, rbaVars
<1>10. CASE SpliceBatch
  BY <1>1, <1>3, <1>4, <1>10, Sizes DEF SpliceBatch
<1>11. CASE AnnounceReady
  BY <1>1, <1>3, <1>11, Sizes DEF AnnounceReady
<1>12. CASE ReturnUnused
  BY <1>1, <1>3, <1>12, Sizes DEF ReturnUnused
<1> QED
  BY <1>5, <1>6, <1>7, <1>8, <1>9, <1>10, <1>11, <1>12 DEF Work

\* Stop and start of the device keep the cover.
LEMMA DeviceCover ==
    ASSUME Shape, Shape', CoverInv, StopDevice \/ RxInit
    PROVE  CoverInv'
<1>1. CASE StopDevice
  <2>1. Missing' = Missing /\ Promised' = Promised
    BY <1>1 DEF StopDevice, Missing, Counted, Posting, Promised, queueVars, rbaVars,
       pollVars, workVars
  <2> QED
    BY <1>1, <2>1 DEF CoverInv, StopDevice, rbaVars, workVars
<1>2. CASE RxInit
  <2>1. \A q \in Queues : at'[q] = "idle" /\ used_count'[q] = 0
    BY <1>2 DEF RxInit, Zero, PollsDone, pollVars
  <2>2. Counters'
    BY DEF Shape
  <2>3. SumOver(Missing') \in Nat /\ SumOver(Missing') <= Pool'
    BY <2>1, <2>2, CoverFirstNext
  <2>5. Pool' = Pool
    BY DEF Pool
  <2>4. Promised' = 0
    BY <1>2, Sizes DEF RxInit, WorkDone, Promised, One, workVars
  <2> QED
    BY <1>2, <2>3, <2>4, <2>5, PoolType DEF RxInit, WorkDone, CoverInv, Shape, WorkShape, workVars
<1> QED
  BY <1>1, <1>2

\* Every step keeps the cover.
LEMMA CoverStep ==
    ASSUME Shape, Shape', CoverInv, [Next]_vars
    PROVE  CoverInv'
<1>1. CASE UNCHANGED vars
  <2>1. Missing' = Missing /\ Promised' = Promised
    BY <1>1 DEF vars, Missing, Counted, Posting, Promised, queueVars, rbaVars,
       pollVars, workVars
  <2> QED
    BY <1>1, <2>1 DEF CoverInv, vars, rbaVars, workVars
<1> QED
  BY <1>1, PollCover, WorkCover, DeviceCover DEF Next
-----------------------------------------------------------------------------
(* No buffer is lost.                                                      *)

\* The buffers of the allocator and its work item.
Kept == rbd_empty + local_empty + local_allocated + rbd_allocated

\* They are a natural number,
LEMMA KeptType == Counters => Kept \in Nat
BY DEF Counters, Kept

\* in the next state too.
LEMMA KeptTypeNext == (Counters => Kept \in Nat)'
BY KeptType, PTL

\* So are the counted used buffers.
LEMMA CountedTypeNext == (Counters => Counted \in [Queues -> Nat])'
BY CountedType, PTL

\* used_count never promises a queue more than was given away beyond the pool;
\* exactly that much if page allocations do not fail, as an emergency then ends
\* without used buffers.
CountInv ==
    /\ Kept + SumOver(Counted) >= Pool + SumOver(used_count)
    /\ ~AllocFails =>
         /\ Kept + SumOver(Counted) = Pool + SumOver(used_count)
         /\ \A q \in Queues : emergency[q] /\ count[q] = 0 /\ at[q] = "loop" => rx_used[q] = 0

\* A fresh queue has nothing to claim, and nothing that is not counted if every page was found.
LEMMA CountFirst ==
    ASSUME Counters, Filled, used_count = Zero, Kept = Pool
    PROVE  CountInv
<1>1. Counted \in [Queues -> Nat] /\ SumOver(used_count) = 0
  BY FirstBuffers, CountedType
<1>2. SumOver(Counted) \in Nat
  BY <1>1, SumType
<1>3. ASSUME ~AllocFails PROVE SumOver(Counted) = 0 /\ \A q \in Queues : rx_used[q] = 0
  <2>1. rx_used = Zero
    BY <1>3, FilledIs
  <2>2. Counted = Zero
    BY <2>1 DEF Counted, Zero
  <2> QED
    BY <2>1, <2>2, FirstBuffers DEF Zero
<1> QED
  BY <1>1, <1>2, <1>3, PoolType DEF CountInv

\* In the next state too.
LEMMA CountFirstNext == (Counters /\ Filled /\ used_count = Zero /\ Kept = Pool => CountInv)'
<1>1. Counters /\ Filled /\ used_count = Zero /\ Kept = Pool => CountInv
  BY CountFirst
<1> QED
  BY <1>1, PTL

\* The count is exact at first.
LEMMA CountInit == Init => CountInv
<1> SUFFICES ASSUME Init PROVE CountInv
  OBVIOUS
<1>1. Kept = Pool
  BY PoolType DEF Init, Kept
<1> QED
  BY <1>1, ShapeInit, FilledStart, CountFirst DEF Init, Shape

\* Every step of a poll keeps the count.
LEMMA PollCount ==
    ASSUME Shape, Shape', CountInv, NEW q \in Queues, Poll(q)
    PROVE  CountInv'
<1>1. /\ Counted \in [Queues -> Nat] /\ Counted' \in [Queues -> Nat]
      /\ used_count \in [Queues -> Nat] /\ used_count' \in [Queues -> Nat]
      /\ rx_used[q] \in Nat /\ rx_used'[q] \in Nat
  BY CountedType, CountedTypeNext DEF Shape, Counters
<1>2. ASSUME NEW p \in Queues \ {q}
      PROVE  /\ Counted'[p] = Counted[p] /\ used_count'[p] = used_count[p]
             /\ rx_used'[p] = rx_used[p] /\ at'[p] = at[p] /\ emergency'[p] = emergency[p]
             /\ count'[p] = count[p]
  BY PollLocal DEF Shape, Counted
<1>3. /\ SumOver(Counted') = SumOver(Counted) - Counted[q] + Counted'[q]
      /\ SumOver(used_count') = SumOver(used_count) - used_count[q] + used_count'[q]
  BY <1>1, <1>2, SumStep
<1>4. /\ SumOver(Counted) \in Nat /\ SumOver(Counted') \in Nat
      /\ SumOver(used_count) \in Nat /\ SumOver(used_count') \in Nat
  BY <1>1, SumType
<1>5. /\ Counted[q] \in Nat /\ Counted'[q] \in Nat
      /\ used_count[q] \in Nat /\ used_count'[q] \in Nat
  BY <1>1
<1>6. Kept \in Nat /\ Kept' \in Nat /\ Pool \in Nat
  BY KeptType, KeptTypeNext, PoolType DEF Shape
<1>7. /\ Counted[q] = IF emergency[q] THEN 0 ELSE rx_used[q]
      /\ Counted'[q] = IF emergency'[q] THEN 0 ELSE rx_used'[q]
  BY DEF Counted
\* It is enough to look at the allocator and at the queue that takes the step.
<1>8. ASSUME /\ Kept' - Kept + Counted'[q] - Counted[q] >= used_count'[q] - used_count[q]
             /\ ~AllocFails =>
                  /\ Kept' - Kept + Counted'[q] - Counted[q] = used_count'[q] - used_count[q]
                  /\ emergency'[q] /\ count'[q] = 0 /\ at'[q] = "loop" => rx_used'[q] = 0
      PROVE  CountInv'
  <2>1. Kept' + SumOver(Counted') >= Pool + SumOver(used_count')
    <3>1. Kept + SumOver(Counted) >= Pool + SumOver(used_count)
      BY DEF CountInv
    <3>2. Kept' - Kept + Counted'[q] - Counted[q] >= used_count'[q] - used_count[q]
      BY <1>8
    <3> QED
      BY <1>3, <1>4, <1>5, <1>6, <3>1, <3>2
  <2>2. ASSUME ~AllocFails
        PROVE  /\ Kept' + SumOver(Counted') = Pool + SumOver(used_count')
               /\ \A p \in Queues :
                    emergency'[p] /\ count'[p] = 0 /\ at'[p] = "loop" => rx_used'[p] = 0
    <3>1. Kept' + SumOver(Counted') = Pool + SumOver(used_count')
      <4>1. Kept + SumOver(Counted) = Pool + SumOver(used_count)
        BY <2>2 DEF CountInv
      <4>2. Kept' - Kept + Counted'[q] - Counted[q] = used_count'[q] - used_count[q]
        BY <1>8, <2>2
      <4> QED
        BY <1>3, <1>4, <1>5, <1>6, <4>1, <4>2
    <3>2. ASSUME NEW p \in Queues, emergency'[p] /\ count'[p] = 0 /\ at'[p] = "loop"
          PROVE  rx_used'[p] = 0
      <4>1. CASE p = q
        BY <1>8, <2>2, <3>2, <4>1
      <4>2. CASE p # q
        BY <1>2, <2>2, <3>2, <4>2 DEF CountInv
      <4> QED
        BY <4>1, <4>2
    <3> QED
      BY <3>1, <3>2
  <2> QED
    BY <2>1, <2>2 DEF CountInv
<1> USE DEF Shape, Counters, Goto
<1>9. CASE EnterEmergency(q) \/ PostMove(q)
  <2>1. /\ Kept' = Kept + rx_used[q] /\ Counted[q] = rx_used[q] /\ Counted'[q] = 0
        /\ used_count'[q] = used_count[q] /\ at'[q] # "loop"
    BY <1>7, <1>9 DEF EnterEmergency, PostMove, MoveToAllocator, PollShape, Kept, workVars
  <2> QED
    BY <1>1, <1>5, <1>6, <1>8, <2>1
<1>10. CASE HandleStolen(q)
  <2>1. /\ Kept' = Kept /\ at'[q] # "loop"
        /\ Counted'[q] - Counted[q] = used_count'[q] - used_count[q]
    BY <1>1, <1>5, <1>7, <1>10 DEF HandleStolen, rbaVars, workVars, Kept
  <2> QED
    BY <1>5, <1>6, <1>8, <2>1
<1>11. CASE SampleRequests(q) \/ HandleReused(q) \/ PostRequest(q) \/ QueueWork(q) \/ Claim(q)
  <2>1. /\ Kept' = Kept /\ at'[q] # "loop" /\ Counted'[q] = Counted[q]
        /\ used_count'[q] = used_count[q]
    BY <1>7, <1>11 DEF SampleRequests, HandleReused, PostRequest, QueueWork, Claim, queueVars,
       rbaVars, workVars, Kept
  <2> QED
    BY <1>5, <1>6, <1>8, <2>1
<1>12. CASE TakeBatch(q)
  <2>1. /\ Kept' = Kept - CLAIM /\ at'[q] # "loop" /\ Counted'[q] = Counted[q]
        /\ used_count'[q] = used_count[q] - CLAIM
    BY <1>7, <1>12, Sizes DEF TakeBatch, workVars, Kept
  <2> QED
    BY <1>5, <1>6, <1>8, <2>1, Sizes
<1>13. CASE Recycle(q)
  <2>1. /\ ~emergency'[q] /\ used_count'[q] = used_count[q]
        /\ \/ Kept' = Kept + Counted[q] /\ Counted'[q] = 0
           \/ Kept' = Kept /\ Counted'[q] = Counted[q]
    <3>1. CASE used_count[q] % CLAIM = 0
      BY <1>1, <1>7, <1>13, <3>1 DEF Recycle, MoveToAllocator, workVars, Kept
    <3>2. CASE used_count[q] % CLAIM # 0
      BY <1>1, <1>7, <1>13, <3>2 DEF Recycle, workVars, Kept
    <3> QED
      BY <3>1, <3>2
  <2> QED
    BY <1>5, <1>6, <1>8, <2>1
<1>14. CASE RecycleEmergency(q)
  <2>1. Kept' = Kept /\ Counted[q] = 0 /\ used_count'[q] = used_count[q]
    BY <1>7, <1>14 DEF RecycleEmergency, rbaVars, workVars, Kept
  <2>2. CASE count[q] + 1 = Batch
    <3>1. ~AllocFails => rx_used'[q] = 0
      BY <1>14, <2>2, RefillWrites DEF RecycleEmergency
    <3>2. ~AllocFails => Counted'[q] = 0
      BY <1>7, <3>1
    <3> QED
      BY <1>5, <1>6, <1>8, <2>1, <3>1, <3>2
  <2>3. CASE count[q] + 1 # Batch
    <3>1. count'[q] # 0 /\ Counted'[q] = 0
      BY <1>7, <1>14, <2>3, Sizes DEF RecycleEmergency
    <3> QED
      BY <1>5, <1>6, <1>8, <2>1, <3>1
  <2> QED
    BY <2>2, <2>3
<1>15. CASE PollEnds(q)
  <2>1. /\ Kept' = Kept /\ used_count'[q] = used_count[q] /\ at'[q] # "loop"
        /\ ~emergency'[q]
    BY <1>15 DEF PollEnds, rbaVars, workVars, Kept
  <2>2. Counted[q] <= Counted'[q] /\ (~AllocFails => Counted[q] = Counted'[q])
    <3>1. CASE emergency[q] /\ count[q] > 0
      <4>1. ~AllocFails => rx_used'[q] = 0
        BY <1>15, <3>1, RefillWrites DEF PollEnds
      <4> QED
        BY <1>1, <1>7, <2>1, <3>1, <4>1
    <3>2. CASE emergency[q] /\ ~(count[q] > 0)
      <4>1. count[q] = 0 /\ at[q] = "loop"
        BY <1>15, <3>2, Sizes DEF PollEnds
      <4>2. rx_used' = rx_used
        BY <1>15, <3>2 DEF PollEnds
      <4> QED
        BY <1>1, <1>7, <2>1, <3>2, <4>1, <4>2 DEF CountInv
    <3>3. CASE ~emergency[q]
      <4>1. rx_used' = rx_used
        BY <1>15, <3>3 DEF PollEnds
      <4> QED
        BY <1>1, <1>7, <2>1, <3>3, <4>1
    <3> QED
      BY <3>1, <3>2, <3>3
  <2> QED
    BY <1>5, <1>6, <1>8, <2>1, <2>2
<1> QED
  BY <1>9, <1>10, <1>11, <1>12, <1>13, <1>14, <1>15 DEF Poll

\* The work item moves buffers among its lists and the allocator's only.
LEMMA WorkKeeps ==
    ASSUME Shape, Work
    PROVE  Kept' = Kept
<1>1. /\ rbd_empty \in Nat /\ local_empty \in Nat /\ local_allocated \in Nat
      /\ rbd_allocated \in Nat /\ CLAIM \in Nat
  BY Sizes DEF Shape, Counters
<1>2. CASE SwapEmpty
  BY <1>1, <1>2 DEF SwapEmpty, Kept, Shape, WorkShape
<1>3. CASE AllocateBatch
  <2>1. local_allocated = 0
    BY <1>3 DEF AllocateBatch, Shape, WorkShape
  <2> QED
    BY <1>1, <1>3, <2>1 DEF AllocateBatch, Kept, rbaVars
<1>4. CASE SpliceBatch
  BY <1>1, <1>4 DEF SpliceBatch, Kept
<1>5. CASE ReturnUnused
  BY <1>1, <1>5 DEF ReturnUnused, Kept
<1>6. CASE WorkBegins \/ CountServed \/ LookForMore \/ AnnounceReady
  BY <1>6 DEF WorkBegins, CountServed, LookForMore, AnnounceReady, rbaVars, Kept
<1> QED
  BY <1>2, <1>3, <1>4, <1>5, <1>6 DEF Work

\* Every step keeps the count.
LEMMA CountStep ==
    ASSUME Shape, Shape', CountInv, [Next]_vars
    PROVE  CountInv'
<1>1. CASE Work
  <2>1. Kept' = Kept
    BY <1>1, WorkKeeps
  <2>2. UNCHANGED <<queueVars, pollVars>>
    BY <1>1 DEF Work, WorkBegins, SwapEmpty, AllocateBatch, CountServed, LookForMore,
       SpliceBatch, AnnounceReady, ReturnUnused
  <2> QED
    BY <2>1, <2>2 DEF CountInv, Counted, queueVars, pollVars
<1>2. CASE StopDevice
  BY <1>2 DEF StopDevice, CountInv, Kept, Counted, queueVars, rbaVars, pollVars, workVars
<1>3. CASE RxInit
  <2>1. Kept' = Pool
    BY <1>3, PoolType DEF RxInit, WorkDone, Shape, WorkShape, workVars, Kept
  <2>2. used_count' = Zero' /\ Pool' = Pool
    BY <1>3 DEF RxInit, Zero, Pool
  <2>3. Counters'
    BY DEF Shape
  <2> QED
    BY <1>3, <2>1, <2>2, <2>3, FilledAgain, CountFirstNext
<1>4. CASE UNCHANGED vars
  BY <1>4 DEF vars, CountInv, Kept, Counted, queueVars, rbaVars, pollVars, workVars
<1> QED
  BY <1>1, <1>2, <1>3, <1>4, PollCount DEF Next
-----------------------------------------------------------------------------
(* Conservation.                                                           *)

\* The places where a poll holds a buffer that is on no list.
InHand == {"enter", "buffer"}
Hands == Cardinality(At(at, InHand))
\* The buffers in the rings, on the lists of the queues and in hand.
InRings == hw + SumOver(unwritten) + SumOver(rx_free) + SumOver(rx_used) + Hands
\* Every buffer is somewhere, and once.
Conserved == InRings + Kept = Total

\* The first restock hands out all buffers.
LEMMA ConservedInit == Init => Conserved
<1> SUFFICES ASSUME Init PROVE Conserved
  OBVIOUS
<1>1. Hands = 0
  BY AtNone DEF Init, Hands, InHand
<1>2. InRings = QueueBuffers
  BY <1>1, FirstBuffers, FilledStart, FilledIs, SumType DEF Init, InRings
<1>3. Kept = Pool
  BY PoolType DEF Init, Kept
<1> QED
  BY <1>2, <1>3, PoolType, FirstBuffers DEF Conserved, Total

\* No step of a poll loses or doubles a buffer.
LEMMA PollConserves ==
    ASSUME Shape, Shape', Conserved, NEW q \in Queues, Poll(q)
    PROVE  Conserved'
<1> USE DEF Shape, Counters
<1>1. /\ rx_used[q] \in Nat /\ rx_used'[q] \in Nat /\ rx_free[q] \in Nat
      /\ rx_free \in [Queues -> Nat] /\ rx_used \in [Queues -> Nat]
      /\ unwritten \in [Queues -> Nat] /\ hw \in Nat /\ hw' \in Nat
      /\ rx_free' \in [Queues -> Nat] /\ rx_used' \in [Queues -> Nat]
      /\ unwritten' \in [Queues -> Nat]
  OBVIOUS
<1>2. /\ SumOver(unwritten) \in Nat /\ SumOver(rx_free) \in Nat /\ SumOver(rx_used) \in Nat
      /\ SumOver(unwritten') \in Nat /\ SumOver(rx_free') \in Nat /\ SumOver(rx_used') \in Nat
  BY <1>1, SumType
<1>3. /\ Hands \in Nat /\ Hands' \in Nat
      /\ Hands' = Hands - One(at[q] \in InHand) + One(at'[q] \in InHand)
  <2>1. \A p \in Queues \ {q} : at'[p] = at[p]
    BY PollLocal
  <2> QED
    BY <2>1, AtMoves DEF Hands
<1>4. SumOver(rx_used') = SumOver(rx_used) - rx_used[q] + rx_used'[q]
  <2>1. \A p \in Queues \ {q} : rx_used'[p] = rx_used[p]
    BY PollLocal
  <2> QED
    BY <1>1, <2>1, SumStep
<1>5. Kept \in Nat /\ Kept' \in Nat
  BY KeptType, KeptTypeNext
<1>6. ASSUME InRings' + Kept' = InRings + Kept PROVE Conserved'
  BY <1>6 DEF Conserved, Total, Pool, QueueBuffers
<1> USE DEF Goto, One, InHand
<1>7. CASE SampleRequests(q)
  <2>1. Hands' = Hands + 1
    BY <1>3, <1>7 DEF SampleRequests
  <2>2. hw' = hw - 1 /\ UNCHANGED <<unwritten, rx_free, rx_used>> /\ Kept' = Kept
    BY <1>7 DEF SampleRequests, queueVars, rbaVars, workVars, Kept
  <2> QED
    BY <1>1, <1>2, <1>3, <1>5, <1>6, <2>1, <2>2 DEF InRings
<1>8. CASE EnterEmergency(q) \/ PostMove(q)
  <2>1. Hands' = Hands
    BY <1>3, <1>8 DEF EnterEmergency, PostMove
  <2>2. /\ rx_used'[q] = 0 /\ Kept' = Kept + rx_used[q]
        /\ UNCHANGED <<hw, unwritten, rx_free>>
    BY <1>1, <1>8 DEF EnterEmergency, PostMove, MoveToAllocator, deviceVars, workVars, Kept
  <2> QED
    BY <1>1, <1>2, <1>3, <1>4, <1>5, <1>6, <2>1, <2>2 DEF InRings
<1>9. CASE HandleReused(q)
  <2>1. Hands' = Hands - 1
    BY <1>3, <1>9 DEF HandleReused
  <2>2. /\ rx_free'[q] = rx_free[q] + 1
        /\ \A p \in Queues \ {q} : rx_free'[p] = rx_free[p]
    BY <1>1, <1>9 DEF HandleReused
  <2>3. SumOver(rx_free') = SumOver(rx_free) + 1
    <3>1. SumOver(rx_free') = SumOver(rx_free) - rx_free[q] + rx_free'[q]
      BY <1>1, <2>2, SumStep
    <3> QED
      BY <1>1, <1>2, <2>2, <3>1, Sizes
  <2>4. UNCHANGED <<hw, unwritten, rx_used>> /\ Kept' = Kept
    BY <1>9 DEF HandleReused, deviceVars, rbaVars, workVars, Kept
  <2> QED
    BY <1>1, <1>2, <1>3, <1>5, <1>6, <2>1, <2>3, <2>4 DEF InRings
<1>10. CASE HandleStolen(q)
  <2>1. Hands' = Hands - 1
    BY <1>3, <1>10 DEF HandleStolen
  <2>2. /\ rx_used'[q] = rx_used[q] + 1 /\ UNCHANGED <<hw, unwritten, rx_free>>
        /\ Kept' = Kept
    BY <1>10 DEF HandleStolen, deviceVars, rbaVars, workVars, Kept
  <2> QED
    BY <1>1, <1>2, <1>3, <1>4, <1>5, <1>6, <2>1, <2>2 DEF InRings
<1>11. CASE PostRequest(q) \/ QueueWork(q) \/ Claim(q)
  <2>1. Hands' = Hands
    BY <1>3, <1>11 DEF PostRequest, QueueWork, Claim
  <2>2. UNCHANGED <<hw, unwritten, rx_free, rx_used>> /\ Kept' = Kept
    BY <1>11 DEF PostRequest, QueueWork, Claim, deviceVars, queueVars, workVars, Kept
  <2> QED
    BY <1>6, <2>1, <2>2 DEF InRings
<1>12. CASE TakeBatch(q)
  <2>1. Hands' = Hands
    BY <1>3, <1>12 DEF TakeBatch
  <2>2. /\ rx_free'[q] = rx_free[q] + CLAIM
        /\ \A p \in Queues \ {q} : rx_free'[p] = rx_free[p]
    BY <1>1, <1>12, Sizes DEF TakeBatch
  <2>3. SumOver(rx_free') = SumOver(rx_free) + CLAIM
    <3>1. SumOver(rx_free') = SumOver(rx_free) - rx_free[q] + rx_free'[q]
      BY <1>1, <2>2, SumStep
    <3> QED
      BY <1>1, <1>2, <2>2, <3>1, Sizes
  <2>4. UNCHANGED <<hw, unwritten, rx_used>> /\ Kept' = Kept - CLAIM
    BY <1>12, Sizes DEF TakeBatch, deviceVars, workVars, Kept
  <2> QED
    BY <1>1, <1>2, <1>3, <1>5, <1>6, <2>1, <2>3, <2>4, Sizes DEF InRings
<1>13. CASE Recycle(q)
  <2>1. Hands' = Hands /\ UNCHANGED <<hw, unwritten, rx_free>>
    BY <1>3, <1>13 DEF Recycle, deviceVars
  <2>2. Kept' + rx_used'[q] = Kept + rx_used[q]
    <3>1. CASE used_count[q] % CLAIM = 0
      BY <1>1, <1>13, <3>1 DEF Recycle, MoveToAllocator, workVars, Kept
    <3>2. CASE used_count[q] % CLAIM # 0
      BY <1>1, <1>13, <3>2 DEF Recycle, workVars, Kept
    <3> QED
      BY <3>1, <3>2
  <2> QED
    BY <1>1, <1>2, <1>3, <1>4, <1>5, <1>6, <2>1, <2>2 DEF InRings
<1>14. CASE RecycleEmergency(q)
  <2>1. Hands' = Hands /\ Kept' = Kept
    BY <1>3, <1>14 DEF RecycleEmergency, rbaVars, workVars, Kept
  <2>2. hw' + SumOver(unwritten') + SumOver(rx_free') + SumOver(rx_used')
          = hw + SumOver(unwritten) + SumOver(rx_free) + SumOver(rx_used)
    <3>1. CASE count[q] + 1 = Batch
      BY <1>14, <3>1, RefillWrites DEF RecycleEmergency
    <3>2. CASE count[q] + 1 # Batch
      BY <1>14, <3>2 DEF RecycleEmergency
    <3> QED
      BY <3>1, <3>2
  <2> QED
    BY <1>1, <1>2, <1>3, <1>5, <1>6, <2>1, <2>2 DEF InRings
<1>15. CASE PollEnds(q)
  <2>1. Hands' = Hands /\ Kept' = Kept
    BY <1>3, <1>15 DEF PollEnds, rbaVars, workVars, Kept
  <2>2. hw' + SumOver(unwritten') + SumOver(rx_free') + SumOver(rx_used')
          = hw + SumOver(unwritten) + SumOver(rx_free) + SumOver(rx_used)
    <3>1. CASE emergency[q] /\ count[q] > 0
      BY <1>15, <3>1, RefillWrites DEF PollEnds
    <3>2. CASE ~(emergency[q] /\ count[q] > 0)
      <4>1. Restock(q, rx_free[q]) /\ rx_used' = rx_used
        BY <1>15, <3>2 DEF PollEnds
      <4>2. hw' + SumOver(unwritten') + SumOver(rx_free')
              = hw + SumOver(unwritten) + SumOver(rx_free) - rx_free[q] + rx_free[q]
        BY <1>1, <4>1, RestockWrites
      <4> QED
        BY <1>1, <1>2, <4>1, <4>2
    <3> QED
      BY <3>1, <3>2
  <2> QED
    BY <1>1, <1>2, <1>3, <1>5, <1>6, <2>1, <2>2 DEF InRings
<1> QED
  BY <1>7, <1>8, <1>9, <1>10, <1>11, <1>12, <1>13, <1>14, <1>15 DEF Poll

\* No step does.
LEMMA ConservedStep ==
    ASSUME Shape, Shape', Conserved, [Next]_vars
    PROVE  Conserved'
<1>1. CASE Work
  <2>1. UNCHANGED <<hw, unwritten, rx_free, rx_used, at>>
    BY <1>1 DEF Work, WorkBegins, SwapEmpty, AllocateBatch, CountServed, LookForMore,
       SpliceBatch, AnnounceReady, ReturnUnused, deviceVars, queueVars, pollVars
  <2>2. Kept' = Kept
    BY <1>1, WorkKeeps
  <2> QED
    BY <2>1, <2>2 DEF Conserved, InRings, Hands, Total, Pool, QueueBuffers
<1>2. CASE StopDevice
  BY <1>2 DEF StopDevice, Conserved, InRings, Hands, Total, Pool, QueueBuffers, Kept, queueVars,
     rbaVars, pollVars, workVars
<1>3. CASE RxInit
  <2>1. Hands' = 0
    <3>1. \A q \in Queues : at'[q] \notin InHand
      BY <1>3 DEF InHand, RxInit, PollsDone, pollVars
    <3> QED
      BY <3>1, AtNone DEF Hands
  <2>2. Kept' = Pool
    BY <1>3, PoolType DEF RxInit, WorkDone, Shape, WorkShape, workVars, Kept
  <2>3. InRings' = QueueBuffers
    <3>1. /\ SumOver(unwritten') \in Nat /\ SumOver(rx_used') \in Nat /\ hw' \in Nat
          /\ hw' + SumOver(unwritten') + SumOver(rx_used') = QueueBuffers'
      BY <1>3, FilledAgain, FilledNext, SumType
    <3>2. SumOver(rx_free') = 0 /\ QueueBuffers' = QueueBuffers
      BY <1>3, FirstBuffers DEF RxInit, QueueBuffers
    <3> QED
      BY <2>1, <3>1, <3>2 DEF InRings
  <2>4. Total' = Total
    BY DEF Total, Pool, QueueBuffers
  <2> QED
    BY <2>2, <2>3, <2>4, PoolType, FirstBuffers DEF Conserved, Total
<1>4. CASE UNCHANGED vars
  BY <1>4 DEF vars, Conserved, InRings, Hands, Total, Pool, QueueBuffers, Kept, deviceVars,
     queueVars, rbaVars, pollVars, workVars
<1> QED
  BY <1>1, <1>2, <1>3, <1>4, PollConserves DEF Next
-----------------------------------------------------------------------------
(* The theorems.                                                           *)

\* The inductive invariant.
IInv == Shape /\ ReadyInv /\ CoverInv /\ CountInv /\ Conserved

\* The five parts hold in every state.
THEOREM Invariance == Spec => []IInv
<1>1. Init => IInv
  BY ShapeInit, ReadyInit, CoverInit, CountInit, ConservedInit DEF IInv
<1>2. IInv /\ [Next]_vars => IInv'
  <2> SUFFICES ASSUME IInv, [Next]_vars PROVE IInv'
    OBVIOUS
  <2>1. Shape'
    BY ShapeStep DEF IInv
  <2> QED
    BY <2>1, ReadyStep, CoverStep, CountStep, ConservedStep DEF IInv
<1> QED
  BY <1>1, <1>2, PTL DEF Spec

\* For every number of queues and all batch sizes: the work item never begins a
\* batch without a buffer for each page of it, so the BUG_ON of
\* iwl_pcie_rx_allocator is never reached.
THEOREM BatchesCovered == Spec => []BatchCovered
<1>1. IInv => BatchCovered
  <2> SUFFICES ASSUME IInv, wat = "allocate" PROVE local_empty >= CLAIM
    BY DEF BatchCovered
  <2>1. pending \in Nat /\ pending > 0 /\ local_empty \in Nat
    BY DEF IInv, Shape, Counters, WorkShape
  <2>2. local_empty >= CLAIM * pending
    BY DEF IInv, CoverInv
  <2>3. CLAIM * pending >= CLAIM
    BY <2>1, Sizes
  <2> QED
    BY <2>1, <2>2, <2>3, Sizes
<1> QED
  BY <1>1, Invariance, PTL

\* For all constants: whoever obtains a ready request in
\* iwl_pcie_rx_allocator_get finds CLAIM buffers on rbd_allocated.
THEOREM ReadyBacked == Spec => []ReadyIsBacked
<1>1. IInv => ReadyIsBacked
  <2> SUFFICES ASSUME IInv PROVE ReadyIsBacked
    OBVIOUS
  <2> DEFINE n == req_ready + Takers
  <2>1. req_ready \in Nat /\ Takers \in Nat
    BY AtType DEF IInv, Shape, Counters, Takers
  <2>2. Takers = Cardinality({q \in Queues : at[q] = "take"})
    BY DEF Takers, At
  <2>3. n \in Nat /\ Owed \in Nat /\ n <= Owed
    BY <2>1 DEF Owed, One
  <2>4. rbd_allocated = CLAIM * Owed
    BY DEF IInv, ReadyInv
  <2> HIDE DEF n
  <2>5. CLAIM * Owed >= CLAIM * n
    BY <2>3, Sizes
  <2> QED
    BY <2>2, <2>4, <2>5 DEF ReadyIsBacked, n
<1> QED
  BY <1>1, Invariance, PTL

\* For all constants: iwl_pcie_rxmq_restock, which does not ask for space, never
\* gives the rings more buffers than they have room for, restarts and failed
\* page allocations included.
THEOREM RingsNeverOverrun == Spec => []RingsFit
<1>1. IInv => RingsFit
  <2> SUFFICES ASSUME IInv PROVE RingsFit
    OBVIOUS
  <2>1. /\ unwritten \in [Queues -> Nat] /\ rx_free \in [Queues -> Nat]
        /\ rx_used \in [Queues -> Nat] /\ used_count \in [Queues -> Nat]
        /\ Counted \in [Queues -> Nat] /\ hw \in Nat
    BY CountedType DEF IInv, Shape, Counters
  <2>2. /\ SumOver(unwritten) \in Nat /\ SumOver(rx_free) \in Nat
        /\ SumOver(rx_used) \in Nat /\ SumOver(used_count) \in Nat
        /\ SumOver(Counted) \in Nat
    BY <2>1, SumType
  <2>3. SumOver(Counted) <= SumOver(rx_used)
    <3>1. \A q \in Queues : Counted[q] <= rx_used[q]
      BY <2>1 DEF Counted
    <3> QED
      BY <2>1, <3>1, SumBelow
  <2>4. Hands \in Nat /\ Kept \in Nat /\ Pool \in Nat /\ QueueBuffers \in Nat
    BY AtType, KeptType, PoolType, FirstBuffers DEF Hands, IInv, Shape
  <2>5. /\ hw + SumOver(unwritten) + SumOver(rx_free) + SumOver(rx_used) + Hands + Kept
             = Pool + QueueBuffers
        /\ Kept + SumOver(Counted) >= Pool + SumOver(used_count)
    BY DEF IInv, Conserved, InRings, Total, CountInv
  <2>6. Hands = Cardinality({q \in Queues : at[q] \in {"enter", "buffer"}})
    BY DEF Hands, At, InHand
  <2>7. hw + SumOver(unwritten) + SumOver(rx_free) + Hands <= QueueBuffers
    BY <2>1, <2>2, <2>3, <2>4, <2>5
  <2> QED
    BY <2>6, <2>7 DEF RingsFit, QueueBuffers
<1> QED
  BY <1>1, Invariance, PTL

\* For all constants, if page allocations succeed: between polls used_count counts
\* exactly what the queues can claim back.
THEOREM NoBufferLost ==
    ASSUME ~AllocFails
    PROVE  Spec => []NoneLost
<1>1. IInv => NoneLost
  <2> SUFFICES ASSUME IInv, PollsDone
               PROVE  Held = Pool + SumOver(used_count)
    BY DEF NoneLost
  <2>1. Counted = rx_used
    BY DEF Counted, IInv, Shape, Counters, PollShape, PollsDone
  <2> QED
    BY <2>1 DEF IInv, CountInv, Held, Kept
<1> QED
  BY <1>1, Invariance, PTL

\* For all constants: every list and counter stays within 0 .. Total, so no
\* unsigned counter of struct iwl_rxq or of the allocator wraps.
THEOREM TypeCorrect == Spec => []TypeOK
<1>1. IInv => TypeOK
  <2> SUFFICES ASSUME IInv PROVE TypeOK
    OBVIOUS
  <2>1. Shape /\ ReadyInv /\ CoverInv /\ CountInv /\ Conserved
    BY DEF IInv
  <2> USE DEF Shape
  <2>2. /\ unwritten \in [Queues -> Nat] /\ rx_free \in [Queues -> Nat]
        /\ rx_used \in [Queues -> Nat] /\ used_count \in [Queues -> Nat]
        /\ Counted \in [Queues -> Nat] /\ Missing \in [Queues -> Nat]
    BY <2>1, CountedType, MissingType DEF Counters
  <2>3. /\ SumOver(unwritten) \in Nat /\ SumOver(rx_free) \in Nat
        /\ SumOver(rx_used) \in Nat /\ SumOver(used_count) \in Nat
        /\ SumOver(Counted) \in Nat /\ SumOver(Missing) \in Nat
    BY <2>2, SumType
  <2>4. /\ hw \in Nat /\ rbd_empty \in Nat /\ local_empty \in Nat
        /\ local_allocated \in Nat /\ rbd_allocated \in Nat
        /\ req_pending \in Nat /\ req_ready \in Nat /\ pending \in Nat
    BY <2>1 DEF Counters
  <2>5. Hands \in Nat /\ Takers \in Nat /\ Pool \in Nat /\ QueueBuffers \in Nat
    BY AtType, PoolType, FirstBuffers DEF Hands, Takers
  <2>6. hw + SumOver(unwritten) + SumOver(rx_free) + SumOver(rx_used) + Hands
          + (rbd_empty + local_empty + local_allocated + rbd_allocated) = Total
    BY <2>1 DEF Conserved, InRings, Kept
  <2>7. Total \in Nat
    BY <2>5 DEF Total
  <2>8. /\ hw <= Total /\ rbd_empty <= Total /\ local_empty <= Total
        /\ local_allocated <= Total /\ rbd_allocated <= Total
        /\ SumOver(unwritten) <= Total /\ SumOver(rx_free) <= Total
        /\ SumOver(rx_used) <= Total
        /\ rbd_empty + local_empty + local_allocated + rbd_allocated + SumOver(rx_used) <= Total
    BY <2>3, <2>4, <2>5, <2>6, <2>7
  <2>9. SumOver(used_count) <= Total
    <3>1. \A q \in Queues : Counted[q] <= rx_used[q]
      BY <2>2 DEF Counted
    <3>2. SumOver(Counted) <= SumOver(rx_used)
      BY <2>2, <3>1, SumBelow
    <3>3. Kept + SumOver(Counted) >= Pool + SumOver(used_count)
      BY <2>1 DEF CountInv
    <3> QED
      BY <2>3, <2>4, <2>5, <2>7, <2>8, <3>2, <3>3 DEF Kept
  <2>10. /\ unwritten \in [Queues -> 0..Total] /\ rx_free \in [Queues -> 0..Total]
         /\ rx_used \in [Queues -> 0..Total] /\ used_count \in [Queues -> 0..Total]
    <3>1. \A q \in Queues :
            /\ unwritten[q] <= SumOver(unwritten) /\ rx_free[q] <= SumOver(rx_free)
            /\ rx_used[q] <= SumOver(rx_used) /\ used_count[q] <= SumOver(used_count)
      BY <2>2, SumType
    <3>2. \A q \in Queues :
            /\ unwritten[q] \in 0..Total /\ rx_free[q] \in 0..Total
            /\ rx_used[q] \in 0..Total /\ used_count[q] \in 0..Total
      BY <2>2, <2>3, <2>7, <2>8, <2>9, <3>1
    <3> QED
      BY <2>2, <3>2
  <2>11. CLAIM * req_pending <= Total
    <3>1. rbd_empty + local_empty >= CLAIM * (req_pending - One(wat = "served"))
      BY <2>1, <2>3, <2>4, Sizes DEF CoverInv, Promised, One
    <3>2. CASE wat = "served"
      <4>1. local_allocated = CLAIM
        BY <2>1, <3>2 DEF WorkShape
      <4>2. CLAIM * (req_pending - 1) = CLAIM * req_pending - CLAIM
        BY <2>4, Sizes
      <4>3. CLAIM * req_pending \in Nat
        BY <2>4, Sizes
      <4> QED
        BY <2>3, <2>4, <2>7, <2>8, <3>1, <3>2, <4>1, <4>2, <4>3, Sizes DEF One
    <3>3. CASE wat # "served"
      <4>1. rbd_empty + local_empty >= CLAIM * req_pending /\ CLAIM * req_pending \in Nat
        BY <2>4, <3>1, <3>3, Sizes DEF One
      <4> QED
        BY <2>3, <2>4, <2>7, <2>8, <4>1
    <3> QED
      BY <3>2, <3>3
  <2>12. req_pending <= Total /\ pending <= Total
    <3>1. req_pending <= CLAIM * req_pending /\ CLAIM * req_pending \in Nat
      BY <2>4, Sizes
    <3>2. pending <= req_pending
      BY <2>1 DEF WorkShape
    <3> QED
      BY <2>4, <2>7, <2>11, <3>1, <3>2
  <2>13. req_ready <= Total
    <3>1. Owed \in Nat /\ req_ready <= Owed
      BY <2>4, <2>5 DEF Owed, One
    <3>2. Owed <= CLAIM * Owed /\ CLAIM * Owed \in Nat
      BY <3>1, Sizes
    <3> QED
      BY <2>1, <2>4, <2>7, <2>8, <3>1, <3>2 DEF ReadyInv
  <2>14. {hw, rbd_empty, rbd_allocated, req_pending, req_ready, local_empty, local_allocated}
            \subseteq 0..Total /\ pending \in 0..Total
    BY <2>4, <2>7, <2>8, <2>12, <2>13
  <2> QED
    BY <2>1, <2>10, <2>14 DEF TypeOK, Counters, Places, Stages
<1> QED
  BY <1>1, Invariance, PTL
-----------------------------------------------------------------------------
(* The device never runs dry.                                              *)

\* The most requests a poll may find waiting without an emergency.
Low == ((QueueSize \div 2) - 1) \div CLAIM

\* What they are, in buffers.
LEMMA LowIs ==
    /\ Low \in Int /\ Low >= 0 - 1 /\ CLAIM * Low <= (QueueSize \div 2) - 1
    /\ \A n \in Nat : n * CLAIM < QueueSize \div 2 => n <= Low
<1> DEFINE h == QueueSize \div 2
           r == (h - 1) % CLAIM
<1>1. h \in Nat /\ h - 1 \in Int
  BY Sizes, DivMod
<1> HIDE DEF h
<1>2. r \in 0 .. CLAIM - 1 /\ Low \in Int /\ h - 1 = CLAIM * Low + r
  BY <1>1, Sizes, DivMod DEF Low, h
<1> HIDE DEF r
<1>3. Low >= 0 - 1
  <2> SUFFICES ASSUME Low + 1 <= 0 - 1 PROVE FALSE
    BY <1>2
  <2>1. CLAIM * (Low + 1) <= CLAIM * (0 - 1)
    BY <1>2, Sizes
  <2>2. CLAIM * (Low + 1) = CLAIM * Low + CLAIM
    BY <1>2, Sizes
  <2> QED
    BY <1>1, <1>2, <2>1, <2>2, Sizes
<1>4. ASSUME NEW n \in Nat, n * CLAIM < h PROVE n <= Low
  <2> SUFFICES ASSUME Low + 1 <= n PROVE FALSE
    BY <1>2
  <2>1. CLAIM * (Low + 1) <= CLAIM * n
    BY <1>2, Sizes
  <2>2. CLAIM * (Low + 1) = CLAIM * Low + CLAIM /\ CLAIM * n = n * CLAIM /\ n * CLAIM \in Nat
    BY <1>2, Sizes
  <2> QED
    BY <1>1, <1>2, <1>4, <2>1, <2>2, Sizes
<1>5. CLAIM * Low \in Int /\ CLAIM * Low <= h - 1
  BY <1>1, <1>2, Sizes
<1> QED
  BY <1>2, <1>3, <1>4, <1>5 DEF h

\* The batches queue q may claim, and the requests posted for it and not claimed; the second
\* are made earlier, at POST of CLAIM buffers.
Batches(q) == (used_count[q] \div CLAIM) - One(at[q] = "take")
Posted(q) == Batches(q) + One(used_count[q] % CLAIM >= POST) - One(Posting(q))

\* The same in buffers, rounded up.
Top == [q \in Queues |-> CLAIM * Batches(q) + CLAIM - 1]
Asked == [q \in Queues |-> CLAIM * Posted(q) + CLAIM - 1]

\* The requests that are waiting, being served, and ready.
Requests == req_pending + One(wat \in {"look", "splice", "ready"}) + req_ready

\* A poll that may still post a request on account of what it read of req_pending.
Asks == [q \in Queues |-> One(~emergency[q] /\ at[q] \in {"buffer", "post", "request"})]

\* A poll that has a batch to claim and has not tried since its last buffer.
Claims == [q \in Queues |-> CLAIM * One(/\ used_count[q] >= CLAIM
                                        /\ at[q] \in {"post", "request", "queue", "claim"})]

Base == Cardinality(Queues) * (CLAIM - 1)

\* Every request is on account of a queue.
AskedInv == SumOver(Asked) = Base + CLAIM * Requests
\* Beyond Low requests each poll posts one at most.
PendingInv == req_pending + SumOver(Asks) <= Low + Cardinality(Queues)
\* A batch that is not claimed waits for a request that is not ready, or did when the poll
\* last tried.
ClaimInv == SumOver(Top) <= Base + CLAIM * (Low + Cardinality(Queues) + 1) + SumOver(Claims)
\* What a poll leaves behind.
RestInv ==
    /\ \A q \in Queues : unwritten[q] < WriteStep
    /\ enabled => \A q \in Queues : at[q] = "idle" => rx_free[q] = 0

DryInv == AskedInv /\ PendingInv /\ ClaimInv /\ RestInv

\* These are natural numbers.
LEMMA BatchTypes ==
    ASSUME Shape, NEW q \in Queues
    PROVE  /\ Batches(q) \in Nat /\ Posted(q) \in Nat /\ Batches(q) <= Posted(q)
           /\ used_count[q] \in Nat /\ used_count[q] \div CLAIM \in Nat
           /\ used_count[q] % CLAIM \in 0 .. CLAIM - 1
           /\ (used_count[q] \div CLAIM >= 1) <=> (used_count[q] >= CLAIM)
<1>1. used_count[q] \in Nat /\ used_count[q] \in Int /\ CLAIM \in Nat \ {0}
  BY Sizes DEF Shape, Counters
<1>2. /\ used_count[q] \div CLAIM \in Nat /\ used_count[q] % CLAIM \in 0 .. CLAIM - 1
      /\ (used_count[q] \div CLAIM >= 1) <=> (used_count[q] >= CLAIM)
  BY <1>1, DivMod, DivPositive
<1>3. /\ at[q] = "take" => used_count[q] >= CLAIM
      /\ Posting(q) => used_count[q] % CLAIM = POST
  BY DEF Shape, PollShape, Posting
<1> QED
  BY <1>1, <1>2, <1>3, Sizes DEF Batches, Posted, One

LEMMA DryTypes ==
    Shape => /\ Top \in [Queues -> Nat] /\ Asked \in [Queues -> Nat]
             /\ Asks \in [Queues -> Nat] /\ Claims \in [Queues -> Nat]
             /\ \A q \in Queues : Top[q] <= Asked[q] /\ Asks[q] <= 1
<1> SUFFICES ASSUME Shape
             PROVE  /\ Top \in [Queues -> Nat] /\ Asked \in [Queues -> Nat]
                    /\ Asks \in [Queues -> Nat] /\ Claims \in [Queues -> Nat]
                    /\ \A q \in Queues : Top[q] <= Asked[q] /\ Asks[q] <= 1
  OBVIOUS
<1>1. ASSUME NEW q \in Queues
      PROVE  /\ CLAIM * Batches(q) + CLAIM - 1 \in Nat /\ CLAIM * Posted(q) + CLAIM - 1 \in Nat
             /\ CLAIM * Batches(q) + CLAIM - 1 <= CLAIM * Posted(q) + CLAIM - 1
  <2>1. /\ CLAIM * Batches(q) \in Nat /\ CLAIM * Posted(q) \in Nat
        /\ CLAIM * Batches(q) <= CLAIM * Posted(q)
    BY BatchTypes, Sizes
  <2> QED
    BY <2>1, Sizes
<1>2. Top \in [Queues -> Nat] /\ Asked \in [Queues -> Nat] /\ \A q \in Queues : Top[q] <= Asked[q]
  BY <1>1 DEF Top, Asked
<1>3. Asks \in [Queues -> Nat] /\ \A q \in Queues : Asks[q] <= 1
  BY DEF Asks, One
<1>4. Claims \in [Queues -> Nat]
  BY Sizes DEF Claims, One
<1> QED
  BY <1>2, <1>3, <1>4

\* In the next state too.
LEMMA DryTypesNext ==
    (Shape => /\ Top \in [Queues -> Nat] /\ Asked \in [Queues -> Nat]
              /\ Asks \in [Queues -> Nat] /\ Claims \in [Queues -> Nat]
              /\ \A q \in Queues : Top[q] <= Asked[q] /\ Asks[q] <= 1)'
BY DryTypes, PTL

\* The sums are natural numbers, and so are the constants of the bounds.
LEMMA DrySums ==
    ASSUME Shape
    PROVE  /\ SumOver(Top) \in Nat /\ SumOver(Asked) \in Nat /\ SumOver(Asks) \in Nat
           /\ SumOver(Claims) \in Nat
           /\ SumOver(Top) <= SumOver(Asked) /\ SumOver(Asks) <= Cardinality(Queues)
           /\ Base \in Nat /\ Cardinality(Queues) \in Nat \ {0}
           /\ CLAIM * (Low + Cardinality(Queues) + 1) \in Nat
<1>1. /\ Top \in [Queues -> Nat] /\ Asked \in [Queues -> Nat]
      /\ Asks \in [Queues -> Nat] /\ Claims \in [Queues -> Nat]
      /\ \A q \in Queues : Top[q] <= Asked[q] /\ Asks[q] <= 1
  BY DryTypes
<1>2. /\ SumOver(Top) \in Nat /\ SumOver(Asked) \in Nat /\ SumOver(Asks) \in Nat
      /\ SumOver(Claims) \in Nat
  BY <1>1, SumType
<1>3. SumOver(Top) <= SumOver(Asked)
  BY <1>1, SumBelow
<1>4. Cardinality(Queues) \in Nat \ {0}
  <2>1. Cardinality(Queues) \in Nat
    BY PoolType
  <2>2. Cardinality(Queues) # 0
    BY RxAssumption, FS_EmptySet
  <2> QED
    BY <2>1, <2>2
<1>5. SumOver(Asks) <= Cardinality(Queues)
  <2> DEFINE c == [q \in Queues |-> 1]
  <2>1. c \in [Queues -> Nat] /\ \A q \in Queues : Asks[q] <= c[q]
    BY <1>1
  <2>2. SumOver(c) = Cardinality(Queues) * 1
    BY SumConstant
  <2> HIDE DEF c
  <2>3. SumOver(Asks) <= SumOver(c)
    BY <1>1, <2>1, SumBelow
  <2> QED
    BY <1>4, <2>2, <2>3
<1>6. Base \in Nat
  BY <1>4, Sizes DEF Base
<1>7. Low + Cardinality(Queues) + 1 \in Nat
  BY <1>4, LowIs
<1>8. CLAIM * (Low + Cardinality(Queues) + 1) \in Nat
  BY <1>7, Sizes
<1> QED
  BY <1>2, <1>3, <1>4, <1>5, <1>6, <1>8

\* A poll changes its own terms only.
LEMMA PollDrySums ==
    ASSUME Shape, Shape', NEW q \in Queues, Poll(q)
    PROVE  /\ SumOver(Top') = SumOver(Top) - Top[q] + Top'[q]
           /\ SumOver(Asked') = SumOver(Asked) - Asked[q] + Asked'[q]
           /\ SumOver(Asks') = SumOver(Asks) - Asks[q] + Asks'[q]
           /\ SumOver(Claims') = SumOver(Claims) - Claims[q] + Claims'[q]
           /\ {Top[q], Top'[q], Asked[q], Asked'[q], Asks[q], Asks'[q], Claims[q], Claims'[q]}
                \subseteq Nat
<1>1. /\ Top \in [Queues -> Nat] /\ Asked \in [Queues -> Nat]
      /\ Asks \in [Queues -> Nat] /\ Claims \in [Queues -> Nat]
  BY DryTypes
<1>2. /\ Top' \in [Queues -> Nat] /\ Asked' \in [Queues -> Nat]
      /\ Asks' \in [Queues -> Nat] /\ Claims' \in [Queues -> Nat]
  BY DryTypesNext
<1>3. ASSUME NEW p \in Queues \ {q}
      PROVE  /\ Top'[p] = Top[p] /\ Asked'[p] = Asked[p] /\ Asks'[p] = Asks[p]
             /\ Claims'[p] = Claims[p]
  <2>1. /\ used_count'[p] = used_count[p] /\ at'[p] = at[p] /\ emergency'[p] = emergency[p]
    BY PollLocal DEF Shape
  <2>2. Batches(p)' = Batches(p) /\ Posted(p)' = Posted(p)
    BY <2>1 DEF Batches, Posted, Posting
  <2>3. Top'[p] = Top[p] /\ Asked'[p] = Asked[p]
    BY <2>2 DEF Top, Asked
  <2>4. Asks'[p] = Asks[p]
    BY <2>1 DEF Asks
  <2>5. Claims'[p] = Claims[p]
    BY <2>1 DEF Claims
  <2> QED
    BY <2>3, <2>4, <2>5
<1> QED
  BY <1>1, <1>2, <1>3, SumStep

\* Requests are natural numbers.
LEMMA RequestsType == Shape => Requests \in Nat
BY DEF Shape, Counters, Requests, One

\* In the next state too.
LEMMA RequestsTypeNext == (Shape => Requests \in Nat)'
BY RequestsType, PTL

\* A poll posts a request when its account grows, and takes one when it shrinks.
LEMMA PollRequests ==
    ASSUME Shape, NEW q \in Queues, Poll(q)
    PROVE  Posted(q)' - Posted(q) = Requests' - Requests
<1> DEFINE u == used_count[q]
           d == u \div CLAIM
           m == u % CLAIM
<1>1. u \in Nat /\ u \in Int /\ d \in Nat /\ m \in 0 .. CLAIM - 1 /\ CLAIM \in Nat \ {0}
  BY BatchTypes, Sizes
<1>2. wat' = wat /\ req_pending \in Nat /\ req_ready \in Nat
  BY DEF Poll, SampleRequests, EnterEmergency, HandleReused, HandleStolen, PostMove,
     PostRequest, QueueWork, Claim, TakeBatch, Recycle, RecycleEmergency, PollEnds, workVars,
     Shape, Counters
<1>3. Posted(q) = d - One(at[q] = "take") + One(m >= POST) - One(Posting(q))
  BY DEF Posted, Batches
<1>4. Posted(q)' = (used_count'[q] \div CLAIM) - One(at'[q] = "take")
                     + One(used_count'[q] % CLAIM >= POST) - One(Posting(q)')
  BY DEF Posted, Batches
<1>5. CASE HandleStolen(q) /\ ~emergency[q]
  <2>1. used_count'[q] = u + 1 /\ Requests' = Requests /\ Requests \in Nat
    BY <1>5, RequestsType DEF HandleStolen, Shape, Counters, Requests, rbaVars, workVars
  <2>2. /\ (u + 1) % CLAIM = IF m + 1 = CLAIM THEN 0 ELSE m + 1
        /\ (u + 1) \div CLAIM = IF m + 1 = CLAIM THEN d + 1 ELSE d
    BY <1>1, ModSucc, DivSucc
  <2>3. /\ ~Posting(q) /\ at[q] # "take" /\ at'[q] # "take"
        /\ Posting(q)' <=> (used_count'[q] % CLAIM = POST)
    BY <1>5, <2>1 DEF HandleStolen, Goto, Shape, Counters, Posting
  <2> HIDE DEF u, d, m
  <2> QED
    BY <1>1, <1>3, <1>4, <2>1, <2>2, <2>3, Sizes DEF One
<1>6. CASE TakeBatch(q)
  <2>1. used_count'[q] = u - CLAIM /\ Requests' = Requests /\ Requests \in Nat
    BY <1>6, RequestsType DEF TakeBatch, Shape, Counters, Requests, workVars
  <2>2. (u - CLAIM) % CLAIM = m /\ (u - CLAIM) \div CLAIM = d - 1
    BY <1>1, ModMinus, DivMinus
  <2>3. ~Posting(q) /\ at[q] = "take" /\ at'[q] = "recycle" /\ ~Posting(q)'
    BY <1>6 DEF TakeBatch, Goto, Shape, Counters, Posting
  <2> HIDE DEF u, d, m
  <2> QED
    BY <1>1, <1>3, <1>4, <2>1, <2>2, <2>3, Sizes DEF One
<1>7. CASE PostRequest(q)
  <2>1. used_count'[q] = u /\ req_pending' = req_pending + 1 /\ req_ready' = req_ready
    BY <1>7 DEF PostRequest, queueVars
  <2>2. Posting(q) /\ at[q] # "take" /\ at'[q] # "take" /\ ~Posting(q)'
    BY <1>7 DEF PostRequest, Goto, Shape, Counters, Posting
  <2> HIDE DEF d, m
  <2> QED
    BY <1>1, <1>2, <1>3, <1>4, <2>1, <2>2, Sizes DEF One, Requests, d, m
<1>8. CASE Claim(q)
  <2>1. used_count'[q] = u /\ req_pending' = req_pending /\ at[q] # "take"
        /\ ~Posting(q) /\ ~Posting(q)'
        /\ req_ready' = req_ready - One(at'[q] = "take")
    BY <1>2, <1>8 DEF Claim, Goto, queueVars, Posting, One, Shape, Counters
  <2> HIDE DEF d, m
  <2> QED
    BY <1>1, <1>2, <1>3, <1>4, <2>1, Sizes DEF One, Requests, d, m
<1>9. CASE \/ SampleRequests(q) \/ EnterEmergency(q) \/ HandleReused(q) \/ PostMove(q) \/ QueueWork(q)
           \/ HandleStolen(q) /\ emergency[q]
           \/ Recycle(q) \/ RecycleEmergency(q) \/ PollEnds(q)
  <2>1. /\ used_count'[q] = u /\ Requests' = Requests /\ at[q] # "take" /\ at'[q] # "take"
        /\ Posting(q)' <=> Posting(q)
    BY <1>2, <1>9 DEF SampleRequests, EnterEmergency, HandleReused, PostMove, QueueWork, HandleStolen,
       Recycle, RecycleEmergency, PollEnds, Goto, queueVars, rbaVars, Posting, Requests, Shape, Counters
  <2>2. Requests \in Nat
    BY RequestsType
  <2> HIDE DEF d, m
  <2> QED
    BY <1>1, <1>3, <1>4, <2>1, <2>2, Sizes DEF One, d, m
<1> QED
  BY <1>5, <1>6, <1>7, <1>8, <1>9 DEF Poll

\* So every request stays on account of a queue.
LEMMA PollAsked ==
    ASSUME Shape, Shape', AskedInv, NEW q \in Queues, Poll(q)
    PROVE  AskedInv'
<1> DEFINE a == Posted(q)
           b == Posted(q)'
<1>1. a \in Nat
  BY BatchTypes
<1>2. b = a + (Requests' - Requests) /\ Requests \in Nat /\ Requests' \in Nat /\ b \in Int
  <2>1. Requests \in Nat
    BY RequestsType
  <2>2. Requests' \in Nat
    BY RequestsTypeNext
  <2>3. b \in Int
    <3>1. used_count'[q] \in Int /\ CLAIM \in Nat \ {0}
      BY Sizes DEF Shape, Counters
    <3>2. used_count'[q] \div CLAIM \in Int
      BY <3>1, DivMod
    <3> QED
      BY <3>2 DEF Posted, Batches, One
  <2>4. b - a = Requests' - Requests
    BY PollRequests
  <2> QED
    BY <1>1, <2>1, <2>2, <2>3, <2>4
<1>3. Asked[q] = CLAIM * a + CLAIM - 1 /\ Asked'[q] = CLAIM * b + CLAIM - 1
  BY DEF Asked
<1> HIDE DEF a, b
<1>4. CLAIM * b = CLAIM * a + CLAIM * Requests' - CLAIM * Requests
  BY <1>1, <1>2, Sizes
<1>5. /\ CLAIM * a \in Int /\ CLAIM * b \in Int /\ CLAIM * Requests \in Int
      /\ CLAIM * Requests' \in Int /\ CLAIM \in Nat
  BY <1>1, <1>2, Sizes
<1>6. SumOver(Asked') = SumOver(Asked) - Asked[q] + Asked'[q] /\ SumOver(Asked) \in Nat /\ Base \in Nat
  BY PollDrySums, DrySums
<1>7. SumOver(Asked') = Base + CLAIM * Requests'
  BY <1>3, <1>4, <1>5, <1>6 DEF AskedInv
<1> QED
  BY <1>7 DEF AskedInv, Base

\* A request beyond Low is posted by a poll that had not seen so many.
LEMMA PollPending ==
    ASSUME Shape, Shape', PendingInv, NEW q \in Queues, Poll(q)
    PROVE  PendingInv'
<1>1. /\ SumOver(Asks') = SumOver(Asks) - Asks[q] + Asks'[q] /\ SumOver(Asks) \in Nat
      /\ Asks[q] \in Nat /\ Asks'[q] \in Nat /\ Cardinality(Queues) \in Nat
  BY PollDrySums, DrySums
<1>2. Low \in Int /\ req_pending \in Nat /\ req_pending' \in Nat
  BY LowIs DEF Shape, Counters
<1>3. ASSUME req_pending' + Asks'[q] <= req_pending + Asks[q] PROVE PendingInv'
  <2>1. req_pending' + SumOver(Asks') <= Low + Cardinality(Queues)
    BY <1>1, <1>2, <1>3 DEF PendingInv
  <2> QED
    BY <2>1 DEF PendingInv, Low
<1>4. /\ Asks[q] = One(~emergency[q] /\ at[q] \in {"buffer", "post", "request"})
      /\ Asks'[q] = One(~emergency'[q] /\ at'[q] \in {"buffer", "post", "request"})
  BY DEF Asks
<1>5. CASE SampleRequests(q)
  <2>1. req_pending' = req_pending
    BY <1>5 DEF SampleRequests, rbaVars
  <2>2. CASE Asks'[q] = 0
    BY <1>1, <1>2, <1>3, <2>1, <2>2
  <2>3. CASE Asks'[q] # 0
    <3>1. ~emergency[q] /\ at'[q] = "buffer"
      BY <1>4, <1>5, <2>3 DEF SampleRequests, Goto, Shape, Counters, One
    <3>2. ~(req_pending * CLAIM >= QueueSize \div 2)
      BY <1>5, <3>1 DEF SampleRequests, Goto, Shape, Counters
    <3>3. req_pending <= Low
      <4>1. req_pending * CLAIM \in Nat /\ QueueSize \div 2 \in Nat
        BY <1>2, Sizes
      <4> QED
        BY <1>2, <3>2, <4>1, LowIs
    <3>4. SumOver(Asks') <= Cardinality(Queues) /\ SumOver(Asks') \in Nat
      <4>1. (Shape => SumOver(Asks) <= Cardinality(Queues) /\ SumOver(Asks) \in Nat)'
        BY DrySums, PTL
      <4> QED
        BY <4>1
    <3>5. req_pending' + SumOver(Asks') <= Low + Cardinality(Queues)
      BY <1>1, <1>2, <2>1, <3>3, <3>4
    <3> QED
      BY <3>5 DEF PendingInv, Low
  <2> QED
    BY <2>2, <2>3
<1>6. CASE PostRequest(q)
  <2>1. req_pending' = req_pending + 1 /\ at[q] = "request" /\ at'[q] = "queue" /\ ~emergency[q]
    BY <1>6 DEF PostRequest, Goto, Shape, Counters, PollShape
  <2>2. Asks[q] = 1 /\ Asks'[q] = 0
    BY <1>4, <2>1 DEF One
  <2> QED
    BY <1>2, <1>3, <2>1, <2>2
<1>7. CASE HandleReused(q) \/ HandleStolen(q) \/ PostMove(q)
  <2>1. req_pending' = req_pending /\ emergency'[q] = emergency[q]
        /\ at[q] \in {"buffer", "post", "request"}
    BY <1>7 DEF HandleReused, HandleStolen, PostMove, rbaVars
  <2>2. Asks'[q] <= Asks[q]
    BY <1>4, <2>1 DEF One
  <2> QED
    BY <1>1, <1>2, <1>3, <2>1, <2>2
<1>8. CASE \/ EnterEmergency(q) \/ QueueWork(q) \/ Claim(q) \/ TakeBatch(q)
           \/ Recycle(q) \/ RecycleEmergency(q) \/ PollEnds(q)
  <2>1. req_pending' = req_pending
        /\ (emergency'[q] \/ at'[q] \notin {"buffer", "post", "request"})
    BY <1>8 DEF EnterEmergency, QueueWork, Claim, TakeBatch, Recycle, RecycleEmergency, PollEnds,
       Goto, rbaVars, Shape, Counters
  <2>2. Asks'[q] = 0
    BY <1>4, <2>1 DEF One
  <2> QED
    BY <1>1, <1>2, <1>3, <2>1, <2>2
<1> QED
  BY <1>5, <1>6, <1>7, <1>8 DEF Poll
\* A poll that fails to claim a batch finds no request ready, and those that wait are few.
LEMMA PollClaim ==
    ASSUME Shape, Shape', AskedInv, PendingInv, ClaimInv, NEW q \in Queues, Poll(q)
    PROVE  ClaimInv'
<1> DEFINE u == used_count[q]
           d == u \div CLAIM
           m == u % CLAIM
           few == CLAIM * (Low + Cardinality(Queues) + 1)
           waits == {"post", "request", "queue", "claim"}
<1>1. /\ SumOver(Top') = SumOver(Top) - Top[q] + Top'[q] /\ SumOver(Top) \in Nat
      /\ SumOver(Claims') = SumOver(Claims) - Claims[q] + Claims'[q] /\ SumOver(Claims) \in Nat
      /\ Top[q] \in Nat /\ Top'[q] \in Nat /\ Claims[q] \in Nat /\ Claims'[q] \in Nat
      /\ Base \in Nat /\ few \in Nat
  BY PollDrySums, DrySums
<1>2. u \in Nat /\ u \in Int /\ d \in Nat /\ m \in 0 .. CLAIM - 1 /\ CLAIM \in Nat \ {0}
      /\ (d >= 1 <=> u >= CLAIM)
  BY BatchTypes, Sizes
<1>3. ClaimInv' <=> SumOver(Top') <= Base + few + SumOver(Claims')
  BY DEF ClaimInv, Base, Low
<1>4. SumOver(Top) <= Base + few + SumOver(Claims)
  BY DEF ClaimInv
<1> HIDE DEF few
<1>5. ASSUME Top'[q] + Claims[q] <= Top[q] + Claims'[q] PROVE ClaimInv'
  BY <1>1, <1>3, <1>4, <1>5
<1>6. /\ Top[q] = CLAIM * Batches(q) + CLAIM - 1
      /\ Top'[q] = CLAIM * (Batches(q)') + CLAIM - 1
      /\ Claims[q] = CLAIM * One(u >= CLAIM /\ at[q] \in waits)
      /\ Claims'[q] = CLAIM * One(used_count'[q] >= CLAIM /\ at'[q] \in waits)
  BY DEF Top, Claims
<1>7. /\ Batches(q) = d - One(at[q] = "take")
      /\ Batches(q)' = (used_count'[q] \div CLAIM) - One(at'[q] = "take")
  BY DEF Batches
<1>8. CASE HandleStolen(q) /\ ~emergency[q]
  <2>1. used_count'[q] = u + 1 /\ at[q] = "buffer" /\ at'[q] \in {"post", "claim"}
    BY <1>8 DEF HandleStolen, Goto, Shape, Counters
  <2>2. /\ (u + 1) \div CLAIM = IF m + 1 = CLAIM THEN d + 1 ELSE d
        /\ ((u + 1) \div CLAIM >= 1 <=> u + 1 >= CLAIM)
    <3>1. u + 1 \in Nat
      BY <1>2
    <3> QED
      BY <1>2, <3>1, DivSucc, DivPositive
  <2>3. Batches(q) = d /\ Claims[q] = 0
    BY <1>2, <1>6, <1>7, <2>1 DEF One
  <2> HIDE DEF u, d, m
  <2>4. CASE m + 1 = CLAIM
    <3>1. Batches(q)' = d + 1 /\ u + 1 >= CLAIM
      BY <1>2, <1>7, <2>1, <2>2, <2>4 DEF One
    <3>2. Claims'[q] = CLAIM
      BY <1>2, <1>6, <2>1, <3>1 DEF One
    <3>3. CLAIM * (d + 1) = CLAIM * d + CLAIM /\ CLAIM * d \in Nat
      BY <1>2
    <3> QED
      BY <1>2, <1>5, <1>6, <2>3, <3>1, <3>2, <3>3
  <2>5. CASE m + 1 # CLAIM
    <3>1. Batches(q)' = d
      BY <1>2, <1>7, <2>1, <2>2, <2>5 DEF One
    <3> QED
      BY <1>1, <1>5, <1>6, <2>3, <3>1
  <2> QED
    BY <2>4, <2>5
<1>9. CASE TakeBatch(q)
  <2>1. used_count'[q] = u - CLAIM /\ at[q] = "take" /\ at'[q] = "recycle"
    BY <1>9 DEF TakeBatch, Goto, Shape, Counters
  <2>2. (u - CLAIM) \div CLAIM = d - 1
    BY <1>2, DivMinus
  <2>3. Claims[q] = 0
    BY <1>2, <1>6, <2>1 DEF One
  <2> HIDE DEF u, d, m
  <2>4. Batches(q)' = Batches(q)
    BY <1>2, <1>7, <2>1, <2>2 DEF One
  <2> QED
    BY <1>1, <1>5, <1>6, <2>3, <2>4
<1>10. CASE Claim(q)
  <2>1. used_count'[q] = u /\ at[q] = "claim"
    BY <1>10 DEF Claim, queueVars
  <2>2. CASE u >= CLAIM /\ req_ready > 0
    <3>1. at'[q] = "take"
      BY <1>10, <2>2 DEF Claim, Goto, Shape, Counters
    <3>2. Claims[q] = CLAIM /\ Claims'[q] = 0
      BY <1>2, <1>6, <2>1, <2>2, <3>1 DEF One
    <3>3. Batches(q) = d /\ Batches(q)' = d - 1
      BY <1>2, <1>7, <2>1, <3>1 DEF One
    <3> HIDE DEF u, d, m
    <3>4. CLAIM * (d - 1) = CLAIM * d - CLAIM /\ CLAIM * d \in Nat
      BY <1>2
    <3> QED
      BY <1>2, <1>5, <1>6, <3>2, <3>3, <3>4
  <2>3. CASE ~(u >= CLAIM /\ req_ready > 0)
    <3>1. at'[q] = "recycle"
      BY <1>10, <2>3 DEF Claim, Goto, Shape, Counters
    <3>2. Batches(q)' = Batches(q)
      BY <1>7, <2>1, <3>1 DEF One
    <3>3. Top'[q] = Top[q]
      BY <1>6, <3>2
    <3>4. CASE u < CLAIM
      <4>1. ~(u >= CLAIM)
        BY <1>2, <3>4
      <4>2. Claims[q] = 0
        BY <1>2, <1>6, <4>1 DEF One
      <4> QED
        BY <1>1, <1>5, <3>3, <4>2
    <3>5. CASE u >= CLAIM
      <4>1. req_ready = 0
        BY <2>3, <3>5 DEF Shape, Counters
      <4>2. Requests <= Low + Cardinality(Queues) + 1 /\ Requests \in Nat
        <5>1. /\ req_pending \in Nat /\ SumOver(Asks) \in Nat /\ Cardinality(Queues) \in Nat
              /\ Low \in Int
          BY DrySums, LowIs DEF Shape, Counters
        <5>2. req_pending <= Low + Cardinality(Queues)
          BY <5>1 DEF PendingInv
        <5> QED
          BY <4>1, <5>1, <5>2 DEF Requests, One
      <4>3. CLAIM * Requests <= few /\ CLAIM * Requests \in Nat
        <5>1. Low + Cardinality(Queues) + 1 \in Int
          BY LowIs, DrySums
        <5> HIDE DEF u, d, m
        <5> QED
          BY <1>2, <4>2, <5>1 DEF few
      <4>4. SumOver(Top) <= Base + few
        <5>1. SumOver(Top) <= SumOver(Asked) /\ SumOver(Asked) = Base + CLAIM * Requests
          BY DrySums DEF AskedInv
        <5> QED
          BY <1>1, <4>3, <5>1
      <4>5. SumOver(Claims') \in Nat
        <5>1. (Shape => SumOver(Claims) \in Nat)'
          BY DrySums, PTL
        <5> QED
          BY <5>1
      <4> QED
        BY <1>1, <1>3, <3>3, <4>4, <4>5
    <3> QED
      BY <1>2, <3>4, <3>5
  <2> QED
    BY <2>2, <2>3
<1>11. CASE \/ SampleRequests(q) \/ EnterEmergency(q) \/ HandleReused(q) \/ PostMove(q)
            \/ PostRequest(q) \/ QueueWork(q) \/ (HandleStolen(q) /\ emergency[q])
            \/ Recycle(q) \/ RecycleEmergency(q) \/ PollEnds(q)
  <2>1. /\ used_count'[q] = u /\ at[q] # "take" /\ at'[q] # "take"
        /\ at[q] \in waits => at'[q] \in waits
    BY <1>11 DEF SampleRequests, EnterEmergency, HandleReused, PostMove, PostRequest, QueueWork,
       HandleStolen, Recycle, RecycleEmergency, PollEnds, Goto, queueVars, Shape, Counters
  <2>2. Batches(q)' = Batches(q)
    BY <1>7, <2>1
  <2>3. Claims[q] <= Claims'[q]
    BY <1>2, <1>6, <2>1 DEF One
  <2> QED
    BY <1>1, <1>5, <1>6, <2>2, <2>3
<1> QED
  BY <1>8, <1>9, <1>10, <1>11 DEF Poll

\* A restock tells the device of all but a part of a WriteStep.
LEMMA RestockRests ==
    ASSUME Shape, RestInv, NEW q \in Queues, NEW n \in Nat, Restock(q, n)
    PROVE  /\ \A p \in Queues : unwritten'[p] < WriteStep
           /\ enabled => rx_free'[q] = 0 /\ \A p \in Queues \ {q} : rx_free'[p] = rx_free[p]
<1>1. /\ unwritten \in [Queues -> Nat] /\ rx_free \in [Queues -> Nat]
      /\ WriteStep \in Nat \ {0}
  BY RxAssumption DEF Shape, Counters
<1>2. \A p \in Queues : unwritten[p] < WriteStep
  BY DEF RestInv
<1>3. CASE enabled
  <2> DEFINE left == (unwritten[q] + n) % WriteStep
  <2>1. left \in 0 .. WriteStep - 1
    <3>1. unwritten[q] + n \in Int
      BY <1>1
    <3> QED
      BY <1>1, <3>1, DivMod
  <2>2. unwritten' = [unwritten EXCEPT ![q] = left] /\ rx_free' = [rx_free EXCEPT ![q] = 0]
    BY <1>3 DEF Restock
  <2> HIDE DEF left
  <2> QED
    BY <1>1, <1>2, <2>1, <2>2
<1>4. CASE ~enabled
  BY <1>2, <1>4 DEF Restock
<1> QED
  BY <1>3, <1>4

\* A poll ends with a restock, so that while the device is enabled it keeps no free buffer.
LEMMA PollRest ==
    ASSUME Shape, RestInv, NEW q \in Queues, Poll(q)
    PROVE  RestInv'
<1>1. /\ at \in [Queues -> Places] /\ rx_free \in [Queues -> Nat] /\ rx_used \in [Queues -> Nat]
  BY DEF Shape, Counters
<1>2. CASE PollEnds(q) \/ (RecycleEmergency(q) /\ count[q] + 1 = Batch)
  <2>1. PICK n \in Nat : Restock(q, n)
    <3>1. CASE RefillAndRestock(q)
      <4>1. PICK n \in Refills(rx_used[q]) : Restock(q, rx_free[q] + n)
        BY <3>1 DEF RefillAndRestock
      <4>2. rx_free[q] + n \in Nat
        BY <1>1 DEF Refills
      <4> QED
        BY <4>1, <4>2
    <3>2. CASE Restock(q, rx_free[q])
      BY <1>1, <3>2
    <3> QED
      BY <1>2, <3>1, <3>2 DEF PollEnds, RecycleEmergency
  <2>2. /\ \A p \in Queues : unwritten'[p] < WriteStep
        /\ enabled => rx_free'[q] = 0 /\ \A p \in Queues \ {q} : rx_free'[p] = rx_free[p]
    BY <2>1, RestockRests
  <2>3. enabled' = enabled /\ \A p \in Queues \ {q} : at'[p] = at[p]
    BY <1>1, <1>2 DEF PollEnds, RecycleEmergency, Goto
  <2> QED
    BY <2>2, <2>3 DEF RestInv
<1>3. CASE \/ SampleRequests(q) \/ EnterEmergency(q) \/ HandleReused(q) \/ PostMove(q)
           \/ PostRequest(q) \/ QueueWork(q) \/ HandleStolen(q) \/ Claim(q) \/ TakeBatch(q)
           \/ Recycle(q) \/ (RecycleEmergency(q) /\ count[q] + 1 # Batch)
  <2>1. /\ enabled' = enabled /\ unwritten' = unwritten /\ at'[q] # "idle"
    BY <1>1, <1>3 DEF SampleRequests, EnterEmergency, HandleReused, PostMove, PostRequest, QueueWork,
       HandleStolen, Claim, TakeBatch, Recycle, RecycleEmergency, Goto, deviceVars
  <2>2. \A p \in Queues \ {q} : at'[p] = at[p] /\ rx_free'[p] = rx_free[p]
    BY <1>1, <1>3 DEF SampleRequests, EnterEmergency, HandleReused, PostMove, PostRequest, QueueWork,
       HandleStolen, Claim, TakeBatch, Recycle, RecycleEmergency, Goto, deviceVars, queueVars
  <2> QED
    BY <2>1, <2>2 DEF RestInv
<1> QED
  BY <1>2, <1>3 DEF Poll
\* The state in which reception begins.
Fresh ==
    /\ Shape /\ PollsDone /\ WorkDone /\ used_count = Zero /\ req_pending = 0 /\ req_ready = 0
    /\ rx_free = Zero /\ \A q \in Queues : unwritten[q] < WriteStep

\* Nothing is asked for then.
LEMMA FreshDry == Fresh => DryInv
<1> SUFFICES ASSUME Fresh PROVE DryInv
  OBVIOUS
<1>1. Shape /\ \A q \in Queues : at[q] = "idle" /\ used_count[q] = 0
  BY DEF Fresh, PollsDone, Zero
<1>2. ASSUME NEW q \in Queues PROVE Batches(q) = 0 /\ Posted(q) = 0
  <2>1. 0 = CLAIM * 0 + 0 /\ 0 \in 0 .. CLAIM - 1 /\ CLAIM \in Nat \ {0} /\ 0 \in Int
    BY Sizes
  <2>2. 0 \div CLAIM = 0 /\ 0 % CLAIM = 0
    BY <2>1, DivUnique, ModUnique
  <2> QED
    BY <1>1, <2>2, Sizes DEF Batches, Posted, Posting, One
<1>3. SumOver(Top) = Base /\ SumOver(Asked) = Base
  <2>1. CLAIM - 1 \in Nat /\ CLAIM * 0 + CLAIM - 1 = CLAIM - 1
    BY Sizes
  <2>2. Top = [q \in Queues |-> CLAIM - 1] /\ Asked = [q \in Queues |-> CLAIM - 1]
    BY <1>2, <2>1 DEF Top, Asked
  <2> QED
    BY <2>1, <2>2, SumConstant DEF Base
<1>4. SumOver(Asks) = 0 /\ SumOver(Claims) = 0
  <2>1. Asks = Zero
    BY <1>1 DEF Asks, Zero, One
  <2>2. Claims = Zero
    BY <1>1, Sizes DEF Claims, Zero, One
  <2> QED
    BY <2>1, <2>2, FirstBuffers
<1>5. Requests = 0
  BY DEF Requests, Fresh, WorkDone, One
<1>6. /\ Base \in Nat /\ Cardinality(Queues) \in Nat \ {0}
      /\ CLAIM * (Low + Cardinality(Queues) + 1) \in Nat
      /\ Low \in Int /\ Low >= 0 - 1
  BY <1>1, DrySums, LowIs
<1>7. AskedInv
  BY <1>3, <1>5, <1>6, Sizes DEF AskedInv
<1>8. PendingInv
  BY <1>4, <1>6 DEF PendingInv, Fresh
<1>9. ClaimInv
  BY <1>3, <1>4, <1>6 DEF ClaimInv
<1>10. RestInv
  <2>1. \A q \in Queues : rx_free[q] = 0
    BY DEF Fresh, Zero
  <2>4. \A q \in Queues : unwritten[q] < WriteStep
    BY DEF Fresh
  <2> QED
    BY <2>1, <2>4 DEF RestInv
<1> QED
  BY <1>7, <1>8, <1>9, <1>10 DEF DryInv

\* In the next state too.
LEMMA FreshDryNext == (Fresh => DryInv)'
BY FreshDry, PTL

\* The work item turns a waiting request into a ready one.
LEMMA WorkDry ==
    ASSUME Shape, DryInv, Work
    PROVE  DryInv'
<1>1. UNCHANGED <<deviceVars, queueVars, pollVars>>
  BY DEF Work, WorkBegins, SwapEmpty, AllocateBatch, CountServed, LookForMore,
     SpliceBatch, AnnounceReady, ReturnUnused
<1>2. /\ Top' = Top /\ Asked' = Asked /\ Asks' = Asks /\ Claims' = Claims
      /\ Low' = Low /\ Base' = Base
  BY <1>1 DEF queueVars, pollVars, Top, Asked, Asks, Claims, Batches, Posted, Posting, Low, Base
<1>3. /\ req_pending \in Nat /\ req_ready \in Nat /\ wat \in Stages
      /\ wat = "served" => req_pending > 0
  BY DEF Shape, Counters, WorkShape
<1>4. Requests' = Requests /\ req_pending' <= req_pending
  <2>1. CASE CountServed
    BY <1>3, <2>1 DEF CountServed, Requests, One
  <2>2. CASE AnnounceReady
    BY <1>3, <2>2 DEF AnnounceReady, NextBatch, Requests, One
  <2>3. CASE WorkBegins \/ SwapEmpty \/ AllocateBatch
    BY <1>3, <2>3 DEF WorkBegins, SwapEmpty, AllocateBatch, NextBatch, rbaVars, Requests, One
  <2>4. CASE LookForMore \/ SpliceBatch \/ ReturnUnused
    BY <1>3, <2>4 DEF LookForMore, SpliceBatch, ReturnUnused, rbaVars, Requests, One
  <2> QED
    BY <2>1, <2>2, <2>3, <2>4 DEF Work
<1>5. PendingInv'
  <2>1. /\ SumOver(Asks) \in Nat /\ Cardinality(Queues) \in Nat /\ Low \in Int
        /\ req_pending' \in Int
    BY <1>3, DrySums, LowIs DEF Work, WorkBegins, SwapEmpty, AllocateBatch, CountServed,
       LookForMore, SpliceBatch, AnnounceReady, ReturnUnused, rbaVars
  <2>2. req_pending' + SumOver(Asks) <= Low + Cardinality(Queues)
    BY <1>3, <1>4, <2>1 DEF DryInv, PendingInv
  <2> QED
    BY <1>2, <2>2 DEF PendingInv
<1>6. AskedInv' /\ ClaimInv'
  BY <1>2, <1>4 DEF DryInv, AskedInv, ClaimInv
<1>7. RestInv'
  BY <1>1 DEF deviceVars, queueVars, pollVars, DryInv, RestInv
<1> QED
  BY <1>5, <1>6, <1>7 DEF DryInv

\* Every step preserves the supply.
LEMMA DryStep ==
    ASSUME Shape, Shape', DryInv, [Next]_vars
    PROVE  DryInv'
<1>1. ASSUME NEW q \in Queues, Poll(q) PROVE DryInv'
  BY <1>1, PollAsked, PollPending, PollClaim, PollRest DEF DryInv
<1>2. CASE Work
  BY <1>2, WorkDry
<1>3. CASE RxInit
  <2>1. Fresh'
    <3>1. PollsDone'
      BY <1>3 DEF RxInit, PollsDone, pollVars
    <3>2. WorkDone'
      BY <1>3 DEF RxInit, WorkDone, workVars
    <3>3. Zero' = Zero /\ \A q \in Queues : unwritten'[q] < WriteStep
      BY <1>3, FilledAgain, FilledNext DEF Zero
    <3> QED
      BY <1>3, <3>1, <3>2, <3>3 DEF RxInit, Fresh
  <2> QED
    BY <2>1, FreshDryNext
<1>4. CASE StopDevice \/ UNCHANGED vars
  <2>1. UNCHANGED <<unwritten, queueVars, rbaVars, pollVars, workVars>> /\ (enabled' => enabled)
    BY <1>4 DEF StopDevice, vars, deviceVars
  <2>2. AskedInv' /\ PendingInv' /\ ClaimInv'
    BY <2>1 DEF queueVars, rbaVars, pollVars, workVars, DryInv, AskedInv, PendingInv, ClaimInv,
       Top, Asked, Asks, Claims, Batches, Posted, Posting, Low, Base, Requests
  <2>3. RestInv'
    BY <2>1 DEF queueVars, pollVars, DryInv, RestInv
  <2> QED
    BY <2>2, <2>3 DEF DryInv
<1> QED
  BY <1>1, <1>2, <1>3, <1>4 DEF Next

\* The supply is accounted for in every state.
THEOREM SupplyInvariance == Spec => [](IInv /\ DryInv)
<1>1. Init => DryInv
  <2> SUFFICES ASSUME Init PROVE Fresh
    BY FreshDry
  <2>1. Shape
    BY ShapeInit
  <2> QED
    BY <2>1, FilledStart, FilledIs DEF Init, Fresh, PollsDone, WorkDone
<1>2. IInv /\ IInv' /\ DryInv /\ [Next]_vars => DryInv'
  BY DryStep DEF IInv
<1> QED
  BY <1>1, <1>2, Invariance, PTL DEF Spec

\* The part of the ring that an emergency leaves, more than half, covers what the queues may
\* hold back besides: each less than a batch in the making, one late request, and less than a
\* WriteStep; and the request in the hands of the work item.
RingLarge ==
    Cardinality(Queues) * (2 * CLAIM + WriteStep - 2) + CLAIM < QueueSize - (QueueSize \div 2)

\* For any number of queues with a large enough ring, if page allocations succeed: when all polls
\* have ended, the device has buffers to fill.  Every buffer that is missing from the rings is
\* counted by a queue that can claim it only in a poll, so without one reception would be over;
\* the emergency, which stops the counting at half a ring of requests, is what prevents it.
THEOREM NeverDry ==
    ASSUME ~AllocFails, RingLarge
    PROVE  Spec => []NotDry
<1>1. IInv /\ DryInv => NotDry
  <2> SUFFICES ASSUME IInv, DryInv, enabled, PollsDone
               PROVE  hw > 0
    BY DEF NotDry
  <2> DEFINE n == Cardinality(Queues)
             h == QueueSize \div 2
             used == SumOver(used_count)
             part == SumOver(unwritten)
  <2>1. /\ Shape /\ used_count \in [Queues -> Nat] /\ unwritten \in [Queues -> Nat]
        /\ rx_used \in [Queues -> Nat] /\ rx_free \in [Queues -> Nat] /\ hw \in Nat
    BY DEF IInv, Shape, Counters
  <2>2. n \in Nat /\ h \in Nat /\ used \in Nat /\ part \in Nat /\ Low \in Int /\ CLAIM \in Nat \ {0}
        /\ WriteStep \in Nat \ {0} /\ QueueSize \in Nat \ {0} /\ CLAIM * Low <= h - 1
        /\ CLAIM * Low \in Int
    BY <2>1, PoolType, SumType, LowIs, Sizes, RxAssumption
  <2>3. part <= n * (WriteStep - 1)
    <3> DEFINE c == [q \in Queues |-> WriteStep - 1]
    <3>1. WriteStep - 1 \in Nat
      BY <2>2
    <3>2. SumOver(c) = n * (WriteStep - 1)
      BY <3>1, SumConstant
    <3>3. c \in [Queues -> Nat] /\ \A q \in Queues : unwritten[q] <= c[q]
      BY <2>1, <2>2, <3>1 DEF DryInv, RestInv
    <3> HIDE DEF c
    <3> QED
      BY <2>1, <3>2, <3>3, SumBelow
  <2>4. used <= n * (CLAIM - 1) + CLAIM * (Low + n + 1)
    <3>1. Top \in [Queues -> Nat]
      BY <2>1, DryTypes
    <3>2. ASSUME NEW q \in Queues PROVE used_count[q] <= Top[q]
      <4> DEFINE u == used_count[q]
                 d == u \div CLAIM
                 r == u % CLAIM
      <4>1. u \in Int
        BY <2>1
      <4>2. d \in Int /\ r \in 0 .. CLAIM - 1 /\ u = CLAIM * d + r
        BY <2>2, <4>1, DivMod
      <4>3. Top[q] = CLAIM * d + CLAIM - 1
        <5>1. Batches(q) = d
          BY <4>2 DEF Batches, PollsDone, One
        <5> QED
          BY <5>1 DEF Top
      <4> HIDE DEF u, d, r
      <4>4. u <= Top[q]
        BY <2>2, <4>2, <4>3
      <4> QED
        BY <4>4 DEF u
    <3>3. used <= SumOver(Top) /\ SumOver(Top) \in Nat
      BY <2>1, <3>1, <3>2, SumBelow, SumType
    <3>4. SumOver(Claims) = 0
      <4>1. Claims = Zero
        BY Sizes DEF Claims, Zero, One, PollsDone
      <4> QED
        BY <4>1, FirstBuffers
    <3>5. SumOver(Top) <= n * (CLAIM - 1) + CLAIM * (Low + n + 1) + SumOver(Claims)
      BY DEF DryInv, ClaimInv, Base
    <3>6. n * (CLAIM - 1) \in Int /\ CLAIM * (Low + n + 1) \in Int
      BY <2>2
    <3> QED
      BY <2>2, <3>3, <3>4, <3>5, <3>6
  <2>5. hw + part + used = QueueSize - 1
    <3>1. Counted = rx_used
      BY DEF Counted, IInv, Shape, Counters, PollShape, PollsDone
    <3>2. Kept + SumOver(rx_used) = Pool + used
      BY <3>1 DEF IInv, CountInv
    <3>3. Hands = 0
      BY AtNone DEF PollsDone, Hands, InHand
    <3>4. SumOver(rx_free) = 0
      <4>1. rx_free = Zero
        BY <2>1 DEF DryInv, RestInv, PollsDone, Zero
      <4> QED
        BY <4>1, FirstBuffers
    <3>5. Kept \in Nat /\ Pool \in Nat /\ SumOver(rx_used) \in Nat
      BY <2>1, KeptType, PoolType, SumType DEF Shape
    <3>6. hw + part + SumOver(rx_free) + SumOver(rx_used) + Hands + Kept = Pool + QueueBuffers
      BY DEF IInv, Conserved, InRings, Total
    <3> HIDE DEF used, part
    <3> QED
      BY <2>1, <2>2, <3>2, <3>3, <3>4, <3>5, <3>6 DEF QueueBuffers
  <2>6. n * (2 * CLAIM + WriteStep - 2) + CLAIM < QueueSize - h
    BY DEF RingLarge
  <2> HIDE DEF n, h, used, part
  <2>7. /\ n * (2 * CLAIM + WriteStep - 2) = n * CLAIM + n * CLAIM + n * WriteStep - n - n
        /\ n * (CLAIM - 1) = n * CLAIM - n /\ n * (WriteStep - 1) = n * WriteStep - n
        /\ CLAIM * (Low + n + 1) = CLAIM * Low + n * CLAIM + CLAIM
        /\ n * CLAIM \in Nat /\ n * WriteStep \in Nat
    BY <2>2
  <2> QED
    BY <2>1, <2>2, <2>3, <2>4, <2>5, <2>6, <2>7
<1> QED
  BY <1>1, SupplyInvariance, PTL
=============================================================================
