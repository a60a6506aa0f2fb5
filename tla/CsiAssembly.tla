----------------------------- MODULE CsiAssembly -----------------------------
(***************************************************************************)
(* The AX (mvm) side of the CSI tool: how one channel measurement, which   *)
(* the firmware sends as a header notification followed by chunks, becomes *)
(* one netlink event.                                                      *)
(*                                                                         *)
(*   firmware --> iwl_mvm_rx_common (ops.c): queues each notification on   *)
(*   async_handlers_list --> iwl_mvm_async_handlers_wk: splices the list   *)
(*   and runs the handlers under mvm->mutex --> iwl_mvm_rx_csi_header and  *)
(*   iwl_mvm_rx_csi_chunk (vendor-cmd.c): collect the pages in             *)
(*   csi_data_entries --> iwl_mvm_csi_complete: one event to csi_portid.   *)
(*                                                                         *)
(* The firmware of this model is well behaved: it numbers the chunks of a  *)
(* measurement 0, 1, ... and finishes one measurement before the next.     *)
(* What goes wrong goes wrong between it and the handlers: an allocation   *)
(* fails in the receive path, a chunk is shorter than it says, the         *)
(* firmware restarts, the interface goes down, a client leaves.            *)
(***************************************************************************)
EXTENDS Integers, Sequences, FiniteSets

CONSTANTS
    MaxChunks,    \* IWL_CSI_MAX_EXPECTED_CHUNKS
    FieldSize,    \* values of a chunk->ctl field: 4 in version 1, 256 in version 2
    ChunkCounts,  \* how many chunks a measurement of the firmware may have
    Clients,      \* netlink ports of the user space programs
    NoPort,       \* csi_portid = 0
    MaxMeas,      \* bound: measurements
    MaxFaults,    \* bound: notifications lost or malformed
    MaxRestarts   \* bound: firmware restarts and interface restarts

ASSUME CountAssumption ==
    /\ MaxChunks \in Nat \ {0}
    /\ FieldSize \in Nat \ {0}
    /\ ChunkCounts \subseteq Nat \ {0}
    /\ {MaxMeas, MaxFaults, MaxRestarts} \subseteq Nat
ASSUME PortAssumption == NoPort \notin Clients

VARIABLES
    status,     \* "up", "down" (interface), "gone" (op mode)
    fw,         \* the firmware: measurement number, its chunks, next to send
    list,       \* mvm->async_handlers_list
    scheduled,  \* async_handlers_wk is pending
    local,      \* local_list of the running async_handlers_wk
    entries,    \* mvm->csi_data_entries
    sending,    \* iwl_mvm_send_csi_event is past its test of csi_portid
    portid,     \* mvm->csi_portid
    open,       \* the clients whose socket is open
    ref,        \* reference counts of the pages
    orphans,    \* history: pages whose op mode is gone
    purged,     \* history: measurements iwl_mvm_mac_stop threw away
    events,     \* history: the events sent
    completed,  \* history: measurements iwl_mvm_send_csi_event was called for
    faults, restarts

kernelVars == <<list, scheduled, local, entries, sending>>
portVars == <<portid, open>>
histVars == <<orphans, purged, events, completed>>
vars == <<status, fw, kernelVars, portVars, ref, histVars, faults, restarts>>

\* A notification and the page that carries it.  idx and num are the fields of
\* chunk->ctl (idx already incremented, 0 for the header); `whole' is false when
\* the packet is shorter than chunk->size says.
Measurements == 1 .. MaxMeas
Pages == Measurements \X (0 .. FieldSize)
Notifs == [meas : Measurements, seq : 0 .. FieldSize, idx : 0 .. FieldSize,
           num : 0 .. FieldSize - 1, whole : BOOLEAN]
NoNotif == [meas |-> 0, seq |-> 0, idx |-> 0, num |-> 0, whole |-> FALSE]

PageOf(n) == <<n.meas, n.seq>>

\* The indices of csi_data_entries: MaxChunks + 1 of them.
EntryIdx == 0 .. MaxChunks
NoEntries == [i \in EntryIdx |-> NoNotif]
Occupied(e) == {i \in EntryIdx : e[i] # NoNotif}

\* Reference counts after the pages in ps lose one reference each.
Put(r, ps) == [p \in DOMAIN r |-> IF p \in ps THEN r[p] - 1 ELSE r[p]]
EntryPages(e) == {PageOf(e[i]) : i \in Occupied(e)}

Idle == [hdr |-> 0, data |-> << >>]

TypeOK ==
    /\ status \in {"up", "down", "gone"}
    /\ fw \in [meas : 0 .. MaxMeas, count : 0 .. FieldSize, next : 0 .. FieldSize + 1]
    /\ list \in Seq(Notifs) /\ local \in Seq(Notifs)
    /\ scheduled \in BOOLEAN
    /\ entries \in [EntryIdx -> Notifs \cup {NoNotif}]
    /\ sending \in [hdr : 0 .. MaxMeas, data : Seq(Measurements \X (1 .. FieldSize))]
    /\ open \subseteq Clients /\ portid \in Clients \cup {NoPort}
    /\ ref \in [Pages -> Nat]
    /\ orphans \subseteq Pages
    /\ purged \subseteq Measurements /\ completed \subseteq 0 .. MaxMeas
    /\ faults \in 0 .. MaxFaults /\ restarts \in 0 .. MaxRestarts

Init ==
    /\ status = "up"
    /\ fw = [meas |-> 0, count |-> 0, next |-> 1]
    /\ list = << >> /\ local = << >> /\ scheduled = FALSE
    /\ entries = NoEntries
    /\ sending = Idle
    /\ portid = NoPort /\ open = {}
    /\ ref = [p \in Pages |-> 0]
    /\ orphans = {} /\ purged = {} /\ events = << >> /\ completed = {}
    /\ faults = 0 /\ restarts = 0

-----------------------------------------------------------------------------
(* The firmware (external) and the receive path.                           *)

FwIdle == fw.next > fw.count

\* The firmware measures a frame: it will send the header and n chunks.
Capture(n) ==
    /\ status = "up"
    /\ FwIdle
    /\ fw.meas < MaxMeas
    /\ fw' = [meas |-> fw.meas + 1, count |-> n, next |-> 0]
    /\ UNCHANGED <<status, kernelVars, portVars, ref, histVars, faults, restarts>>

\* The notification the firmware sends next, with its bit fields as the handler
\* extracts them: num = ctl & NUM_MASK, idx = (ctl & IDX_MASK) + 1.
Upcoming(ok) ==
    [meas |-> fw.meas, seq |-> fw.next, whole |-> ok,
     idx |-> IF fw.next = 0 THEN 0 ELSE ((fw.next - 1) % FieldSize) + 1,
     num |-> fw.count % FieldSize]

FwSends ==
    /\ status = "up"
    /\ ~FwIdle
    /\ fw' = [fw EXCEPT !.next = @ + 1]

\* Faulty variant: the work is scheduled only when the worker looks idle.
Enqueue_IfIdle(n) ==
    /\ list' = Append(list, n)
    /\ scheduled' = (scheduled \/ local = << >>)
    /\ ref' = [ref EXCEPT ![PageOf(n)] = @ + 1]

\* iwl_mvm_rx_common for a CSI notification: the entry takes its own reference
\* to the page, goes to the tail of the list, and the work is scheduled.
Enqueue(n) ==
    /\ list' = Append(list, n)
    /\ scheduled' = TRUE
    /\ ref' = [ref EXCEPT ![PageOf(n)] = @ + 1]

RxNotif ==
    /\ FwSends
    /\ Enqueue(Upcoming(TRUE))
    /\ UNCHANGED <<status, local, entries, sending, portVars, histVars,
                   faults, restarts>>

\* The chunk's packet is shorter than chunk->size: a fault of the transport.
RxShortChunk ==
    /\ faults < MaxFaults
    /\ fw.next > 0
    /\ FwSends
    /\ Enqueue(Upcoming(FALSE))
    /\ faults' = faults + 1
    /\ UNCHANGED <<status, local, entries, sending, portVars, histVars, restarts>>

\* kzalloc fails ("we can't do much..."), or the packet is below min_size.
RxLost ==
    /\ faults < MaxFaults
    /\ FwSends
    /\ faults' = faults + 1
    /\ UNCHANGED <<status, kernelVars, portVars, ref, histVars, restarts>>

-----------------------------------------------------------------------------
(* The worker: iwl_mvm_async_handlers_wk and the CSI handlers.             *)

\* The work starts and moves the whole list to its local one.
Splice ==
    /\ scheduled
    /\ local = << >>
    /\ scheduled' = FALSE
    /\ local' = list
    /\ list' = << >>
    /\ UNCHANGED <<status, fw, entries, sending, portVars, ref, histVars,
                   faults, restarts>>

\* Faulty variant: the pages are forgotten.
Steal_Forget(e, idx, n) ==
    IF e[idx] # NoNotif
    THEN [slots |-> NoEntries, ref |-> Put(ref, {PageOf(n)})]
    ELSE [slots |-> [e EXCEPT ![idx] = n], ref |-> ref]

\* iwl_mvm_csi_steal and the iwl_free_rxb that follows the handler: the entries
\* and the reference counts after them.  A stolen page keeps one reference, the
\* entry's.  A slot that is occupied makes it free every page it holds, and the
\* new one is not kept.
Steal(e, idx, n) ==
    IF e[idx] # NoNotif
    THEN [slots |-> NoEntries, ref |-> Put(Put(ref, EntryPages(e)), {PageOf(n)})]
    ELSE [slots |-> [e EXCEPT ![idx] = n], ref |-> ref]

\* The handler returns and the entry is removed from local_list.
Handled == local' = Tail(local)

\* iwl_mvm_rx_csi_header.
HandleHeader ==
    /\ local # << >> /\ sending = Idle
    /\ LET n == Head(local) IN
       /\ n.idx = 0
       /\ entries' = Steal(entries, 0, n).slots
       /\ ref' = Steal(entries, 0, n).ref
    /\ Handled
    /\ UNCHANGED <<status, fw, list, scheduled, sending, portVars, orphans, purged,
                   events, completed, faults, restarts>>

\* Faulty variant: one slot fewer.
InRange_Tight(idx) == idx < MaxChunks - 1

\* iwl_mvm_rx_csi_chunk, idx >= ARRAY_SIZE(csi_data_entries) - 1: ignored.
InRange(idx) == idx < MaxChunks

IgnoreChunk ==
    /\ local # << >> /\ sending = Idle
    /\ ~InRange(Head(local).idx)
    /\ ref' = Put(ref, {PageOf(Head(local))})
    /\ Handled
    /\ UNCHANGED <<status, fw, list, scheduled, entries, sending, portVars,
                   histVars, faults, restarts>>

\* The number of entries iwl_mvm_csi_complete walks, up to the first hole.
Filled(e) ==
    CHOOSE k \in EntryIdx :
        /\ \A i \in 1 .. k : e[i] # NoNotif
        /\ k = MaxChunks \/ e[k + 1] = NoNotif

\* Faulty variant: the header is not asked for.
Reportable_NoHeader(e) ==
    /\ e[1] # NoNotif
    /\ \A i \in 1 .. Filled(e) : e[i].whole

\* What iwl_mvm_csi_complete does with the entries: it needs the header and the
\* first chunk, every chunk it walks must be whole, and there must be a client.
Reportable(e) ==
    /\ e[0] # NoNotif /\ e[1] # NoNotif
    /\ \A i \in 1 .. Filled(e) : e[i].whole

Report(e) ==
    [hdr |-> e[0].meas,
     data |-> [i \in 1 .. Filled(e) |-> <<e[i].meas, e[i].seq>>]]

\* The test that ends the assembly, num == idx.
IsLast(n) == n.num = n.idx

\* iwl_mvm_rx_csi_chunk up to the test of csi_portid in iwl_mvm_send_csi_event.
\* When the entries are reported the pages stay until the event has been built.
HandleChunk ==
    /\ local # << >> /\ sending = Idle
    /\ LET n == Head(local)
           e == Steal(entries, n.idx, n).slots
           r == Steal(entries, n.idx, n).ref
       IN /\ n.idx > 0 /\ InRange(n.idx)
          /\ \/ /\ ~IsLast(n)
                /\ entries' = e /\ ref' = r
                /\ UNCHANGED <<sending, completed>>
             \/ /\ IsLast(n)
                /\ ~Reportable(e)
                /\ entries' = NoEntries /\ ref' = Put(r, EntryPages(e))
                /\ UNCHANGED <<sending, completed>>
             \/ /\ IsLast(n)
                /\ Reportable(e)
                /\ completed' = completed \cup {e[0].meas}
                /\ \/ /\ portid = NoPort
                      /\ entries' = NoEntries /\ ref' = Put(r, EntryPages(e))
                      /\ UNCHANGED sending
                   \/ /\ portid # NoPort
                      /\ entries' = e /\ ref' = r
                      /\ sending' = Report(e)
    /\ Handled
    /\ UNCHANGED <<status, fw, list, scheduled, portVars, orphans, purged, events,
                   faults, restarts>>

\* The rest of iwl_mvm_send_csi_event reads csi_portid again for the address of
\* the message (0 makes cfg80211 multicast it), and iwl_mvm_csi_complete frees
\* the pages.  Nothing is sent when the message cannot be allocated.
FinishEvent ==
    /\ sending # Idle
    /\ sending' = Idle
    /\ entries' = NoEntries
    /\ ref' = Put(ref, EntryPages(entries))
    /\ UNCHANGED <<status, fw, list, scheduled, local, portVars, orphans, purged,
                   completed, faults, restarts>>

\* Faulty variant: the entries are kept, and reported again.
SendEvent_Again ==
    /\ sending # Idle
    /\ events' = Append(events, [to |-> portid, hdr |-> sending.hdr,
                                 data |-> sending.data])
    /\ UNCHANGED <<status, fw, kernelVars, portVars, ref, orphans, purged,
                   completed, faults, restarts>>

SendEvent ==
    /\ FinishEvent
    /\ events' = Append(events, [to |-> portid, hdr |-> sending.hdr,
                                 data |-> sending.data])

EventAllocFails ==
    /\ FinishEvent
    /\ UNCHANGED events

-----------------------------------------------------------------------------
(* Restarts.  mvm->mutex is held, so no handler is half done.              *)

\* The firmware fails: the measurement it was sending is gone, the recovery
\* keeps async_handlers_list and csi_data_entries as they are.
FwRestart ==
    /\ status = "up" /\ sending = Idle
    /\ restarts < MaxRestarts
    /\ restarts' = restarts + 1
    /\ fw' = [fw EXCEPT !.next = fw.count + 1]
    /\ UNCHANGED <<status, kernelVars, portVars, ref, histVars, faults>>

\* iwl_mvm_mac_stop: the device stops and the list is purged.  The work has been
\* flushed before the mutex was taken, but notifications kept arriving until the
\* device stopped: the list need not be empty, and the worker may have spliced
\* entries and be waiting for the mutex.
MacStop ==
    /\ status = "up" /\ sending = Idle
    /\ restarts < MaxRestarts
    /\ restarts' = restarts + 1
    /\ status' = "down"
    /\ fw' = [fw EXCEPT !.next = fw.count + 1]
    /\ list' = << >>
    /\ ref' = Put(ref, {PageOf(list[i]) : i \in 1 .. Len(list)})
    /\ purged' = purged \cup {list[i].meas : i \in 1 .. Len(list)}
    /\ UNCHANGED <<scheduled, local, entries, sending, portVars, orphans, events,
                   completed, faults>>

\* cancel_work_sync at the end of iwl_mvm_mac_stop has waited for the worker.
WorkerDone == ~scheduled /\ local = << >> /\ sending = Idle

MacStart ==
    /\ status = "down"
    /\ WorkerDone
    /\ status' = "up"
    /\ UNCHANGED <<fw, kernelVars, portVars, ref, histVars, faults, restarts>>

\* iwl_op_mode_mvm_stop frees the mvm and not the pages in csi_data_entries.
OpModeStop ==
    /\ status = "down"
    /\ WorkerDone
    /\ status' = "gone"
    /\ orphans' = orphans \cup EntryPages(entries)
    /\ entries' = NoEntries
    /\ portid' = NoPort
    /\ UNCHANGED <<fw, list, scheduled, local, sending, open, ref, purged,
                   events, completed, faults, restarts>>

\* A new op mode: iwl_op_mode_mvm_start begins with zeroed memory.
OpModeStart ==
    /\ status = "gone"
    /\ status' = "down"
    /\ UNCHANGED <<fw, kernelVars, portVars, ref, histVars, faults, restarts>>

-----------------------------------------------------------------------------
(* Clients.                                                                *)

\* iwl_mvm_vendor_csi_register: the last caller gets the events.
CsiRegister(c) ==
    /\ status # "gone"
    /\ open' = open \cup {c}
    /\ portid' = c
    /\ UNCHANGED <<status, fw, kernelVars, ref, histVars, faults, restarts>>

\* The socket closes: iwl_mvm_netlink_notifier, which takes no mvm->mutex.
NetlinkRelease(c) ==
    /\ c \in open
    /\ open' = open \ {c}
    /\ portid' = IF portid = c THEN NoPort ELSE portid
    /\ UNCHANGED <<status, fw, kernelVars, ref, histVars, faults, restarts>>

-----------------------------------------------------------------------------
Receive == RxNotif \/ RxShortChunk \/ RxLost
Worker == Splice \/ HandleHeader \/ IgnoreChunk \/ HandleChunk
          \/ SendEvent \/ EventAllocFails
Lifecycle == FwRestart \/ MacStop \/ MacStart \/ OpModeStop \/ OpModeStart

Next ==
    \/ \E n \in ChunkCounts : Capture(n)
    \/ Receive
    \/ Worker
    \/ Lifecycle
    \/ \E c \in Clients : CsiRegister(c) \/ NetlinkRelease(c)

Spec == Init /\ [][Next]_vars

\* The firmware sends what it has begun, the kernel runs the scheduled work.
FairSpec == Spec /\ WF_vars(RxNotif) /\ WF_vars(Worker)

-----------------------------------------------------------------------------
(* Properties.                                                             *)

\* The chunks 1 .. k of measurement m, in order.
Chunks(m, k) == [i \in 1 .. k |-> <<m, i>>]

\* How often the kernel holds page p.
Holders(p) ==
    Cardinality({i \in 1 .. Len(list) : PageOf(list[i]) = p})
    + Cardinality({i \in 1 .. Len(local) : PageOf(local[i]) = p})
    + Cardinality({i \in Occupied(entries) : PageOf(entries[i]) = p})
    + (IF p \in orphans THEN 1 ELSE 0)

\* Page references are exact through steal, purge, the "confused" path and the
\* completion: no page is freed twice or under a reader, and the only pages that
\* are never returned are the ones an op mode leaves in csi_data_entries.
RefExact == \A p \in Pages : ref[p] = Holders(p)

\* An event never mixes measurements: header and data belong together, and the
\* data is a gapless beginning of the measurement, also after a lost
\* notification and across firmware and interface restarts.
OneMeasurement ==
    \A k \in 1 .. Len(events) :
        events[k].data = Chunks(events[k].hdr, Len(events[k].data))

\* Measurements are reported at most once and in the order of capture.
ReportedOnceInOrder ==
    \A j, k \in 1 .. Len(events) : j < k => events[j].hdr < events[k].hdr

\* Nothing in flight between the firmware and the handlers.
Quiet == FwIdle /\ list = << >> /\ WorkerDone

\* A lost or short notification and a restart cost a bounded number of
\* measurements: its own, and the next one, whose notifications meet the slots
\* the first one left occupied.  The assembly then recovers by itself.  (Those an
\* interface going down purges from the list are not counted.)
LossBounded ==
    Quiet => Cardinality((1 .. fw.meas) \ (completed \cup purged))
             <= 2 * (faults + restarts)

\* Every measurement the firmware has sent completely, with nothing lost and no
\* restart, is reported in the end, although schedule_work races with the running
\* worker (iwl_mvm_rx_common, iwl_mvm_async_handlers_wk).  It needs fewer chunks than
\* MaxChunks: the last of MaxChunks chunks is refused by iwl_mvm_rx_csi_chunk.
EveryMeasurementReported ==
    \A m \in Measurements :
        (fw.meas = m) ~> (m \in completed \/ faults + restarts > 0)
=============================================================================
