# A verification project for IAX

IAX extracts channel state information (CSI) from Intel Wi-Fi cards. A modified
`iwlwifi` driver collects CSI reports from the firmware and hands them to user
space, two collectors write them to a file or a TCP connection, and Matlab classes
read them back. This directory holds TLA+ models of those parts, the
configurations TLC checks them with, and TLAPS proofs about each of them.

Paths below are relative to the repository; `iwlwifi/` abbreviates
`src/iwlwifi/iaxcsi-iwlwifi/drivers/net/wireless/intel/iwlwifi/`.

## 1. The system

    5300 firmware -> dvm receive path -> connector.c ring -> work item -> netlink -> incsi.cpp
    debugfs csi_* -> csi_cfg -> host command queue -> AX firmware
    AX firmware   -> receive buffers -> mvm receive path -> async handlers -> csi_data_entries -> netlink -> iaxcsi.cpp
    incsi.cpp, iaxcsi.cpp -> recording (file)        -> file_handler.m   -> read
    incsi.cpp, iaxcsi.cpp -> TcpClient (two threads) -> socket_handler.m -> read_next

| component | state | operations | what is hard | what makes it correct |
|---|---|---|---|---|
| dvm connector (`iwlwifi/dvm/connector.c`) | ring `cn_msg_buf`, two indices, `priv`, one work item, all global | enqueue from the receive path, send all from the work item, register, unregister | the lock is given up between reading the indices, filling the slot and publishing it; the work item races with `queue_work`; `priv` outlives devices | no use after free, no leak, order, no report left behind, nothing thrown away at exit |
| mvm CSI assembly (`iwlwifi/mvm/vendor-cmd.c`, `ops.c`) | `async_handlers_list`, `csi_data_entries`, page references, `csi_portid` | queue a notification, run handlers, complete a measurement, register and release a client | the worker splices its list before it takes the mutex; entries survive restarts; the notifier takes no mutex | exact page references, one measurement per event, bounded loss |
| CSI header expansion (`iwlwifi/mvm/flq-mvm.c`) | channel and time of the last frame | fill the header | the channel is that of the last frame received | - |
| CSI configuration (`iwlwifi/mvm/debugfs.c`, `utils.c`, `mac80211.c`, `ops.c`) | `csi_cfg`, status bits of a restart | debugfs writes, CSI command, firmware error, restart, interface up and down | settings are written without the mutex, commands fail, restarts lose the firmware's copy and may fail or meet another failure, status bits are tested and set without a lock | firmware and driver agree, no failure is forgotten, measuring is taken up again |
| PCIe receive buffers (`iwlwifi/pcie/rx.c`) | per queue `rx_used`, `rx_free` and ring; `rb_allocator` with its lists and atomic counters | poll, reuse, post, claim, emergency refill, background allocation, restart | counters are changed before or after the lists they count, without the lock; one allocator for all queues | every claim is backed by buffers, none is lost, the ring never runs dry |
| host commands (`iwlwifi/queue/tx.c`, `pcie/tx-gen2.c`, `pcie/tx.c`) | command queue, `STATUS_SYNC_HCMD_ACTIVE`, `STATUS_FW_ERROR` | send, wait, time out, give up, hand over a response, reclaim, error interrupt, restart | late answers, the caller gives up without the lock, left-over interrupt threads, indices of two moduli | success means answered, every command returns, the ring is in step |
| TCP client (`src/csi/iaxcsi/cpp/tcp_client.h`) | `needReconn_`, `sfd_` | `send`, `reconnThread_` | unlocked tests, dropped data, descriptors | whole frames, reconnection |
| collectors (`iaxcsi.cpp`, `incsi.cpp`) | receive buffer | receive, frame, write, send | framing in one or in two sends | a stream that can be cut into frames |
| Matlab socket reader (`socket_handler.m`, `buffer.m`) | `sbuf` | callback on bytes, blocking read | `sbuf` outlives connections and handlers | in step with the frames |
| Matlab file reader (`file_handler.m`, `csi_handler_base.m`) | `sbuf`, `is_file_end` | block read, read loop | block and record boundaries, cut recordings | all complete records |
| CSI arithmetic, injection, scripts, 5300 utilities | - | - | - | not modelled, see section 8 |

Components interact through calls (receive path to connector), deferred work (work
item, asynchronous handlers), netlink sockets, TCP, and files. `PROJECT.json` lists
the components with their sources, the hazards with their lines, and for every
definition the lines it translates.

## 2. Modules

| module | models | composes |
|---|---|---|
| `ReportQueue` | what the connector promises: a bounded FIFO | - |
| `Connector` | `dvm/connector.c` with the life cycle in `dvm/main.c` and `dvm/mac80211.c` | instantiates `ReportQueue` |
| `ConnectorProofs` | theorems about `Connector`, and that it implements `ReportQueue` | extends it |
| `CsiAssembly` | the CSI handlers of `mvm/vendor-cmd.c`, the handler queue of `mvm/ops.c`, restarts in `mvm/mac80211.c` | - |
| `CsiStream` | collector, `TcpClient` and socket reader | - |
| `CsiReader` | `file_handler.m`, `buffer.m`, the read loop | - |
| `CsiConfig` | the debugfs CSI files, the CSI command, restarts in `mvm/ops.c`, `mvm/mac80211.c` and mac80211's `main.c`, `util.c` | - |
| `RxBuffers` | receive buffers and their allocator, `pcie/rx.c` | - |
| `HostCommand` | the command queue and synchronous commands, `queue/tx.c`, `pcie/tx-gen2.c`, `pcie/tx.c`, `pcie/rx.c` | - |
| `CsiAssemblyProofs`, `CsiStreamProofs`, `CsiReaderProofs`, `CsiConfigProofs`, `RxBuffersProofs`, `HostCommandProofs` | theorems about the module of that name | extend it; the last two also `Remainders` |
| `Remainders` | lemmas about `%` and `\div` | - |
| `MC...` | instances for TLC | extend the above |

Operators named `X_Something` are faulty variants of `X`: no module uses them, they
serve to show that a property fails when the code is wrong in that way.

### Connector

A step ends where the code leaves a critical section or touches shared state outside
one. A card's receive path runs `SendMsg` (allocation, and the first critical section
of `connector_enqueue_msg`, which copies both indices), then `Drop` (ring full, the
message is freed) or `Store` (slot written without the lock), `Publish` (second
critical section) and `QueueWork` (`queue_work` on `priv->workqueue`, after the
unlock). The work item runs `BeginWork` (copy of the indices), `Send` and `Free` for
every slot, and `EndWork` (the read index is moved). `Insmod`, `Register`,
`RegisterFails` and `Exit` are `iwl_init` and `iwl_exit`; `OpModeStart`, `MacStart`,
`StartFails`, `AliveStart`, `Restart`, `MacStop`, `FlushDone` and `OpModeStop` are the
life of a card. Each op mode has a `struct iwl_priv` of its own, and the static `priv` is not reset
when it is freed: `stale` says that `priv` points to a freed one, from `OpModeStop` to the next `AliveStart`, and
`alive` which cards have come alive since their op mode was started. A report that uses a freed
`iwl_priv` ends the model (`UseFreedPriv`), as what follows is undefined. `MacStop` happens after the receive path has been synchronised (no
handler of the card is running), and `FlushDone` after its work queue is empty.

Message contents are left out: a message is its allocation, and `heap` records whether
it is live. `published` and `sent` are history variables.

### CsiAssembly

The firmware (external) is well behaved: it numbers the chunks of a measurement in
order. `RxNotif` queues a notification with a reference on its page; `RxLost` and
`RxShortChunk` are the failed allocation and the packet shorter than it claims.
`Splice` is the beginning of the worker, `HandleHeader`, `IgnoreChunk` and
`HandleChunk` are the handlers under the mutex, with `iwl_mvm_csi_steal` and
`iwl_mvm_csi_complete`. Completion tests `csi_portid` in one step and sends in
another (`SendEvent`, `EventAllocFails`), because the netlink notifier
(`NetlinkRelease`) can run between them. `FwRestart`, `MacStop`, `WorkerDone`,
`MacStart`, `OpModeStop` and `OpModeStart` are the restarts.

### CsiStream

A frame is a length field and `Body` further fields. `Receive` gives it, in the parts
the collector sends with one call each, to `TcpClient::send`: `TestNeed` is the
unlocked test of `needReconn_`, `SysSend`, `SysSendVanishes` and `SysSendFails` the
outcomes of `::send`. `reconnThread_` runs `Wait`, `Socket` or `SocketFails`, `Connect`
or `ConnectFails`, `SetConnected`, `Sleep`. The network (`Lose`, external) cuts the
stream at any point. `ReaderStart` is the creation of a handler, in a new Matlab session
or in the one of the reader before, whose `sbuf` it then inherits. The reader runs `Deliver` (the callback), `ReadLen` and
`ReadBody` (`read_next`). The callback is called when `Trigger` fields are there, which stands for the 4
bytes of `configureCallback`: fewer stay on the connection. What it makes of a field that is no length field is left
open. What `read_st` makes of a message is not modelled: `got` holds every message
`read_next` cuts out, also those `read_st` would skip because of their first field.

### CsiReader

A recording is chosen in the initial state: the byte at which each of `MaxRecs` records ends
(`ends`), and the byte at which the collector was stopped (`cut`), together with a block size
and a `read_count`. Byte `k` of record `r` of handler `h` is `<<h, r, k>>`, so that the file is a function
of positions, and what a handler returns can be told from what it should return. `Open` is the constructor,
which reads a block, `Read` the call, `Test` the loop condition, `Fill` the read-ahead
(`2*len`), `TakeHead` and `TakeBody` the two reads of `read_next`. A short read raises
an exception in `endian` or in `read_st`, which ends the call: the `try` blocks of
`read_next` are empty. The branch in which `read_st` returns nothing for a record (a header of
another length, `csi_handler_base.m:105`) depends on contents and is left out: the collector
writes only events whose header has the length expected (`iaxcsi.cpp:229`). Calls do not overlap, as Matlab runs one at a time.

### CsiConfig

Writes of the files are programs: `WriteEnabled`, `WriteLimit` and `WriteAddresses`
put a sequence of steps into `todo[w]`, and each step (`Load`, `StoreFlag`,
`StoreValue`, `StoreNum`, `StoreAddr`, `TestNoop`, `Lock`, `TestRunning`,
`BuildScalars`, `BuildAddrs`, `Transmit`, `Unlock`) is an action, since only
`csi_enabled` takes `mvm->mutex`. The restart worker uses the same steps for
`iwl_mvm_send_csi_cmd`. `Transmit` may fail on a live firmware too, for want of memory or of
room in the queue, and none of the callers does anything about it; a full queue runs
`iwl_mvm_nic_restart` in the caller's thread. A firmware error (`NicError`) runs it in the thread of the
interrupt. It holds no lock, so every test and change of a status bit in it is an action
(`NicTestRunning`, `NicTestStarting`, `NicTestInRestart`, `NicTestRequested`, `NicSetRequested`,
`NicAskRestart`), and `nic` says where a thread is. It may end without a restart being asked for
(`gaveUp`): there is no memory for the reprobe, the device is being started, or the
debug configuration of the firmware wants none, on which it depends on AX cards (`ops.c:2125-2134`).

`iwl_mvm_mac_start` is called for an interface that is brought up (`InterfaceUp`) and by the restart
work (`BeginRestart`, `RestartDevice`). Both run `ConvertRequest`, `LoadFirmware` and `FinishStart` with the
mutex; `RetryStart` and `StartFails` are its failures, `RestartComplete` is the end of a restart.
`InterfaceDown` and `StopDevice` are `iwl_mvm_mac_stop`, and `Reprobe` the new device. `fwCfg` is what
the firmware has been told.

### RxBuffers

Buffers are counted, not named: those the device may fill (`hw`), per queue those
written to the ring but not yet told, in `rx_free` and in `rx_used`, and those in the
allocator's lists. A poll of queue `q` runs
`SampleRequests` (with `EnterEmergency`), then for every notification `HandleReused`
or `HandleStolen`, the posting of a request in the code's order (`PostMove`,
`PostRequest`, `QueueWork`), `Claim` (`atomic_dec_if_positive`), `TakeBatch`,
`Recycle` or `RecycleEmergency`, and at the end `PollEnds`. The work item runs
`WorkBegins`, `NextBatch`, `SwapEmpty`, `AllocateBatch`, `CountServed`,
`LookForMore`, `SpliceBatch`, `AnnounceReady`, `ReturnUnused`. `StopDevice`,
`PollsDone`, `WorkDone` and `RxInit` are the restart. `AllocFails` says whether the
page allocations for the queues may fail, those at the start included; the worker's own are retried, as in
the code.
Properties that add up the buffers of all queues do so with `SumOver`, the size of a
disjoint union, instead of a fold: facts about cardinalities are in the prover's
library, facts about folds would need induction.

### HostCommand

Synchronous commands are sent under `mvm->mutex`, so that there is one caller, with
one step between any two accesses to what it shares: `SendSync`, `SetActive`,
`EnqueueSync` or `NoSpaceSync`, `Woken` or `Timeout`, after a time-out `SyncNmi` and
`NmiError`, then `Check`, `Cancel`, `FreeResponse`. Asynchronous commands
(`SendAsync`) come from anywhere. A response is handled in three steps
(`BeginResponse` tests `CMD_WANT_SKB`, `GiveResponse` writes `resp_pkt`,
`CompleteResponse` reclaims and wakes), since the caller takes the flag back without
`txq->lock`. `IrqBegins`, `IrqError`, `IrqWakes` are the interrupt thread, `StopDevice`,
`FreeQueues`, `StartFw` and `FwAlive` the restart, with the wait for left-over interrupt
threads (`IrqDone`). The firmware (external) answers in order, hangs or fails. The ring
index counts modulo `TfdSize`, entries are found modulo `Window`.

## 3. Runs that pass

| run | instance | checks |
|---|---|---|
| `connector` | one card, ring of 3, 4 messages | `TypeOK`, `MemorySafe`, `NoLeak`, `InOrder`, `PrivAlive`, `ExitLosesNothing`; `RingInv`, the inductive invariant of the proofs; `EventuallySent`; `ImplementsQueue`: `Connector` implements `ReportQueue` with capacity `N - 1`, where the queue is what has been published and not sent |
| `csi_restart` | 3 measurements of 1 or 2 chunks, 3 slots, 2 clients, 1 restart | `RefExact`, `OneMeasurement`, `ReportedOnceInOrder` |
| `csi_loss` | 3 measurements of 1 to 3 chunks, 5 slots, 1 lost or short notification | `RefExact` and `OneMeasurement` again, `LossBounded`, and `EveryMeasurementReported` as long as nothing was lost |
| `stream` | 3 frames of 3 fields sent by one call, callback at 2 fields, 4 sockets, 2 losses, 2 readers | `WholeFrames`, `FramesInOrder`, `SocketStable`, `Reconnects`, `SentIsRead` |
| `reader` | recordings of up to 3 records of up to 3 bytes, cut at every byte, blocks of 1 to 7 bytes | `ReadsAll`, `FailsOnlyAtCut`, `Terminates` |
| `csi_config` | 1 writer, 3 settings, filter of 2 addresses, 2 writes, 2 firmware failures or retried starts, 2 interface openings | `FirmwareFollows`, `DisabledIsSilent` and `FailureAnswered` in states without a running handler; `MeasuresAgain` |
| `rx_queues` | 2 queues of 4 buffers, claim of 2, failing page allocations, 1 restart | `BatchCovered` (the worker's `BUG_ON`), `ReadyIsBacked`, `RingsFit`; `RequestsServed` |
| `rx_supply` | 1 queue with the driver's claim of 8, post of 2, write step of 8, a ring of 32 | `NoneLost`, `NotDry` |
| `host_command` | window of 3 in a ring of 6, 3 synchronous and 3 asynchronous commands, 1 fault, 1 restart | `OkIsAnswered`, `RingInStep`, `NoStaleSource`; `SyncReturns`, `Drains` |

Every module has a `TypeOK` that says what its variables hold. It is part of the run
`connector`, and proved for `Connector`, `RxBuffers` and `HostCommand`; in the other modules it
holds too in the instances above, and the runs are spent on the rest.

Why the bounds are enough. A ring of 3 has room for 2 messages, so that four messages
fill it, wrap both indices and meet the full ring; the proofs remove this bound. Three
measurements are one that is disturbed, one that meets its remains and one that shows
the recovery; a measurement of two chunks has a first, a last and a missing one. Slot
counts of 3 and 5 put the maximum below and above the chunk counts. Two losses and four
sockets allow a reconnect after a reconnect and a failed connect before it; a frame
of three fields can be cut before, within and after. Blocks of 1 to 7 bytes and records
of 3 to 5 bytes give every relation of record, header and block boundary, including
recordings that are a multiple of the block. A callback at two fields of three leaves the end of
the last frame, or of one cut off, on the connection. Two writes are one that enables and one that changes a setting,
disables, or tries again; two failures are a failure within the restart after
another, two openings an interface that has been down. Two queues are the least that
compete for the allocator; a claim of two in a ring of four lets a queue have a
request pending and a batch ready. In `rx_supply` the sizes are the code's and only
the ring is smaller, four claims: every counter the code compares takes all its
values. Six commands go once around a ring of six and
twice around a window of three. Two commands may be outstanding without filling it, three
fill it: `RingInStep` and `Drains` except only the latter. One fault is enough for a hang,
a time-out and the failure the time-out provokes, also after a restart.

Deadlock is checked in `Connector`, `CsiAssembly` and `rx_supply`, where it would be
queue and allocator waiting for one another. It is not checked in the other runs of the
driver, whose writes, commands, faults and restarts are bounded and may be used up. It is not checked in `CsiStream`,
where the collector may have ended and the reader be gone, and in `CsiReader`, where
all calls have returned: both really may stop.

Fairness. `Connector`: the kernel runs a pending work item, and a receive handler or a
work function that has begun goes on; nothing is assumed of life cycle steps.
`CsiAssembly`: the firmware sends the rest of a measurement it has begun, and scheduled
work is run. `CsiStream`: both threads of the collector run, bytes on a connection
arrive, and the user's loop over `read_next` goes on; nothing is assumed of readers
starting or of captures ending. `CsiReader`: a call that has begun goes on. `CsiConfig`:
a write that has begun goes on, and so does `iwl_mvm_nic_restart`, queued restart and reprobe work is
run, and a start or stop that has begun comes to an end; which end, and whether a command is sent
or refused, is left open, and nothing is assumed of writes, failures and the interface. `RxBuffers`: polls and allocator work
that have begun go on and queued work is run; the firmware need not fill a buffer.
`HostCommand`: the caller goes on, time passes, pending responses and interrupts are
handled, a restart that has begun is finished, and a firmware that is running (neither
hung nor failed) answers. All of it is weak fairness.

## 4. Runs that show a disagreement

Each checks one property that a text of the repository states and the code does not
keep; `PROJECT.json` quotes the texts.

- `connector_two_cards`: two 5300 cards share the ring without a lock around slot and
  index; one of two messages stored in the same slot is never sent and never freed.
- `stream_split`: `incsi` sends length and message with two calls; if the connection
  comes up between them the stream begins with a message without its length.
- `reader_two`: the property `sbuf` of `io_handler_base` has the default value
  `buffer()`, a handle that Matlab creates once. All handlers of a session share it: of
  two open recordings the first reader returns both.

Further disagreements, found with TLC and not kept as runs; most are cases that a
property of a passing run excepts, in its bounds or by a history variable:

- With `EarlyUp = TRUE`, `connector` violates `NoLeak`: `iwl_init` registers the op mode
  before the connector, whose registration resets the indices (`connector.c:181`); what
  an interface that is already up has queued is forgotten.
- The static `priv` is never reset (`connector.c:50`). When a card is bound again its op mode has a
  new `iwl_priv`, and `priv` points to the freed one until `iwl_alive_start` has sent the
  command of `iwlagn_commit_rxon` and calls `iwl_connector_set_priv` (`dvm/main.c:872-880`). A report in
  between queues work on the freed work queue (`connector.c:93`). `PrivAlive` without `d \in alive` is
  violated by this trace.
- With `MaxChunks` among `ChunkCounts`, `csi_loss` violates `EveryMeasurementReported`.
  `mvm.h:1204` says "we store up to some number of chunks, plus the first
  notification" and gives `csi_data_entries` one place more than
  `IWL_CSI_MAX_EXPECTED_CHUNKS`; `iwl_mvm_rx_csi_chunk` (`vendor-cmd.c:2185`) refuses
  `idx >= ARRAY_SIZE(csi_data_entries) - 1` although `idx` counts the header: the last
  chunk of a measurement of the maximal size is refused, and it is never reported.
- `iwl_mvm_send_csi_event` tests `csi_portid` and reads it again for the address; a
  client that leaves in between makes the event a multicast, against "unicast
  reporting to the calling socket" (`iwl-vendor-cmd.h:88`).
- The worker that outlives `iwl_mvm_mac_stop` does not "discover that its list is now
  empty" (`mac80211.c:1391`): it spliced the list before it waited for the mutex.
- After an interface has gone down and up with `csi_enabled` 1 the firmware does not
  measure until the next write; `untold` marks these states in `CsiConfig`.
- A command that the driver cannot send changes nothing about `csi_cfg`: after a refused `csi_enabled` 0 the
  firmware goes on measuring, and writing 0 again is the no-op of `debugfs.c:2150`; after a refused command in
  `iwl_mvm_restart_complete` (`mac80211.c:1280`) it does not measure with `csi_enabled` 1. Without
  `~refused` TLC finds `DisabledIsSilent`, `FirmwareFollows` and `MeasuresAgain` violated.
- "HW restart already requested, but not started" (`ops.c:2096`) need not be so. The bit
  is set outside any lock: the interrupt's thread may set it after the interface has been
  stopped or the start has failed, or during a restart, in which case `__iwl_mvm_mac_stop` clears
  only one of the two bits; and on AX cards it is set without a restart being
  asked for unless the debug configuration wants one (`ops.c:2125-2134`), so that the next failure is taken for one that is
  being answered. `gaveUp` marks the last case.
- "Starting mac, retry will be triggered anyway" (`ops.c:2069`) is said of a firmware that fails
  between the end of its load and `clear_bit` (`mac80211.c:1254`) too, and then nobody tries again: the
  interface is up on a dead firmware (`gaveUp`).
- With two writers of `csi_enabled`, one may pass the no-op test before the other has
  taken the mutex, and the firmware is left measuring with `csi_enabled` 0
  (`debugfs.c:2150`). The same happens without a second write of `csi_enabled`: a settings file
  loads and stores `csi_cfg.flags` without the mutex and can undo the enable bit that
  `csi_enabled` has stored in between; and a filter written between the command and the
  unlock of `csi_enabled` is taken for told. `csi_config` has one writer at a time, and the
  theorems about `FirmwareFollows` and `DisabledIsSilent` assume one (`OneWriter`).
- With `AllocFails = TRUE`, `rx_supply` violates `NoneLost`: buffers left over by an
  emergency, or by the first fill (`rx.c:448`), stay in `rx_used`, outside the allocator's count. With two queues that
  share eight buffers at a claim of two, `NotDry` is violated: the property
  depends on the ratio of ring, claim and queues, which `RingLarge` states (section 5). The AX
  cards have 2048 buffers or more, and are on the safe side of it.
- A command queue whose window is completely in use never drains: read and write index
  are then equal modulo `n_window`, `iwl_txq_used` finds no entry in use, and
  `iwl_pcie_cmdq_reclaim` returns without moving `read_ptr`. Later commands fail with
  `-ENOSPC` until a restart, which this asks for only under the condition named above. `iwl_txq_space` says of a window
  smaller than the ring "there is no need to reserve any queue entries for this
  purpose" (`queue/tx.c:685`). The history variable `full` marks the case, and `RingInStep`
  and `Drains` except it.
- A handler that has tested `CMD_WANT_SKB` (`pcie/tx.c:1211`) writes to `resp_pkt` of a
  caller that may have given up and returned in between, since the caller takes the
  flag back without the lock (`queue/tx.c:1828`). `NoStaleSource` covers the
  handlers that begin later.

Seen, and not the subject of a run because nothing in the repository promises
otherwise: a lost notification followed by a restart in the next measurement can make
one event of two measurements, and so can two losses in three measurements (`OneMeasurement` is
proved for one disturbance; TLC finds none with two restarts and no loss in four measurements);
measurements of `MaxChunks` chunks leave the slots occupied, since their last chunk is refused
as above, and three of them followed by one of a single chunk make a mixed event without
any loss; the op mode
is freed with pages in `csi_data_entries` (`orphans`); after a restart within a
measurement the branch for a "confused" firmware is taken although the firmware does
everything right, at the price of a measurement; `TcpClient` never closes a
socket, so that the collector ends after enough failed attempts (`SocketFails`); the
end of the last frame sent stays unread when it has fewer bytes than the callback is configured for
(`socket_handler.m:79`), which is why `SentIsRead` is about frames that are followed by enough; a
connection that ends within a frame leaves the reader, or the next reader of the same
Matlab session, out of step (`torn`);
an exception at the end of a cut recording loses what `read` had collected.

## 5. What is proved

Every theorem is about `Spec` for every value of the constants that satisfies the
assumptions of its module; bounds on counters (`MaxWrites`, `MaxFaults` and the like) are
arbitrary numbers there. The instances of section 3 satisfy the same assumptions, since
TLC evaluates them. In each module an inductive invariant is proved first (`Invariance`,
`RingCorrect`), and the properties of the runs follow from it.

| theorem | states | assumes |
|---|---|---|
| `ConnectorProofs`: `TypeCorrect` | `TypeOK` | |
| `ConnectorProofs`: `RingCorrect`, `NeverUsesFreed`, `NothingLeaks`, `SentInOrder`, `ExitIsClean`, `PrivStaysAlive` | `RingInv`, `MemorySafe`, `NoLeak`, `InOrder`, `ExitLosesNothing`, `PrivAlive` | `OneCard` |
| `ConnectorProofs`: `ConnectorIsQueue` | `ImplementsQueue` | `OneCard` |
| `RxBuffersProofs`: `BatchesCovered`, `ReadyBacked`, `RingsNeverOverrun`, `TypeCorrect` | `BatchCovered`, `ReadyIsBacked`, `RingsFit`, `TypeOK` | |
| `RxBuffersProofs`: `NoBufferLost` | `NoneLost` | `~AllocFails` |
| `RxBuffersProofs`: `NeverDry` | `NotDry` | `~AllocFails`, `RingLarge` |
| `HostCommandProofs`: `SuccessIsAnswered`, `QueueInStep`, `SourceIsAlive`, `TypeCorrect` | `OkIsAnswered`, `RingInStep`, `NoStaleSource`, `TypeOK` | |
| `CsiAssemblyProofs`: `ReferencesExact`, `EventsInOrder` | `RefExact`, `ReportedOnceInOrder` | |
| `CsiAssemblyProofs`: `EventsUnmixed` | `OneMeasurement`, while `faults + restarts <= 1` | `CountsFit` |
| `CsiAssemblyProofs`: `LossIsBounded` | `LossBounded` | `CountsFit` |
| `CsiStreamProofs`: `FramesWhole`, `FramesOrdered` | `WholeFrames`, `FramesInOrder` | `~Split` |
| `CsiStreamProofs`: `SocketIsStable` | `SocketStable` | |
| `CsiReaderProofs`: `ReadsEverything`, `FailsAtCutOnly`, `OwnRecordsAlone` | `ReadsAll`, `FailsOnlyAtCut`, `OwnRecords` | `OneHandler` |
| `CsiConfigProofs`: `FailuresAnswered` | `FailureAnswered` | |
| `CsiConfigProofs`: `DisabledStaysSilent`, `FirmwareInStep` | `DisabledIsSilent`, `FirmwareFollows` | `OneWriter` |

None of the assumptions in the last column can be dropped: without it TLC finds a
property of its row violated (section 4: `NoLeak` without `OneCard`, `WholeFrames` without
`~Split`, both properties without `OneWriter`, `OwnRecords` without `OneHandler`, `NoneLost` and
`NotDry` without `~AllocFails`, `NotDry` without `RingLarge`, `OneMeasurement` without `CountsFit` or after two
disturbances; `LossBounded` without `CountsFit`, as a measurement of `MaxChunks` chunks is never
completed). They name a configuration of the system. The passing runs of these properties are in
it, with two exceptions that make the run cover what the theorem does not: `csi_restart` has
measurements of `MaxChunks` chunks, too few of them for a mixture, and the ring of `rx_supply` is smaller than
`RingLarge` asks for.

### Connector

`ConnectorProofs`, for every ring size `N > 1`, every set of messages, and every value
of the other constants that satisfies the assumptions named below.

- `TypeCorrect`: `TypeOK` is an invariant, for any number of cards; in particular no
  index leaves `cn_msg_buf`. It is proved from `TypeInv`, which adds to `TypeOK` that
  a producer past its first step has a message.
- `RingCorrect`: `RingInv` is an invariant.
- `NeverUsesFreed`, `NothingLeaks`, `SentInOrder`, `ExitIsClean`, `PrivStaysAlive`:
  `MemorySafe`, `NoLeak`, `InOrder`, `ExitLosesNothing` and `PrivAlive`.

All but the first assume `OneCard`: one card, and no interface up before `iwl_init`
returns. Neither can be dropped: see `connector_two_cards` and the first item of the
list in section 4. Further assumptions are `SizeAssumption` (`N > 1`), `NullAssumption` (the
null pointer is no device and no message) and `EarlyUpAssumption`.

None of the properties is inductive. `RingInv` relates the ring to the
history: `RingOK` says that the occupied slots hold the last published messages,
oldest first; `WorkerOK` that the worker is between the two indices and that what
has been sent is what was published before its position; `HeapOK` that messages are
freed exactly up to that position and other live ones belong to the producer;
`ProducerOK` that the producer's copy of the write index is current and its
copy of the read index at most behind, which makes the stale test for a full ring
safe; `LifeOK` who can be active in which state of card and module, and that whoever
leaves unseen messages behind has queued the work item or is about to. The argument
measures positions as distances from the read index (`Dist`, `Slot`), for which a
group of lemmas replaces the modular arithmetic of the code. There is one lemma per
kind of step; `RingStep` puts them together.

The last part of the module proves `ConnectorIsQueue`: `OneCard /\ Spec => ImplementsQueue`. The
queue is `published` without what is in `sent`. From `RingInv`, `Publish` appends to it
(and finds room, although the test for a full ring is stale), `Send` takes its
head, and no other step changes it.

### RxBuffers

For any finite number of queues, any claim, post and write step with `POST < CLAIM` and a
ring that is a whole number of write steps (`RxAssumption`; the code has 8, 2, 8 and powers
of two). The difficulty is that the counters are changed before or after the lists they
count. `IInv` says what the difference is at every step of every poll and of the
worker:

- `Shape`: the local state of polls and worker, without sums;
- `ReadyInv`: `rbd_allocated` is `CLAIM` for every ready request, every request a poll has
  obtained but not collected, and the one the worker has spliced but not announced;
- `CoverInv`: the empty buffers cover every request not served, including what the
  queues still lack of requests posted after `POST` of `CLAIM` buffers; so the worker's
  `BUG_ON` is not reached;
- `CountInv`: `used_count` never promises more than was given away beyond the initial
  pool, and exactly that much if page allocations do not fail;
- `Conserved`: every buffer is in one place.

A step changes one queue, so that the sums over queues change by the difference at that
queue (`SumOver` lemmas, from the cardinality theorems); remainders of `used_count` by the
lemmas of `Remainders`.

`NeverDry` needs a second invariant, `DryInv`, since `IInv` allows a queue to count any number of
buffers. Its parts:

- `AskedInv`: the requests that wait, are being served or are ready are exactly those the queues
  have posted and not claimed, with the exception of a poll that is about to post;
- `PendingInv`: at most `Low`, the number below half a ring, and one for every queue are waiting. A
  poll tests the number at the head of its loop and posts later, so all queues may pass the test
  together and each add one;
- `ClaimInv`: the batches the queues have not claimed are at most one more than that, plus one for
  every poll that has a batch and has not yet tried to claim it. This is where a failing claim
  counts: it fails only if no request is ready, so all are waiting or in the hands of the worker;
- `RestInv`: a poll leaves less than a write step untold, and no free buffer.

Without polls, what is missing from the ring is counted (`CountInv`), and the bounds above make it
smaller than the ring if

    RingLarge == Cardinality(Queues) * (2 * CLAIM + WriteStep - 2) + CLAIM < QueueSize - (QueueSize \div 2)

With the code's claim and write step of 8 this is `22 * queues + 8 < QueueSize / 2`. The AX cards have
rings of 2048 or 4096 (`cfg/22000.c:478`) and 16 queues at most (`iwl-trans.h:294`): 360 is less than
1024. It is sufficient, not necessary; the smallest instances that satisfy it are within TLC's reach (one
queue, claim 2, post 1, write step 1, ring 12), where `NotDry` holds, and fails if page allocations may. `NeverDry` does not use that the worker is done.

### HostCommand

For any ring that is a whole number of windows (`HostAssumption`), any number of
commands, hangs, failures and restarts. `Ring` says that every unanswered command has its entry
and, unless the queue was full, that these are the entries from `read_ptr` to
`write_ptr`; `Numbers` that a command is in one place only; `Waited` that until an error is
seen, every unanswered command is asynchronous or the one the caller waits for, so that only its
answer clears `STATUS_SYNC_HCMD_ACTIVE`; `Wanted` where `CMD_WANT_SKB` can still be set. `Control`
ties callers, interrupt thread and restart together. Success is the hardest: the
bit is also cleared by late answers and by the error interrupt, and `Waited` is what
rules these out for a caller that sees no error.

### CsiAssembly

For any chunk counts, any `MaxChunks`, any field width at which the chunk number wraps, and any
number of losses, restarts and clients. `RefExact` counts holders and so cannot be
shown place by place: `steal`, purge and completion free sets of pages, which is
exact only if no page is held twice. The invariant gets this from the order of sending:
a page that waits in one of the two lists is younger than every page in `csi_data_entries`,
left behind by an op mode, or given to an event (`Waiting`, `Handed`). The same order gives
`ReportedOnceInOrder`, since a header is taken for an event once and is younger
than those before.

`EventsUnmixed` and `LossIsBounded` are about what a disturbance, a lost or short notification
(`faults`) or a restart, leaves behind. They assume `CountsFit`: a measurement has fewer chunks than
`MaxChunks` and than the chunk fields can count. Lists and slots are seen as two sets, `W` of
the notifications that wait and `E` of those in `csi_data_entries`; `Flow` says that they are in the
order of sending and that no last chunk is kept. Then every step of firmware,
receive path, worker and restart is one of a few changes of these sets (a measurement begins, a
notification is queued or lost, the first of `W` is handled and goes to `E` or clears it), for
which the invariant `JInv` is proved once:

- `Unmixed`: without a disturbance every measurement that is in the sets has its header there and its last
  chunk to come (`Headed`); after one, a single measurement `m` may have lost its end, and those after
  it still have their headers (`Damaged`), so the next header finds its slot
  taken and clears what is left before anything is added to it;
- `Bounded`: a measurement is on track if everything of it is present or still to be sent and a last
  chunk before it clears the slots (`OnTrack`). At most `2 * (faults + restarts)` measurements that
  are neither completed nor purged are off track: a disturbance takes its own and the next one off,
  and no other step any. When nothing is in flight, no measurement is on track, which leaves
  `LossBounded`.

Sets of the last two kinds are counted by inclusion, so no induction over measurements is
needed.

### CsiStream

For frames of any length and any number of frames, sockets, losses and readers.
What the reader has before it, `sbuf` and what is on the connection, is a run of whole
frames in the order of capture, of which the beginning may be missing if the reader is in
it (`Run`, `Placed`, `Ended`); what has been read are bodies of older frames (`Whole`,
`Fresh`); and what was received last shows whether a connection ended within a frame
(`Marked`). `Run` is stated for pairs of positions, which makes it closed under the
head, tail and concatenation of the code without an induction over frames. Once `torn`
nothing is claimed.

### CsiReader

For records of any length, any number of them, every block size and a recording cut at any byte.
`HasRead` says that what has been returned are the first records, `Buffered` that `sbuf` is the part of
the file between the reader's position and what `fread` has returned, and `Ahead` that the buffer is not
empty while the end of the file has not been seen. The last is the point of the proof: `is_end` is true
only if the buffer is empty and a short block has been met, so that a reader with an empty buffer that
has not met it would ask for a length field that does not come. It is kept because `file_handler.read`
reads on until twice as much is there as is asked for. The position is always the end of a record or of
a length field, because the length found there is that of its own record; with a second handler on the
same `sbuf` it is not, hence `OneHandler`.

### CsiConfig

For any number of settings, addresses, writes, failures and interface changes. For any number
of writers, `IInv` says where each handler is in its sequence of steps (named from its end),
who holds the mutex, and how start, stop and restart of the interface go with the mutex and the
bits. Its last two conjuncts give `FailureAnswered`. `Requests`: a set `REQUESTED` bit is answered
(the restart is queued or will be probed, or has been given up), or a thread of `iwl_mvm_nic_restart` is
about to ask, or a start is still to convert the bit. `Failures`: a firmware that has
failed is answered in the same ways, or the interrupt's own thread is still at work. With
no thread under way only the answer is left. For one writer, `JInv` adds what is true at each such place: that the flags it has loaded and the
command it has filled are up to date (`Loaded`, `Composed`, `Rebuilt`), that the restart sends the
command only if CSI is enabled (`Resent`), and that a firmware that measures wrongly, or with
another configuration, is about to be told or stopped by somebody (`Silent`, `Follow`), unless the
last command for it was `refused`.
The restart work is a second process that builds commands, and failures of the
firmware can meet both anywhere.

## 6. What is only model-checked

- Liveness (`EventuallySent`, `EveryMeasurementReported`, `Reconnects`, `SentIsRead`,
  `Terminates`, `MeasuresAgain`, `RequestsServed`, `SyncReturns`, `Drains`), since the prover does not
  handle fairness.
- `OneMeasurement` with measurements of `MaxChunks` chunks, and with restarts only when there are
  more than one; `NotDry` for rings between the one of `rx_supply` and `RingLarge`.
- `TypeOK` of `CsiAssembly`, `CsiStream`, `CsiReader` and `CsiConfig`. The invariants of the first,
  second and last contain the types their proofs rest on.

## 7. Plan

The order was by importance: connector, assembly, stream, reader, then the parts of
the driver the collection of CSI rests on: configuration, commands, receive buffers; then the
proofs in section 5. Every safety property of a passing run is now stated by a theorem. What is left
would extend the models:

1. Header expansion (`mvm/flq-mvm.c`), with the receive path that overwrites the channel and time it
   reads.
2. The client modes of `socket_handler.m`, and `read_cached` once it refers to a property that exists.

## 8. What is not modelled

- Contents: the fields of reports, headers and recordings, rates, and the
  CSI arithmetic (`subcarrier.m`, `utils.m`), which is floating-point signal
  processing. Lengths appear only where they decide about control.
- The rest of the backported `iwlwifi`, `mac80211` and `cfg80211`. `src/iwlwifi` is a
  vendored backport tree of some 680,000 lines, Intel's and the kernel's, in part twice; IAX
  changes a few hundred of them. The parts the CSI path rests on are in the map; the rest
  (scanning, association, rate control, other generations of cards) says nothing about
  CSI, and the mapped share of all lines is therefore small.
- In the modelled parts of the driver: rfkill, suspend (D3), the management engine,
  the firmware's own expiry of count and timer, debugfs writes that are refused, data
  queues and the stuck-queue timer, single-queue devices, invalid buffer numbers, and
  firmware that skips a command. The module parameter `fw_restart` has its default.
- Header expansion (`mvm/flq-mvm.c`): a straight-line fill of header fields.
- Packet injection (`src/injection`): a sequential loop that sends and sleeps.
- The set-up scripts (calls of `modprobe`, `iw`, `cp`), and the utilities of the 802.11n
  CSI Tool (`bf_to_eff.c`, `parse_log.c`), which are third-party programs.
- `read_cached` of `csi_handler_base.m`, which refers to a property the class does not
  have; the TCP client and UDP modes of `socket_handler.m`.
