------------------------------ MODULE HostCommand ------------------------------
(***************************************************************************)
(* Host commands to the firmware: the command queue (pcie/tx-gen2.c,       *)
(* pcie/tx.c, queue/tx.c), synchronous commands with their time-out, the   *)
(* receive path that hands responses over and reclaims entries, the        *)
(* interrupt thread that reports a firmware error, and restarts.  The CSI  *)
(* configuration is sent by a synchronous command.                         *)
(*                                                                         *)
(* Synchronous commands are sent with mvm->mutex held, one at a time; the  *)
(* caller is therefore one process, and a restart, which needs the mutex,  *)
(* meets it idle.  txq->lock covers an enqueue, and the handling of a      *)
(* response, which is several steps here because the caller gives up       *)
(* without the lock.  Commands are numbered; their contents are left out.  *)
(* Rfkill and suspend are not modelled.                                    *)
(***************************************************************************)
EXTENDS Integers, Sequences

CONSTANTS
    Window,       \* txq->n_window, entries of the command queue
    TfdSize,      \* max_tfd_queue_size: where read_ptr and write_ptr wrap
    MaxSync,      \* bound: synchronous commands
    MaxAsync,     \* bound: asynchronous commands
    MaxFaults,    \* bound: times the firmware hangs or fails
    MaxRestarts   \* bound: restarts of the device

ASSUME HostAssumption ==
    /\ {Window, TfdSize} \subseteq Nat \ {0}
    /\ Window <= TfdSize /\ TfdSize % Window = 0
    /\ {MaxSync, MaxAsync, MaxFaults, MaxRestarts} \subseteq Nat

VARIABLES
    read_ptr, write_ptr, entries,   \* struct iwl_txq of the command queue
    active,     \* STATUS_SYNC_HCMD_ACTIVE
    fw_error,   \* STATUS_FW_ERROR
    alive,      \* trans->state = IWL_TRANS_FW_ALIVE
    pc,         \* where the caller of a synchronous command is
    cmd, want,  \* its command, and whether it has CMD_WANT_SKB
    cmd_idx,    \* the entry it was put into
    resp,       \* cmd->resp_pkt: the command answered by it, 0 for NULL
    ret,        \* the result of the last command
    fw,         \* the firmware: "off", "running", "hung", "failed"
    fwq,        \* commands it has not answered
    rx,         \* responses in the receive queue
    cause,      \* the error interrupt is raised
    poll,       \* where the handler of a response is
    wants,      \* the handler has seen CMD_WANT_SKB
    irq,        \* where the interrupt thread is
    device,     \* "up", "stopping", "down", "starting"
    answered,   \* history: commands whose response has been handled
    full,       \* history: the queue has been full since it was set up
    syncs, asyncs, faults, restarts

txqVars == <<read_ptr, write_ptr, entries, full>>
statusVars == <<active, fw_error, alive>>
callVars == <<cmd, want, cmd_idx>>
callerVars == <<pc, callVars, resp, ret>>
fwVars == <<fw, fwq, cause>>
pollVars == <<rx, poll, wants>>
bounds == <<syncs, asyncs, faults, restarts>>
others == <<fwVars, pollVars, irq, device, answered, bounds>>
vars == <<txqVars, statusVars, callerVars, others>>

Sent == syncs + asyncs
NoEntry == [id |-> 0, flags |-> {}]
Free == [i \in 0 .. Window - 1 |-> NoEntry]

Init ==
    /\ read_ptr = 0 /\ write_ptr = 0 /\ entries = Free /\ full = FALSE
    /\ active = FALSE /\ fw_error = FALSE /\ alive = TRUE
    /\ pc = "idle" /\ cmd = 0 /\ want = FALSE /\ cmd_idx = 0 /\ resp = 0 /\ ret = "none"
    /\ fw = "running" /\ fwq = << >> /\ cause = FALSE
    /\ rx = << >> /\ poll = "idle" /\ wants = FALSE
    /\ irq = "idle" /\ device = "up"
    /\ answered = {}
    /\ syncs = 0 /\ asyncs = 0 /\ faults = 0 /\ restarts = 0

-----------------------------------------------------------------------------
(* The command queue.                                                      *)

\* Faulty variant: the window is not looked at.
Space_Ring == TfdSize - 1 - ((write_ptr - read_ptr) % TfdSize)

\* iwl_txq_space
Space ==
    (IF Window < TfdSize THEN Window ELSE TfdSize - 1) - ((write_ptr - read_ptr) % TfdSize)

\* Faulty variant: the first entry is taken for a free one.
IsUsed_Short(i) ==
    LET r == read_ptr % Window
        w == write_ptr % Window
    IN  IF w >= r THEN i > r /\ i < w ELSE ~(i < r /\ i >= w)

\* iwl_txq_used.  When all entries of a window smaller than the ring are in use,
\* w = r, and none is found to be.
IsUsed(i) ==
    LET r == read_ptr % Window
        w == write_ptr % Window
    IN  IF w >= r THEN i >= r /\ i < w ELSE ~(i < r /\ i >= w)

\* iwl_pcie_gen2_enqueue_hcmd, with the lock and enough space
Enqueue(id, flags) ==
    /\ entries' = [entries EXCEPT ![write_ptr % Window] = [id |-> id, flags |-> flags]]
    /\ write_ptr' = (write_ptr + 1) % TfdSize
    /\ fwq' = Append(fwq, [ptr |-> write_ptr, id |-> id])
    /\ full' = (full \/ (write_ptr + 1 - read_ptr) % TfdSize = Window % TfdSize)
    /\ UNCHANGED <<read_ptr, fw, cause>>

\* txq->lock is the handler's while it is at work.
Unlocked == poll = "idle"

-----------------------------------------------------------------------------
(* A synchronous command: iwl_trans_send_cmd, iwl_trans_txq_send_hcmd_sync *)

\* The tests of iwl_trans_send_cmd
Accepts == alive /\ ~fw_error

Return(result) == pc' = "idle" /\ ret' = result

\* A refused command returns -EIO and changes nothing; it is no step.
SendSync ==
    /\ pc = "idle" /\ device = "up" /\ syncs < MaxSync
    /\ Accepts
    /\ syncs' = syncs + 1
    /\ pc' = "set" /\ cmd' = Sent + 1 /\ want' \in BOOLEAN /\ resp' = 0 /\ ret' = "none"
    /\ UNCHANGED <<cmd_idx, txqVars, statusVars, fwVars, pollVars, irq, device, answered, asyncs,
                   faults, restarts>>

\* test_and_set_bit, with its WARN
SetActive ==
    /\ pc = "set"
    /\ active' = TRUE
    /\ IF active THEN Return("busy") ELSE pc' = "enqueue" /\ UNCHANGED ret
    /\ UNCHANGED <<txqVars, fw_error, alive, callVars, resp, others>>

EnqueueSync ==
    /\ pc = "enqueue" /\ Unlocked
    /\ Space >= 1
    /\ Enqueue(cmd, IF want THEN {"WANT_SKB"} ELSE {})
    /\ cmd_idx' = write_ptr % Window
    /\ pc' = "wait"
    /\ UNCHANGED <<statusVars, cmd, want, resp, ret, pollVars, irq, device, answered, bounds>>

\* The queue is full: an error, for which the op mode restarts the device.
NoSpaceSync ==
    /\ pc = "enqueue" /\ Unlocked
    /\ Space < 1
    /\ active' = FALSE
    /\ Return("enospc")
    /\ UNCHANGED <<txqVars, fw_error, alive, callVars, resp, others>>

Woken ==
    /\ pc = "wait" /\ ~active
    /\ pc' = "check"
    /\ UNCHANGED <<txqVars, statusVars, callVars, resp, ret, others>>

\* Faulty variant: the wait begins again.
Timeout_Again ==
    /\ pc = "wait" /\ active
    /\ ret' = "etimedout"
    /\ UNCHANGED <<txqVars, statusVars, pc, callVars, resp, others>>

\* HOST_COMPLETE_TIMEOUT is over.
Timeout ==
    /\ pc = "wait" /\ active
    /\ active' = FALSE
    /\ pc' = "nmi" /\ ret' = "etimedout"
    /\ UNCHANGED <<txqVars, fw_error, alive, callVars, resp, others>>

\* iwl_trans_sync_nmi: the firmware is made to fail, with the interrupt masked ...
SyncNmi ==
    /\ pc = "nmi"
    /\ fw' = "failed" /\ cause' = FALSE
    /\ pc' = "nmi_error"
    /\ UNCHANGED <<txqVars, statusVars, callVars, resp, ret, fwq, pollVars, irq, device,
                   answered, bounds>>

\* ... and iwl_trans_fw_error is called from here.
NmiError ==
    /\ pc = "nmi_error"
    /\ fw_error' = TRUE /\ alive' = (alive /\ fw_error)
    /\ pc' = "cancel"
    /\ UNCHANGED <<txqVars, active, callVars, resp, ret, others>>

\* After the wait: a firmware error, a response that is missing, or success
Check ==
    /\ pc = "check"
    /\ IF fw_error \/ (want /\ resp = 0)
       THEN pc' = "cancel" /\ ret' = "eio"
       ELSE Return("ok")
    /\ UNCHANGED <<txqVars, statusVars, callVars, resp, others>>

\* Faulty variant: the entry is left as it is.
Cancel_Keep ==
    /\ pc = "cancel"
    /\ pc' = "free"
    /\ UNCHANGED <<txqVars, statusVars, callVars, resp, ret, others>>

\* CMD_WANT_SKB is taken back, without the lock.
Cancel ==
    /\ pc = "cancel"
    /\ entries' = IF want THEN [entries EXCEPT ![cmd_idx].flags = @ \ {"WANT_SKB"}]
                          ELSE entries
    /\ pc' = "free"
    /\ UNCHANGED <<read_ptr, write_ptr, full, statusVars, callVars, resp, ret, others>>

FreeResponse ==
    /\ pc = "free"
    /\ resp' = 0
    /\ pc' = "idle"
    /\ UNCHANGED <<txqVars, statusVars, callVars, ret, others>>

-----------------------------------------------------------------------------
(* An asynchronous command needs two free entries: one stays for a         *)
(* synchronous one.                                                        *)

SendAsync ==
    /\ device = "up" /\ asyncs < MaxAsync
    /\ Accepts /\ Unlocked /\ Space >= 2
    /\ asyncs' = asyncs + 1
    /\ Enqueue(Sent + 1, {"ASYNC"})
    /\ UNCHANGED <<statusVars, callerVars, pollVars, irq, device, answered, syncs, faults,
                   restarts>>

-----------------------------------------------------------------------------
(* The firmware: it answers commands in order, or hangs, or fails.         *)

FwAnswers ==
    /\ fw = "running" /\ fwq # << >>
    /\ rx' = Append(rx, Head(fwq)) /\ fwq' = Tail(fwq)
    /\ UNCHANGED <<txqVars, statusVars, callerVars, fw, cause, poll, wants, irq, device,
                   answered, bounds>>

FwHangs ==
    /\ fw = "running" /\ faults < MaxFaults
    /\ faults' = faults + 1
    /\ fw' = "hung"
    /\ UNCHANGED <<txqVars, statusVars, callerVars, fwq, cause, pollVars, irq, device,
                   answered, syncs, asyncs, restarts>>

FwFails ==
    /\ fw \in {"running", "hung"} /\ faults < MaxFaults
    /\ faults' = faults + 1
    /\ fw' = "failed" /\ cause' = TRUE
    /\ UNCHANGED <<txqVars, statusVars, callerVars, fwq, pollVars, irq, device, answered,
                   syncs, asyncs, restarts>>

-----------------------------------------------------------------------------
(* The receive path: iwl_pcie_hcmd_complete                                *)

Slot == Head(rx).ptr % Window

\* The lock, and the test of CMD_WANT_SKB
BeginResponse ==
    /\ poll = "idle" /\ rx # << >> /\ device \in {"up", "stopping"}
    /\ poll' = "give"
    /\ wants' = ("WANT_SKB" \in entries[Slot].flags)
    /\ UNCHANGED <<txqVars, statusVars, callerVars, fwVars, rx, irq, device, answered, bounds>>

\* meta->source->resp_pkt.  If the caller has returned since the test, source points to
\* a stack frame that is gone; what the write does there is outside the model.
GiveResponse ==
    /\ poll = "give"
    /\ resp' = IF wants /\ pc # "idle" /\ entries[Slot].id = cmd THEN cmd ELSE resp
    /\ poll' = "complete"
    /\ UNCHANGED <<txqVars, statusVars, pc, callVars, ret, fwVars, rx, wants, irq, device,
                   answered, bounds>>

\* iwl_pcie_cmdq_reclaim: read_ptr moves past the answered entry
Reclaimed ==
    IF IsUsed(Slot)
    THEN (read_ptr + ((Slot + 1 - (read_ptr % Window)) % TfdSize)) % TfdSize
    ELSE read_ptr

\* The rest: the entry is reclaimed and the caller of a synchronous command woken.
CompleteResponse ==
    /\ poll = "complete"
    /\ poll' = "idle" /\ wants' = FALSE /\ rx' = Tail(rx)
    /\ read_ptr' = Reclaimed
    /\ active' = (active /\ "ASYNC" \in entries[Slot].flags)
    /\ entries' = [entries EXCEPT ![Slot].flags = {}]
    /\ answered' = answered \cup {Head(rx).id}
    /\ UNCHANGED <<write_ptr, full, fw_error, alive, callerVars, fwVars, irq, device, bounds>>

-----------------------------------------------------------------------------
(* The interrupt thread: iwl_pcie_irq_handle_error                         *)

IrqBegins ==
    /\ irq = "idle" /\ cause /\ device = "up"
    /\ cause' = FALSE
    /\ irq' = "error"
    /\ UNCHANGED <<txqVars, statusVars, callerVars, fw, fwq, pollVars, device, answered,
                   bounds>>

\* Faulty variant: the caller is woken first.
IrqError_Late ==
    /\ irq = "error"
    /\ active' = FALSE
    /\ irq' = "wake"
    /\ UNCHANGED <<txqVars, fw_error, alive, callerVars, fwVars, pollVars, device, answered,
                   bounds>>

\* iwl_trans_fw_error: only the first report of an error counts.
IrqError ==
    /\ irq = "error"
    /\ fw_error' = TRUE /\ alive' = (alive /\ fw_error)
    /\ irq' = "wake"
    /\ UNCHANGED <<txqVars, active, callerVars, fwVars, pollVars, device, answered, bounds>>

IrqWakes ==
    /\ irq = "wake"
    /\ active' = FALSE
    /\ irq' = "idle"
    /\ UNCHANGED <<txqVars, fw_error, alive, callerVars, fwVars, pollVars, device, answered,
                   bounds>>

-----------------------------------------------------------------------------
(* Restart, with mvm->mutex: iwl_trans_stop_device, iwl_trans_start_fw     *)

\* Interrupts are masked; receive polls and the interrupt thread may be at work.
StopDevice ==
    /\ device = "up" /\ pc = "idle" /\ restarts < MaxRestarts
    /\ restarts' = restarts + 1
    /\ device' = "stopping"
    /\ UNCHANGED <<txqVars, statusVars, callerVars, fwVars, pollVars, irq, answered, syncs,
                   asyncs, faults>>

\* The polls are over: the queues are freed.
FreeQueues ==
    /\ device = "stopping" /\ poll = "idle"
    /\ device' = "down"
    /\ read_ptr' = write_ptr /\ entries' = Free /\ UNCHANGED <<write_ptr, full>>
    /\ rx' = << >> /\ fwq' = << >> /\ fw' = "off" /\ cause' = FALSE
    /\ active' = FALSE /\ alive' = FALSE
    /\ UNCHANGED <<fw_error, callerVars, poll, wants, irq, answered, bounds>>

StartFw ==
    /\ device = "down"
    /\ device' = "starting"
    /\ fw_error' = FALSE
    /\ UNCHANGED <<txqVars, active, alive, callerVars, fwVars, pollVars, irq, answered, bounds>>

\* iwl_pcie_synchronize_irqs
IrqDone == irq = "idle"

\* New queues, a new firmware, iwl_trans_fw_alive
FwAlive ==
    /\ device = "starting" /\ IrqDone
    /\ device' = "up" /\ alive' = TRUE
    /\ read_ptr' = 0 /\ write_ptr' = 0 /\ entries' = Free /\ full' = FALSE
    /\ fw' = "running"
    /\ UNCHANGED <<active, fw_error, callerVars, fwq, cause, pollVars, irq, answered, bounds>>

Caller ==
    \/ SetActive \/ EnqueueSync \/ NoSpaceSync \/ Woken \/ Timeout \/ SyncNmi \/ NmiError
    \/ Check \/ Cancel \/ FreeResponse

Poll == BeginResponse \/ GiveResponse \/ CompleteResponse

Irq == IrqBegins \/ IrqError \/ IrqWakes

Restart == StopDevice \/ FreeQueues \/ StartFw \/ FwAlive

Next ==
    \/ SendSync \/ Caller \/ SendAsync
    \/ FwAnswers \/ FwHangs \/ FwFails
    \/ Poll \/ Irq \/ Restart

Spec == Init /\ [][Next]_vars

\* Threads that have begun go on, time passes, and a firmware that runs answers.
FairSpec ==
    /\ Spec
    /\ WF_vars(Caller) /\ WF_vars(Poll) /\ WF_vars(Irq) /\ WF_vars(FwAnswers)
    /\ WF_vars(FreeQueues) /\ WF_vars(StartFw) /\ WF_vars(FwAlive)

-----------------------------------------------------------------------------
(* Properties.                                                             *)

Ids == 0 .. MaxSync + MaxAsync
Requests == [ptr : 0 .. TfdSize - 1, id : Ids]

TypeOK ==
    /\ read_ptr \in 0 .. TfdSize - 1 /\ write_ptr \in 0 .. TfdSize - 1
    /\ entries \in [0 .. Window - 1 -> [id : Ids, flags : SUBSET {"WANT_SKB", "ASYNC"}]]
    /\ {active, fw_error, alive, want, cause, wants, full} \subseteq BOOLEAN
    /\ pc \in {"idle", "set", "enqueue", "wait", "nmi", "nmi_error", "check", "cancel", "free"}
    /\ cmd_idx \in 0 .. Window - 1 /\ cmd \in Ids /\ resp \in Ids /\ answered \subseteq Ids
    /\ ret \in {"none", "ok", "busy", "enospc", "eio", "etimedout"}
    /\ fw \in {"off", "running", "hung", "failed"}
    /\ \A k \in DOMAIN fwq : fwq[k] \in Requests
    /\ \A k \in DOMAIN rx : rx[k] \in Requests
    /\ Len(fwq) + Len(rx) <= Window
    /\ poll \in {"idle", "give", "complete"} /\ irq \in {"idle", "error", "wake"}
    /\ device \in {"up", "stopping", "down", "starting"}
    /\ syncs \in 0 .. MaxSync /\ asyncs \in 0 .. MaxAsync
    /\ faults \in 0 .. MaxFaults /\ restarts \in 0 .. MaxRestarts

\* A synchronous command succeeds only when the firmware has answered that very
\* command, and with CMD_WANT_SKB its own response is what the caller gets
\* (iwl_trans_txq_send_hcmd_sync): the bit it waits for is also cleared by late
\* answers, by the error interrupt, by one left over from before a restart.
OkIsAnswered ==
    ret = "ok" => cmd \in answered /\ (want => resp = cmd)

\* The queue and the firmware's view agree: no entry is overwritten before its command
\* is answered (iwl_txq_space), and the entries between read_ptr and write_ptr are those
\* of the commands not answered, oldest first (iwl_pcie_cmdq_reclaim); the latter unless
\* the queue was full once.
RingInStep ==
    device = "up" =>
        LET open == rx \o fwq
        IN  /\ \A k \in DOMAIN open : entries[open[k].ptr % Window].id = open[k].id
            /\ ~full => /\ Len(open) = (write_ptr - read_ptr) % TfdSize
                        /\ \A k \in DOMAIN open : open[k].ptr = (read_ptr + k - 1) % TfdSize

\* A response that comes in later finds no caller that has gone: an entry with
\* CMD_WANT_SKB belongs to the command that is being waited for ("Cancel the
\* CMD_WANT_SKB flag", iwl_trans_txq_send_hcmd_sync).
NoStaleSource ==
    \A i \in DOMAIN entries :
        "WANT_SKB" \in entries[i].flags => entries[i].id = cmd /\ pc # "idle"

\* A synchronous command comes to an end, whatever the firmware does
\* (HOST_COMPLETE_TIMEOUT).
SyncReturns == pc # "idle" ~> pc = "idle"

\* Commands do not pile up: entries in use are freed again as long as the firmware
\* answers (iwl_pcie_cmdq_reclaim), unless the queue was full once.
Drains == read_ptr # write_ptr ~> read_ptr = write_ptr \/ fw # "running" \/ full
================================================================================
