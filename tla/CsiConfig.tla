------------------------------- MODULE CsiConfig -------------------------------
(***************************************************************************)
(* The configuration of the AX CSI collection: mvm->csi_cfg, which the     *)
(* debugfs files of mvm/debugfs.c change, the command that gives it to the *)
(* firmware (iwl_mvm_send_csi_cmd, mvm/utils.c), and the restarts that     *)
(* make the firmware forget it (mvm/ops.c, mvm/mac80211.c, and the restart *)
(* work of mac80211).                                                      *)
(*                                                                         *)
(* A handler is the sequence of its accesses to shared memory, todo.  Only *)
(* the write of csi_enabled takes mvm->mutex; a change of csi_cfg.flags is *)
(* a load and a store.  The command is built from csi_cfg piece by piece.  *)
(* A write that the parsers refuse changes nothing and is no step here.    *)
(* iwl_mvm_nic_restart holds no lock: nic is where a thread is in it.      *)
(***************************************************************************)
EXTENDS Integers, Sequences

CONSTANTS
    Writers,     \* processes that write to the debugfs files
    Settings,    \* the settings written: "interval", "count", "timer", "frame_types"
    MaxValue,    \* bound: the largest value written
    Addrs,       \* the addresses written to csi_addresses
    NoAddr,      \* an address of six zero bytes
    MaxAddrs,    \* IWL_NUM_CHANNEL_ESTIMATION_FILTER_ADDRS
    Restarter,   \* the thread of mac80211's restart work
    Opener,      \* the thread that brings the interface up, as the mutex knows it
    Irq,         \* the thread that finds a firmware error
    Nobody,      \* the mutex is free
    MaxWrites,   \* bound: writes to the files
    MaxCrashes,  \* bound: firmware errors and starts that are tried again
    MaxOpens     \* bound: times the interface is brought up

ASSUME ConfigAssumption ==
    /\ Settings \subseteq {"interval", "count", "timer", "frame_types"}
    /\ NoAddr \notin Addrs
    /\ Restarter \notin Writers
    /\ {Nobody, Opener, Irq} \cap (Writers \cup {Restarter}) = {}
    /\ Opener # Nobody
    /\ {MaxValue, MaxAddrs, MaxWrites, MaxCrashes, MaxOpens} \subseteq Nat

VARIABLES
    flags, value, num, addrs,       \* csi_cfg
    todo,       \* what the handler of a writer, or the restart work, has still to do
    reg,        \* the flags it has loaded
    pkt,        \* the command it builds
    mutex,      \* who holds mvm->mutex
    nic,        \* the access of iwl_mvm_nic_error or iwl_mvm_nic_restart a thread is
                \* at, "idle" outside
    boot,       \* where iwl_mvm_mac_start is: "idle", "convert", "load" or "finish"
    running,    \* IWL_MVM_STATUS_FIRMWARE_RUNNING
    starting,   \* IWL_MVM_STATUS_STARTING
    requested,  \* IWL_MVM_STATUS_HW_RESTART_REQUESTED
    inRestart,  \* IWL_MVM_STATUS_IN_HW_RESTART
    fw,         \* the firmware: "off", "alive", "dead" after an error
    fwCfg,      \* the command it has obeyed last, NoCmd since it was loaded
    open,       \* the interface is up
    rtnl,       \* why the lock of the interface is held: "free", "open", "stop", "restart"
    queued,     \* the restart work is queued
    reprobe,    \* the reprobe work is queued
    untold,     \* history: the interface came up and no command has followed
    dirty,      \* history: a setting has been written after the last write of csi_enabled
    refused,    \* history: the driver could not send the last command to this firmware
    gaveUp,     \* history: iwl_mvm_nic_restart asked nobody for a restart
    writes, crashes, opens

cfgVars == <<flags, value, num, addrs>>
procVars == <<todo, reg, pkt>>
statusVars == <<running, starting, requested, inRestart>>
nicVars == <<nic, gaveUp>>
fwVars == <<fw, fwCfg>>
ifVars == <<open, rtnl, queued, reprobe>>
histVars == <<untold, dirty, refused>>
vars == <<cfgVars, procVars, mutex, nicVars, boot, statusVars, fwVars, ifVars, histVars,
          writes, crashes, opens>>

Procs == Writers \cup {Restarter}
Threads == Procs \cup {Irq}
Flags == {"ENABLE"} \cup Settings
AddrsOf(cfgNum, cfgAddrs) == [i \in 1 .. cfgNum |-> cfgAddrs[i]]
NoCmd == [flags |-> {}, value |-> [s \in Settings |-> 0], num |-> 0, addrs |-> << >>]

\* csi_cfg as the firmware should have it.
Current == [flags |-> flags, value |-> value, num |-> num, addrs |-> AddrsOf(num, addrs)]

Commands == [flags : SUBSET Flags, value : [Settings -> 0 .. MaxValue],
             num : 0 .. MaxAddrs, addrs : UNION {[1 .. n -> Addrs \cup {NoAddr}] : n \in 0 .. MaxAddrs}]

Ops == {<<"load">>, <<"lock">>, <<"scalars">>, <<"addrs">>, <<"transmit">>, <<"unlock">>,
        <<"running">>, <<"start">>, <<"complete">>}
       \cup ({"flag"} \X Flags \X BOOLEAN)
       \cup ({"value"} \X Settings \X (0 .. MaxValue))
       \cup ({"num"} \X (0 .. MaxAddrs))
       \cup ({"addr"} \X (1 .. MaxAddrs) \X Addrs)
       \cup ({"noop"} \X BOOLEAN)

TypeOK ==
    /\ flags \subseteq Flags /\ value \in [Settings -> 0 .. MaxValue]
    /\ num \in 0 .. MaxAddrs /\ addrs \in [1 .. MaxAddrs -> Addrs \cup {NoAddr}]
    /\ \A p \in Procs : /\ \A k \in DOMAIN todo[p] : todo[p][k] \in Ops
                        /\ reg[p] \subseteq Flags /\ pkt[p] \in Commands
    /\ mutex \in Procs \cup {Opener, Nobody}
    /\ nic \in [Threads -> {"idle", "running", "starting", "inRestart", "requested", "set",
                            "ask"}]
    /\ boot \in {"idle", "convert", "load", "finish"}
    /\ {running, starting, requested, inRestart, open, queued, reprobe, untold, dirty,
        refused, gaveUp} \subseteq BOOLEAN
    /\ fw \in {"off", "alive", "dead"} /\ fwCfg \in Commands
    /\ rtnl \in {"free", "open", "stop", "restart"}
    /\ writes \in 0 .. MaxWrites /\ crashes \in 0 .. MaxCrashes /\ opens \in 0 .. MaxOpens

\* A new struct iwl_mvm.  frame_types begins with all bits set, here MaxValue.
NewDevice ==
    /\ flags' = {}
    /\ value' = [s \in Settings |-> IF s = "frame_types" THEN MaxValue ELSE 0]
    /\ num' = 0 /\ addrs' = [i \in 1 .. MaxAddrs |-> NoAddr]
    /\ running' = FALSE /\ starting' = FALSE /\ requested' = FALSE /\ inRestart' = FALSE
    /\ fw' = "off" /\ fwCfg' = NoCmd
    /\ open' = FALSE /\ queued' = FALSE /\ reprobe' = FALSE
    /\ untold' = FALSE /\ dirty' = FALSE /\ refused' = FALSE /\ gaveUp' = FALSE

Init ==
    /\ flags = {}
    /\ value = [s \in Settings |-> IF s = "frame_types" THEN MaxValue ELSE 0]
    /\ num = 0 /\ addrs = [i \in 1 .. MaxAddrs |-> NoAddr]
    /\ todo = [p \in Procs |-> << >>] /\ reg = [p \in Procs |-> {}]
    /\ pkt = [p \in Procs |-> NoCmd]
    /\ mutex = Nobody /\ nic = [p \in Threads |-> "idle"] /\ boot = "idle"
    /\ running = FALSE /\ starting = FALSE /\ requested = FALSE /\ inRestart = FALSE
    /\ fw = "off" /\ fwCfg = NoCmd
    /\ open = FALSE /\ rtnl = "free" /\ queued = FALSE /\ reprobe = FALSE
    /\ untold = FALSE /\ dirty = FALSE /\ refused = FALSE /\ gaveUp = FALSE
    /\ writes = 0 /\ crashes = 0 /\ opens = 0

-----------------------------------------------------------------------------
(* The debugfs files.                                                      *)

\* flags |= f or flags &= ~f
ChangeFlag(f, on) == << <<"load">>, <<"flag", f, on>> >>

\* iwl_mvm_send_csi_cmd
SendCsiCmd == << <<"scalars">>, <<"addrs">>, <<"transmit">> >>

\* What turns a limit on: csi_timeout takes a timeout of 0, the others do not.
\* A limit that is off is written as -1.
IsOn(s, v) == IF s = "timer" THEN v >= 0 ELSE v > 0

\* csi_count, csi_timeout: the flag first, csi_interval: the value first.
SetLimit(s, v) ==
    LET store == << <<"value", s, IF IsOn(s, v) THEN v ELSE 0>> >>
    IN  CASE s = "frame_types" -> store
          [] s = "interval" -> store \o ChangeFlag(s, IsOn(s, v))
          [] OTHER -> ChangeFlag(s, IsOn(s, v)) \o store

\* csi_addresses: the number first, then the addresses.
SetAddresses(as) ==
    << <<"num", Len(as)>> >> \o [i \in 1 .. Len(as) |-> <<"addr", i, as[i]>>]

\* Faulty variant: the command is built and sent without the mutex.
SetEnabled_NoMutex(on) ==
    << <<"noop", on>> >> \o ChangeFlag("ENABLE", on) \o << <<"running">> >> \o SendCsiCmd

\* csi_enabled: the test before the mutex, then flags and command.
SetEnabled(on) ==
    << <<"noop", on>>, <<"lock">> >> \o ChangeFlag("ENABLE", FALSE)
    \o (IF on THEN ChangeFlag("ENABLE", TRUE) ELSE << >>)
    \o << <<"running">> >> \o SendCsiCmd \o << <<"unlock">> >>

Call(w, ops) ==
    /\ todo[w] = << >>
    /\ writes < MaxWrites
    /\ writes' = writes + 1
    /\ todo' = [todo EXCEPT ![w] = ops]
    /\ UNCHANGED <<cfgVars, reg, pkt, mutex, nicVars, boot, statusVars, fwVars, ifVars,
                   untold, refused, crashes, opens>>

WriteLimit(w) ==
    /\ \E s \in Settings, v \in -1 .. MaxValue :
           /\ s = "frame_types" => v >= 0
           /\ Call(w, SetLimit(s, v))
    /\ dirty' = TRUE

WriteAddresses(w) ==
    /\ \E n \in 0 .. MaxAddrs : \E as \in [1 .. n -> Addrs] : Call(w, SetAddresses(as))
    /\ dirty' = TRUE

WriteEnabled(w) ==
    /\ \E on \in BOOLEAN : Call(w, SetEnabled(on))
    /\ dirty' = FALSE

-----------------------------------------------------------------------------
(* One access of a handler.                                                *)

Does(p, op) == todo[p] # << >> /\ Head(todo[p])[1] = op
Done(p) == todo' = [todo EXCEPT ![p] = Tail(@)]

Load(p) ==
    /\ Does(p, "load")
    /\ reg' = [reg EXCEPT ![p] = flags]
    /\ Done(p)
    /\ UNCHANGED <<cfgVars, pkt, mutex, nicVars, boot, statusVars, fwVars, ifVars,
                   histVars, writes, crashes, opens>>

StoreFlag(p) ==
    /\ Does(p, "flag")
    /\ LET f == Head(todo[p])[2]
       IN  flags' = IF Head(todo[p])[3] THEN reg[p] \cup {f} ELSE reg[p] \ {f}
    /\ reg' = [reg EXCEPT ![p] = {}]
    /\ Done(p)
    /\ UNCHANGED <<value, num, addrs, pkt, mutex, nicVars, boot, statusVars, fwVars,
                   ifVars, histVars, writes, crashes, opens>>

StoreValue(p) ==
    /\ Does(p, "value")
    /\ value' = [value EXCEPT ![Head(todo[p])[2]] = Head(todo[p])[3]]
    /\ Done(p)
    /\ UNCHANGED <<flags, num, addrs, reg, pkt, mutex, nicVars, boot, statusVars,
                   fwVars, ifVars, histVars, writes, crashes, opens>>

StoreNum(p) ==
    /\ Does(p, "num")
    /\ num' = Head(todo[p])[2]
    /\ Done(p)
    /\ UNCHANGED <<flags, value, addrs, reg, pkt, mutex, nicVars, boot, statusVars,
                   fwVars, ifVars, histVars, writes, crashes, opens>>

StoreAddr(p) ==
    /\ Does(p, "addr")
    /\ addrs' = [addrs EXCEPT ![Head(todo[p])[2]] = Head(todo[p])[3]]
    /\ Done(p)
    /\ UNCHANGED <<flags, value, num, reg, pkt, mutex, nicVars, boot, statusVars,
                   fwVars, ifVars, histVars, writes, crashes, opens>>

\* "disable -> disable is a no-op"
TestNoop(p) ==
    /\ Does(p, "noop")
    /\ IF ~Head(todo[p])[2] /\ "ENABLE" \notin flags
       THEN todo' = [todo EXCEPT ![p] = << >>]
       ELSE Done(p)
    /\ UNCHANGED <<cfgVars, reg, pkt, mutex, nicVars, boot, statusVars, fwVars, ifVars,
                   histVars, writes, crashes, opens>>

Lock(p) ==
    /\ Does(p, "lock")
    /\ mutex = Nobody
    /\ mutex' = p
    /\ Done(p)
    /\ UNCHANGED <<cfgVars, reg, pkt, nicVars, boot, statusVars, fwVars, ifVars,
                   histVars, writes, crashes, opens>>

Unlock(p) ==
    /\ Does(p, "unlock")
    /\ mutex' = Nobody
    /\ Done(p)
    /\ rtnl' = IF p = Restarter THEN "free" ELSE rtnl
    /\ UNCHANGED <<cfgVars, reg, pkt, nicVars, boot, statusVars, fwVars, open, queued,
                   reprobe, histVars, writes, crashes, opens>>

Skip(p) == todo' = [todo EXCEPT ![p] = << <<"unlock">> >>]

\* iwl_mvm_firmware_running
TestRunning(p) ==
    /\ Does(p, "running")
    /\ IF running THEN Done(p) ELSE Skip(p)
    /\ UNCHANGED <<cfgVars, reg, pkt, mutex, nicVars, boot, statusVars, fwVars, ifVars,
                   histVars, writes, crashes, opens>>

-----------------------------------------------------------------------------
(* iwl_mvm_send_csi_cmd, with the mutex held: the fields of csi_cfg, then  *)
(* the addresses in a loop that looks at num_filter_addrs each time, then  *)
(* the command.                                                            *)

BuildScalars(p) ==
    /\ Does(p, "scalars")
    /\ pkt' = [pkt EXCEPT ![p] = [flags |-> flags, value |-> value, num |-> num,
                                  addrs |-> << >>]]
    /\ Done(p)
    /\ UNCHANGED <<cfgVars, reg, mutex, nicVars, boot, statusVars, fwVars, ifVars,
                   histVars, writes, crashes, opens>>

\* Faulty variant: one address less.
BuildAddrs_Short(p) ==
    /\ Does(p, "addrs")
    /\ LET n == Len(pkt[p].addrs)
       IN  IF n + 1 < num
           THEN /\ pkt' = [pkt EXCEPT ![p].addrs = Append(@, addrs[n + 1])]
                /\ UNCHANGED todo
           ELSE Done(p) /\ UNCHANGED pkt
    /\ UNCHANGED <<cfgVars, reg, mutex, nicVars, boot, statusVars, fwVars, ifVars,
                   histVars, writes, crashes, opens>>

BuildAddrs(p) ==
    /\ Does(p, "addrs")
    /\ LET n == Len(pkt[p].addrs)
       IN  IF n < num
           THEN /\ pkt' = [pkt EXCEPT ![p].addrs = Append(@, addrs[n + 1])]
                /\ UNCHANGED todo
           ELSE Done(p) /\ UNCHANGED pkt
    /\ UNCHANGED <<cfgVars, reg, mutex, nicVars, boot, statusVars, fwVars, ifVars,
                   histVars, writes, crashes, opens>>

\* The command as it leaves: addresses that were not copied are zero.
Packed(c) ==
    [c EXCEPT !.addrs = [i \in 1 .. c.num |->
                             IF i \in DOMAIN c.addrs THEN c.addrs[i] ELSE NoAddr]]

\* iwl_trans_send_cmd.  A command to a firmware that is not alive fails with -EIO.  One to
\* a live firmware arrives, or fails for want of memory, or finds the queue full: then
\* iwl_mvm_cmd_queue_full runs iwl_mvm_nic_restart, with the mutex held.  The callers do
\* nothing about an error.
Transmit(p) ==
    /\ Does(p, "transmit")
    /\ \/ fw # "alive" /\ UNCHANGED <<fwCfg, untold, refused, nic>>
       \/ /\ fw = "alive"
          /\ fwCfg' = Packed(pkt[p]) /\ untold' = FALSE /\ refused' = FALSE
          /\ UNCHANGED nic
       \/ /\ fw = "alive"
          /\ refused' = TRUE
          /\ \/ UNCHANGED nic
             \/ nic' = [nic EXCEPT ![p] = "starting"]
          /\ UNCHANGED <<fwCfg, untold>>
    /\ pkt' = [pkt EXCEPT ![p] = NoCmd]
    /\ Done(p)
    /\ UNCHANGED <<cfgVars, reg, mutex, gaveUp, boot, statusVars, fw, ifVars, dirty, writes,
                   crashes, opens>>

Access(p) ==
    /\ nic[p] = "idle"
    /\ \/ Load(p) \/ StoreFlag(p) \/ StoreValue(p) \/ StoreNum(p) \/ StoreAddr(p)
       \/ TestNoop(p) \/ Lock(p) \/ Unlock(p) \/ TestRunning(p)
       \/ BuildScalars(p) \/ BuildAddrs(p) \/ Transmit(p)

-----------------------------------------------------------------------------
(* A firmware error and iwl_mvm_nic_restart: tests and changes of the      *)
(* status bits, one at a time and without a lock.  A test that ends the    *)
(* function leads to "idle".                                               *)

\* iwl_trans_fw_error, once for each firmware that is loaded.
NicError ==
    /\ fw = "alive"
    /\ crashes < MaxCrashes
    /\ crashes' = crashes + 1
    /\ fw' = "dead"
    /\ nic' = [nic EXCEPT ![Irq] = "running"]
    /\ UNCHANGED <<cfgVars, procVars, mutex, gaveUp, boot, statusVars, fwCfg, ifVars,
                   histVars, writes, opens>>

NicGoes(p, here, there) == nic[p] = here /\ nic' = [nic EXCEPT ![p] = there]

NicLeaves ==
    UNCHANGED <<cfgVars, procVars, mutex, boot, running, starting, inRestart, fwVars, open,
                rtnl, histVars, writes, crashes, opens>>

\* "considering it to be dead then don't ask for a restart" (iwl_mvm_nic_error)
NicTestRunning(p) ==
    /\ NicGoes(p, "running", IF running THEN "starting" ELSE "idle")
    /\ NicLeaves /\ UNCHANGED <<gaveUp, requested, queued, reprobe>>

\* "Starting mac, retry will be triggered anyway"
NicTestStarting(p) ==
    /\ NicGoes(p, "starting", IF starting THEN "idle" ELSE "inRestart")
    /\ gaveUp' = (gaveUp \/ starting)
    /\ NicLeaves /\ UNCHANGED <<requested, queued, reprobe>>

\* Faulty variant: a firmware error during a restart is left alone.
NicTestInRestart_Ignore(p) ==
    /\ NicGoes(p, "inRestart", IF inRestart THEN "idle" ELSE "requested")
    /\ NicLeaves /\ UNCHANGED <<gaveUp, requested, queued, reprobe>>

\* "Firmware error during reconfiguration - reprobe!", if there is memory for it.
NicTestInRestart(p) ==
    /\ NicGoes(p, "inRestart", IF inRestart THEN "idle" ELSE "requested")
    /\ \/ ~inRestart /\ UNCHANGED <<gaveUp, reprobe>>
       \/ inRestart /\ reprobe' = TRUE /\ UNCHANGED gaveUp
       \/ inRestart /\ gaveUp' = TRUE /\ UNCHANGED reprobe
    /\ NicLeaves /\ UNCHANGED <<requested, queued>>

\* "HW restart already requested, but not started"
NicTestRequested(p) ==
    /\ NicGoes(p, "requested", IF requested THEN "idle" ELSE "set")
    /\ NicLeaves /\ UNCHANGED <<gaveUp, requested, queued, reprobe>>

NicSetRequested(p) ==
    /\ NicGoes(p, "set", "ask")
    /\ requested' = TRUE
    /\ NicLeaves /\ UNCHANGED <<gaveUp, queued, reprobe>>

\* ieee80211_restart_hw, if the debug configuration of the firmware wants a restart.
NicAskRestart(p) ==
    /\ NicGoes(p, "ask", "idle")
    /\ \/ queued' = TRUE /\ UNCHANGED gaveUp
       \/ gaveUp' = TRUE /\ UNCHANGED queued
    /\ NicLeaves /\ UNCHANGED <<requested, reprobe>>

NicStep(p) ==
    \/ NicTestRunning(p) \/ NicTestStarting(p) \/ NicTestInRestart(p)
    \/ NicTestRequested(p) \/ NicSetRequested(p) \/ NicAskRestart(p)

-----------------------------------------------------------------------------
(* iwl_mvm_mac_start, with the mutex, for an interface that is brought up  *)
(* or for the restart work.                                                *)

\* iwl_mvm_stop_device
FwDown == fw' = "off" /\ fwCfg' = NoCmd /\ running' = FALSE

\* "not in error flow": firmware errors during the start are left to its retries.
BeginStart(p) ==
    /\ mutex = Nobody /\ mutex' = p
    /\ starting' = ~requested
    /\ boot' = "convert"

\* The interface is brought up.
InterfaceUp ==
    /\ rtnl = "free" /\ ~open /\ ~reprobe
    /\ opens < MaxOpens
    /\ opens' = opens + 1
    /\ BeginStart(Opener)
    /\ rtnl' = "open"
    /\ UNCHANGED <<cfgVars, procVars, nicVars, running, requested, inRestart, fwVars, open,
                   queued, reprobe, histVars, writes, crashes>>

\* The restart work, whether or not a restart is still requested: after an interface
\* was brought down and up again it is not.
RestartDevice ==
    /\ Does(Restarter, "start") /\ boot = "idle"
    /\ BeginStart(Restarter)
    /\ UNCHANGED <<cfgVars, procVars, nicVars, running, requested, inRestart, fwVars,
                   ifVars, histVars, writes, crashes, opens>>

\* __iwl_mvm_mac_start: a requested restart becomes one that is going on, and the
\* firmware there was is no longer used.
ConvertRequest ==
    /\ boot = "convert"
    /\ inRestart' = (inRestart \/ requested) /\ requested' = FALSE
    /\ FwDown
    /\ gaveUp' = FALSE
    /\ boot' = "load"
    /\ UNCHANGED <<cfgVars, procVars, mutex, nic, starting, ifVars, histVars, writes,
                   crashes, opens>>

\* iwl_mvm_load_ucode_wait_alive: the start of the firmware waits for the thread of the
\* interrupt.  The new firmware knows nothing of csi_cfg.
LoadFirmware ==
    /\ boot = "load" /\ nic[Irq] = "idle"
    /\ fw' = "alive" /\ fwCfg' = NoCmd /\ running' = TRUE
    /\ refused' = FALSE
    /\ boot' = "finish"
    /\ UNCHANGED <<cfgVars, procVars, mutex, nicVars, starting, requested, inRestart, ifVars,
                   untold, dirty, writes, crashes, opens>>

EndStart == boot' = "idle" /\ mutex' = Nobody /\ starting' = FALSE

\* The device is started.  mac_start does not send the configuration: the restart work
\* does, later, and for an interface that has come up nobody does.
FinishStart ==
    /\ boot = "finish"
    /\ EndStart
    /\ \/ /\ rtnl = "open"
          /\ open' = TRUE /\ rtnl' = "free" /\ untold' = TRUE
          /\ UNCHANGED todo
       \/ /\ rtnl = "restart"
          /\ todo' = [todo EXCEPT ![Restarter] = << <<"lock">>, <<"complete">> >>]
          /\ UNCHANGED <<open, rtnl, untold>>
    /\ UNCHANGED <<cfgVars, reg, pkt, nicVars, running, requested, inRestart, fwVars, queued,
                   reprobe, dirty, refused, writes, crashes, opens>>

\* The firmware cannot be loaded or fails while it is set up.  Only a start that is no
\* restart is tried again.
RetryStart ==
    /\ boot \in {"load", "finish"} /\ starting
    /\ crashes < MaxCrashes
    /\ crashes' = crashes + 1
    /\ FwDown
    /\ inRestart' = FALSE
    /\ boot' = "convert"
    /\ UNCHANGED <<cfgVars, procVars, mutex, nicVars, starting, requested, ifVars, histVars,
                   writes, opens>>

\* The start fails: the interface stays down, or the restart work shuts it down, without
\* a call of mac_stop.
StartFails ==
    /\ boot \in {"load", "finish"}
    /\ FwDown
    /\ inRestart' = FALSE
    /\ EndStart
    /\ open' = FALSE /\ rtnl' = "free"
    /\ todo' = [todo EXCEPT ![Restarter] = << >>]
    /\ UNCHANGED <<cfgVars, reg, pkt, nicVars, requested, queued, reprobe, histVars, writes,
                   crashes, opens>>

-----------------------------------------------------------------------------
(* The interface goes down, and the restart work.                          *)

\* iwl_mvm_mac_stop clears FIRMWARE_RUNNING before it takes the mutex ...
InterfaceDown ==
    /\ rtnl = "free" /\ open
    /\ open' = FALSE /\ rtnl' = "stop"
    /\ running' = FALSE
    /\ UNCHANGED <<cfgVars, procVars, mutex, nicVars, boot, starting, requested, inRestart,
                   fwVars, queued, reprobe, histVars, writes, crashes, opens>>

\* ... and stops the device, without waiting for the thread of the interrupt: of the two
\* status bits it clears the first that is set.
StopDevice ==
    /\ rtnl = "stop" /\ mutex = Nobody
    /\ FwDown
    /\ inRestart' = FALSE
    /\ requested' = (inRestart /\ requested)
    /\ rtnl' = "free"
    /\ gaveUp' = FALSE
    /\ UNCHANGED <<cfgVars, procVars, mutex, nic, boot, starting, open, queued, reprobe,
                   histVars, writes, crashes, opens>>

\* ieee80211_restart_work gets the lock: there is nothing to do for an interface
\* that is down.
BeginRestart ==
    /\ queued /\ rtnl = "free"
    /\ queued' = FALSE
    /\ IF open
       THEN rtnl' = "restart" /\ todo' = [todo EXCEPT ![Restarter] = << <<"start">> >>]
       ELSE UNCHANGED <<rtnl, todo>>
    /\ UNCHANGED <<cfgVars, reg, pkt, mutex, nicVars, boot, statusVars, fwVars, open,
                   reprobe, histVars, writes, crashes, opens>>

\* Faulty variant: nothing is sent again.
RestartComplete_Forget ==
    /\ Does(Restarter, "complete")
    /\ inRestart' = FALSE
    /\ Skip(Restarter)
    /\ UNCHANGED <<cfgVars, reg, pkt, mutex, nicVars, boot, running, starting, requested,
                   fwVars, ifVars, histVars, writes, crashes, opens>>

\* iwl_mvm_restart_complete, with the mutex: the configuration is sent again if
\* csi_enabled is set; an error of the command is ignored.
RestartComplete ==
    /\ Does(Restarter, "complete")
    /\ inRestart' = FALSE
    /\ IF "ENABLE" \in flags
       THEN todo' = [todo EXCEPT ![Restarter] = SendCsiCmd \o << <<"unlock">> >>]
       ELSE Skip(Restarter)
    /\ UNCHANGED <<cfgVars, reg, pkt, mutex, nicVars, boot, running, starting, requested,
                   fwVars, ifVars, histVars, writes, crashes, opens>>

\* No handler is running, no thread is in iwl_mvm_nic_restart, and the device is neither
\* being started nor stopped.
Quiet ==
    /\ rtnl = "free"
    /\ \A p \in Procs : todo[p] = << >>
    /\ \A p \in Threads : nic[p] = "idle"

\* iwl_mvm_reprobe_wk: the driver gives the device up and takes it again.  Removing
\* the debugfs files waits for their handlers, freeing the interrupt for its thread.
Reprobe ==
    /\ reprobe /\ mutex = Nobody
    /\ Quiet
    /\ NewDevice
    /\ UNCHANGED <<procVars, mutex, nic, boot, rtnl, writes, crashes, opens>>

Next ==
    \/ \E w \in Writers : WriteLimit(w) \/ WriteAddresses(w) \/ WriteEnabled(w)
    \/ \E p \in Procs : Access(p)
    \/ NicError
    \/ \E p \in Threads : NicStep(p)
    \/ InterfaceUp \/ RestartDevice \/ ConvertRequest \/ LoadFirmware \/ FinishStart
    \/ RetryStart \/ StartFails
    \/ InterfaceDown \/ StopDevice \/ BeginRestart \/ RestartComplete
    \/ Reprobe

Spec == Init /\ [][Next]_vars

\* A handler goes on, and so do the work items and iwl_mvm_nic_restart, and a start comes
\* to an end; nobody has to write, to bring the interface up or down, and no firmware has
\* to fail.
FairSpec ==
    /\ Spec
    /\ \A p \in Procs : WF_vars(Access(p))
    /\ \A p \in Threads : WF_vars(NicStep(p))
    /\ WF_vars(BeginRestart) /\ WF_vars(RestartDevice) /\ WF_vars(ConvertRequest)
    /\ WF_vars(LoadFirmware \/ FinishStart \/ RetryStart \/ StartFails)
    /\ WF_vars(RestartComplete) /\ WF_vars(Reprobe) /\ WF_vars(StopDevice)

-----------------------------------------------------------------------------
(* Properties.                                                             *)

Enabled == "ENABLE" \in flags
Measuring == fw = "alive" /\ "ENABLE" \in fwCfg.flags

\* What the last write of csi_enabled promised: the firmware measures, with exactly the
\* flags, values and filter of the files unless those have been written again, also after
\* any number of firmware restarts (iwl_dbgfs_csi_enabled_write,
\* iwl_mvm_restart_complete).  It is excepted after the interface has come up until the
\* next command, and after a command that the driver could not send.
FirmwareFollows ==
    Quiet /\ fw = "alive" /\ Enabled /\ ~untold /\ ~refused =>
        "ENABLE" \in fwCfg.flags /\ (~dirty => fwCfg = Current)

\* If csi_enabled reads 0 the firmware does not measure, unless the driver could not send
\* the last command.  "disable -> disable is a no-op" (iwl_dbgfs_csi_enabled_write), so
\* that nothing else could stop it.
DisabledIsSilent == Quiet /\ ~Enabled /\ ~refused => ~Measuring

\* A firmware that has failed with the interface up is going to be restarted, by mac80211
\* or by a new probe, wherever its error meets a restart, a stop or a full command queue,
\* unless iwl_mvm_nic_restart asked nobody: "HW restart already requested" is said of a
\* request that somebody still answers (iwl_mvm_nic_restart, __iwl_mvm_mac_start,
\* __iwl_mvm_mac_stop).
FailureAnswered == Quiet /\ open /\ fw = "dead" => queued \/ reprobe \/ gaveUp

\* Measuring is taken up again: if csi_enabled stays set with the interface up, the
\* firmware in the end measures and goes on to, whenever it fails and wherever the
\* restart meets a write of csi_enabled (iwl_mvm_nic_restart, ieee80211_restart_work,
\* iwl_mvm_restart_complete), unless a restart was declined or a command not sent.
MeasuresAgain ==
    <>[](Enabled /\ open /\ ~untold /\ ~refused /\ ~gaveUp) => <>[]Measuring
================================================================================
