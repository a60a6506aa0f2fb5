------------------------- MODULE HostCommandProofs -------------------------
(***************************************************************************)
(* Machine-checked proofs about host commands, for every size of the       *)
(* command queue and of its ring, and any number of commands, firmware     *)
(* failures and restarts.                                                  *)
(*                                                                         *)
(* What the caller of a synchronous command relies on is spread over five  *)
(* parties, and the inductive invariant IInv follows them: the types; the  *)
(* control state; the ring, whose commands not yet answered are Open; the  *)
(* numbers of the commands, each in one place only; whose completion may   *)
(* clear STATUS_SYNC_HCMD_ACTIVE; and where CMD_WANT_SKB can still be set. *)
(***************************************************************************)
EXTENDS HostCommand, Remainders, SequenceTheorems, TLAPS

\* The commands that have been sent and not been answered, oldest first.
Open == rx \o fwq

\* The entry of an open command.
SlotOf(k) == Open[k].ptr % Window

\* The queues exist.
Live == device \in {"up", "stopping"}

-----------------------------------------------------------------------------
(* The invariant.                                                          *)

\* TypeOK with the sequences typed as such, and without the length of the queues.
Types ==
    /\ read_ptr \in 0 .. TfdSize - 1 /\ write_ptr \in 0 .. TfdSize - 1
    /\ entries \in [0 .. Window - 1 -> [id : Ids, flags : SUBSET {"WANT_SKB", "ASYNC"}]]
    /\ pc \in {"idle", "set", "enqueue", "wait", "nmi", "nmi_error", "check", "cancel", "free"}
    /\ cmd_idx \in 0 .. Window - 1 /\ cmd \in Ids /\ resp \in Ids /\ answered \subseteq Ids
    /\ ret \in {"none", "ok", "busy", "enospc", "eio", "etimedout"}
    /\ fw \in {"off", "running", "hung", "failed"}
    /\ fwq \in Seq(Requests) /\ rx \in Seq(Requests)
    /\ poll \in {"idle", "give", "complete"} /\ irq \in {"idle", "error", "wake"}
    /\ device \in {"up", "stopping", "down", "starting"}
    /\ syncs \in 0 .. MaxSync /\ asyncs \in 0 .. MaxAsync
    /\ faults \in 0 .. MaxFaults /\ restarts \in 0 .. MaxRestarts

\* Who is where: a restart meets an idle caller, a response is handled while the queues
\* exist, the interrupt thread wakes the caller after it has set STATUS_FW_ERROR.
Control ==
    /\ device # "up" => pc = "idle"
    /\ poll # "idle" => rx # << >> /\ Live
    /\ irq = "wake" /\ Live => fw_error
    /\ resp \in {0, cmd}
    /\ ~Live => Open = << >> /\ entries = Free
    /\ ret = "ok" => pc = "idle"

\* Every open command has its entry, and while the queue has not been full, the open
\* commands are those between read_ptr and write_ptr.  Once it has been full, both stand
\* still, a window apart.
Ring ==
    /\ \A k \in 1 .. Len(Open) : entries[SlotOf(k)].id = Open[k].id
    /\ Len(Open) <= Window
    /\ ~full =>
        /\ Len(Open) < Window
        /\ write_ptr = (read_ptr + Len(Open)) % TfdSize
        /\ \A k \in 1 .. Len(Open) : Open[k].ptr = (read_ptr + (k - 1)) % TfdSize
    /\ full => Window < TfdSize /\ write_ptr = (read_ptr + Window) % TfdSize

\* The numbers of commands: no two open commands and no two entries have the same one,
\* and a command that is not in the queue yet is nowhere.
Numbers ==
    /\ \A k \in 1 .. Len(Open) : Open[k].id \in (1 .. Sent) \ answered
    /\ \A j, k \in 1 .. Len(Open) : Open[j].id = Open[k].id => j = k
    /\ \A i \in 0 .. Window - 1 : entries[i].id <= Sent
    /\ \A i, j \in 0 .. Window - 1 :
            entries[i].id = entries[j].id => i = j \/ entries[i].id = 0
    /\ \A a \in answered : a <= Sent
    /\ cmd <= Sent /\ (pc # "idle" => cmd > 0)
    /\ pc \in {"set", "enqueue"} =>
        /\ cmd \notin answered
        /\ \A i \in 0 .. Window - 1 : entries[i].id # cmd
        /\ \A k \in 1 .. Len(Open) : Open[k].id # cmd

\* Until an error is seen, every open command is asynchronous or the one the caller waits
\* for, so that STATUS_SYNC_HCMD_ACTIVE is cleared by the answer to that one only.
Waited ==
    /\ device = "up" /\ ~fw_error =>
        \A k \in 1 .. Len(Open) :
            \/ "ASYNC" \in entries[SlotOf(k)].flags
            \/ Open[k].id = cmd /\ pc \in {"wait", "nmi", "nmi_error"}
    /\ pc = "enqueue" /\ ~fw_error => active
    /\ pc = "wait" /\ ~active /\ ~fw_error => cmd \in answered
    /\ pc = "check" /\ ~fw_error => cmd \in answered

\* CMD_WANT_SKB is set in the entry of the caller's command only, and only until the
\* command is answered or cancelled.
Wanted ==
    \A i \in 0 .. Window - 1 : "WANT_SKB" \in entries[i].flags =>
        /\ i = cmd_idx /\ entries[i].id = cmd /\ want /\ cmd \notin answered
        /\ pc \in {"wait", "nmi", "nmi_error", "check", "cancel"}

\* The inductive invariant.
IInv ==
    /\ Types /\ Control /\ (Live => Ring) /\ Numbers /\ Waited /\ Wanted
    /\ OkIsAnswered

-----------------------------------------------------------------------------
(* The open commands.                                                      *)

\* The sizes, as the proofs use them.
LEMMA Sizes ==
    /\ Window \in Nat \ {0} /\ TfdSize \in Nat \ {0} /\ Window <= TfdSize
    /\ MaxSync \in Nat /\ MaxAsync \in Nat /\ MaxFaults \in Nat /\ MaxRestarts \in Nat
BY HostAssumption

\* The ring is a whole number of windows.
LEMMA WholeWindows == TfdSize % Window = 0
BY HostAssumption

\* The open commands are requests, and their entries are in the window.
LEMMA OpenType ==
    ASSUME Types
    PROVE  /\ Open \in Seq(Requests) /\ Len(Open) \in Nat
           /\ \A k \in 1 .. Len(Open) : /\ Open[k] \in Requests
                                        /\ Open[k].ptr \in 0 .. TfdSize - 1
                                        /\ Open[k].id \in Ids
                                        /\ SlotOf(k) \in 0 .. Window - 1
<1>1. Open \in Seq(Requests)
  BY ConcatProperties DEF Open, Types
<1>2. Len(Open) \in Nat /\ \A k \in 1 .. Len(Open) : Open[k] \in Requests
  BY <1>1, LenProperties, ElementOfSeq
<1>3. ASSUME NEW k \in 1 .. Len(Open)
      PROVE  /\ Open[k].ptr \in 0 .. TfdSize - 1 /\ Open[k].id \in Ids
             /\ SlotOf(k) \in 0 .. Window - 1
  <2>1. Open[k].ptr \in 0 .. TfdSize - 1 /\ Open[k].id \in Ids
    BY <1>2 DEF Requests
  <2>2. Open[k].ptr \in Int
    BY <2>1, Sizes
  <2> QED
    BY <2>1, <2>2, Sizes, DivMod DEF SlotOf
<1> QED
  BY <1>1, <1>2, <1>3

\* A command that is sent is the youngest.
LEMMA OpenAppend ==
    ASSUME Types, NEW e \in Requests, rx' = rx, fwq' = Append(fwq, e)
    PROVE  /\ Open' = Append(Open, e)
           /\ Len(Open') = Len(Open) + 1
           /\ \A k \in 1 .. Len(Open) : Open'[k] = Open[k]
           /\ Open'[Len(Open) + 1] = e
<1>1. rx \in Seq(Requests) /\ fwq \in Seq(Requests) /\ Open \in Seq(Requests)
  BY OpenType DEF Types
<1>2. <<e>> \in Seq(Requests)
  OBVIOUS
<1>3. Append(fwq, e) = fwq \o <<e>> /\ Append(Open, e) = Open \o <<e>>
  BY <1>1, AppendIsConcat
<1>4. (rx \o fwq) \o <<e>> = rx \o (fwq \o <<e>>)
  BY <1>1, <1>2, ConcatAssociative
<1>5. Open' = Append(Open, e)
  BY <1>3, <1>4 DEF Open
<1> QED
  BY <1>1, <1>5, AppendProperties

\* An answer of the firmware moves a command from its queue to the receive queue.
LEMMA OpenKept ==
    ASSUME Types, FwAnswers
    PROVE  Open' = Open
<1> DEFINE h == Head(fwq)
           t == Tail(fwq)
<1>1. /\ rx \in Seq(Requests) /\ fwq \in Seq(Requests) /\ fwq # << >>
      /\ rx' = Append(rx, h) /\ fwq' = t
  BY DEF Types, FwAnswers
<1>2. h \in Requests /\ t \in Seq(Requests) /\ <<h>> \in Seq(Requests)
  BY <1>1
<1>3. fwq = <<h>> \o t
  BY <1>1
<1> HIDE DEF h, t
<1>4. Append(rx, h) = rx \o <<h>>
  BY <1>1, <1>2, AppendIsConcat
<1>5. (rx \o <<h>>) \o t = rx \o (<<h>> \o t)
  BY <1>1, <1>2, ConcatAssociative
<1> QED
  BY <1>1, <1>3, <1>4, <1>5 DEF Open

\* The response at the head of the receive queue is that of the oldest open command.
LEMMA OpenHead ==
    ASSUME Types, rx # << >>
    PROVE  /\ Open # << >> /\ Len(Open) >= 1 /\ Head(rx) = Open[1] /\ Slot = SlotOf(1)
<1>1. rx \in Seq(Requests) /\ fwq \in Seq(Requests) /\ Len(rx) >= 1 /\ Len(fwq) \in Nat
      /\ Head(rx) = rx[1] /\ Len(rx) \in Nat
  BY DEF Types
<1>2. Len(Open) = Len(rx) + Len(fwq) /\ Open[1] = rx[1]
  BY <1>1, ConcatProperties DEF Open
<1>3. Open # << >>
  BY <1>1, <1>2
<1> QED
  BY <1>1, <1>2, <1>3 DEF Slot, SlotOf

\* A response that has been handled is gone, and the others move up.
LEMMA OpenTail ==
    ASSUME Types, rx # << >>, rx' = Tail(rx), fwq' = fwq
    PROVE  /\ Len(Open') = Len(Open) - 1
           /\ \A k \in 1 .. Len(Open) - 1 : Open'[k] = Open[k + 1]
<1>1. /\ rx \in Seq(Requests) /\ fwq \in Seq(Requests) /\ Len(rx) >= 1
      /\ Len(rx) \in Nat /\ Len(fwq) \in Nat
  BY DEF Types
<1>2. /\ Tail(rx) \in Seq(Requests) /\ Len(Tail(rx)) = Len(rx) - 1
      /\ \A i \in 1 .. Len(rx) - 1 : Tail(rx)[i] = rx[i + 1]
  BY <1>1, HeadTailProperties
<1>3. /\ Len(Open) = Len(rx) + Len(fwq)
      /\ \A i \in 1 .. Len(rx) + Len(fwq) :
            Open[i] = IF i <= Len(rx) THEN rx[i] ELSE fwq[i - Len(rx)]
  BY <1>1, ConcatProperties DEF Open
<1> DEFINE t == Tail(rx)
<1> HIDE DEF t
<1>4. /\ Len(t \o fwq) = Len(t) + Len(fwq)
      /\ \A i \in 1 .. Len(t) + Len(fwq) :
            (t \o fwq)[i] = IF i <= Len(t) THEN t[i] ELSE fwq[i - Len(t)]
  BY <1>1, <1>2, ConcatProperties DEF t
<1>5. Open' = t \o fwq
  BY DEF Open, t
<1>6. Len(t) = Len(rx) - 1 /\ \A i \in 1 .. Len(rx) - 1 : t[i] = rx[i + 1]
  BY <1>2 DEF t
<1>7. ASSUME NEW k \in 1 .. Len(Open) - 1 PROVE Open'[k] = Open[k + 1]
  <2>1. /\ k \in 1 .. Len(t) + Len(fwq) /\ k + 1 \in 1 .. Len(rx) + Len(fwq)
        /\ k <= Len(t) <=> k + 1 <= Len(rx)
        /\ k <= Len(t) => k \in 1 .. Len(rx) - 1
        /\ k - Len(t) = (k + 1) - Len(rx)
    BY <1>1, <1>3, <1>6
  <2>2. Open'[k] = IF k <= Len(t) THEN t[k] ELSE fwq[k - Len(t)]
    BY <1>4, <1>5, <2>1
  <2>3. Open[k + 1] = IF k + 1 <= Len(rx) THEN rx[k + 1] ELSE fwq[(k + 1) - Len(rx)]
    BY <1>3, <2>1
  <2> QED
    BY <1>6, <2>1, <2>2, <2>3
<1> QED
  BY <1>1, <1>3, <1>4, <1>5, <1>6, <1>7

-----------------------------------------------------------------------------
(* The ring.                                                               *)

\* The entries of the open commands and the one that comes next are apart.
LEMMA SlotsApart ==
    ASSUME Types, Ring, ~full
    PROVE  /\ write_ptr % Window \in 0 .. Window - 1
           /\ \A k \in 1 .. Len(Open) : SlotOf(k) # write_ptr % Window
<1>1. /\ read_ptr \in Int /\ Len(Open) \in Nat /\ Len(Open) < Window
      /\ write_ptr = (read_ptr + Len(Open)) % TfdSize
      /\ \A k \in 1 .. Len(Open) : Open[k].ptr = (read_ptr + (k - 1)) % TfdSize
  BY OpenType, Sizes DEF Types, Ring
<1>2. write_ptr % Window = (read_ptr + Len(Open)) % Window
  <2>1. read_ptr + Len(Open) \in Int
    BY <1>1
  <2>2. ((read_ptr + Len(Open)) % TfdSize) % Window = (read_ptr + Len(Open)) % Window
    BY <2>1, Sizes, WholeWindows, ModMod
  <2> QED
    BY <1>1, <2>2
<1>3. ASSUME NEW k \in 1 .. Len(Open) PROVE SlotOf(k) # write_ptr % Window
  <2> DEFINE n == read_ptr + (k - 1)
             j == Len(Open) - (k - 1)
  <2>1. n \in Int /\ j \in 1 .. Window - 1 /\ n + j = read_ptr + Len(Open)
    <3>1. read_ptr \in Int /\ Len(Open) \in Nat /\ Len(Open) < Window /\ k \in Int
      BY <1>1
    <3>2. Window \in Nat /\ k >= 1 /\ k <= Len(Open)
      BY <3>1, Sizes
    <3> QED
      BY <3>1, <3>2
  <2>2. SlotOf(k) = (n % TfdSize) % Window
    BY <1>1 DEF SlotOf
  <2> HIDE DEF n, j
  <2>3. SlotOf(k) = n % Window
    BY <2>1, <2>2, Sizes, WholeWindows, ModMod
  <2>4. (n + j) % Window # n % Window
    BY <2>1, Sizes, ModApart
  <2> QED
    BY <1>2, <2>1, <2>3, <2>4
<1>4. write_ptr \in Int
  BY Sizes DEF Types
<1> QED
  BY <1>3, <1>4, Sizes, DivMod

\* iwl_txq_space tells what it should, and after the queue has been full it is zero.
LEMMA SpaceIs ==
    ASSUME Types, Ring
    PROVE  /\ ~full => /\ (write_ptr - read_ptr) % TfdSize = Len(Open)
                       /\ Space = (IF Window < TfdSize THEN Window ELSE TfdSize - 1) - Len(Open)
           /\ full => Space = 0
<1>1. read_ptr \in Int /\ Len(Open) \in Nat
  BY OpenType, Sizes DEF Types
<1>2. ASSUME ~full PROVE (write_ptr - read_ptr) % TfdSize = Len(Open)
  <2>1. Len(Open) \in 0 .. TfdSize - 1 /\ write_ptr = (read_ptr + Len(Open)) % TfdSize
    BY <1>1, <1>2, Sizes DEF Ring
  <2> QED
    BY <1>1, <2>1, Sizes, ModBack
<1>3. ASSUME full PROVE (write_ptr - read_ptr) % TfdSize = Window /\ Window < TfdSize
  <2>1. /\ Window \in 0 .. TfdSize - 1 /\ write_ptr = (read_ptr + Window) % TfdSize
        /\ Window < TfdSize
    BY <1>3, Sizes DEF Ring
  <2> QED
    BY <1>1, <2>1, Sizes, ModBack
<1> QED
  BY <1>2, <1>3, Sizes DEF Space

\* A command is put into a free entry, and the ring stays in order: the queue had not
\* been full, and it is noticed when it becomes so.
LEMMA EnqueueRing ==
    ASSUME Types, Ring, Space >= 1, rx' = rx,
           NEW id \in Ids, NEW flags \in SUBSET {"WANT_SKB", "ASYNC"}, Enqueue(id, flags)
    PROVE  /\ Ring' /\ ~full
           /\ Len(Open') = Len(Open) + 1 /\ Open'[Len(Open) + 1].id = id
           /\ Open'[Len(Open) + 1].ptr = write_ptr
           /\ \A k \in 1 .. Len(Open) : /\ Open'[k] = Open[k] /\ SlotOf(k)' = SlotOf(k)
                                         /\ entries'[SlotOf(k)] = entries[SlotOf(k)]
           /\ \A i \in 0 .. Window - 1 :
                    entries'[i] = IF i = write_ptr % Window THEN [id |-> id, flags |-> flags]
                                                            ELSE entries[i]
           /\ write_ptr % Window \in 0 .. Window - 1
<1> DEFINE e == [ptr |-> write_ptr, id |-> id]
           n == Len(Open)
           w == write_ptr % Window
<1>1. ~full /\ n \in Nat
  BY SpaceIs, OpenType
<1>2. /\ w \in 0 .. Window - 1
      /\ \A k \in 1 .. n : SlotOf(k) # w /\ SlotOf(k) \in 0 .. Window - 1
  BY <1>1, SlotsApart, OpenType
<1>3. e \in Requests
  BY DEF Types, Requests
<1>4. /\ Len(Open') = n + 1 /\ Open'[n + 1] = e
      /\ \A k \in 1 .. n : Open'[k] = Open[k]
  BY <1>3, OpenAppend DEF Enqueue
<1>5. \A k \in 1 .. n : SlotOf(k)' = SlotOf(k)
  BY <1>4 DEF SlotOf
<1>6. /\ entries'[w] = [id |-> id, flags |-> flags]
      /\ \A i \in 0 .. Window - 1 :
            entries'[i] = IF i = w THEN [id |-> id, flags |-> flags] ELSE entries[i]
      /\ \A k \in 1 .. n : entries'[SlotOf(k)] = entries[SlotOf(k)]
  BY <1>2 DEF Enqueue, Types
<1>7. \A k \in 1 .. n + 1 : entries'[SlotOf(k)'].id = Open'[k].id
  <2>1. ASSUME NEW k \in 1 .. n PROVE entries'[SlotOf(k)'].id = Open'[k].id
    BY <1>4, <1>5, <1>6 DEF Ring
  <2>2. ASSUME NEW k \in 1 .. n + 1, k = n + 1 PROVE entries'[SlotOf(k)'].id = Open'[k].id
    BY <1>4, <1>6, <2>2 DEF SlotOf
  <2>3. \A k \in 1 .. n + 1 : k \in 1 .. n \/ k = n + 1
    BY <1>1
  <2> QED
    BY <2>1, <2>2, <2>3
<1>8. /\ n < Window /\ n + 1 <= (IF Window < TfdSize THEN Window ELSE TfdSize - 1)
      /\ write_ptr = (read_ptr + n) % TfdSize
      /\ \A k \in 1 .. n : Open[k].ptr = (read_ptr + (k - 1)) % TfdSize
      /\ (write_ptr - read_ptr) % TfdSize = n
      /\ read_ptr \in Int /\ write_ptr \in Int
  <2>1. Space = (IF Window < TfdSize THEN Window ELSE TfdSize - 1) - n
    BY <1>1, SpaceIs
  <2>2. (write_ptr - read_ptr) % TfdSize = n
    BY <1>1, SpaceIs
  <2>3. /\ n < Window /\ write_ptr = (read_ptr + n) % TfdSize
        /\ \A k \in 1 .. n : Open[k].ptr = (read_ptr + (k - 1)) % TfdSize
    BY <1>1 DEF Ring
  <2>4. read_ptr \in Int /\ write_ptr \in Int
    BY Sizes DEF Types
  <2> HIDE DEF n
  <2>5. n + 1 <= (IF Window < TfdSize THEN Window ELSE TfdSize - 1)
    <3> DEFINE most == IF Window < TfdSize THEN Window ELSE TfdSize - 1
    <3>1. most \in Int /\ Space = most - n /\ Space >= 1
      BY <2>1, Sizes
    <3> HIDE DEF most
    <3>2. n + 1 <= most
      BY <1>1, <3>1
    <3> QED
      BY <3>2 DEF most
  <2> QED
    BY <2>2, <2>3, <2>4, <2>5
<1>9. write_ptr' = (read_ptr' + (n + 1)) % TfdSize /\ read_ptr' = read_ptr
  <2>1. (((read_ptr + n) % TfdSize) + 1) % TfdSize = ((read_ptr + n) + 1) % TfdSize
    <3>1. read_ptr + n \in Int /\ 1 \in Int
      BY <1>1, <1>8
    <3> QED
      BY <3>1, Sizes, ModAdd
  <2>2. (read_ptr + n) + 1 = read_ptr + (n + 1)
    BY <1>1, <1>8
  <2> QED
    BY <1>8, <2>1, <2>2 DEF Enqueue
<1>10. \A k \in 1 .. n + 1 : Open'[k].ptr = (read_ptr' + (k - 1)) % TfdSize
  <2>1. ASSUME NEW k \in 1 .. n PROVE Open'[k].ptr = (read_ptr' + (k - 1)) % TfdSize
    BY <1>4, <1>8, <1>9
  <2>2. Open'[n + 1].ptr = (read_ptr' + ((n + 1) - 1)) % TfdSize
    <3>1. (n + 1) - 1 = n
      BY <1>1
    <3> QED
      BY <1>4, <1>8, <1>9, <3>1
  <2>3. \A k \in 1 .. n + 1 : k \in 1 .. n \/ k = n + 1
    BY <1>1
  <2> QED
    BY <2>1, <2>2, <2>3
<1>11. full' <=> n + 1 = Window
  <2> DEFINE d == write_ptr - read_ptr
  <2>1. d \in Int /\ d + 1 = write_ptr + 1 - read_ptr
    BY <1>8
  <2>2. d % TfdSize = n
    BY <1>8
  <2> HIDE DEF d
  <2>3. ((d % TfdSize) + 1) % TfdSize = (d + 1) % TfdSize
    <3>1. 1 \in Int
      OBVIOUS
    <3> QED
      BY <2>1, <3>1, Sizes, ModAdd
  <2>4. n + 1 \in 0 .. TfdSize - 1
    BY <1>1, <1>8, Sizes
  <2>5. (n + 1) % TfdSize = n + 1
    BY <2>4, Sizes, ModSmall
  <2>6. (write_ptr + 1 - read_ptr) % TfdSize = n + 1
    BY <2>1, <2>2, <2>3, <2>5
  <2>7. full' <=> n + 1 = Window % TfdSize
    BY <1>1, <2>6 DEF Enqueue
  <2>8. CASE Window < TfdSize
    <3>1. Window \in 0 .. TfdSize - 1
      BY <2>8, Sizes
    <3> QED
      BY <2>7, <3>1, Sizes, ModSmall
  <2>9. CASE Window = TfdSize
    <3>1. TfdSize % TfdSize = 0
      <4>1. TfdSize = TfdSize * 1 + 0 /\ TfdSize \in Int /\ 0 \in 0 .. TfdSize - 1
        BY Sizes
      <4> QED
        BY <4>1, Sizes, ModUnique
    <3> QED
      BY <1>1, <1>8, <2>7, <2>9, <3>1, Sizes
  <2> QED
    BY <2>8, <2>9, Sizes
<1>12. full' => Window < TfdSize
  BY <1>1, <1>8, <1>11, Sizes
<1>13. n + 1 <= Window /\ (~full' => n + 1 < Window)
  BY <1>1, <1>8, <1>11, Sizes
<1> HIDE DEF n, w, e
<1>14. Ring'
  BY <1>4, <1>7, <1>9, <1>10, <1>11, <1>12, <1>13 DEF Ring
<1> QED
  BY <1>1, <1>2, <1>4, <1>5, <1>6, <1>14 DEF n, w, e

\* iwl_pcie_cmdq_reclaim moves past the oldest open command, and past none after the queue
\* has been full.
LEMMA ReclaimedIs ==
    ASSUME Types, Ring, rx # << >>
    PROVE  /\ ~full => Reclaimed = (read_ptr + 1) % TfdSize
           /\ full => Reclaimed = read_ptr
<1> DEFINE n == Len(Open)
           r == read_ptr % Window
           w == write_ptr % Window
<1>1. /\ n \in Nat /\ n >= 1 /\ Slot = SlotOf(1)
      /\ read_ptr \in 0 .. TfdSize - 1 /\ read_ptr \in Int /\ write_ptr \in Int
  BY OpenType, OpenHead, Sizes DEF Types
<1>2. r \in 0 .. Window - 1 /\ w \in 0 .. Window - 1
  BY <1>1, Sizes, DivMod
<1>3. ASSUME ~full PROVE Reclaimed = (read_ptr + 1) % TfdSize
  <2>1. /\ n < Window /\ write_ptr = (read_ptr + n) % TfdSize
        /\ Open[1].ptr = (read_ptr + (1 - 1)) % TfdSize
    BY <1>1, <1>3 DEF Ring
  <2>2. Slot = r
    <3>1. read_ptr % TfdSize = read_ptr /\ read_ptr + (1 - 1) = read_ptr
      BY <1>1, Sizes, ModSmall
    <3> QED
      BY <1>1, <2>1, <3>1 DEF SlotOf
  <2>3. w # r
    <3>1. w = (read_ptr + n) % Window
      <4>1. read_ptr + n \in Int
        BY <1>1
      <4> QED
        BY <2>1, <4>1, Sizes, WholeWindows, ModMod
    <3>2. n \in 1 .. Window - 1
      BY <1>1, <2>1, Sizes
    <3> HIDE DEF n
    <3>3. (read_ptr + n) % Window # read_ptr % Window
      BY <1>1, <3>2, Sizes, ModApart
    <3> QED
      BY <3>1, <3>3
  <2>4. IsUsed(Slot)
    <3> HIDE DEF r, w
    <3>1. IF w >= r THEN Slot >= r /\ Slot < w ELSE ~(Slot < r /\ Slot >= w)
      BY <1>2, <2>2, <2>3
    <3> QED
      BY <3>1 DEF IsUsed, r, w
  <2>5. (Slot + 1 - r) % TfdSize = 1
    <3> HIDE DEF r
    <3>1. r \in Int /\ n \in Nat /\ n >= 1 /\ n < Window /\ Window <= TfdSize
      BY <1>1, <1>2, <2>1, Sizes
    <3> HIDE DEF n
    <3>2. r + 1 - r = 1 /\ 1 \in 0 .. TfdSize - 1
      BY <3>1, Sizes
    <3>3. Slot + 1 - r = 1
      BY <2>2, <3>2
    <3> QED
      BY <3>2, <3>3, Sizes, ModSmall
  <2> QED
    BY <2>4, <2>5 DEF Reclaimed
<1>4. ASSUME full PROVE Reclaimed = read_ptr
  <2>1. write_ptr = (read_ptr + Window) % TfdSize
    BY <1>4 DEF Ring
  <2>2. w = (read_ptr + Window) % Window
    <3>1. read_ptr + Window \in Int
      BY <1>1, Sizes
    <3> QED
      BY <2>1, <3>1, Sizes, WholeWindows, ModMod
  <2>3. (read_ptr + Window * 1) % Window = read_ptr % Window
    <3>1. 1 \in Int
      OBVIOUS
    <3> QED
      BY <1>1, <3>1, Sizes, ModMultiple
  <2>4. w = r
    BY <2>2, <2>3, Sizes
  <2>5. Slot \in 0 .. Window - 1
    BY <1>1, OpenType
  <2>6. ~IsUsed(Slot)
    <3> HIDE DEF r, w
    <3>1. ~(IF w >= r THEN Slot >= r /\ Slot < w ELSE ~(Slot < r /\ Slot >= w))
      BY <1>2, <2>4, <2>5
    <3> QED
      BY <3>1 DEF IsUsed, r, w
  <2> QED
    BY <2>6 DEF Reclaimed
<1> QED
  BY <1>3, <1>4

\* When a response has been handled, the ring is still in order.
LEMMA CompleteRing ==
    ASSUME Types, Ring, rx # << >>, CompleteResponse
    PROVE  /\ Ring'
           /\ Len(Open') = Len(Open) - 1 /\ Len(Open) >= 1
           /\ Slot = SlotOf(1) /\ Head(rx).id = Open[1].id
           /\ Slot \in 0 .. Window - 1
           /\ \A k \in 1 .. Len(Open) - 1 :
                    Open'[k] = Open[k + 1] /\ SlotOf(k)' = SlotOf(k + 1)
           /\ \A i \in 0 .. Window - 1 :
                    /\ entries'[i].id = entries[i].id
                    /\ entries'[i].flags = IF i = Slot THEN {} ELSE entries[i].flags
<1> DEFINE n == Len(Open)
<1>1. /\ n \in Nat /\ n >= 1 /\ Slot = SlotOf(1) /\ Head(rx).id = Open[1].id
      /\ Slot \in 0 .. Window - 1 /\ read_ptr \in Int
      /\ \A k \in 1 .. n : SlotOf(k) \in 0 .. Window - 1
  <2>1. n \in Nat /\ n >= 1 /\ Slot = SlotOf(1) /\ Head(rx).id = Open[1].id
    BY OpenType, OpenHead
  <2>2. \A k \in 1 .. n : SlotOf(k) \in 0 .. Window - 1
    BY OpenType
  <2>3. read_ptr \in Int
    BY Sizes DEF Types
  <2>4. Slot \in 0 .. Window - 1
    BY <2>1, <2>2
  <2> QED
    BY <2>1, <2>2, <2>3, <2>4
<1>2. Len(Open') = n - 1 /\ \A k \in 1 .. n - 1 : Open'[k] = Open[k + 1]
  BY OpenTail DEF CompleteResponse, fwVars
<1>3. \A k \in 1 .. n - 1 : SlotOf(k)' = SlotOf(k + 1)
  BY <1>2 DEF SlotOf
<1>4. \A i \in 0 .. Window - 1 :
            /\ entries'[i].id = entries[i].id
            /\ entries'[i].flags = IF i = Slot THEN {} ELSE entries[i].flags
  BY <1>1 DEF CompleteResponse, Types
<1>5. \A k \in 1 .. n - 1 : entries'[SlotOf(k)'].id = Open'[k].id
  <2>1. ASSUME NEW k \in 1 .. n - 1 PROVE entries'[SlotOf(k)'].id = Open'[k].id
    <3>1. k + 1 \in 1 .. n
      BY <1>1
    <3>2. entries[SlotOf(k + 1)].id = Open[k + 1].id /\ SlotOf(k + 1) \in 0 .. Window - 1
      BY <1>1, <3>1 DEF Ring
    <3>3. Open'[k] = Open[k + 1] /\ SlotOf(k)' = SlotOf(k + 1)
      BY <1>2, <1>3
    <3> QED
      BY <1>4, <3>2, <3>3
  <2> QED
    BY <2>1
<1>6. read_ptr' = Reclaimed /\ write_ptr' = write_ptr /\ full' = full
  BY DEF CompleteResponse
<1>7. ASSUME ~full
      PROVE  /\ n - 1 < Window
             /\ write_ptr' = (read_ptr' + (n - 1)) % TfdSize
             /\ \A k \in 1 .. n - 1 : Open'[k].ptr = (read_ptr' + (k - 1)) % TfdSize
  <2>1. read_ptr' = (read_ptr + 1) % TfdSize
    BY <1>6, <1>7, ReclaimedIs
  <2>2. /\ n < Window /\ write_ptr = (read_ptr + n) % TfdSize
        /\ \A k \in 1 .. n : Open[k].ptr = (read_ptr + (k - 1)) % TfdSize
    BY <1>7 DEF Ring
  <2>3. \A j \in Int : (read_ptr' + j) % TfdSize = (read_ptr + (1 + j)) % TfdSize
    <3>1. ASSUME NEW j \in Int
          PROVE  (read_ptr' + j) % TfdSize = (read_ptr + (1 + j)) % TfdSize
      <4> DEFINE a == read_ptr + 1
      <4>1. a \in Int /\ a + j = read_ptr + (1 + j) /\ read_ptr' = a % TfdSize
        BY <1>1, <2>1
      <4> HIDE DEF a
      <4>2. ((a % TfdSize) + j) % TfdSize = (a + j) % TfdSize
        BY <4>1, Sizes, ModAdd
      <4> QED
        BY <4>1, <4>2
    <3> QED
      BY <3>1
  <2>4. write_ptr' = (read_ptr' + (n - 1)) % TfdSize
    <3>1. n - 1 \in Int /\ 1 + (n - 1) = n
      BY <1>1
    <3> QED
      BY <1>6, <2>2, <2>3, <3>1
  <2>5. ASSUME NEW k \in 1 .. n - 1 PROVE Open'[k].ptr = (read_ptr' + (k - 1)) % TfdSize
    <3>1. k - 1 \in Int /\ 1 + (k - 1) = (k + 1) - 1 /\ k + 1 \in 1 .. n
      BY <1>1
    <3> QED
      BY <1>2, <2>2, <2>3, <3>1
  <2>6. n - 1 < Window
    <3> HIDE DEF n
    <3> QED
      BY <1>1, <2>2, Sizes
  <2> QED
    BY <2>4, <2>5, <2>6
<1>8. full => Window < TfdSize /\ write_ptr' = (read_ptr' + Window) % TfdSize
  BY <1>6, ReclaimedIs DEF Ring
<1>9. n - 1 <= Window
  BY <1>1, Sizes DEF Ring
<1> HIDE DEF n
<1>10. Ring'
  BY <1>2, <1>5, <1>6, <1>7, <1>8, <1>9 DEF Ring
<1> QED
  BY <1>1, <1>2, <1>3, <1>4, <1>10 DEF n

-----------------------------------------------------------------------------
(* The steps that leave the queue and the open commands alone.             *)

\* A stuttering step is one of them.
Quiet ==
    \/ SendSync \/ SetActive \/ NoSpaceSync \/ Woken \/ Timeout \/ SyncNmi \/ NmiError
    \/ Check \/ FreeResponse
    \/ FwAnswers \/ FwHangs \/ FwFails
    \/ BeginResponse \/ GiveResponse
    \/ IrqBegins \/ IrqError \/ IrqWakes
    \/ StopDevice \/ StartFw
    \/ UNCHANGED vars

\* Every step is one of these, or one of the six that change the queue.
LEMMA StepCases ==
    ASSUME [Next]_vars
    PROVE  \/ Quiet \/ EnqueueSync \/ SendAsync \/ Cancel \/ CompleteResponse
           \/ FreeQueues \/ FwAlive
BY DEF Next, Caller, Poll, Irq, Restart, Quiet

\* What a quiet step keeps.
LEMMA QuietKeeps ==
    ASSUME Types, Quiet
    PROVE  /\ read_ptr' = read_ptr /\ write_ptr' = write_ptr /\ full' = full
           /\ entries' = entries /\ answered' = answered /\ cmd_idx' = cmd_idx
           /\ Open' = Open
           /\ Live' => Live
<1>1. /\ read_ptr' = read_ptr /\ write_ptr' = write_ptr /\ full' = full
      /\ entries' = entries /\ answered' = answered /\ cmd_idx' = cmd_idx
      /\ Live' => Live
  BY DEF Quiet, SendSync, SetActive, NoSpaceSync, Woken, Timeout, SyncNmi, NmiError, Check,
     FreeResponse, FwAnswers, FwHangs, FwFails, BeginResponse, GiveResponse, IrqBegins, IrqError,
     IrqWakes, StopDevice, StartFw, vars, txqVars, callerVars, callVars, others, Live
<1>2. CASE FwAnswers
  BY <1>1, <1>2, OpenKept
<1>3. CASE Quiet /\ ~FwAnswers
  <2>1. rx' = rx /\ fwq' = fwq
    BY <1>3 DEF Quiet, SendSync, SetActive, NoSpaceSync, Woken, Timeout, SyncNmi, NmiError,
       Check, FreeResponse, FwHangs, FwFails, BeginResponse, GiveResponse, IrqBegins, IrqError,
       IrqWakes, StopDevice, StartFw, vars, others, fwVars, pollVars
  <2> QED
    BY <1>1, <2>1 DEF Open
<1> QED
  BY <1>2, <1>3

-----------------------------------------------------------------------------
(* Types and control state.                                                *)

\* The numbers of new commands are numbers of commands.
LEMMA NewNumber ==
    ASSUME Types
    PROVE  /\ Sent \in Nat /\ 0 \in Ids
           /\ syncs < MaxSync => Sent + 1 \in Ids
           /\ asyncs < MaxAsync => Sent + 1 \in Ids
BY Sizes DEF Types, Sent, Ids

\* The entry of the next command, and of the response at hand.
LEMMA IndexType ==
    ASSUME Types
    PROVE  /\ write_ptr % Window \in 0 .. Window - 1
           /\ rx # << >> => Slot \in 0 .. Window - 1 /\ Head(rx).id \in Ids
           /\ (write_ptr + 1) % TfdSize \in 0 .. TfdSize - 1
           /\ NoEntry \in [id : Ids, flags : SUBSET {"WANT_SKB", "ASYNC"}]
           /\ 0 \in 0 .. Window - 1 /\ 0 \in 0 .. TfdSize - 1
<1>1. write_ptr \in Int /\ write_ptr + 1 \in Int
  BY Sizes DEF Types
<1>2. write_ptr % Window \in 0 .. Window - 1 /\ (write_ptr + 1) % TfdSize \in 0 .. TfdSize - 1
  BY <1>1, Sizes, DivMod
<1>3. rx # << >> => Slot \in 0 .. Window - 1 /\ Head(rx).id \in Ids
  <2>1. SUFFICES ASSUME rx # << >>
                 PROVE  Slot \in 0 .. Window - 1 /\ Head(rx).id \in Ids
    OBVIOUS
  <2>2. Len(Open) >= 1 /\ Len(Open) \in Nat /\ Head(rx) = Open[1] /\ Slot = SlotOf(1)
    BY <2>1, OpenHead, OpenType
  <2> QED
    BY <2>2, OpenType
<1>4. NoEntry \in [id : Ids, flags : SUBSET {"WANT_SKB", "ASYNC"}]
  BY NewNumber DEF NoEntry
<1> QED
  BY <1>2, <1>3, <1>4, Sizes

\* Where read_ptr goes.
LEMMA ReclaimedType ==
    ASSUME Types, rx # << >>
    PROVE  Reclaimed \in 0 .. TfdSize - 1
<1> DEFINE d == (Slot + 1 - (read_ptr % Window)) % TfdSize
<1>1. Slot \in 0 .. Window - 1 /\ read_ptr \in Int
  BY IndexType, Sizes DEF Types
<1>2. read_ptr % Window \in 0 .. Window - 1
  BY <1>1, Sizes, DivMod
<1>3. Slot + 1 - (read_ptr % Window) \in Int
  BY <1>1, <1>2, Sizes
<1>4. d \in 0 .. TfdSize - 1
  BY <1>3, Sizes, DivMod
<1>5. read_ptr + d \in Int
  BY <1>1, <1>4, Sizes
<1> HIDE DEF d
<1>6. (read_ptr + d) % TfdSize \in 0 .. TfdSize - 1
  BY <1>5, Sizes, DivMod
<1> QED
  BY <1>6 DEF Reclaimed, d, Types

\* Enqueue keeps the types.
LEMMA EnqueueTypes ==
    ASSUME Types, NEW id \in Ids, NEW flags \in SUBSET {"WANT_SKB", "ASYNC"},
           Enqueue(id, flags)
    PROVE  /\ read_ptr' \in 0 .. TfdSize - 1 /\ write_ptr' \in 0 .. TfdSize - 1
           /\ entries' \in [0 .. Window - 1 -> [id : Ids, flags : SUBSET {"WANT_SKB", "ASYNC"}]]
           /\ fwq' \in Seq(Requests) /\ fw' = fw
<1> DEFINE r == [id |-> id, flags |-> flags]
           e == [ptr |-> write_ptr, id |-> id]
<1>1. r \in [id : Ids, flags : SUBSET {"WANT_SKB", "ASYNC"}] /\ e \in Requests
  BY DEF Types, Requests
<1>2. /\ entries' = [entries EXCEPT ![write_ptr % Window] = r]
      /\ fwq' = Append(fwq, e) /\ fw' = fw
      /\ read_ptr' = read_ptr /\ write_ptr' = (write_ptr + 1) % TfdSize
  BY DEF Enqueue
<1> HIDE DEF r, e
<1>3. fwq' \in Seq(Requests)
  BY <1>1, <1>2, AppendProperties DEF Types
<1> QED
  BY <1>1, <1>2, <1>3, IndexType DEF Types

\* Every step keeps the types.
LEMMA TypesStep ==
    ASSUME Types, Control, [Next]_vars
    PROVE  Types'
<1>1. CASE SendSync
  <2>1. syncs + 1 \in 0 .. MaxSync /\ Sent + 1 \in Ids /\ 0 \in Ids
    BY <1>1, NewNumber, Sizes DEF SendSync, Types
  <2> QED
    BY <1>1, <2>1 DEF Types, SendSync, txqVars, fwVars, pollVars
<1>2. CASE SetActive \/ NoSpaceSync \/ Woken \/ Timeout \/ NmiError \/ Check
  <2>1. /\ UNCHANGED <<txqVars, callVars, resp, others>>
        /\ pc' \in {"idle", "enqueue", "check", "nmi", "cancel"}
        /\ ret' \in {ret, "ok", "busy", "enospc", "eio", "etimedout"}
    BY <1>2 DEF SetActive, NoSpaceSync, Woken, Timeout, NmiError, Check, Return
  <2> QED
    BY <2>1 DEF Types, txqVars, callVars, others, fwVars, pollVars, bounds
<1>3. CASE SyncNmi \/ FreeResponse
  BY <1>3, NewNumber DEF Types, SyncNmi, FreeResponse, txqVars, callVars, others, fwVars,
     pollVars, bounds
<1>4. CASE FwHangs \/ FwFails
  <2>1. faults + 1 \in 0 .. MaxFaults
    BY <1>4, Sizes DEF FwHangs, FwFails, Types
  <2> QED
    BY <1>4, <2>1 DEF Types, FwHangs, FwFails, txqVars, callerVars, callVars, pollVars
<1>5. CASE BeginResponse \/ GiveResponse \/ IrqBegins \/ IrqError \/ IrqWakes
  BY <1>5 DEF Types, BeginResponse, GiveResponse, IrqBegins, IrqError, IrqWakes,
     txqVars, callVars, callerVars, fwVars, pollVars, bounds
<1>6. CASE StopDevice
  <2>1. restarts + 1 \in 0 .. MaxRestarts
    BY <1>6, Sizes DEF StopDevice, Types
  <2> QED
    BY <1>6, <2>1 DEF Types, StopDevice, txqVars, callerVars, callVars, fwVars, pollVars
<1>7. CASE StartFw \/ UNCHANGED vars
  BY <1>7 DEF Types, StartFw, vars, txqVars, callerVars, callVars, others, fwVars, pollVars,
     bounds
<1>8. CASE FwAnswers
  <2>1. Head(fwq) \in Requests /\ Tail(fwq) \in Seq(Requests)
    BY <1>8, HeadTailProperties DEF FwAnswers, Types
  <2>2. rx' \in Seq(Requests) /\ fwq' \in Seq(Requests)
    BY <1>8, <2>1, AppendProperties DEF FwAnswers, Types
  <2> QED
    BY <1>8, <2>2 DEF FwAnswers, Types, txqVars, statusVars, callVars, callerVars, bounds
<1>9. CASE EnqueueSync
  <2> DEFINE flags == IF want THEN {"WANT_SKB"} ELSE {}
  <2>1. flags \in SUBSET {"WANT_SKB", "ASYNC"} /\ cmd \in Ids /\ Enqueue(cmd, flags)
    BY <1>9 DEF EnqueueSync, Types
  <2> HIDE DEF flags
  <2>2. /\ read_ptr' \in 0 .. TfdSize - 1 /\ write_ptr' \in 0 .. TfdSize - 1
        /\ entries' \in [0 .. Window - 1 -> [id : Ids, flags : SUBSET {"WANT_SKB", "ASYNC"}]]
        /\ fwq' \in Seq(Requests) /\ fw' = fw
    BY <2>1, EnqueueTypes
  <2> QED
    BY <1>9, <2>2, IndexType DEF Types, EnqueueSync, statusVars, pollVars, bounds
<1>10. CASE SendAsync
  <2>1. {"ASYNC"} \in SUBSET {"WANT_SKB", "ASYNC"} /\ Sent + 1 \in Ids
    BY <1>10, NewNumber DEF SendAsync
  <2>2. Enqueue(Sent + 1, {"ASYNC"})
    BY <1>10 DEF SendAsync
  <2>3. /\ read_ptr' \in 0 .. TfdSize - 1 /\ write_ptr' \in 0 .. TfdSize - 1
        /\ entries' \in [0 .. Window - 1 -> [id : Ids, flags : SUBSET {"WANT_SKB", "ASYNC"}]]
        /\ fwq' \in Seq(Requests) /\ fw' = fw
    BY <2>1, <2>2, EnqueueTypes
  <2> QED
    BY <1>10, <2>3, Sizes DEF Types, SendAsync, statusVars, callerVars, callVars, pollVars
<1>11. CASE Cancel
  <2>1. entries' \in [0 .. Window - 1 -> [id : Ids, flags : SUBSET {"WANT_SKB", "ASYNC"}]]
    BY <1>11 DEF Cancel, Types
  <2> QED
    BY <1>11, <2>1 DEF Types, Cancel, statusVars, callVars, others, fwVars, pollVars, bounds
<1>12. CASE CompleteResponse
  <2>1. rx # << >>
    BY <1>12 DEF CompleteResponse, Control
  <2>2. /\ entries' \in [0 .. Window - 1 -> [id : Ids, flags : SUBSET {"WANT_SKB", "ASYNC"}]]
        /\ answered' \subseteq Ids
    BY <1>12, <2>1, IndexType DEF CompleteResponse, Types
  <2>3. rx' \in Seq(Requests)
    BY <1>12, <2>1, HeadTailProperties DEF CompleteResponse, Types
  <2> QED
    BY <1>12, <2>1, <2>2, <2>3, ReclaimedType DEF Types, CompleteResponse, callerVars, callVars,
       fwVars, bounds
<1>13. CASE FreeQueues \/ FwAlive
  <2>1. Free \in [0 .. Window - 1 -> [id : Ids, flags : SUBSET {"WANT_SKB", "ASYNC"}]]
    BY IndexType DEF Free
  <2>2. << >> \in Seq(Requests)
    OBVIOUS
  <2>3. CASE FreeQueues
    BY <2>1, <2>2, <2>3 DEF Types, FreeQueues, callerVars, callVars, bounds
  <2>4. CASE FwAlive
    BY <2>1, <2>4, IndexType DEF Types, FwAlive, callerVars, callVars, pollVars, bounds
  <2> QED
    BY <1>13, <2>3, <2>4
<1> QED
  BY <1>1, <1>2, <1>3, <1>4, <1>8, <1>9, <1>10, <1>11, <1>12, <1>13, <1>5, <1>6, <1>7, StepCases
     DEF Quiet

\* Every step keeps the control state.
LEMMA ControlStep ==
    ASSUME Types, Control, [Next]_vars
    PROVE  Control'
<1>1. CASE Quiet
  <2>1. Open' = Open /\ entries' = entries /\ (Live' => Live)
    BY <1>1, QuietKeeps
  <2>2. CASE SendSync \/ SetActive \/ NoSpaceSync \/ Woken \/ Timeout \/ SyncNmi \/ NmiError
    BY <2>1, <2>2 DEF Control, SendSync, SetActive, NoSpaceSync, Woken, Timeout, SyncNmi,
       NmiError, Return, statusVars, callVars, pollVars, others, Live
  <2>3. CASE Check \/ FreeResponse \/ FwHangs \/ FwFails
    BY <2>1, <2>3 DEF Control, Check, FreeResponse, FwHangs, FwFails, Return,
       statusVars, callVars, callerVars, pollVars, others, Live
  <2>4. CASE BeginResponse \/ GiveResponse \/ IrqBegins \/ IrqError \/ IrqWakes
    BY <2>1, <2>4 DEF Control, BeginResponse, GiveResponse, IrqBegins, IrqError, IrqWakes,
       statusVars, callVars, callerVars, pollVars, Live
  <2>5. CASE StopDevice \/ StartFw \/ UNCHANGED vars
    BY <2>1, <2>5 DEF Control, StopDevice, StartFw, vars, statusVars, callVars,
       callerVars, pollVars, others, Live
  <2>6. CASE FwAnswers
    <3>1. rx' # << >>
      BY <2>6, HeadTailProperties, AppendProperties DEF FwAnswers, Types
    <3> QED
      BY <2>1, <2>6, <3>1 DEF Control, FwAnswers, statusVars, callVars, callerVars, Live
  <2> QED
    BY <1>1, <2>2, <2>3, <2>4, <2>5, <2>6 DEF Quiet
<1>2. CASE EnqueueSync \/ SendAsync
  <2>1. Live' /\ Live /\ rx' = rx /\ poll' = "idle"
    BY <1>2 DEF EnqueueSync, SendAsync, Unlocked, Control, Live, pollVars
  <2> QED
    BY <1>2, <2>1 DEF Control, EnqueueSync, SendAsync, statusVars, callerVars, callVars
<1>3. CASE Cancel
  <2>1. Live' /\ Live
    BY <1>3 DEF Cancel, Control, Live, others
  <2> QED
    BY <1>3, <2>1 DEF Control, Cancel, statusVars, callVars, others, pollVars
<1>4. CASE CompleteResponse
  <2>1. Live' /\ Live
    BY <1>4 DEF CompleteResponse, Control, Live
  <2> QED
    BY <1>4, <2>1 DEF Control, CompleteResponse, callerVars, callVars
<1>5. CASE FreeQueues
  <2>1. Open' = << >>
    BY <1>5 DEF FreeQueues, Open
  <2> QED
    BY <1>5, <2>1 DEF Control, FreeQueues, callerVars, callVars, Live
<1>6. CASE FwAlive
  BY <1>6 DEF Control, FwAlive, IrqDone, callerVars, callVars, pollVars, Live
<1> QED
  BY <1>1, <1>2, <1>3, <1>4, <1>5, <1>6, StepCases

-----------------------------------------------------------------------------
(* The ring and the numbers.                                               *)

\* Every step keeps the ring in order.
LEMMA RingStep ==
    ASSUME Types, Control, Live => Ring, [Next]_vars
    PROVE  (Live => Ring)'
<1>1. CASE Quiet
  BY <1>1, QuietKeeps DEF Ring, SlotOf
<1>2. CASE EnqueueSync
  <2> DEFINE flags == IF want THEN {"WANT_SKB"} ELSE {}
  <2>1. /\ flags \in SUBSET {"WANT_SKB", "ASYNC"} /\ cmd \in Ids /\ Enqueue(cmd, flags)
        /\ Space >= 1 /\ rx' = rx /\ Live
    BY <1>2 DEF EnqueueSync, Types, Control, Live, pollVars
  <2> HIDE DEF flags
  <2> QED
    BY <2>1, EnqueueRing
<1>3. CASE SendAsync
  <2>1. /\ {"ASYNC"} \in SUBSET {"WANT_SKB", "ASYNC"} /\ Sent + 1 \in Ids
        /\ Enqueue(Sent + 1, {"ASYNC"}) /\ rx' = rx /\ Live
    BY <1>3, NewNumber DEF SendAsync, Live, pollVars
  <2>2. Space >= 1
    <3>1. Space \in Int /\ Space >= 2
      BY <1>3, <2>1, SpaceIs, OpenType, Sizes DEF SendAsync
    <3> QED
      BY <3>1
  <2> QED
    BY <2>1, <2>2, EnqueueRing
<1>4. CASE Cancel
  <2>1. \A i \in 0 .. Window - 1 : entries'[i].id = entries[i].id
    BY <1>4 DEF Cancel, Types
  <2>2. /\ Open' = Open /\ read_ptr' = read_ptr /\ write_ptr' = write_ptr /\ full' = full
        /\ (Live' => Live)
    BY <1>4 DEF Cancel, others, fwVars, pollVars, Open, Live
  <2>3. \A k \in 1 .. Len(Open) : SlotOf(k) \in 0 .. Window - 1
    BY OpenType
  <2> QED
    BY <2>1, <2>2, <2>3 DEF Ring, SlotOf
<1>5. CASE CompleteResponse
  <2>1. rx # << >> /\ Live
    BY <1>5 DEF CompleteResponse, Control
  <2> QED
    BY <1>5, <2>1, CompleteRing
<1>6. CASE FreeQueues
  BY <1>6 DEF FreeQueues, Live
<1>7. CASE FwAlive
  <2>1. Open = << >> /\ Open' = Open
    BY <1>7 DEF FwAlive, Control, Live, Open, pollVars
  <2>2. Len(Open') = 0
    BY <2>1
  <2>3. read_ptr' = 0 /\ write_ptr' = 0 /\ ~full'
    BY <1>7 DEF FwAlive
  <2>4. (read_ptr' + Len(Open')) % TfdSize = 0
    <3>1. 0 + 0 = 0 /\ 0 \in 0 .. TfdSize - 1
      BY Sizes
    <3> QED
      BY <2>2, <2>3, <3>1, Sizes, ModSmall
  <2> QED
    BY <2>2, <2>3, <2>4, Sizes DEF Ring
<1> QED
  BY <1>1, <1>2, <1>3, <1>4, <1>5, <1>6, <1>7, StepCases

\* A new number put into a free entry keeps the numbers apart.
LEMMA NumberEntered ==
    ASSUME Types, Ring, Numbers, Space >= 1, rx' = rx, answered' = answered,
           NEW id \in Ids, NEW flags \in SUBSET {"WANT_SKB", "ASYNC"}, Enqueue(id, flags),
           Sent' \in Nat, Sent <= Sent', id \in 1 .. Sent', id \notin answered,
           \A i \in 0 .. Window - 1 : entries[i].id # id,
           \A k \in 1 .. Len(Open) : Open[k].id # id
    PROVE  /\ \A k \in 1 .. Len(Open') : Open'[k].id \in (1 .. Sent') \ answered'
           /\ \A j, k \in 1 .. Len(Open') : Open'[j].id = Open'[k].id => j = k
           /\ \A i \in 0 .. Window - 1 : entries'[i].id <= Sent'
           /\ \A i, j \in 0 .. Window - 1 :
                    entries'[i].id = entries'[j].id => i = j \/ entries'[i].id = 0
           /\ \A i \in 0 .. Window - 1 : entries'[i].id \in {id, entries[i].id}
           /\ \A k \in 1 .. Len(Open') :
                    Open'[k].id = id \/ (k \in 1 .. Len(Open) /\ Open'[k].id = Open[k].id)
<1> DEFINE n == Len(Open)
           w == write_ptr % Window
<1>1. /\ Len(Open') = n + 1 /\ Open'[n + 1].id = id /\ n \in Nat
      /\ \A k \in 1 .. n : Open'[k] = Open[k]
      /\ \A i \in 0 .. Window - 1 :
            entries'[i] = IF i = w THEN [id |-> id, flags |-> flags] ELSE entries[i]
      /\ w \in 0 .. Window - 1
  BY EnqueueRing, OpenType
<1>2. /\ \A k \in 1 .. n : Open[k].id \in (1 .. Sent) \ answered /\ Open[k].id \in Nat
      /\ \A i \in 0 .. Window - 1 : entries[i].id \in Nat /\ entries[i].id <= Sent
      /\ Sent \in Nat
  <2>1. \A k \in 1 .. n : Open[k].id \in (1 .. Sent) \ answered /\ Open[k].id \in Nat
    BY DEF Numbers
  <2>2. \A i \in 0 .. Window - 1 : entries[i].id \in Nat /\ entries[i].id <= Sent
    BY Sizes DEF Numbers, Types, Ids
  <2> QED
    BY <2>1, <2>2, NewNumber
<1> HIDE DEF n, w
<1>3. \A k \in 1 .. n + 1 : k \in 1 .. n \/ k = n + 1
  BY <1>1
<1>4. \A k \in 1 .. Len(Open') : Open'[k].id \in (1 .. Sent') \ answered'
  BY <1>1, <1>2, <1>3
<1>5. \A j, k \in 1 .. Len(Open') : Open'[j].id = Open'[k].id => j = k
  BY <1>1, <1>3 DEF Numbers, n
<1>6. \A i \in 0 .. Window - 1 : entries'[i].id = IF i = w THEN id ELSE entries[i].id
  BY <1>1
<1>7. \A i \in 0 .. Window - 1 : entries'[i].id <= Sent'
  BY <1>2, <1>6
<1>8. \A i, j \in 0 .. Window - 1 :
            entries'[i].id = entries'[j].id => i = j \/ entries'[i].id = 0
  BY <1>6 DEF Numbers
<1>9. \A k \in 1 .. Len(Open') :
            Open'[k].id = id \/ (k \in 1 .. Len(Open) /\ Open'[k].id = Open[k].id)
  <2>1. ASSUME NEW k \in 1 .. n
        PROVE  Open'[k].id = id \/ (k \in 1 .. n /\ Open'[k].id = Open[k].id)
    BY <1>1
  <2>2. \A k \in 1 .. n + 1 : k = n + 1 => Open'[k].id = id
    <3>1. Open'[n + 1].id = id
      BY <1>1
    <3> QED
      BY <3>1, Zenon
  <2>3. \A k \in 1 .. n + 1 : Open'[k].id = id \/ (k \in 1 .. n /\ Open'[k].id = Open[k].id)
    BY <1>3, <2>1, <2>2
  <2> QED
    BY <1>1, <2>3 DEF n
<1> QED
  BY <1>4, <1>5, <1>6, <1>7, <1>8, <1>9

\* Every step keeps the numbers apart.
LEMMA NumbersStep ==
    ASSUME Types, Control, Live => Ring, Numbers, [Next]_vars
    PROVE  Numbers'
<1>1. /\ Sent \in Nat /\ cmd \in Nat
      /\ \A i \in 0 .. Window - 1 : entries[i].id \in Nat
      /\ \A k \in 1 .. Len(Open) : Open[k].id \in Nat
      /\ \A a \in answered : a \in Nat
  BY NewNumber, OpenType, Sizes DEF Types, Ids
<1>2. CASE Quiet
  <2>1. entries' = entries /\ answered' = answered /\ Open' = Open
    BY <1>2, QuietKeeps
  <2>2. CASE SendSync
    <3>1. Sent' = Sent + 1 /\ cmd' = Sent + 1 /\ pc' = "set"
      BY <2>2, Sizes DEF SendSync, Sent, Types
    <3> QED
      BY <1>1, <2>1, <3>1 DEF Numbers
  <2>3. CASE ~SendSync
    <3>1. /\ Sent' = Sent /\ cmd' = cmd /\ (pc' # "idle" => pc # "idle")
          /\ pc' \in {"set", "enqueue"} => pc \in {"set", "enqueue"}
      BY <1>2, <2>3 DEF Quiet, SetActive, NoSpaceSync, Woken, Timeout, SyncNmi, NmiError, Check,
         FreeResponse, FwAnswers, FwHangs, FwFails, BeginResponse, GiveResponse, IrqBegins,
         IrqError, IrqWakes, StopDevice, StartFw, Return, vars, callerVars, callVars, others,
         bounds, Sent
    <3> QED
      BY <1>1, <2>1, <3>1 DEF Numbers
  <2> QED
    BY <2>2, <2>3
<1>3. CASE EnqueueSync
  <2> DEFINE flags == IF want THEN {"WANT_SKB"} ELSE {}
  <2>1. /\ flags \in SUBSET {"WANT_SKB", "ASYNC"} /\ cmd \in Ids /\ Enqueue(cmd, flags)
        /\ Space >= 1 /\ rx' = rx /\ Live /\ answered' = answered
        /\ Sent' = Sent /\ cmd' = cmd /\ pc' = "wait"
    BY <1>3 DEF EnqueueSync, Types, Control, Live, pollVars, bounds, Sent
  <2>2. /\ cmd \notin answered /\ cmd \in 1 .. Sent
        /\ \A i \in 0 .. Window - 1 : entries[i].id # cmd
        /\ \A k \in 1 .. Len(Open) : Open[k].id # cmd
    BY <1>1, <1>3 DEF EnqueueSync, Numbers
  <2>3. Sent' \in Nat /\ Sent <= Sent' /\ cmd \in 1 .. Sent'
    BY <1>1, <2>1, <2>2
  <2> HIDE DEF flags
  <2>4. /\ \A k \in 1 .. Len(Open') : Open'[k].id \in (1 .. Sent') \ answered'
        /\ \A j, k \in 1 .. Len(Open') : Open'[j].id = Open'[k].id => j = k
        /\ \A i \in 0 .. Window - 1 : entries'[i].id <= Sent'
        /\ \A i, j \in 0 .. Window - 1 :
                    entries'[i].id = entries'[j].id => i = j \/ entries'[i].id = 0
    BY <2>1, <2>2, <2>3, NumberEntered
  <2> QED
    BY <1>1, <2>1, <2>2, <2>4 DEF Numbers
<1>4. CASE SendAsync
  <2>1. /\ {"ASYNC"} \in SUBSET {"WANT_SKB", "ASYNC"} /\ Sent + 1 \in Ids
        /\ Enqueue(Sent + 1, {"ASYNC"}) /\ rx' = rx /\ Live
        /\ answered' = answered /\ cmd' = cmd /\ pc' = pc
    BY <1>4, NewNumber DEF SendAsync, Live, pollVars, callerVars, callVars
  <2>2. Space >= 1
    <3>1. Space \in Int /\ Space >= 2
      BY <1>4, <2>1, SpaceIs, OpenType, Sizes DEF SendAsync
    <3> QED
      BY <3>1
  <2>3. Sent' = Sent + 1
    BY <1>4, Sizes DEF SendAsync, Sent, Types
  <2> DEFINE id == Sent + 1
  <2>4. /\ Sent' \in Nat /\ Sent <= Sent' /\ id \in 1 .. Sent' /\ id \notin answered
        /\ \A i \in 0 .. Window - 1 : entries[i].id # id
        /\ \A k \in 1 .. Len(Open) : Open[k].id # id
        /\ cmd # id
    BY <1>1, <2>3 DEF Numbers
  <2>5. id \in Ids /\ Enqueue(id, {"ASYNC"})
    BY <2>1
  <2> HIDE DEF id
  <2>6. /\ \A k \in 1 .. Len(Open') : Open'[k].id \in (1 .. Sent') \ answered'
        /\ \A j, k \in 1 .. Len(Open') : Open'[j].id = Open'[k].id => j = k
        /\ \A i \in 0 .. Window - 1 : entries'[i].id <= Sent'
        /\ \A i, j \in 0 .. Window - 1 :
                    entries'[i].id = entries'[j].id => i = j \/ entries'[i].id = 0
        /\ \A i \in 0 .. Window - 1 : entries'[i].id \in {id, entries[i].id}
        /\ \A k \in 1 .. Len(Open') :
                    Open'[k].id = id \/ (k \in 1 .. Len(Open) /\ Open'[k].id = Open[k].id)
    BY <2>1, <2>2, <2>4, <2>5, NumberEntered
  <2>7. /\ \A a \in answered' : a <= Sent'
        /\ cmd' <= Sent' /\ (pc' # "idle" => cmd' > 0)
    BY <1>1, <2>1, <2>3 DEF Numbers
  <2>8. pc' \in {"set", "enqueue"} =>
            /\ cmd' \notin answered'
            /\ \A i \in 0 .. Window - 1 : entries'[i].id # cmd'
            /\ \A k \in 1 .. Len(Open') : Open'[k].id # cmd'
    BY <2>1, <2>4, <2>6 DEF Numbers
  <2> QED
    BY <2>6, <2>7, <2>8 DEF Numbers
<1>5. CASE Cancel
  <2>1. \A i \in 0 .. Window - 1 : entries'[i].id = entries[i].id
    BY <1>5 DEF Cancel, Types
  <2>2. /\ Open' = Open /\ answered' = answered /\ Sent' = Sent /\ cmd' = cmd
        /\ pc' = "free" /\ pc = "cancel"
    BY <1>5 DEF Cancel, others, fwVars, pollVars, callVars, bounds, Open, Sent
  <2> QED
    BY <2>1, <2>2 DEF Numbers
<1>6. CASE CompleteResponse
  <2>1. rx # << >> /\ Live
    BY <1>6 DEF CompleteResponse, Control
  <2>2. /\ Len(Open') = Len(Open) - 1 /\ Len(Open) >= 1 /\ Head(rx).id = Open[1].id
        /\ \A k \in 1 .. Len(Open) - 1 : Open'[k] = Open[k + 1]
        /\ \A i \in 0 .. Window - 1 : entries'[i].id = entries[i].id
    BY <1>6, <2>1, CompleteRing
  <2>3. /\ answered' = answered \cup {Open[1].id} /\ Sent' = Sent
        /\ cmd' = cmd /\ pc' = pc
    BY <1>6, <2>2 DEF CompleteResponse, callerVars, callVars, bounds, Sent
  <2>4. Len(Open) \in Nat /\ 1 \in 1 .. Len(Open)
    BY <2>2, OpenType
  <2>5. /\ \A k \in 1 .. Len(Open') : Open'[k].id \in (1 .. Sent') \ answered'
        /\ \A j, k \in 1 .. Len(Open') : Open'[j].id = Open'[k].id => j = k
        /\ \A k \in 1 .. Len(Open') : \E j \in 1 .. Len(Open) : Open'[k] = Open[j]
    <3>1. \A k \in 1 .. Len(Open') : k \in 1 .. Len(Open) - 1
      BY <2>2, <2>4
    <3>2. \A k \in 1 .. Len(Open) - 1 : k + 1 \in 1 .. Len(Open) /\ k + 1 # 1
      BY <2>4
    <3>3. \A j, k \in 1 .. Len(Open) - 1 : j + 1 = k + 1 => j = k
      BY <2>4
    <3>4. \A k \in 1 .. Len(Open') : k + 1 \in 1 .. Len(Open) /\ Open'[k] = Open[k + 1]
      BY <2>2, <3>1, <3>2
    <3>5. \A k \in 1 .. Len(Open') : Open'[k].id \in (1 .. Sent') \ answered'
      <4>1. ASSUME NEW k \in 1 .. Len(Open')
            PROVE  Open'[k].id \in (1 .. Sent') \ answered'
        <5>1. Open[k + 1].id \in (1 .. Sent) \ answered
          BY <3>4 DEF Numbers
        <5>2. Open[k + 1].id # Open[1].id
          BY <2>4, <3>1, <3>2, <3>4 DEF Numbers
        <5> QED
          BY <2>3, <3>4, <5>1, <5>2
      <4> QED
        BY <4>1
    <3>6. \A j, k \in 1 .. Len(Open') : Open'[j].id = Open'[k].id => j = k
      <4>1. ASSUME NEW j \in 1 .. Len(Open'), NEW k \in 1 .. Len(Open'),
                   Open'[j].id = Open'[k].id
            PROVE  j = k
        <5>1. \A a, b \in 1 .. Len(Open) : Open[a].id = Open[b].id => a = b
          BY Zenon DEF Numbers
        <5>2. /\ j + 1 \in 1 .. Len(Open) /\ Open'[j] = Open[j + 1]
              /\ k + 1 \in 1 .. Len(Open) /\ Open'[k] = Open[k + 1]
          BY <3>4, Zenon
        <5>3. Open[j + 1].id = Open[k + 1].id
          BY <4>1, <5>2, Zenon
        <5>4. j + 1 = k + 1
          BY <5>1, <5>2, <5>3, Zenon
        <5> QED
          BY <3>1, <3>3, <5>4
      <4> QED
        BY <4>1
    <3> QED
      BY <3>4, <3>5, <3>6
  <2>6. \A a \in answered' : a <= Sent'
    BY <2>3, <2>4, <1>1 DEF Numbers
  <2>7. pc \in {"set", "enqueue"} =>
            /\ cmd \notin answered'
            /\ \A i \in 0 .. Window - 1 : entries'[i].id # cmd
            /\ \A k \in 1 .. Len(Open') : Open'[k].id # cmd
    BY <2>2, <2>3, <2>4, <2>5 DEF Numbers
  <2> QED
    BY <2>2, <2>3, <2>5, <2>6, <2>7 DEF Numbers
<1>7. CASE FreeQueues \/ FwAlive
  <2>1. /\ entries' = Free /\ answered' = answered /\ Sent' = Sent /\ cmd' = cmd
        /\ Open' = << >> /\ pc' = pc /\ pc = "idle"
    BY <1>7 DEF FreeQueues, FwAlive, Control, callerVars, callVars, bounds, Open, Sent, Live,
       pollVars
  <2>2. Len(Open') = 0 /\ \A i \in 0 .. Window - 1 : entries'[i].id = 0
    BY <2>1 DEF Free, NoEntry
  <2> QED
    BY <1>1, <2>1, <2>2 DEF Numbers
<1> QED
  BY <1>2, <1>3, <1>4, <1>5, <1>6, <1>7, StepCases

-----------------------------------------------------------------------------
(* Whose answer wakes the caller, and where CMD_WANT_SKB is set.           *)

\* Quiet steps: the caller leaves the wait without an error only when its command has been
\* answered.
LEMMA WaitedQuiet ==
    ASSUME Types, Control, Numbers, Waited, Quiet
    PROVE  Waited'
<1>1. entries' = entries /\ answered' = answered /\ Open' = Open
  BY QuietKeeps
<1>2. \A k \in 1 .. Len(Open) : Open[k].id \notin answered
  BY DEF Numbers
\* What is left to show of a step: the open commands, and the caller's place.
<1>3. ASSUME device' = "up" /\ ~fw_error' => device = "up" /\ ~fw_error,
             device' = "up" /\ ~fw_error' =>
                \A k \in 1 .. Len(Open) :
                    \/ "ASYNC" \in entries[SlotOf(k)].flags
                    \/ Open[k].id = cmd' /\ pc' \in {"wait", "nmi", "nmi_error"},
             pc' = "enqueue" /\ ~fw_error' => active',
             pc' = "wait" /\ ~active' /\ ~fw_error' => cmd' \in answered,
             pc' = "check" /\ ~fw_error' => cmd' \in answered
      PROVE  Waited'
  BY <1>1, <1>3 DEF Waited, SlotOf
<1>4. CASE SendSync
  BY <1>3, <1>4 DEF SendSync, Waited, statusVars
<1>5. CASE SetActive \/ NoSpaceSync \/ Timeout \/ SyncNmi
  BY <1>3, <1>5 DEF SetActive, NoSpaceSync, Timeout, SyncNmi, Return, Waited, callVars, statusVars,
     others
<1>6. CASE NmiError
  BY <1>3, <1>6 DEF NmiError, Waited, callVars, others
<1>7. CASE Woken
  <2>1. /\ device' = device /\ fw_error' = fw_error /\ cmd' = cmd /\ active' = active
        /\ pc = "wait" /\ ~active /\ pc' = "check"
    BY <1>7 DEF Woken, callVars, statusVars, others
  <2>2. ~fw_error => cmd \in answered
    BY <2>1 DEF Waited
  <2> QED
    BY <1>2, <1>3, <2>1, <2>2 DEF Waited
<1>8. CASE Check \/ FreeResponse
  BY <1>3, <1>8 DEF Check, FreeResponse, Return, Waited, callVars, statusVars, others
<1>9. CASE FwAnswers \/ FwHangs \/ FwFails \/ BeginResponse \/ GiveResponse \/ IrqBegins
           \/ UNCHANGED vars
  <2>1. UNCHANGED <<device, fw_error, active, cmd, pc>>
    BY <1>9 DEF FwAnswers, FwHangs, FwFails, BeginResponse, GiveResponse, IrqBegins, vars,
       callerVars, callVars, statusVars, others
  <2> QED
    BY <1>3, <2>1 DEF Waited
<1>10. CASE IrqError
  BY <1>3, <1>10 DEF IrqError, Waited, callerVars, callVars
<1>11. CASE IrqWakes
  <2>1. UNCHANGED <<device, fw_error, cmd, pc>> /\ irq = "wake"
    BY <1>11 DEF IrqWakes, callerVars, callVars
  <2>2. device = "up" => fw_error
    BY <2>1 DEF Control, Live
  <2> QED
    BY <1>3, <2>1, <2>2 DEF Waited, Control
<1>12. CASE StopDevice \/ StartFw
  BY <1>3, <1>12 DEF StopDevice, StartFw, Control, Waited, callerVars, callVars, statusVars
<1> QED
  BY <1>4, <1>5, <1>6, <1>7, <1>8, <1>9, <1>10, <1>11, <1>12 DEF Quiet

\* A response that is handled: the bit is cleared for the command that is waited for.
LEMMA WaitedComplete ==
    ASSUME Types, Control, Live => Ring, Numbers, Waited, CompleteResponse
    PROVE  Waited'
<1>1. rx # << >> /\ Live
  BY DEF CompleteResponse, Control
<1>2. /\ Len(Open') = Len(Open) - 1 /\ Len(Open) >= 1 /\ Head(rx).id = Open[1].id
      /\ Slot = SlotOf(1) /\ Slot \in 0 .. Window - 1
      /\ \A k \in 1 .. Len(Open) - 1 : Open'[k] = Open[k + 1] /\ SlotOf(k)' = SlotOf(k + 1)
      /\ \A i \in 0 .. Window - 1 :
            /\ entries'[i].id = entries[i].id
            /\ entries'[i].flags = IF i = Slot THEN {} ELSE entries[i].flags
  BY <1>1, CompleteRing
<1>3. /\ answered' = answered \cup {Open[1].id}
      /\ active' = (active /\ "ASYNC" \in entries[Slot].flags)
      /\ UNCHANGED <<cmd, pc, fw_error, device>>
  BY <1>2 DEF CompleteResponse, callerVars, callVars
<1>4. /\ Len(Open) \in Nat /\ 1 \in 1 .. Len(Open)
      /\ \A k \in 1 .. Len(Open) : SlotOf(k) \in 0 .. Window - 1
  BY <1>2, OpenType
<1>5. \A k \in 1 .. Len(Open') :
        /\ k + 1 \in 1 .. Len(Open)
        /\ Open'[k] = Open[k + 1] /\ SlotOf(k)' = SlotOf(k + 1)
        /\ SlotOf(k + 1) # Slot
  <2>1. ASSUME NEW k \in 1 .. Len(Open')
        PROVE  /\ k + 1 \in 1 .. Len(Open)
               /\ Open'[k] = Open[k + 1] /\ SlotOf(k)' = SlotOf(k + 1)
               /\ SlotOf(k + 1) # Slot
    <3>1. k \in 1 .. Len(Open) - 1 /\ k + 1 \in 1 .. Len(Open) /\ k + 1 # 1
      BY <1>2, <1>4
    <3>2. Open[k + 1].id # Open[1].id
      BY <1>4, <3>1 DEF Numbers
    <3>3. entries[SlotOf(k + 1)].id = Open[k + 1].id /\ entries[SlotOf(1)].id = Open[1].id
      BY <1>1, <1>4, <3>1 DEF Ring
    <3> QED
      BY <1>2, <3>1, <3>2, <3>3
  <2> QED
    BY <2>1
<1>6. ASSUME device = "up", ~fw_error
      PROVE  \A k \in 1 .. Len(Open') :
                \/ "ASYNC" \in entries'[SlotOf(k)'].flags
                \/ Open'[k].id = cmd /\ pc \in {"wait", "nmi", "nmi_error"}
  BY <1>2, <1>4, <1>5, <1>6 DEF Waited
<1>7. ASSUME device = "up", ~fw_error, "ASYNC" \notin entries[Slot].flags
      PROVE  cmd \in answered' /\ pc \in {"wait", "nmi", "nmi_error"}
  BY <1>2, <1>3, <1>4, <1>7 DEF Waited
<1>8. pc # "idle" => device = "up"
  BY DEF Control
<1>9. pc' = "enqueue" /\ ~fw_error' => active'
  BY <1>3, <1>7, <1>8 DEF Waited
<1>10. /\ pc' = "wait" /\ ~active' /\ ~fw_error' => cmd' \in answered'
       /\ pc' = "check" /\ ~fw_error' => cmd' \in answered'
  BY <1>3, <1>7, <1>8 DEF Waited
<1> QED
  BY <1>3, <1>6, <1>9, <1>10 DEF Waited

\* A command that enters the queue is asynchronous, or the one that will be waited for.
LEMMA WaitedEnqueue ==
    ASSUME Types, Control, Live => Ring, Numbers, Waited, EnqueueSync \/ SendAsync
    PROVE  Waited'
<1> DEFINE n == Len(Open)
           w == write_ptr % Window
<1>1. Live /\ rx' = rx /\ UNCHANGED <<cmd, active, fw_error, device, answered>>
  BY DEF EnqueueSync, SendAsync, Control, Live, pollVars, statusVars, callerVars, callVars
<1>2. PICK id \in Ids, flags \in SUBSET {"WANT_SKB", "ASYNC"} :
        /\ Enqueue(id, flags) /\ Space >= 1
        /\ \/ EnqueueSync /\ id = cmd
           \/ SendAsync /\ flags = {"ASYNC"}
  <2>1. CASE EnqueueSync
    <3>1. cmd \in Ids /\ (IF want THEN {"WANT_SKB"} ELSE {}) \in SUBSET {"WANT_SKB", "ASYNC"}
      BY DEF Types
    <3>2. Enqueue(cmd, IF want THEN {"WANT_SKB"} ELSE {}) /\ Space >= 1
      BY <2>1 DEF EnqueueSync
    <3> QED
      BY <2>1, <3>1, <3>2
  <2>2. CASE SendAsync
    <3>1. Sent + 1 \in Ids /\ {"ASYNC"} \in SUBSET {"WANT_SKB", "ASYNC"}
      BY <2>2, NewNumber DEF SendAsync
    <3>2. Space \in Int /\ Space >= 2
      BY <2>2, <1>1, SpaceIs, OpenType, Sizes DEF SendAsync
    <3>3. Enqueue(Sent + 1, {"ASYNC"}) /\ Space >= 1
      BY <2>2, <3>2 DEF SendAsync
    <3> QED
      BY <2>2, <3>1, <3>3
  <2> QED
    BY <2>1, <2>2
<1>3. /\ Len(Open') = n + 1 /\ Open'[n + 1].id = id /\ n \in Nat
      /\ Open'[n + 1].ptr = write_ptr
      /\ \A k \in 1 .. n : /\ Open'[k] = Open[k] /\ SlotOf(k)' = SlotOf(k)
                           /\ entries'[SlotOf(k)] = entries[SlotOf(k)]
      /\ entries'[w] = [id |-> id, flags |-> flags]
  BY <1>1, <1>2, EnqueueRing, OpenType
<1>4. \A k \in 1 .. n + 1 : k \in 1 .. n \/ k = n + 1
  BY <1>3
<1> HIDE DEF n, w
<1>5. CASE EnqueueSync /\ id = cmd
  <2>1. pc = "enqueue" /\ pc' = "wait"
    BY <1>5 DEF EnqueueSync
  <2>2. ASSUME device = "up", ~fw_error, NEW k \in 1 .. n + 1
        PROVE  \/ "ASYNC" \in entries'[SlotOf(k)'].flags
               \/ Open'[k].id = cmd /\ pc' \in {"wait", "nmi", "nmi_error"}
    <3>1. CASE k \in 1 .. n
      BY <1>3, <2>1, <2>2, <3>1 DEF Waited, n
    <3>2. CASE k = n + 1
      BY <1>3, <1>5, <2>1, <3>2
    <3> QED
      BY <1>4, <3>1, <3>2
  <2> QED
    BY <1>1, <1>3, <2>1, <2>2 DEF Waited
<1>6. CASE SendAsync /\ flags = {"ASYNC"}
  <2>1. pc' = pc
    BY <1>6 DEF SendAsync, callerVars
  <2>2. ASSUME device = "up", ~fw_error, NEW k \in 1 .. n + 1
        PROVE  \/ "ASYNC" \in entries'[SlotOf(k)'].flags
               \/ Open'[k].id = cmd /\ pc' \in {"wait", "nmi", "nmi_error"}
    <3>1. CASE k \in 1 .. n
      BY <1>3, <2>1, <2>2, <3>1 DEF Waited, n
    <3>2. CASE k = n + 1
      <4>1. SlotOf(k)' = w
        BY <1>3, <3>2 DEF SlotOf, w
      <4> QED
        BY <1>3, <1>6, <4>1
    <3> QED
      BY <1>4, <3>1, <3>2
  <2> QED
    BY <1>1, <1>3, <2>1, <2>2 DEF Waited
<1> QED
  BY <1>2, <1>5, <1>6

\* Every step keeps Waited.
LEMMA WaitedStep ==
    ASSUME Types, Control, Live => Ring, Numbers, Waited, [Next]_vars
    PROVE  Waited'
<1>1. CASE Cancel
  <2>1. \A i \in 0 .. Window - 1 :
            "ASYNC" \in entries[i].flags => "ASYNC" \in entries'[i].flags
    BY <1>1 DEF Cancel, Types
  <2>2. Open' = Open /\ UNCHANGED <<device, fw_error, active>> /\ pc = "cancel" /\ pc' = "free"
    BY <1>1 DEF Cancel, others, fwVars, pollVars, statusVars, Open
  <2>3. \A k \in 1 .. Len(Open) : SlotOf(k) \in 0 .. Window - 1
    BY OpenType
  <2> QED
    BY <2>1, <2>2, <2>3 DEF Waited, SlotOf
<1>2. CASE FreeQueues \/ FwAlive
  <2>1. Open' = << >> /\ pc' = "idle"
    BY <1>2 DEF FreeQueues, FwAlive, Control, callerVars, Open, Live, pollVars
  <2>2. Len(Open') = 0
    BY <2>1
  <2> QED
    BY <2>1, <2>2 DEF Waited
<1> QED
  BY <1>1, <1>2, WaitedQuiet, WaitedComplete, WaitedEnqueue, StepCases

\* Every step keeps Wanted.
LEMMA WantedStep ==
    ASSUME Types, Control, Live => Ring, Numbers, Waited, Wanted, [Next]_vars
    PROVE  Wanted'
<1>1. CASE Quiet
  <2>1. entries' = entries /\ answered' = answered /\ cmd_idx' = cmd_idx
    BY <1>1, QuietKeeps
  <2> DEFINE None == \A i \in 0 .. Window - 1 : "WANT_SKB" \notin entries[i].flags
             Places == {"wait", "nmi", "nmi_error", "check", "cancel"}
  <2>2. ASSUME None \/ (cmd' = cmd /\ want' = want /\ (pc \in Places => pc' \in Places))
        PROVE  Wanted'
    BY <2>1, <2>2 DEF Wanted
  <2>3. pc \notin Places => None
    BY DEF Wanted
  <2>4. CASE SendSync \/ SetActive \/ NoSpaceSync \/ FreeResponse \/ StopDevice
    BY <2>2, <2>3, <2>4 DEF SendSync, SetActive, NoSpaceSync, FreeResponse, StopDevice
  <2>5. CASE Woken \/ Timeout \/ SyncNmi \/ NmiError
    BY <2>2, <2>5 DEF Woken, Timeout, SyncNmi, NmiError, callVars
  <2>6. CASE Check
    <3>1. CASE fw_error \/ (want /\ resp = 0)
      BY <2>2, <2>6, <3>1 DEF Check, callVars
    <3>2. CASE ~fw_error
      <4>1. cmd \in answered
        BY <2>6, <3>2 DEF Check, Waited
      <4>2. None
        BY <4>1 DEF Wanted
      <4> QED
        BY <2>2, <4>2
    <3> QED
      BY <3>1, <3>2
  <2>7. CASE \/ FwAnswers \/ FwHangs \/ FwFails \/ BeginResponse \/ GiveResponse
             \/ IrqBegins \/ IrqError \/ IrqWakes \/ StartFw \/ UNCHANGED vars
    <3>1. UNCHANGED <<cmd, want, pc>>
      BY <2>7 DEF FwAnswers, FwHangs, FwFails, BeginResponse, GiveResponse, IrqBegins, IrqError,
         IrqWakes, StartFw, vars, callerVars, callVars
    <3> QED
      BY <2>2, <3>1
  <2> QED
    BY <1>1, <2>4, <2>5, <2>6, <2>7 DEF Quiet
<1>2. CASE EnqueueSync
  <2> DEFINE w == write_ptr % Window
             flags == IF want THEN {"WANT_SKB"} ELSE {}
  <2>1. /\ pc = "enqueue" /\ pc' = "wait" /\ cmd_idx' = w /\ cmd' = cmd /\ want' = want
        /\ answered' = answered /\ cmd \notin answered
        /\ entries' = [entries EXCEPT ![w] = [id |-> cmd, flags |-> flags]]
    BY <1>2 DEF EnqueueSync, Enqueue, Numbers
  <2>2. \A i \in 0 .. Window - 1 : "WANT_SKB" \notin entries[i].flags
    BY <2>1 DEF Wanted
  <2>3. w \in 0 .. Window - 1
    BY IndexType
  <2>4. "WANT_SKB" \in flags => want
    OBVIOUS
  <2> HIDE DEF w, flags
  <2>5. \A i \in 0 .. Window - 1 :
            entries'[i] = IF i = w THEN [id |-> cmd, flags |-> flags] ELSE entries[i]
    BY <2>1, <2>3 DEF Types
  <2> QED
    BY <2>1, <2>2, <2>4, <2>5 DEF Wanted
<1>3. CASE SendAsync
  <2> DEFINE w == write_ptr % Window
  <2>1. /\ UNCHANGED <<pc, cmd_idx, cmd, want, answered>>
        /\ entries' = [entries EXCEPT ![w] = [id |-> Sent + 1, flags |-> {"ASYNC"}]]
    BY <1>3 DEF SendAsync, Enqueue, callerVars, callVars
  <2>2. w \in 0 .. Window - 1
    BY IndexType
  <2> HIDE DEF w
  <2>3. \A i \in 0 .. Window - 1 : "WANT_SKB" \in entries'[i].flags => entries'[i] = entries[i]
    BY <2>1, <2>2 DEF Types
  <2> QED
    BY <2>1, <2>3 DEF Wanted
<1>4. CASE Cancel
  <2>1. \A i \in 0 .. Window - 1 : "WANT_SKB" \notin entries'[i].flags
    <3>1. CASE want
      BY <1>4, <3>1 DEF Cancel, Wanted, Types
    <3>2. CASE ~want
      BY <1>4, <3>2 DEF Cancel, Wanted
    <3> QED
      BY <3>1, <3>2
  <2> QED
    BY <2>1 DEF Wanted
<1>5. CASE CompleteResponse
  <2>1. rx # << >> /\ Live
    BY <1>5 DEF CompleteResponse, Control
  <2>2. /\ Len(Open) >= 1 /\ Head(rx).id = Open[1].id
        /\ Slot = SlotOf(1) /\ Slot \in 0 .. Window - 1
        /\ \A i \in 0 .. Window - 1 :
            /\ entries'[i].id = entries[i].id
            /\ entries'[i].flags = IF i = Slot THEN {} ELSE entries[i].flags
    BY <1>5, <2>1, CompleteRing
  <2>3. /\ answered' = answered \cup {Open[1].id} /\ UNCHANGED <<cmd, want, cmd_idx, pc>>
    BY <1>5, <2>2 DEF CompleteResponse, callerVars, callVars
  <2>4. entries[Slot].id = Open[1].id
    <3>1. 1 \in 1 .. Len(Open)
      BY <2>2, OpenType
    <3> QED
      BY <2>1, <2>2, <3>1 DEF Ring
  <2>5. ASSUME NEW i \in 0 .. Window - 1, "WANT_SKB" \in entries'[i].flags
        PROVE  /\ i = cmd_idx /\ entries'[i].id = cmd /\ want /\ cmd \notin answered'
               /\ pc \in {"wait", "nmi", "nmi_error", "check", "cancel"}
    <3>1. i # Slot /\ "WANT_SKB" \in entries[i].flags
      BY <2>2, <2>5
    <3>2. /\ i = cmd_idx /\ entries[i].id = cmd /\ want /\ cmd \notin answered
          /\ pc \in {"wait", "nmi", "nmi_error", "check", "cancel"}
      BY <3>1 DEF Wanted
    <3>3. cmd > 0 /\ cmd \in Nat
      BY <3>2, Sizes DEF Numbers, Types, Ids
    <3>4. cmd # Open[1].id
      BY <2>2, <2>4, <3>1, <3>2, <3>3 DEF Numbers
    <3> QED
      BY <2>2, <2>3, <3>2, <3>4
  <2> QED
    BY <2>3, <2>5 DEF Wanted
<1>6. CASE FreeQueues \/ FwAlive
  <2>1. \A i \in 0 .. Window - 1 : entries'[i].flags = {}
    <3>1. entries' = Free
      BY <1>6 DEF FreeQueues, FwAlive
    <3> QED
      BY <3>1 DEF Free, NoEntry
  <2> QED
    BY <2>1 DEF Wanted
<1> QED
  BY <1>1, <1>2, <1>3, <1>4, <1>5, <1>6, StepCases

\* Every step keeps what success means.
LEMMA OkStep ==
    ASSUME Types, Control, Waited, OkIsAnswered, [Next]_vars
    PROVE  OkIsAnswered'
<1>1. CASE Check
  <2>1. ASSUME ~(fw_error \/ (want /\ resp = 0))
        PROVE  cmd \in answered /\ (want => resp = cmd)
    <3>1. cmd \in answered
      BY <1>1, <2>1 DEF Check, Waited
    <3> QED
      BY <2>1, <3>1 DEF Control
  <2> QED
    BY <1>1, <2>1 DEF Check, Return, OkIsAnswered, callVars, others
<1>2. CASE SendSync \/ SetActive \/ NoSpaceSync \/ Timeout
  BY <1>2 DEF SendSync, SetActive, NoSpaceSync, Timeout, Return, OkIsAnswered, Control, callVars,
     others
<1>3. CASE GiveResponse
  BY <1>3 DEF GiveResponse, OkIsAnswered, Control, callVars
<1>4. CASE FreeResponse
  BY <1>4 DEF FreeResponse, OkIsAnswered, Control
<1>5. CASE CompleteResponse
  BY <1>5 DEF CompleteResponse, OkIsAnswered, callerVars, callVars
<1>6. CASE \/ Woken \/ SyncNmi \/ NmiError \/ FwAnswers \/ FwHangs \/ FwFails \/ BeginResponse
           \/ IrqBegins \/ IrqError \/ IrqWakes \/ StopDevice \/ StartFw \/ UNCHANGED vars
           \/ EnqueueSync \/ SendAsync \/ Cancel \/ FreeQueues \/ FwAlive
  <2>1. UNCHANGED <<ret, cmd, want, resp, answered>>
    BY <1>6 DEF Woken, SyncNmi, NmiError, FwAnswers, FwHangs, FwFails, BeginResponse, IrqBegins,
       IrqError, IrqWakes, StopDevice, StartFw, vars, EnqueueSync, SendAsync, Cancel, FreeQueues,
       FwAlive, callerVars, callVars, others
  <2> QED
    BY <2>1 DEF OkIsAnswered
<1> QED
  BY <1>1, <1>2, <1>3, <1>4, <1>5, <1>6, StepCases DEF Quiet

-----------------------------------------------------------------------------
(* The theorems.                                                           *)

\* The flags are Booleans.
Flags ==
    /\ active \in BOOLEAN /\ fw_error \in BOOLEAN /\ alive \in BOOLEAN /\ want \in BOOLEAN
    /\ cause \in BOOLEAN /\ wants \in BOOLEAN /\ full \in BOOLEAN

\* The invariant holds at the start.
LEMMA InitHolds ==
    ASSUME Init
    PROVE  IInv
<1>1. Types
  <2>1. Free \in [0 .. Window - 1 -> [id : Ids, flags : SUBSET {"WANT_SKB", "ASYNC"}]]
    BY Sizes DEF Free, NoEntry, Ids
  <2>2. << >> \in Seq(Requests)
    OBVIOUS
  <2> QED
    BY <2>1, <2>2, Sizes DEF Init, Types, Ids
<1>2. Open = << >> /\ Len(Open) = 0
  BY DEF Init, Open
<1>3. Control
  BY <1>2 DEF Init, Control, Live
<1>4. Ring
  <2>1. (read_ptr + Len(Open)) % TfdSize = 0
    <3>1. 0 + 0 = 0 /\ 0 \in 0 .. TfdSize - 1
      BY Sizes
    <3> QED
      BY <1>2, <3>1, Sizes, ModSmall DEF Init
  <2> QED
    BY <1>2, <2>1, Sizes DEF Init, Ring
<1>5. \A i \in 0 .. Window - 1 : entries[i].id = 0 /\ entries[i].flags = {}
  BY DEF Init, Free, NoEntry
<1>6. Numbers /\ Waited /\ Wanted /\ OkIsAnswered
  BY <1>2, <1>5 DEF Init, Numbers, Waited, Wanted, OkIsAnswered, Sent
<1> QED
  BY <1>1, <1>3, <1>4, <1>6 DEF IInv

\* The invariant is kept by every step of the caller, the receive path, the interrupt
\* thread, the firmware and a restart.
THEOREM Invariance == Spec => []IInv
<1>1. Init => IInv
  BY InitHolds
<1>2. IInv /\ [Next]_vars => IInv'
  BY TypesStep, ControlStep, RingStep, NumbersStep, WaitedStep, WantedStep, OkStep DEF IInv
<1> QED
  BY <1>1, <1>2, PTL DEF Spec

\* A synchronous command that returns success has been answered, and with CMD_WANT_SKB has
\* its own response (iwl_trans_txq_send_hcmd_sync), whatever late answers, error interrupts
\* and restarts there are.
THEOREM SuccessIsAnswered == Spec => []OkIsAnswered
<1>1. IInv => OkIsAnswered
  BY DEF IInv
<1> QED
  BY <1>1, Invariance, PTL

\* The command queue and the firmware's view of it agree (iwl_pcie_gen2_enqueue_hcmd,
\* iwl_pcie_cmdq_reclaim).
THEOREM QueueInStep == Spec => []RingInStep
<1>1. ASSUME IInv PROVE RingInStep
  <2>1. SUFFICES ASSUME device = "up"
                 PROVE  /\ \A k \in DOMAIN Open : entries[Open[k].ptr % Window].id = Open[k].id
                        /\ ~full =>
                            /\ Len(Open) = (write_ptr - read_ptr) % TfdSize
                            /\ \A k \in DOMAIN Open :
                                    Open[k].ptr = (read_ptr + k - 1) % TfdSize
    BY DEF RingInStep, Open
  <2>2. Types /\ Ring
    BY <1>1, <2>1 DEF IInv, Live
  <2>3. Open \in Seq(Requests) /\ DOMAIN Open = 1 .. Len(Open) /\ read_ptr \in Int
    BY <2>2, OpenType, LenProperties, Sizes DEF Types
  <2>4. \A k \in 1 .. Len(Open) : read_ptr + k - 1 = read_ptr + (k - 1)
    BY <2>3
  <2> QED
    BY <2>2, <2>3, <2>4, SpaceIs DEF Ring, SlotOf
<1> QED
  BY <1>1, Invariance, PTL

\* An entry with CMD_WANT_SKB belongs to the command that is being waited for, so that a late
\* response does not write into a caller that has returned ("Cancel the CMD_WANT_SKB flag").
THEOREM SourceIsAlive == Spec => []NoStaleSource
<1>1. ASSUME IInv PROVE NoStaleSource
  <2>1. DOMAIN entries = 0 .. Window - 1
    BY <1>1 DEF IInv, Types
  <2> QED
    BY <1>1, <2>1 DEF IInv, Wanted, NoStaleSource
<1> QED
  BY <1>1, Invariance, PTL

\* The types of the variables, and the bound of the queue: never more open commands than
\* entries.
THEOREM TypeCorrect == Spec => []TypeOK
<1>1. Init => Flags
  BY Zenon DEF Init, Flags
<1>2. Flags /\ [Next]_vars => Flags'
  <2>1. SUFFICES ASSUME Flags, [Next]_vars PROVE Flags'
    OBVIOUS
  <2>2. CASE SendSync
    BY <2>1, <2>2, Zenon DEF SendSync, Flags, txqVars, statusVars, fwVars, pollVars
  <2>3. CASE SetActive \/ NoSpaceSync \/ Timeout
    BY <2>1, <2>3, Zenon DEF SetActive, NoSpaceSync, Timeout, Flags, txqVars, callVars, others,
       fwVars, pollVars
  <2>4. CASE Woken \/ Check \/ FreeResponse \/ Cancel \/ UNCHANGED vars
    BY <2>1, <2>4, Zenon DEF Woken, Check, FreeResponse, Cancel, Flags, vars, txqVars, statusVars,
       callerVars, callVars, others, fwVars, pollVars
  <2>5. CASE SyncNmi \/ FwAnswers \/ FwHangs \/ FwFails
    BY <2>1, <2>5, Zenon DEF SyncNmi, FwAnswers, FwHangs, FwFails,
       Flags, txqVars, statusVars, callerVars, callVars, fwVars, pollVars
  <2>6. CASE BeginResponse \/ GiveResponse
    <3>1. UNCHANGED <<active, fw_error, alive, want, cause, full>>
      BY <2>6 DEF BeginResponse, GiveResponse, txqVars, statusVars, callerVars, callVars, fwVars
    <3>2. wants' \in BOOLEAN
      <4>1. CASE GiveResponse
        BY <2>1, <4>1, Zenon DEF GiveResponse, Flags
      <4>2. CASE BeginResponse
        BY <4>2 DEF BeginResponse
      <4> QED
        BY <2>6, <4>1, <4>2
    <3> QED
      BY <2>1, <3>1, <3>2, Zenon DEF Flags
  <2>7. CASE NmiError
    BY <2>1, <2>7, Zenon DEF NmiError, Flags, txqVars, callVars, others, fwVars, pollVars
  <2>8. CASE IrqBegins \/ IrqError \/ IrqWakes
    BY <2>1, <2>8, Zenon DEF IrqBegins, IrqError, IrqWakes, Flags, txqVars, statusVars,
       callerVars, callVars, fwVars, pollVars
  <2>9. CASE StopDevice \/ FreeQueues \/ StartFw \/ FwAlive
    BY <2>1, <2>9, Zenon DEF StopDevice, FreeQueues, StartFw, FwAlive, Flags, txqVars, statusVars,
       callerVars, callVars, fwVars, pollVars
  <2>10. CASE EnqueueSync \/ SendAsync
    BY <2>1, <2>10, Zenon DEF EnqueueSync, SendAsync, Enqueue, Flags, statusVars, callerVars,
       callVars, pollVars
  <2>11. CASE CompleteResponse
    BY <2>1, <2>11, Zenon DEF CompleteResponse, Flags, callerVars, callVars, fwVars
  <2> QED
    BY <2>1, <2>2, <2>3, <2>4, <2>5, <2>7, <2>8, <2>9, <2>10, <2>11, <2>6, StepCases
       DEF Quiet
<1>3. IInv /\ Flags => TypeOK
  <2>1. SUFFICES ASSUME IInv, Flags PROVE TypeOK
    OBVIOUS
  <2>2. Len(fwq) + Len(rx) <= Window
    <3>1. /\ rx \in Seq(Requests) /\ fwq \in Seq(Requests)
          /\ Len(rx) \in Nat /\ Len(fwq) \in Nat
      BY <2>1 DEF IInv, Types
    <3>2. Len(Open) = Len(rx) + Len(fwq)
      BY <3>1, ConcatProperties DEF Open
    <3>3. CASE Live
      BY <2>1, <3>1, <3>2, <3>3 DEF IInv, Ring
    <3>4. CASE ~Live
      <4>1. Len(Open) = 0
        BY <2>1, <3>4 DEF IInv, Control
      <4>2. Window \in Nat
        BY Sizes
      <4> DEFINE a == Len(rx)
                 b == Len(fwq)
      <4>3. a \in Nat /\ b \in Nat /\ a + b = 0
        BY <3>1, <3>2, <4>1
      <4> HIDE DEF a, b
      <4>4. b + a <= Window
        BY <4>2, <4>3
      <4> QED
        BY <4>4 DEF a, b
    <3> QED
      BY <3>3, <3>4
  <2>3. /\ \A k \in DOMAIN fwq : fwq[k] \in Requests
        /\ \A k \in DOMAIN rx : rx[k] \in Requests
    BY <2>1 DEF IInv, Types
  <2>4. {active, fw_error, alive, want, cause, wants, full} \subseteq BOOLEAN
    BY <2>1, Zenon DEF Flags
  <2> QED
    BY <2>1, <2>2, <2>3, <2>4 DEF IInv, Types, TypeOK
<1> QED
  BY <1>1, <1>2, <1>3, Invariance, PTL DEF Spec
=============================================================================
