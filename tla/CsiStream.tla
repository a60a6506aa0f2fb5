------------------------------ MODULE CsiStream ------------------------------
(***************************************************************************)
(* CSI frames on their way from the collector to the analysis program: the *)
(* collectors iaxcsi.cpp and incsi.cpp, the reconnecting sender            *)
(* tcp_client.h, and the Matlab reader (socket_handler.m as a TCP server,  *)
(* buffer.m, read_next of iaxcsi.m and incsi.m).                           *)
(*                                                                         *)
(* A frame is a length field followed by Body fields.  The fields          *)
(* <<f, 0>>, ..., <<f, Body>> of frame f are the units of the byte stream. *)
(* iaxcsi sends a frame with one call of TcpClient::send; incsi sends the  *)
(* length and the rest with two (Split).                                   *)
(*                                                                         *)
(* Two threads run in the collector, the receive loop and reconnThread_;   *)
(* they share needReconn_ and sfd_.  The connection may break anywhere,    *)
(* the reader may leave and come back, in a new Matlab session or in the   *)
(* same one: io_handler_base gives its property sbuf the default value     *)
(* buffer(), which Matlab evaluates once per session, so that handlers     *)
(* created in one session share one buffer.                                *)
(***************************************************************************)
EXTENDS Integers, Sequences

CONSTANTS
    MaxFrames,  \* bound: frames captured
    Body,       \* fields of a frame after its length
    Trigger,    \* fields that must be available for the reader's callback (the code: 4 bytes)
    Split,      \* are length and rest sent with two calls?
    MaxFds,     \* the limit on open files of the collector
    MaxLosses,  \* bound: connections that break, connects that fail
    MaxReaders  \* bound: starts of the reader

ASSUME StreamAssumption ==
    /\ Body \in Nat \ {0} /\ Trigger \in Nat \ {0}
    /\ Split \in BOOLEAN
    /\ {MaxFrames, MaxFds, MaxLosses, MaxReaders} \subseteq Nat

VARIABLES
    frame,    \* the frame the receive loop handles
    todo,     \* what it has still to give to TcpClient::send
    spc,      \* TcpClient::send: "idle", or "send" after the test of needReconn_
    need,     \* needReconn_
    rpc,      \* where reconnThread_ is
    fds,      \* sockets created; sfd_ is the last one, none is ever closed
    conn,     \* sfd_: "none" (not connected), "up", "lost"
    wire,     \* on its way to the reader
    reader,   \* "off", "len" or "body": what read_next waits for
    sbuf,     \* socket_handler.sbuf
    want,     \* msg_len of read_next
    got,      \* history: the messages read_next has cut out and given to read_st
    last,     \* history: the last unit the reader's socket has received
    torn,     \* history: a reader went on after a connection that ended within a frame
    losses, readers

senderVars == <<frame, todo, spc>>
connVars == <<need, rpc, fds, conn>>
readerVars == <<reader, sbuf, want, got>>
boundVars == <<losses, readers>>
vars == <<senderVars, connVars, wire, readerVars, last, torn, boundVars>>

Frames == 1 .. MaxFrames
Units == Frames \X (0 .. Body)
Boundary == <<0, Body>>

TypeOK ==
    /\ frame \in 0 .. MaxFrames
    /\ todo \in Seq(Seq(Units)) /\ spc \in {"idle", "send"}
    /\ need \in BOOLEAN /\ fds \in 0 .. MaxFds
    /\ rpc \in {"wait", "blocked", "socket", "connect", "connected", "sleep", "dead"}
    /\ conn \in {"none", "up", "lost"}
    /\ wire \in Seq(Units) /\ sbuf \in Seq(Units) /\ got \in Seq(Seq(Units))
    /\ reader \in {"off", "len", "body"} /\ want \in 0 .. Body + 1
    /\ last \in Units \cup {Boundary} /\ torn \in BOOLEAN
    /\ losses \in 0 .. MaxLosses /\ readers \in 0 .. MaxReaders

Init ==
    /\ frame = 0 /\ todo = << >> /\ spc = "idle"
    /\ need = TRUE /\ rpc = "wait" /\ fds = 0 /\ conn = "none"
    /\ wire = << >>
    /\ reader = "off" /\ sbuf = << >> /\ want = 0 /\ got = << >>
    /\ last = Boundary /\ torn = FALSE
    /\ losses = 0 /\ readers = 0

-----------------------------------------------------------------------------
(* The collector's receive loop and TcpClient::send.                       *)

Alive == rpc # "dead"

BodyOf(f) == [k \in 1 .. Body |-> <<f, k>>]

\* Faulty variant: the length is sent by a call of its own.
PartsOf_Split(f) == << << <<f, 0>> >>, BodyOf(f) >>

\* What the collector gives to TcpClient::send, call by call.
PartsOf(f) ==
    IF Split THEN << << <<f, 0>> >>, BodyOf(f) >>
             ELSE << << <<f, 0>> >> \o BodyOf(f) >>

\* A CSI event has been received and put into a frame.
Receive ==
    /\ Alive
    /\ todo = << >>
    /\ frame < MaxFrames
    /\ frame' = frame + 1
    /\ todo' = PartsOf(frame + 1)
    /\ UNCHANGED <<spc, connVars, wire, readerVars, last, torn, boundVars>>

\* The test of needReconn_, without the mutex: a part that finds it set is dropped.
TestNeed ==
    /\ Alive
    /\ todo # << >> /\ spc = "idle"
    /\ \/ need /\ todo' = Tail(todo) /\ UNCHANGED spc
       \/ ~need /\ spc' = "send" /\ UNCHANGED todo
    /\ UNCHANGED <<frame, connVars, wire, readerVars, last, torn, boundVars>>

PartDone == todo' = Tail(todo) /\ spc' = "idle"

\* Faulty variant: the part is not taken off, and sent again.
SysSend_Again ==
    /\ Alive
    /\ spc = "send" /\ conn = "up"
    /\ wire' = wire \o Head(todo)
    /\ spc' = "idle"
    /\ UNCHANGED <<todo, frame, connVars, readerVars, last, torn, boundVars>>

\* ::send(sfd_) on a connection.
SysSend ==
    /\ Alive
    /\ spc = "send" /\ conn = "up"
    /\ wire' = wire \o Head(todo)
    /\ PartDone
    /\ UNCHANGED <<frame, connVars, readerVars, last, torn, boundVars>>

\* ::send on a connection whose loss the kernel has not noticed: it vanishes.
SysSendVanishes ==
    /\ Alive
    /\ spc = "send" /\ conn = "lost"
    /\ PartDone
    /\ UNCHANGED <<frame, connVars, wire, readerVars, last, torn, boundVars>>

\* Faulty variant: reconnThread_ is not notified.
SysSendFails_Silent ==
    /\ Alive
    /\ spc = "send" /\ conn # "up"
    /\ PartDone
    /\ need' = TRUE
    /\ UNCHANGED <<frame, rpc, fds, conn, wire, readerVars, last, torn, boundVars>>

\* ::send fails: needReconn_ is set and reconnThread_ notified, under the mutex.
SysSendFails ==
    /\ Alive
    /\ spc = "send" /\ conn # "up"
    /\ PartDone
    /\ need' = TRUE
    /\ rpc' = IF rpc = "blocked" THEN "wait" ELSE rpc
    /\ UNCHANGED <<frame, fds, conn, wire, readerVars, last, torn, boundVars>>

-----------------------------------------------------------------------------
(* reconnThread_.                                                          *)

ThreadStep(from, to) == rpc = from /\ rpc' = to

\* Faulty variant: needReconn_ is not waited for.
Wait_Always ==
    /\ ThreadStep("wait", "socket")
    /\ UNCHANGED <<senderVars, need, fds, conn, wire, readerVars, last, torn, boundVars>>

\* cv_.wait with needReconn_ as its predicate.
Wait ==
    /\ ThreadStep("wait", IF need THEN "socket" ELSE "blocked")
    /\ UNCHANGED <<senderVars, need, fds, conn, wire, readerVars, last, torn, boundVars>>

\* sfd_ = socket(...): the socket sfd_ held before stays open.
Socket ==
    /\ fds < MaxFds
    /\ ThreadStep("socket", "connect")
    /\ fds' = fds + 1
    /\ conn' = "none"
    /\ UNCHANGED <<senderVars, need, wire, readerVars, last, torn, boundVars>>

\* socket fails: the exception leaves the thread and ends the process.
SocketFails ==
    /\ fds = MaxFds
    /\ ThreadStep("socket", "dead")
    /\ conn' = "lost"
    /\ UNCHANGED <<senderVars, need, fds, wire, readerVars, last, torn, boundVars>>

Connect ==
    /\ reader # "off"
    /\ ThreadStep("connect", "connected")
    /\ conn' = "up"
    /\ UNCHANGED <<senderVars, need, fds, wire, readerVars, last, torn, boundVars>>

\* The next attempt comes after the pause, with a new socket.
ConnectFails ==
    /\ ThreadStep("connect", "sleep")
    /\ \/ reader = "off" /\ UNCHANGED losses
       \/ reader # "off" /\ losses < MaxLosses /\ losses' = losses + 1
    /\ UNCHANGED <<senderVars, need, fds, conn, wire, readerVars, last, torn, readers>>

\* needReconn_ = false, without the mutex.
SetConnected ==
    /\ ThreadStep("connected", "sleep")
    /\ need' = FALSE
    /\ UNCHANGED <<senderVars, fds, conn, wire, readerVars, last, torn, boundVars>>

Sleep ==
    /\ ThreadStep("sleep", "wait")
    /\ UNCHANGED <<senderVars, need, fds, conn, wire, readerVars, last, torn, boundVars>>

-----------------------------------------------------------------------------
(* The connection (external) and the reader.                               *)

LastUnit(s, u) == IF s = << >> THEN u ELSE s[Len(s)]

\* The connection breaks; the first k units on the wire still arrive.  The reader
\* keeps its buffer and waits for the next connection.
Lose(k) ==
    /\ conn = "up" /\ losses < MaxLosses
    /\ losses' = losses + 1
    /\ conn' = "lost"
    /\ wire' = SubSeq(wire, 1, k)
    /\ torn' = (torn \/ LastUnit(wire', last)[2] # Body)
    /\ UNCHANGED <<senderVars, need, rpc, fds, readerVars, last, readers>>

\* socket_handler is created as a TCP server.  close leaves sbuf alone: the next
\* handler of the same session finds what is in it.
ReaderStart ==
    /\ reader = "off" /\ readers < MaxReaders
    /\ readers' = readers + 1
    /\ reader' = "len" /\ last' = Boundary
    /\ sbuf' \in {sbuf, << >>}
    /\ torn' = (torn \/ (sbuf' # << >> /\ (Head(sbuf')[2] # 0 \/ last[2] # Body)))
    /\ UNCHANGED <<senderVars, connVars, wire, want, got, losses>>

ReaderStop ==
    /\ reader # "off"
    /\ reader' = "off" /\ wire' = << >>
    /\ conn' = IF conn = "up" THEN "lost" ELSE conn
    /\ UNCHANGED <<senderVars, need, rpc, fds, sbuf, want, got, last, torn, boundVars>>

\* bytes_avaliable_fcn, which is called when Trigger fields are available: all that
\* arrives until its loop ends goes to the end of sbuf.  read_next does not run meanwhile.
Deliver(k) ==
    /\ reader # "off" /\ k >= Trigger
    /\ sbuf' = sbuf \o SubSeq(wire, 1, k)
    /\ wire' = SubSeq(wire, k + 1, Len(wire))
    /\ last' = wire[k]
    /\ UNCHANGED <<senderVars, connVars, reader, want, got, torn, boundVars>>

\* What a unit means when it is read as a length: a length field says Body, any
\* other field anything.
LengthOf(u) == IF u[2] = 0 THEN {Body} ELSE 1 .. Body + 1

\* read_next: the length, once sbuf holds it.
ReadLen ==
    /\ reader = "len" /\ sbuf # << >>
    /\ want' \in LengthOf(Head(sbuf))
    /\ sbuf' = Tail(sbuf)
    /\ reader' = "body"
    /\ UNCHANGED <<senderVars, connVars, wire, got, last, torn, boundVars>>

\* Faulty variant: sbuf must hold more than the message.
ReadBody_Late ==
    /\ reader = "body" /\ Len(sbuf) > want
    /\ got' = Append(got, SubSeq(sbuf, 1, want))
    /\ sbuf' = SubSeq(sbuf, want + 1, Len(sbuf))
    /\ reader' = "len"
    /\ UNCHANGED <<senderVars, connVars, wire, want, last, torn, boundVars>>

\* read_next: the message, once sbuf holds all of it.
ReadBody ==
    /\ reader = "body" /\ Len(sbuf) >= want
    /\ got' = Append(got, SubSeq(sbuf, 1, want))
    /\ sbuf' = SubSeq(sbuf, want + 1, Len(sbuf))
    /\ reader' = "len"
    /\ UNCHANGED <<senderVars, connVars, wire, want, last, torn, boundVars>>

-----------------------------------------------------------------------------
Collector == Receive \/ TestNeed \/ SysSend \/ SysSendVanishes \/ SysSendFails
Reconnect == Wait \/ Socket \/ SocketFails \/ Connect \/ ConnectFails
             \/ SetConnected \/ Sleep
Network == \E k \in 0 .. Len(wire) : Lose(k)
Arrive == \E k \in 1 .. Len(wire) : Deliver(k)
Reader == ReadLen \/ ReadBody

Next == Collector \/ Reconnect \/ Network \/ Arrive \/ Reader
        \/ ReaderStart \/ ReaderStop

Spec == Init /\ [][Next]_vars

\* Both threads of the collector run, what is on the wire arrives and calls the reader's
\* callback if it is enough, the reader reads.
FairSpec ==
    /\ Spec
    /\ WF_vars(Collector) /\ WF_vars(Reconnect) /\ WF_vars(Arrive) /\ WF_vars(Reader)

-----------------------------------------------------------------------------
(* Properties.                                                             *)

\* The reader never takes anything but a length field for a length: what read_next
\* cuts out are frames as they were captured, although parts are dropped while
\* there is no connection and the reader's buffer outlives connections and
\* readers, unless a reader goes on after a connection that ended within a frame.
WholeFrames ==
    ~torn => \A k \in 1 .. Len(got) : \E f \in Frames : got[k] = BodyOf(f)

\* Frames are read in the order of capture and none twice, across reconnects
\* and restarts of the reader.
FramesInOrder ==
    ~torn => \A j, k \in 1 .. Len(got) : j < k => got[j][1][1] < got[k][1][1]

\* reconnThread_ replaces sfd_ only when no ::send can be using it: a send that
\* has passed the unlocked test of needReconn_ finds a socket that was connected.
SocketStable == spc = "send" => conn # "none"

\* A sender that needs a connection gets one while a reader is listening: no
\* failure of ::send is missed by reconnThread_, whatever it is doing then.
Reconnects ==
    (need /\ reader # "off") ~> (~need \/ reader = "off" \/ rpc = "dead")

\* A frame that is followed by enough to call bytes_avaliable_fcn, or is in sbuf, is
\* read, also after earlier connections have been lost, unless the connection is lost too,
\* the reader leaves, or it is out of step (torn).  The end of the last frame sent may stay
\* where it is: fewer bytes than the callback is configured for call nobody.
SentIsRead ==
    \A f \in Frames :
        (\/ \E i \in 1 .. Len(wire) : wire[i] = <<f, Body>> /\ Len(wire) - i >= Trigger
         \/ \E i \in 1 .. Len(sbuf) : sbuf[i] = <<f, Body>>)
        ~> (\/ \E k \in 1 .. Len(got) : got[k] = BodyOf(f)
            \/ conn = "lost" \/ reader = "off" \/ torn)
=============================================================================
