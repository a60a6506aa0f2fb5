------------------------------ MODULE CsiReader ------------------------------
(***************************************************************************)
(* Reading recordings: file_handler.m, buffer.m, io_handler_base.m and the *)
(* loop of csi_handler_base.read over iaxcsi.read_next.                    *)
(*                                                                         *)
(* A recording is a sequence of records, each a length field of HdrLen     *)
(* bytes and a message of one or more bytes.  The collector may have been  *)
(* stopped at any byte, so a recording may end within its last record.     *)
(* Byte k of record r of the recording of handler h is the triple          *)
(* <<h, r, k>>; its value is not modelled.  iaxcsi writes only records     *)
(* with a header of 272 bytes, so the branch of read_st that skips others, *)
(* after which read goes on without counting, is left out.                 *)
(*                                                                         *)
(* Matlab runs one call at a time.  The handlers of a session share one    *)
(* sbuf: it is the default value of a property, evaluated once.            *)
(***************************************************************************)
EXTENDS Integers, Sequences, FiniteSets

CONSTANTS
    Handlers,   \* the iaxcsi objects of a Matlab session, one recording each
    HdrLen,     \* bytes of a length field
    MaxLen,     \* bound: bytes of a message
    MaxRecs,    \* bound: records of a recording
    BlockLens   \* the block sizes considered; block_len is one of them

ASSUME ReaderAssumption ==
    /\ {HdrLen, MaxLen} \subseteq Nat \ {0} /\ MaxRecs \in Nat
    /\ BlockLens \subseteq Nat \ {0}

VARIABLES
    ends,       \* ends[h][r]: the bytes of the first r records made for h
    cut,        \* cut[h]: the bytes of the recording, the collector was stopped there
    blockLen,   \* file_handler.block_len
    pos,        \* pos[h]: bytes fread has returned
    eof,        \* eof[h]: file_handler.is_file_end
    sbuf,       \* io_handler_base.sbuf
    pc,         \* pc[h]: where h is in its calls
    limit,      \* limit[h]: read_count of csi_handler_base.read
    want,       \* want[h]: msg_len of read_next
    sts         \* sts[h]: the messages read

recording == <<ends, cut, blockLen>>
vars == <<recording, pos, eof, sbuf, pc, limit, want, sts>>

Records == 1 .. MaxRecs

\* Records one after the other, each with its length field and a message.
Recordings ==
    {e \in [0 .. MaxRecs -> 0 .. MaxRecs * (HdrLen + MaxLen)] :
        /\ e[0] = 0
        /\ \A i, j \in 0 .. MaxRecs : i < j => e[i] + HdrLen < e[j]
        /\ \A r \in Records : e[r] <= e[r - 1] + HdrLen + MaxLen}

MsgLen(h, r) == ends[h][r] - ends[h][r - 1] - HdrLen

\* The record that byte p belongs to, and the bytes of the recording.
RecordAt(h, p) == CHOOSE r \in Records : ends[h][r - 1] < p /\ p <= ends[h][r]
File(h) == [p \in 1 .. cut[h] |-> <<h, RecordAt(h, p), p - ends[h][RecordAt(h, p) - 1]>>]

\* The length field and the message of record r.
Header(h, r) == [k \in 1 .. HdrLen |-> <<h, r, k>>]
Message(h, r) == [k \in 1 .. MsgLen(h, r) |-> <<h, r, HdrLen + k>>]

Lesser(m, n) == IF m <= n THEN m ELSE n

Calls == {"test", "head", "body"}

TypeOK ==
    /\ pos \in [Handlers -> Nat] /\ \A h \in Handlers : pos[h] <= cut[h]
    /\ eof \in [Handlers -> BOOLEAN]
    /\ pc \in [Handlers -> Calls \cup {"new", "open", "done", "error"}]
    /\ limit \in [Handlers -> 0 .. MaxRecs + 1]
    /\ want \in [Handlers -> 0 .. HdrLen + MaxLen]
    /\ Cardinality({h \in Handlers : pc[h] \in Calls}) <= 1

Init ==
    /\ ends \in [Handlers -> Recordings]
    /\ cut \in [Handlers -> 0 .. MaxRecs * (HdrLen + MaxLen)]
    /\ \A h \in Handlers : cut[h] <= ends[h][MaxRecs]
    /\ blockLen \in BlockLens
    /\ pos = [h \in Handlers |-> 0]
    /\ eof = [h \in Handlers |-> FALSE]
    /\ sbuf = << >>
    /\ pc = [h \in Handlers |-> "new"]
    /\ limit \in [Handlers -> 1 .. MaxRecs + 1]
    /\ want = [h \in Handlers |-> 0]
    /\ sts = [h \in Handlers |-> << >>]

Idle == \A h \in Handlers : pc[h] \notin Calls

-----------------------------------------------------------------------------
\* Faulty variant: a short block does not end the file.
ReadFileBlock_NoEnd(h) ==
    /\ pos' = [pos EXCEPT ![h] = Lesser(@ + blockLen, cut[h])]
    /\ sbuf' = sbuf \o SubSeq(File(h), pos[h] + 1, pos'[h])
    /\ UNCHANGED eof

\* read_file_block: a block shorter than block_len ends the file.
ReadFileBlock(h) ==
    /\ pos' = [pos EXCEPT ![h] = Lesser(@ + blockLen, cut[h])]
    /\ sbuf' = sbuf \o SubSeq(File(h), pos[h] + 1, pos'[h])
    /\ eof' = [eof EXCEPT ![h] = pos'[h] - pos[h] # blockLen]

\* The constructor reads the first block.
Open(h) ==
    /\ pc[h] = "new" /\ Idle
    /\ ReadFileBlock(h)
    /\ pc' = [pc EXCEPT ![h] = "open"]
    /\ UNCHANGED <<recording, limit, want, sts>>

Read(h) ==
    /\ pc[h] = "open" /\ Idle
    /\ pc' = [pc EXCEPT ![h] = "test"]
    /\ UNCHANGED <<recording, pos, eof, sbuf, limit, want, sts>>

\* Faulty variant: the buffer is not asked.
IsEnd_FileOnly(h) == eof[h]

IsEnd(h) == sbuf = << >> /\ eof[h]

\* The condition of the loop; read_next then asks for a length field.
Test(h) ==
    /\ pc[h] = "test"
    /\ pc' = [pc EXCEPT ![h] = IF IsEnd(h) \/ limit[h] = 0 THEN "done" ELSE "head"]
    /\ want' = [want EXCEPT ![h] = HdrLen]
    /\ UNCHANGED <<recording, pos, eof, sbuf, limit, sts>>

\* Faulty variant: no more is read than is asked for.
NeedsBlock_Exact(h) == ~eof[h] /\ Len(sbuf) < want[h]

NeedsBlock(h) == ~eof[h] /\ Len(sbuf) < 2 * want[h]

Fill(h) ==
    /\ pc[h] \in {"head", "body"} /\ NeedsBlock(h)
    /\ ReadFileBlock(h)
    /\ UNCHANGED <<recording, pc, limit, want, sts>>

\* buffer.read: what was asked for, or what there is.
Taken(h) == SubSeq(sbuf, 1, Lesser(want[h], Len(sbuf)))
Short(h) == Len(Taken(h)) < want[h]
Take(h) == sbuf' = SubSeq(sbuf, Len(Taken(h)) + 1, Len(sbuf))

\* The value of the bytes s as a length: what a length field says, or anything.
LengthOf(s) ==
    IF \E h \in Handlers, r \in Records : s = Header(h, r)
    THEN {MsgLen(s[1][1], s[1][2])}
    ELSE 1 .. MaxLen

\* endian.be32i of a short buffer raises an exception, which nothing catches.
TakeHead(h) ==
    /\ pc[h] = "head" /\ ~NeedsBlock(h)
    /\ Take(h)
    /\ \/ Short(h) /\ pc' = [pc EXCEPT ![h] = "error"] /\ UNCHANGED want
       \/ /\ ~Short(h)
          /\ pc' = [pc EXCEPT ![h] = "body"]
          /\ \E n \in LengthOf(Taken(h)) : want' = [want EXCEPT ![h] = n]
    /\ UNCHANGED <<recording, pos, eof, limit, sts>>

\* So does read_st of a short message.
TakeBody(h) ==
    /\ pc[h] = "body" /\ ~NeedsBlock(h)
    /\ Take(h)
    /\ \/ Short(h) /\ pc' = [pc EXCEPT ![h] = "error"] /\ UNCHANGED <<limit, sts>>
       \/ /\ ~Short(h)
          /\ pc' = [pc EXCEPT ![h] = "test"]
          /\ limit' = [limit EXCEPT ![h] = @ - 1]
          /\ sts' = [sts EXCEPT ![h] = Append(@, Taken(h))]
    /\ UNCHANGED <<recording, pos, eof, want>>

-----------------------------------------------------------------------------
ReadStep(h) == Test(h) \/ Fill(h) \/ TakeHead(h) \/ TakeBody(h)

Next == \E h \in Handlers : Open(h) \/ Read(h) \/ ReadStep(h)

Spec == Init /\ [][Next]_vars

\* A call that has begun goes on.
FairSpec == Spec /\ \A h \in Handlers : WF_vars(ReadStep(h))

-----------------------------------------------------------------------------
(* Properties.                                                             *)

\* The records of h's recording that are complete.
Complete(h) == {r \in Records : ends[h][r] <= cut[h]}

\* The recording ends within a record.
Truncated(h) == cut[h] # ends[h][Cardinality(Complete(h))]

\* What h has read so far are the first records of its recording.
ReadsOwn(h) ==
    /\ Len(sts[h]) <= Cardinality(Complete(h))
    /\ \A r \in 1 .. Len(sts[h]) : sts[h][r] = Message(h, r)

\* A handler returns records of its own recording only, the first ones in order.
OwnRecords == \A h \in Handlers : ReadsOwn(h)

\* csi_handler_base.read returns every record of the recording, in order and
\* whole, wherever the records lie relative to the blocks, unless read_count
\* stops it earlier.
ReadsAll ==
    \A h \in Handlers :
        pc[h] = "done" =>
            /\ ReadsOwn(h)
            /\ limit[h] = 0 \/ (Len(sts[h]) = Cardinality(Complete(h)) /\ ~Truncated(h))

\* An exception ends the reading only of a recording that ends within a record,
\* and after all complete ones: the file's end is never met with an empty buffer.
FailsOnlyAtCut ==
    \A h \in Handlers :
        pc[h] = "error" =>
            /\ Truncated(h)
            /\ ReadsOwn(h)
            /\ Len(sts[h]) = Cardinality(Complete(h))

\* A call of read returns or fails: it never waits for bytes the file does not have.
Terminates == \A h \in Handlers : pc[h] = "test" ~> pc[h] \in {"done", "error"}
=============================================================================
