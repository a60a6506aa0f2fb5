-------------------------- MODULE CsiReaderProofs --------------------------
(***************************************************************************)
(* Machine-checked proofs about reading a recording, for records of any    *)
(* length, any number of them, any block size, and a recording cut at any  *)
(* byte, with one handler in the session.                                  *)
(*                                                                         *)
(* The argument follows the reader's position: what is in sbuf are the     *)
(* bytes of the recording between the position and what fread has          *)
(* returned, and the position is where a record, or its message, begins.   *)
(* The end of the file is seen before the buffer runs empty, since         *)
(* file_handler.read reads twice as far as it is asked to.                 *)
(***************************************************************************)
EXTENDS CsiReader, FiniteSetTheorems, SequenceTheorems, TLAPS

\* All handlers of a session share sbuf (io_handler_base), so there is one.
OneHandler == \A g, h \in Handlers : g = h

\* The bytes and the messages of the recording of h.
Bytes(h) == {File(h)[p] : p \in 1 .. cut[h]}
Messages(h) == {Message(h, r) : r \in Records}

-----------------------------------------------------------------------------
(* The invariant.                                                          *)

\* How many records h has read, and the byte of the recording after which it goes on.
Count(h) == Len(sts[h])
Base(h) == ends[h][Count(h)] + (IF pc[h] = "body" THEN HdrLen ELSE 0)

\* The recording.
Recorded ==
    /\ ends \in [Handlers -> Recordings] /\ cut \in [Handlers -> Nat]
    /\ \A h \in Handlers : cut[h] <= ends[h][MaxRecs]
    /\ blockLen \in Nat \ {0}

\* The reader's variables.
Types ==
    /\ pos \in [Handlers -> Nat] /\ eof \in [Handlers -> BOOLEAN]
    /\ pc \in [Handlers -> Calls \cup {"new", "open", "done", "error"}]
    /\ limit \in [Handlers -> Int] /\ want \in [Handlers -> Int]
    /\ DOMAIN sts = Handlers
    /\ \A h \in Handlers : sts[h] \in Seq(Messages(h)) /\ sbuf \in Seq(Bytes(h))

\* What has been read are the first records, all of them complete.
HasRead(h) ==
    /\ Count(h) <= MaxRecs /\ ends[h][Count(h)] <= cut[h]
    /\ \A r \in 1 .. Count(h) : sts[h][r] = Message(h, r)

\* The buffer is what fread has returned beyond the reader's position.
Buffered(h) ==
    /\ pos[h] = Base(h) + Len(sbuf) /\ pos[h] <= cut[h]
    /\ \A i \in 1 .. Len(sbuf) : sbuf[i] = File(h)[Base(h) + i]
    /\ eof[h] => pos[h] = cut[h]

\* While the file goes on, the buffer is not empty; in a call the reader waits for the
\* length field or the message of the record it is at.
Ahead(h) ==
    /\ ~eof[h] => sbuf # << >>
    /\ pc[h] = "head" => sbuf # << >> /\ want[h] = HdrLen
    /\ pc[h] = "body" => Count(h) < MaxRecs /\ want[h] = MsgLen(h, Count(h) + 1)

\* Where h is.
Placed(h) ==
    /\ pc[h] = "new" => Count(h) = 0 /\ pos[h] = 0 /\ sbuf = << >> /\ ~eof[h]
    /\ pc[h] \in Calls \cup {"open"} => Buffered(h) /\ Ahead(h)
    /\ pc[h] = "done" => limit[h] = 0 \/ ends[h][Count(h)] = cut[h]
    /\ pc[h] = "error" =>
        /\ Count(h) < MaxRecs
        /\ ends[h][Count(h)] < cut[h] /\ cut[h] < ends[h][Count(h) + 1]

\* The inductive invariant.
IInv == Recorded /\ Types /\ \A h \in Handlers : HasRead(h) /\ Placed(h)

-----------------------------------------------------------------------------
(* The recording.                                                          *)

\* The ends of the records increase by a length field and a message at least.
LEMMA EndsFacts ==
    ASSUME Recorded, NEW h \in Handlers
    PROVE  /\ \A r \in 0 .. MaxRecs : ends[h][r] \in Nat
           /\ ends[h][0] = 0
           /\ \A i, j \in 0 .. MaxRecs : i < j => ends[h][i] + HdrLen < ends[h][j]
           /\ cut[h] \in Nat /\ cut[h] <= ends[h][MaxRecs]
           /\ HdrLen \in Nat \ {0} /\ MaxRecs \in Nat
<1>1. ends[h] \in Recordings
  BY DEF Recorded
<1>2. HdrLen \in Nat \ {0} /\ MaxRecs \in Nat /\ MaxLen \in Nat
  BY ReaderAssumption
<1>3. ends[h] \in [0 .. MaxRecs -> 0 .. MaxRecs * (HdrLen + MaxLen)]
  BY <1>1 DEF Recordings
<1>4. \A r \in 0 .. MaxRecs : ends[h][r] \in Nat
  BY <1>2, <1>3
<1> QED
  BY <1>1, <1>2, <1>4 DEF Recordings, Recorded

\* A byte belongs to the record it is in.
LEMMA ByteOf ==
    ASSUME Recorded, NEW h \in Handlers, NEW r \in Records, NEW p \in 1 .. cut[h],
           ends[h][r - 1] < p, p <= ends[h][r]
    PROVE  File(h)[p] = <<h, r, p - ends[h][r - 1]>>
<1>1. \A q \in Records : ends[h][q - 1] < p /\ p <= ends[h][q] => q = r
  <2> SUFFICES ASSUME NEW q \in Records, ends[h][q - 1] < p, p <= ends[h][q], q # r
               PROVE  FALSE
    OBVIOUS
  <2>1. /\ q \in 0 .. MaxRecs /\ r \in 0 .. MaxRecs /\ q - 1 \in 0 .. MaxRecs
        /\ r - 1 \in 0 .. MaxRecs /\ p \in Nat
    BY EndsFacts DEF Records
  <2>2. /\ ends[h][q] \in Nat /\ ends[h][r] \in Nat
        /\ ends[h][q - 1] \in Nat /\ ends[h][r - 1] \in Nat
    BY <2>1, EndsFacts
  <2>3. CASE q < r
    <3>1. q = r - 1 \/ q < r - 1
      BY <2>1, <2>3
    <3>2. ends[h][q] <= ends[h][r - 1]
      BY <2>1, <2>2, <3>1, EndsFacts
    <3> QED
      BY <2>1, <2>2, <3>2
  <2>4. CASE r < q
    <3>1. r = q - 1 \/ r < q - 1
      BY <2>1, <2>4
    <3>2. ends[h][r] <= ends[h][q - 1]
      BY <2>1, <2>2, <3>1, EndsFacts
    <3> QED
      BY <2>1, <2>2, <3>2
  <2> QED
    BY <2>1, <2>3, <2>4
<1>2. RecordAt(h, p) = r
  BY <1>1 DEF RecordAt
<1> QED
  BY <1>2 DEF File

\* The length of a message.
LEMMA MsgLenType ==
    ASSUME Recorded, NEW h \in Handlers, NEW r \in Records
    PROVE  /\ MsgLen(h, r) \in Nat \ {0}
           /\ ends[h][r] = ends[h][r - 1] + HdrLen + MsgLen(h, r)
           /\ ends[h][r] \in Nat /\ ends[h][r - 1] \in Nat
<1>1. r \in 0 .. MaxRecs /\ r - 1 \in 0 .. MaxRecs /\ r - 1 < r
  BY EndsFacts DEF Records
<1>2. /\ ends[h][r] \in Nat /\ ends[h][r - 1] \in Nat /\ HdrLen \in Nat
      /\ ends[h][r - 1] + HdrLen < ends[h][r]
  BY <1>1, EndsFacts
<1> QED
  BY <1>2 DEF MsgLen

\* The records that are complete when the recording ends in or before record k + 1.
LEMMA CompleteUpTo ==
    ASSUME Recorded, NEW h \in Handlers, NEW k \in 0 .. MaxRecs, ends[h][k] <= cut[h],
           k = MaxRecs \/ cut[h] < ends[h][k + 1]
    PROVE  Cardinality(Complete(h)) = k
<1>1. Complete(h) = 1 .. k
  <2>1. ASSUME NEW r \in Records, ends[h][r] <= cut[h] PROVE r \in 1 .. k
    <3> SUFFICES ASSUME r > k PROVE FALSE
      BY EndsFacts DEF Records
    <3>1. /\ k + 1 \in 0 .. MaxRecs /\ r \in 0 .. MaxRecs /\ k # MaxRecs
          /\ (k + 1 = r \/ k + 1 < r)
      BY EndsFacts DEF Records
    <3>2. /\ ends[h][k + 1] <= ends[h][r] /\ ends[h][k + 1] \in Nat /\ ends[h][r] \in Nat
          /\ cut[h] \in Nat
      BY <3>1, EndsFacts
    <3> QED
      BY <2>1, <3>1, <3>2
  <2>2. ASSUME NEW r \in 1 .. k PROVE r \in Records /\ ends[h][r] <= cut[h]
    <3>1. r \in Records /\ r \in 0 .. MaxRecs /\ (r = k \/ r < k)
      BY EndsFacts DEF Records
    <3>2. /\ ends[h][r] <= ends[h][k] /\ ends[h][r] \in Nat /\ ends[h][k] \in Nat
          /\ cut[h] \in Nat
      BY <3>1, EndsFacts
    <3> QED
      BY <3>1, <3>2
  <2> QED
    BY <2>1, <2>2 DEF Complete
<1>2. Cardinality(1 .. k) = k
  <2>1. 1 \in Int /\ k \in Int /\ k \in Nat
    BY EndsFacts
  <2>2. Cardinality(1 .. k) = IF 1 > k THEN 0 ELSE k - 1 + 1
    BY <2>1, FS_Interval
  <2> QED
    BY <2>1, <2>2
<1> QED
  BY <1>1, <1>2

\* There are as many complete records as have been read, or more.
LEMMA CompleteAtLeast ==
    ASSUME Recorded, NEW h \in Handlers, NEW k \in 0 .. MaxRecs, ends[h][k] <= cut[h]
    PROVE  k <= Cardinality(Complete(h))
<1>1. 1 .. k \subseteq Complete(h)
  <2>1. ASSUME NEW r \in 1 .. k PROVE r \in Records /\ ends[h][r] <= cut[h]
    <3>1. r \in Records /\ r \in 0 .. MaxRecs /\ (r = k \/ r < k)
      BY EndsFacts DEF Records
    <3>2. /\ ends[h][r] <= ends[h][k] /\ ends[h][r] \in Nat /\ ends[h][k] \in Nat
          /\ cut[h] \in Nat
      BY <3>1, EndsFacts
    <3> QED
      BY <3>1, <3>2
  <2> QED
    BY <2>1 DEF Complete
<1>2. k \in Int /\ k \in Nat /\ 1 \in Int /\ MaxRecs \in Int
  BY EndsFacts
<1>3. IsFiniteSet(Records)
  BY <1>2, FS_Interval DEF Records
<1>4. Complete(h) \in SUBSET Records
  BY DEF Complete
<1>5. IsFiniteSet(Complete(h))
  BY <1>3, <1>4, FS_Subset
<1>6. 1 .. k \in SUBSET Complete(h)
  BY <1>1
<1>7. Cardinality(1 .. k) <= Cardinality(Complete(h))
  BY <1>5, <1>6, FS_Subset
<1>8. Cardinality(1 .. k) = IF 1 > k THEN 0 ELSE k - 1 + 1
  BY <1>2, FS_Interval
<1> QED
  BY <1>2, <1>7, <1>8

-----------------------------------------------------------------------------
(* The buffer.                                                             *)

\* The recording stays what it is.
LEMMA Fixed ==
    ASSUME UNCHANGED recording, NEW h \in Handlers
    PROVE  /\ ends' = ends /\ cut' = cut /\ blockLen' = blockLen
           /\ File(h)' = File(h) /\ Bytes(h)' = Bytes(h) /\ Messages(h)' = Messages(h)
           /\ \A r : MsgLen(h, r)' = MsgLen(h, r) /\ Message(h, r)' = Message(h, r)
<1>1. ends' = ends /\ cut' = cut /\ blockLen' = blockLen
  BY DEF recording
<1>2. \A p : RecordAt(h, p)' = RecordAt(h, p)
  BY <1>1 DEF RecordAt
<1>3. File(h)' = File(h)
  BY <1>1, <1>2 DEF File
<1>4. \A r : MsgLen(h, r)' = MsgLen(h, r)
  BY <1>1 DEF MsgLen
<1>5. \A r : Message(h, r)' = Message(h, r)
  BY <1>4 DEF Message
<1> QED
  BY <1>1, <1>3, <1>4, <1>5 DEF Bytes, Messages

\* The bytes s, from b on, are those of the recording.
Span(h, s, b) ==
    /\ s \in Seq(Bytes(h))
    /\ \A i \in 1 .. Len(s) : s[i] = File(h)[b + i]

\* A sequence with another appended.
LEMMA Joined ==
    ASSUME NEW S, NEW s, NEW t, NEW u, s \in Seq(S), t \in Seq(S), u = s \o t
    PROVE  /\ u \in Seq(S) /\ Len(u) = Len(s) + Len(t)
           /\ \A i \in 1 .. Len(s) + Len(t) :
                  u[i] = IF i <= Len(s) THEN s[i] ELSE t[i - Len(s)]
BY ConcatProperties

\* A block is appended: the buffer is what it was, further on.
LEMMA BlockRead ==
    ASSUME Recorded, Types, NEW h \in Handlers, NEW b \in Nat, Span(h, sbuf, b),
           pos[h] = b + Len(sbuf), pos[h] <= cut[h], ReadFileBlock(h)
    PROVE  /\ Span(h, sbuf', b) /\ pos'[h] = b + Len(sbuf') /\ pos'[h] <= cut[h]
           /\ pos' \in [Handlers -> Nat] /\ eof' \in [Handlers -> BOOLEAN]
           /\ eof'[h] => pos'[h] = cut[h]
           /\ ~eof'[h] => sbuf' # << >>
           /\ sbuf # << >> => sbuf' # << >>
<1> DEFINE p == pos[h]
           q == Lesser(p + blockLen, cut[h])
           t == SubSeq(File(h), p + 1, q)
<1>1. p \in Nat /\ cut[h] \in Nat /\ blockLen \in Nat \ {0} /\ Len(sbuf) \in Nat
  BY DEF Types, Recorded, Span
<1>2. q \in Nat /\ p <= q /\ q <= cut[h] /\ (q - p = blockLen \/ q = cut[h])
  BY <1>1 DEF Lesser
<1>3. \A i \in p + 1 .. q : File(h)[i] \in Bytes(h)
  BY <1>1, <1>2 DEF Bytes
<1>4. /\ t \in Seq(Bytes(h)) /\ Len(t) = q - p
      /\ \A i \in 1 .. q - p : t[i] = File(h)[p + i]
  <2>1. p + 1 \in Int /\ q \in Int
    BY <1>1, <1>2
  <2>2. /\ t \in Seq(Bytes(h)) /\ Len(t) = IF p + 1 <= q THEN q - (p + 1) + 1 ELSE 0
        /\ \A i \in 1 .. q - (p + 1) + 1 : t[i] = File(h)[(p + 1) + i - 1]
    BY <1>3, <2>1, SubSeqProperties
  <2>3. q - (p + 1) + 1 = q - p /\ \A i \in 1 .. q - p : (p + 1) + i - 1 = p + i
    BY <1>1, <1>2
  <2> HIDE DEF t
  <2> QED
    BY <1>1, <1>2, <2>2, <2>3
<1>5. pos' \in [Handlers -> Nat] /\ pos'[h] = q
  BY <1>1, <1>2 DEF ReadFileBlock, Types
<1>6. sbuf' = sbuf \o t
  BY <1>5 DEF ReadFileBlock
<1>7. eof' \in [Handlers -> BOOLEAN] /\ (eof'[h] <=> q - p # blockLen)
  <2>1. eof' = [eof EXCEPT ![h] = q - p # blockLen]
    BY <1>5 DEF ReadFileBlock
  <2> HIDE DEF p, q
  <2> QED
    BY <2>1, Zenon DEF Types
<1> HIDE DEF t, q
<1>8. /\ sbuf' \in Seq(Bytes(h)) /\ Len(sbuf') = Len(sbuf) + (q - p)
      /\ \A i \in 1 .. Len(sbuf) + (q - p) :
             sbuf'[i] = IF i <= Len(sbuf) THEN sbuf[i] ELSE t[i - Len(sbuf)]
  <2>1. sbuf \in Seq(Bytes(h))
    BY DEF Span
  <2>2. t \in Seq(Bytes(h))
    BY <1>4
  <2>3. /\ sbuf' \in Seq(Bytes(h)) /\ Len(sbuf') = Len(sbuf) + Len(t)
        /\ \A i \in 1 .. Len(sbuf) + Len(t) :
               sbuf'[i] = IF i <= Len(sbuf) THEN sbuf[i] ELSE t[i - Len(sbuf)]
    BY <1>6, <2>1, <2>2, Joined
  <2> QED
    BY <1>4, <2>3
<1>9. ASSUME NEW i \in 1 .. Len(sbuf') PROVE sbuf'[i] = File(h)[b + i]
  <2>1. CASE i <= Len(sbuf)
    BY <1>1, <1>2, <1>8, <2>1 DEF Span
  <2>2. CASE i > Len(sbuf)
    <3>1. /\ i - Len(sbuf) \in 1 .. q - p /\ p + (i - Len(sbuf)) = b + i
          /\ sbuf'[i] = t[i - Len(sbuf)]
      BY <1>1, <1>2, <1>8, <2>2
    <3> QED
      BY <1>4, <3>1
  <2> QED
    BY <1>1, <1>2, <1>8, <2>1, <2>2
<1>10. sbuf' # << >> <=> Len(sbuf') # 0
  BY <1>8, EmptySeq
<1>11. sbuf # << >> => Len(sbuf) # 0
  BY EmptySeq DEF Span
<1> QED
  BY <1>1, <1>2, <1>5, <1>7, <1>8, <1>9, <1>10, <1>11 DEF Span

\* What is left of a sequence without its first n elements.
LEMMA RestOf ==
    ASSUME NEW S, NEW s \in Seq(S), NEW n \in Nat, n <= Len(s)
    PROVE  /\ SubSeq(s, n + 1, Len(s)) \in Seq(S)
           /\ Len(SubSeq(s, n + 1, Len(s))) = Len(s) - n
           /\ \A i \in 1 .. Len(s) - n : SubSeq(s, n + 1, Len(s))[i] = s[n + i]
<1> DEFINE m == n + 1
           k == Len(s)
<1>1. m \in Int /\ k \in Int /\ \A i \in m .. k : s[i] \in S
  OBVIOUS
<1>2. m = n + 1 /\ k \in Nat /\ n <= k
  OBVIOUS
<1> HIDE DEF m, k
<1>3. /\ SubSeq(s, m, k) \in Seq(S) /\ Len(SubSeq(s, m, k)) = IF m <= k THEN k - m + 1 ELSE 0
      /\ \A i \in 1 .. k - m + 1 : SubSeq(s, m, k)[i] = s[m + i - 1]
  BY <1>1, SubSeqProperties
<1>4. k - m + 1 = k - n /\ Len(SubSeq(s, m, k)) = k - n
  BY <1>2, <1>3
<1>5. \A i \in 1 .. k - n : SubSeq(s, m, k)[i] = s[n + i]
  <2> TAKE i \in 1 .. k - n
  <2>1. m + i - 1 = n + i
    BY <1>2
  <2> QED
    BY <1>3, <1>4, <2>1
<1> QED
  BY <1>3, <1>4, <1>5 DEF m, k

\* n bytes are taken off the buffer.
LEMMA BytesTaken ==
    ASSUME Recorded, Types, NEW h \in Handlers, NEW b \in Nat, Span(h, sbuf, b),
           want[h] \in Nat, want[h] <= Len(sbuf), Take(h)
    PROVE  /\ Len(Taken(h)) = want[h] /\ ~Short(h)
           /\ Taken(h) = [i \in 1 .. want[h] |-> File(h)[b + i]]
           /\ Span(h, sbuf', b + want[h]) /\ Len(sbuf') = Len(sbuf) - want[h]
<1> DEFINE n == want[h]
           t == SubSeq(sbuf, 1, n)
           u == SubSeq(sbuf, n + 1, Len(sbuf))
<1>1. Len(sbuf) \in Nat /\ sbuf \in Seq(Bytes(h)) /\ n \in Nat /\ n <= Len(sbuf)
  BY DEF Span
<1>2. \A i \in 1 .. Len(sbuf) : sbuf[i] \in Bytes(h)
  BY <1>1
<1>3. Taken(h) = t
  BY <1>1 DEF Taken, Lesser
<1>4. /\ t \in Seq(Bytes(h)) /\ Len(t) = n /\ \A i \in 1 .. n : t[i] = sbuf[i]
  <2>1. 1 \in Int /\ n \in Int /\ \A i \in 1 .. n : sbuf[i] \in Bytes(h)
    BY <1>1, <1>2
  <2>2. /\ t \in Seq(Bytes(h)) /\ Len(t) = IF 1 <= n THEN n - 1 + 1 ELSE 0
        /\ \A i \in 1 .. n - 1 + 1 : t[i] = sbuf[1 + i - 1]
    BY <2>1, SubSeqProperties
  <2>3. n - 1 + 1 = n /\ \A i \in 1 .. n : 1 + i - 1 = i
    BY <1>1
  <2> HIDE DEF t, n
  <2> QED
    BY <1>1, <2>2, <2>3
<1>5. sbuf' = u
  BY <1>3, <1>4 DEF Take
<1>6. /\ u \in Seq(Bytes(h)) /\ Len(u) = Len(sbuf) - n
      /\ \A i \in 1 .. Len(sbuf) - n : u[i] = sbuf[n + i]
  BY <1>1, RestOf
<1> HIDE DEF t, u
<1>7. \A i \in 1 .. n : t[i] = File(h)[b + i]
  BY <1>1, <1>4 DEF Span
<1>8. t = [i \in 1 .. n |-> File(h)[b + i]]
  <2>1. t \in [1 .. n -> Bytes(h)]
    BY <1>4, LenProperties
  <2> QED
    BY <1>7, <2>1
<1>9. \A i \in 1 .. Len(sbuf) - n : u[i] = File(h)[(b + n) + i]
  <2> TAKE i \in 1 .. Len(sbuf) - n
  <2>1. n + i \in 1 .. Len(sbuf) /\ b + (n + i) = (b + n) + i
    BY <1>1
  <2>2. sbuf[n + i] = File(h)[b + (n + i)]
    BY <2>1 DEF Span
  <2> QED
    BY <1>6, <2>1, <2>2
<1>10. ~Short(h)
  BY <1>1, <1>3, <1>4 DEF Short
<1> QED
  BY <1>3, <1>4, <1>5, <1>6, <1>8, <1>9, <1>10 DEF Span

\* A buffer with fewer bytes than asked for is given whole.
LEMMA BytesShort ==
    ASSUME NEW h \in Handlers, NEW S, sbuf \in Seq(S), want[h] \in Nat, Short(h), Take(h)
    PROVE  Len(sbuf) < want[h] /\ sbuf' \in Seq(S)
<1> DEFINE n == Lesser(want[h], Len(sbuf))
<1>1. Len(sbuf) \in Nat /\ \A i \in 1 .. Len(sbuf) : sbuf[i] \in S
  OBVIOUS
<1>2. n \in Nat /\ n <= Len(sbuf) /\ (n = want[h] \/ Len(sbuf) < want[h])
  BY <1>1 DEF Lesser
<1> HIDE DEF n
<1>3. Len(SubSeq(sbuf, 1, n)) = n
  <2>1. 1 \in Int /\ n \in Int /\ \A i \in 1 .. n : sbuf[i] \in S
    BY <1>1, <1>2
  <2>2. Len(SubSeq(sbuf, 1, n)) = IF 1 <= n THEN n - 1 + 1 ELSE 0
    BY <2>1, SubSeqProperties
  <2> QED
    BY <1>2, <2>2
<1>4. Taken(h) = SubSeq(sbuf, 1, n)
  BY DEF Taken, n
<1>5. Len(sbuf) < want[h]
  BY <1>2, <1>3, <1>4 DEF Short
<1>6. sbuf' = SubSeq(sbuf, n + 1, Len(sbuf))
  BY <1>3, <1>4 DEF Take
<1>7. n + 1 \in Int /\ Len(sbuf) \in Int /\ \A i \in n + 1 .. Len(sbuf) : sbuf[i] \in S
  BY <1>1, <1>2
<1>8. SubSeq(sbuf, n + 1, Len(sbuf)) \in Seq(S)
  BY <1>7, SubSeqProperties
<1> QED
  BY <1>5, <1>6, <1>8

\* A buffer that has what is asked for gives it.
LEMMA ShortBuffer ==
    ASSUME NEW h \in Handlers, Len(sbuf) \in Nat, want[h] \in Nat, ~Short(h), NEW S,
           sbuf \in Seq(S)
    PROVE  want[h] <= Len(sbuf)
<1> DEFINE n == Lesser(want[h], Len(sbuf))
<1>1. n \in Nat /\ n <= Len(sbuf)
  BY DEF Lesser
<1> HIDE DEF n
<1>2. Len(SubSeq(sbuf, 1, n)) = n
  <2>1. 1 \in Int /\ n \in Int /\ \A i \in 1 .. n : sbuf[i] \in S
    BY <1>1
  <2>2. Len(SubSeq(sbuf, 1, n)) = IF 1 <= n THEN n - 1 + 1 ELSE 0
    BY <2>1, SubSeqProperties
  <2> QED
    BY <1>1, <2>2
<1>3. Taken(h) = SubSeq(sbuf, 1, n)
  BY DEF Taken, n
<1> QED
  BY <1>1, <1>2, <1>3 DEF Short

-----------------------------------------------------------------------------
(* The steps.                                                              *)

\* The buffer as a part of the recording.
LEMMA BufferedSpan ==
    ASSUME Types, NEW h \in Handlers, Buffered(h)
    PROVE  Span(h, sbuf, Base(h)) /\ Len(sbuf) \in Nat /\ (sbuf # << >> => Len(sbuf) # 0)
BY EmptySeq DEF Types, Buffered, Span

\* Numbers of a state.
LEMMA Numbers ==
    ASSUME IInv, NEW h \in Handlers
    PROVE  /\ Count(h) \in 0 .. MaxRecs /\ ends[h][Count(h)] \in Nat /\ Base(h) \in Nat
           /\ ends[h][Count(h)] <= cut[h] /\ cut[h] \in Nat
           /\ pc[h] # "body" => Base(h) = ends[h][Count(h)]
           /\ pc[h] = "body" => Base(h) = ends[h][Count(h)] + HdrLen
<1>1. Count(h) \in Nat /\ Count(h) <= MaxRecs
  BY DEF IInv, Types, HasRead, Count
<1>2. Count(h) \in 0 .. MaxRecs
  BY <1>1, ReaderAssumption
<1>3. ends[h][Count(h)] \in Nat /\ cut[h] \in Nat /\ HdrLen \in Nat
  BY <1>2, EndsFacts DEF IInv
<1> QED
  BY <1>2, <1>3 DEF IInv, HasRead, Base

\* A recording that goes on beyond the records read has one more.
LEMMA OneMore ==
    ASSUME IInv, NEW h \in Handlers, ends[h][Count(h)] < cut[h]
    PROVE  /\ Count(h) < MaxRecs /\ Count(h) + 1 \in Records
           /\ MsgLen(h, Count(h) + 1) \in Nat \ {0}
           /\ ends[h][Count(h) + 1] \in Nat
           /\ ends[h][Count(h) + 1] = ends[h][Count(h)] + HdrLen + MsgLen(h, Count(h) + 1)
<1>1. /\ Count(h) \in 0 .. MaxRecs /\ ends[h][Count(h)] \in Nat /\ cut[h] \in Nat
      /\ cut[h] <= ends[h][MaxRecs] /\ MaxRecs \in Nat
  BY Numbers, EndsFacts DEF IInv
<1>2. Count(h) # MaxRecs
  BY <1>1
<1>3. Count(h) + 1 \in Records /\ (Count(h) + 1) - 1 = Count(h) /\ Count(h) < MaxRecs
  BY <1>1, <1>2 DEF Records
<1> QED
  BY <1>3, MsgLenType DEF IInv

\* The parts of the invariant of the next state.
LEMMA StepOf ==
    ASSUME OneHandler, IInv, UNCHANGED recording, NEW h \in Handlers,
           pos' \in [Handlers -> Nat] /\ eof' \in [Handlers -> BOOLEAN],
           pc' \in [Handlers -> Calls \cup {"new", "open", "done", "error"}],
           limit' \in [Handlers -> Int] /\ want' \in [Handlers -> Int],
           DOMAIN sts' = Handlers /\ sts'[h] \in Seq(Messages(h)) /\ sbuf' \in Seq(Bytes(h)),
           HasRead(h)', Placed(h)'
    PROVE  IInv'
<1>1. /\ ends' = ends /\ cut' = cut /\ blockLen' = blockLen
      /\ Bytes(h)' = Bytes(h) /\ Messages(h)' = Messages(h)
  BY Fixed
<1>2. \A g \in Handlers : g = h
  BY DEF OneHandler
<1>3. Recorded'
  BY <1>1 DEF IInv, Recorded
<1>4. Types'
  <2>1. \A g \in Handlers : sts'[g] \in Seq(Messages(g)') /\ sbuf' \in Seq(Bytes(g)')
    BY <1>1, <1>2, Zenon
  <2> QED
    BY <2>1 DEF Types
<1>5. \A g \in Handlers : HasRead(g)' /\ Placed(g)'
  BY <1>2, Zenon
<1> QED
  BY <1>3, <1>4, <1>5 DEF IInv

\* The first block.
LEMMA OpenStep ==
    ASSUME OneHandler, IInv, NEW h \in Handlers, Open(h)
    PROVE  IInv'
<1>1. /\ Recorded /\ Types /\ HasRead(h) /\ Placed(h) /\ pc[h] = "new" /\ ReadFileBlock(h)
      /\ pc' = [pc EXCEPT ![h] = "open"] /\ UNCHANGED <<recording, limit, want, sts>>
  BY DEF IInv, Open
<1>2. Count(h) = 0 /\ pos[h] = 0 /\ sbuf = << >> /\ ~eof[h]
  BY <1>1 DEF Placed
<1>3. ends[h][0] = 0 /\ cut[h] \in Nat
  BY <1>1, EndsFacts
<1>4. Span(h, sbuf, 0) /\ Len(sbuf) = 0 /\ 0 \in Nat
  BY <1>2, EmptySeq DEF Span
<1>5. /\ Span(h, sbuf', 0) /\ pos'[h] = 0 + Len(sbuf') /\ pos'[h] <= cut[h]
      /\ pos' \in [Handlers -> Nat] /\ eof' \in [Handlers -> BOOLEAN]
      /\ eof'[h] => pos'[h] = cut[h]
      /\ ~eof'[h] => sbuf' # << >>
  BY <1>1, <1>2, <1>3, <1>4, BlockRead
<1>6. /\ pc'[h] = "open" /\ sts' = sts
      /\ pc' \in [Handlers -> Calls \cup {"new", "open", "done", "error"}]
  BY <1>1 DEF Types
<1>7. Count(h)' = 0 /\ Base(h)' = 0
  BY <1>1, <1>2, <1>3, <1>6, Fixed DEF Count, Base
<1>8. Buffered(h)'
  BY <1>1, <1>5, <1>7, Fixed DEF Buffered, Span
<1>9. Ahead(h)'
  BY <1>5, <1>6 DEF Ahead
<1>10. Placed(h)'
  BY <1>6, <1>8, <1>9 DEF Placed
<1>11. HasRead(h)'
  BY <1>1, <1>6, Fixed DEF HasRead, Count
<1> QED
  BY <1>1, <1>5, <1>6, <1>10, <1>11, StepOf DEF Types, Span

\* The call begins.
LEMMA ReadCall ==
    ASSUME OneHandler, IInv, NEW h \in Handlers, Read(h)
    PROVE  IInv'
<1>1. /\ Recorded /\ Types /\ HasRead(h) /\ Placed(h) /\ pc[h] = "open"
      /\ pc' = [pc EXCEPT ![h] = "test"]
      /\ UNCHANGED <<recording, pos, eof, sbuf, limit, want, sts>>
  BY DEF IInv, Read
<1>2. Buffered(h) /\ Ahead(h)
  BY <1>1 DEF Placed
<1>3. /\ pc'[h] = "test"
      /\ pc' \in [Handlers -> Calls \cup {"new", "open", "done", "error"}]
  BY <1>1 DEF Types, Calls
<1>4. Count(h)' = Count(h) /\ Base(h)' = Base(h)
  BY <1>1, <1>3, Fixed DEF Count, Base
<1>5. Buffered(h)' /\ Ahead(h)'
  BY <1>1, <1>2, <1>3, <1>4, Fixed DEF Buffered, Ahead
<1>6. Placed(h)'
  BY <1>3, <1>5 DEF Placed
<1>7. HasRead(h)'
  BY <1>1, <1>4, Fixed DEF HasRead
<1> QED
  BY <1>1, <1>3, <1>6, <1>7, StepOf DEF Types

\* The condition of the loop.
LEMMA TestStep ==
    ASSUME OneHandler, IInv, NEW h \in Handlers, Test(h)
    PROVE  IInv'
<1> DEFINE c == IF IsEnd(h) \/ limit[h] = 0 THEN "done" ELSE "head"
<1>1. /\ Recorded /\ Types /\ HasRead(h) /\ Placed(h) /\ pc[h] = "test"
      /\ pc' = [pc EXCEPT ![h] = c] /\ want' = [want EXCEPT ![h] = HdrLen]
      /\ UNCHANGED <<recording, pos, eof, sbuf, limit, sts>>
  BY DEF IInv, Test
<1>2. Buffered(h) /\ Ahead(h)
  BY <1>1 DEF Placed, Calls
<1>3. /\ pc'[h] = c /\ c \in {"done", "head"}
      /\ pc' \in [Handlers -> Calls \cup {"new", "open", "done", "error"}]
  BY <1>1 DEF Types, Calls
<1>4. want' \in [Handlers -> Int] /\ want'[h] = HdrLen
  BY <1>1, ReaderAssumption DEF Types
<1>5. Count(h)' = Count(h) /\ Base(h)' = Base(h)
  BY <1>1, <1>3, Fixed DEF Count, Base
<1>6. HasRead(h)'
  BY <1>1, <1>5, Fixed DEF HasRead
<1>7. CASE IsEnd(h) \/ limit[h] = 0
  <2>1. pc'[h] = "done"
    BY <1>3, <1>7
  <2>2. IsEnd(h) => ends[h][Count(h)] = cut[h]
    <3> HAVE IsEnd(h)
    <3>1. Len(sbuf) = 0 /\ pos[h] = cut[h] /\ pos[h] = Base(h) + Len(sbuf)
      BY <1>2 DEF IsEnd, Buffered
    <3> QED
      BY <1>1, <3>1, Numbers
  <2>3. Placed(h)'
    BY <1>1, <1>5, <1>7, <2>1, <2>2, Fixed DEF Placed, Calls
  <2> QED
    BY <1>1, <1>3, <1>4, <1>6, <2>3, StepOf DEF Types
<1>8. CASE ~(IsEnd(h) \/ limit[h] = 0)
  <2>1. pc'[h] = "head"
    BY <1>3, <1>8
  <2>2. sbuf # << >>
    BY <1>2, <1>8 DEF IsEnd, Ahead
  <2>3. Ahead(h)'
    BY <1>1, <1>4, <2>1, <2>2 DEF Ahead
  <2>4. Buffered(h)'
    BY <1>1, <1>2, <1>5, Fixed DEF Buffered
  <2>5. Placed(h)'
    BY <2>1, <2>3, <2>4 DEF Placed
  <2> QED
    BY <1>1, <1>3, <1>4, <1>6, <2>5, StepOf DEF Types
<1> QED
  BY <1>7, <1>8

\* Another block.
LEMMA FillStep ==
    ASSUME OneHandler, IInv, NEW h \in Handlers, Fill(h)
    PROVE  IInv'
<1>1. /\ Recorded /\ Types /\ HasRead(h) /\ Placed(h) /\ pc[h] \in {"head", "body"}
      /\ ReadFileBlock(h) /\ UNCHANGED <<recording, pc, limit, want, sts>>
  BY DEF IInv, Fill
<1>2. Buffered(h) /\ Ahead(h)
  BY <1>1 DEF Placed, Calls
<1>3. Span(h, sbuf, Base(h)) /\ Base(h) \in Nat
  BY <1>1, <1>2, BufferedSpan, Numbers
<1>4. pos[h] = Base(h) + Len(sbuf) /\ pos[h] <= cut[h]
  BY <1>2 DEF Buffered
<1>5. /\ Span(h, sbuf', Base(h)) /\ pos'[h] = Base(h) + Len(sbuf') /\ pos'[h] <= cut[h]
      /\ pos' \in [Handlers -> Nat] /\ eof' \in [Handlers -> BOOLEAN]
      /\ eof'[h] => pos'[h] = cut[h]
      /\ ~eof'[h] => sbuf' # << >>
      /\ sbuf # << >> => sbuf' # << >>
  BY <1>1, <1>3, <1>4, BlockRead
<1>6. Count(h)' = Count(h) /\ Base(h)' = Base(h)
  BY <1>1, Fixed DEF Count, Base
<1>7. Buffered(h)'
  BY <1>1, <1>5, <1>6, Fixed DEF Buffered, Span
<1>8. Ahead(h)'
  BY <1>1, <1>2, <1>5, <1>6, Fixed DEF Ahead
<1>9. Placed(h)'
  BY <1>1, <1>7, <1>8 DEF Placed
<1>10. HasRead(h)'
  BY <1>1, <1>6, Fixed DEF HasRead
<1> QED
  BY <1>1, <1>5, <1>9, <1>10, StepOf DEF Types, Span

\* With no block needed and fewer bytes than asked for, the file has ended; with as
\* many, more are left unless it has.
LEMMA NoBlockNeeded ==
    ASSUME IInv, NEW h \in Handlers, ~NeedsBlock(h), Len(sbuf) \in Nat,
           want[h] \in Nat \ {0}
    PROVE  /\ Len(sbuf) < want[h] => eof[h]
           /\ ~eof[h] => Len(sbuf) - want[h] > 0
BY DEF NeedsBlock

\* The bytes of the length field that follows the records read.
LEMMA HeaderRead ==
    ASSUME IInv, NEW h \in Handlers, ends[h][Count(h)] + HdrLen <= cut[h]
    PROVE  [i \in 1 .. HdrLen |-> File(h)[ends[h][Count(h)] + i]] = Header(h, Count(h) + 1)
<1> DEFINE r == Count(h) + 1
           b == ends[h][Count(h)]
<1>1. HdrLen \in Nat \ {0} /\ b \in Nat /\ cut[h] \in Nat /\ b < cut[h] /\ Recorded
  BY Numbers, ReaderAssumption DEF IInv
<1>2. r \in Records /\ r - 1 = Count(h) /\ ends[h][r] = b + HdrLen + MsgLen(h, r)
  BY <1>1, Numbers, OneMore
<1>3. MsgLen(h, r) \in Nat
  BY <1>1, OneMore
<1>4. ASSUME NEW i \in 1 .. HdrLen PROVE File(h)[b + i] = <<h, r, i>>
  <2>1. b + i \in 1 .. cut[h] /\ b < b + i /\ b + i <= ends[h][r] /\ (b + i) - b = i
    BY <1>1, <1>2, <1>3
  <2>2. ends[h][r - 1] = b
    BY <1>2
  <2> HIDE DEF r, b
  <2> QED
    BY <1>1, <1>2, <2>1, <2>2, ByteOf
<1> QED
  BY <1>4 DEF Header

\* The bytes of the message after it.
LEMMA MessageRead ==
    ASSUME IInv, NEW h \in Handlers, Count(h) < MaxRecs, ends[h][Count(h) + 1] <= cut[h]
    PROVE  [i \in 1 .. MsgLen(h, Count(h) + 1) |-> File(h)[(ends[h][Count(h)] + HdrLen) + i]]
             = Message(h, Count(h) + 1)
<1> DEFINE r == Count(h) + 1
           b == ends[h][Count(h)]
<1>1. HdrLen \in Nat \ {0} /\ b \in Nat /\ cut[h] \in Nat /\ Recorded /\ Count(h) \in Nat
  BY Numbers, ReaderAssumption DEF IInv
<1>2. r \in Records /\ r - 1 = Count(h)
  BY <1>1, ReaderAssumption DEF Records
<1>3. MsgLen(h, r) \in Nat /\ ends[h][r] = b + HdrLen + MsgLen(h, r)
  BY <1>1, <1>2, MsgLenType
<1>4. ASSUME NEW i \in 1 .. MsgLen(h, r) PROVE File(h)[(b + HdrLen) + i] = <<h, r, HdrLen + i>>
  <2>1. /\ (b + HdrLen) + i \in 1 .. cut[h] /\ b < (b + HdrLen) + i
        /\ (b + HdrLen) + i <= ends[h][r] /\ ((b + HdrLen) + i) - b = HdrLen + i
    BY <1>1, <1>3
  <2>2. ends[h][r - 1] = b
    BY <1>2
  <2> HIDE DEF r, b
  <2> QED
    BY <1>1, <1>2, <2>1, <2>2, ByteOf
<1> QED
  BY <1>4 DEF Message

\* The value of a length field.
LEMMA LengthRead ==
    ASSUME NEW h \in Handlers, NEW r \in Records
    PROVE  LengthOf(Header(h, r)) = {MsgLen(h, r)}
<1>1. Header(h, r)[1] = <<h, r, 1>>
  BY ReaderAssumption DEF Header
<1>2. Header(h, r)[1][1] = h /\ Header(h, r)[1][2] = r
  BY <1>1
<1> QED
  BY <1>2, Zenon DEF LengthOf

\* The length field.
LEMMA TakeHeadStep ==
    ASSUME OneHandler, IInv, NEW h \in Handlers, TakeHead(h)
    PROVE  IInv'
<1>1. /\ Recorded /\ Types /\ HasRead(h) /\ Placed(h) /\ pc[h] = "head" /\ ~NeedsBlock(h)
      /\ Take(h) /\ UNCHANGED <<recording, pos, eof, limit, sts>>
  BY DEF IInv, TakeHead
<1>2. Buffered(h) /\ Ahead(h)
  BY <1>1 DEF Placed, Calls
<1> DEFINE b == ends[h][Count(h)]
<1>3. /\ b \in Nat /\ Base(h) = b /\ cut[h] \in Nat /\ HdrLen \in Nat \ {0}
      /\ Count(h) \in 0 .. MaxRecs
  BY <1>1, Numbers, ReaderAssumption
<1>4. Span(h, sbuf, b) /\ Len(sbuf) \in Nat /\ Len(sbuf) # 0 /\ want[h] = HdrLen
  BY <1>1, <1>2, <1>3, BufferedSpan DEF Ahead
<1>5. pos[h] = b + Len(sbuf) /\ pos[h] <= cut[h] /\ (eof[h] => pos[h] = cut[h])
  BY <1>2, <1>3 DEF Buffered
<1>6. b < cut[h]
  BY <1>3, <1>4, <1>5
<1>7. /\ Count(h) < MaxRecs /\ Count(h) + 1 \in Records /\ MsgLen(h, Count(h) + 1) \in Nat \ {0}
      /\ ends[h][Count(h) + 1] = b + HdrLen + MsgLen(h, Count(h) + 1)
  BY <1>6, OneMore
<1>8. Count(h)' = Count(h)
  BY <1>1, Fixed DEF Count
<1>9. HasRead(h)'
  BY <1>1, <1>8, Fixed DEF HasRead
<1>10. CASE Len(sbuf) < HdrLen
  <2>1. Short(h)
    <3>1. ~Short(h) => HdrLen <= Len(sbuf)
      BY <1>1, <1>3, <1>4, ShortBuffer DEF Types
    <3> QED
      BY <1>3, <1>4, <1>10, <3>1
  <2>2. pc' = [pc EXCEPT ![h] = "error"] /\ want' = want
    BY <2>1 DEF TakeHead
  <2>3. sbuf' \in Seq(Bytes(h))
    BY <1>1, <1>3, <1>4, <2>1, BytesShort DEF Types
  <2>4. eof[h]
    BY <1>1, <1>3, <1>4, <1>10, NoBlockNeeded
  <2>5. cut[h] < ends[h][Count(h) + 1]
    BY <1>3, <1>4, <1>5, <1>7, <1>10, <2>4
  <2>6. /\ pc'[h] = "error"
        /\ pc' \in [Handlers -> Calls \cup {"new", "open", "done", "error"}]
    BY <1>1, <2>2 DEF Types
  <2>7. Placed(h)'
    BY <1>1, <1>6, <1>7, <1>8, <2>5, <2>6, Fixed DEF Placed, Calls
  <2> QED
    BY <1>1, <1>9, <2>2, <2>3, <2>6, <2>7, StepOf DEF Types
<1>11. CASE HdrLen <= Len(sbuf)
  <2>1. /\ ~Short(h) /\ Taken(h) = [i \in 1 .. HdrLen |-> File(h)[b + i]]
        /\ Span(h, sbuf', b + HdrLen) /\ Len(sbuf') = Len(sbuf) - HdrLen
    BY <1>1, <1>3, <1>4, <1>11, BytesTaken
  <2>2. Taken(h) = Header(h, Count(h) + 1)
    <3>1. b + HdrLen <= cut[h]
      BY <1>3, <1>4, <1>5, <1>11
    <3> QED
      BY <2>1, <3>1, HeaderRead
  <2>3. want' = [want EXCEPT ![h] = MsgLen(h, Count(h) + 1)]
    BY <1>7, <2>1, <2>2, LengthRead DEF TakeHead
  <2>4. pc' = [pc EXCEPT ![h] = "body"]
    BY <2>1 DEF TakeHead
  <2>5. /\ pc'[h] = "body" /\ want'[h] = MsgLen(h, Count(h) + 1)
        /\ pc' \in [Handlers -> Calls \cup {"new", "open", "done", "error"}]
        /\ want' \in [Handlers -> Int]
    BY <1>1, <1>7, <2>3, <2>4 DEF Types, Calls
  <2>6. Base(h)' = b + HdrLen
    BY <1>1, <1>8, <2>5, Fixed DEF Base
  <2>7. Buffered(h)'
    <3>1. pos'[h] = (b + HdrLen) + Len(sbuf') /\ pos'[h] <= cut[h]
      BY <1>1, <1>3, <1>4, <1>5, <2>1
    <3> QED
      BY <1>1, <1>5, <2>1, <2>6, <3>1, Fixed DEF Buffered, Span
  <2>8. ~eof[h] => sbuf' # << >>
    <3>1. ~eof[h] => Len(sbuf') > 0
      BY <1>1, <1>3, <1>4, <2>1, NoBlockNeeded
    <3>2. sbuf' = << >> => Len(sbuf') = 0
      OBVIOUS
    <3> QED
      BY <3>1, <3>2
  <2>9. Ahead(h)'
    BY <1>1, <1>7, <1>8, <2>5, <2>8, Fixed DEF Ahead
  <2>10. Placed(h)'
    BY <2>5, <2>7, <2>9 DEF Placed
  <2> QED
    BY <1>1, <1>9, <2>1, <2>5, <2>10, StepOf DEF Types, Span
<1> QED
  BY <1>3, <1>4, <1>10, <1>11

\* The message.
LEMMA TakeBodyStep ==
    ASSUME OneHandler, IInv, NEW h \in Handlers, TakeBody(h)
    PROVE  IInv'
<1>1. /\ Recorded /\ Types /\ HasRead(h) /\ Placed(h) /\ pc[h] = "body" /\ ~NeedsBlock(h)
      /\ Take(h) /\ UNCHANGED <<recording, pos, eof, want>>
  BY DEF IInv, TakeBody
<1>2. Buffered(h) /\ Ahead(h)
  BY <1>1 DEF Placed, Calls
<1> DEFINE r == Count(h) + 1
           b == ends[h][Count(h)] + HdrLen
           n == MsgLen(h, r)
<1>3. /\ b \in Nat /\ Base(h) = b /\ cut[h] \in Nat /\ HdrLen \in Nat \ {0}
      /\ Count(h) \in 0 .. MaxRecs /\ ends[h][Count(h)] \in Nat
  BY <1>1, Numbers, ReaderAssumption
<1>4. Span(h, sbuf, b) /\ Len(sbuf) \in Nat /\ want[h] = n /\ Count(h) < MaxRecs
  BY <1>1, <1>2, <1>3, BufferedSpan DEF Ahead
<1>5. pos[h] = b + Len(sbuf) /\ pos[h] <= cut[h] /\ (eof[h] => pos[h] = cut[h])
  BY <1>2, <1>3 DEF Buffered
<1>6. r \in Records /\ r - 1 = Count(h) /\ r \in Nat /\ r <= MaxRecs
  BY <1>3, <1>4, ReaderAssumption DEF Records
<1>7. n \in Nat \ {0} /\ ends[h][r] = b + n /\ ends[h][r] \in Nat
  BY <1>1, <1>3, <1>6, MsgLenType
<1>8. CASE Len(sbuf) < n
  <2>1. Short(h)
    <3>1. ~Short(h) => n <= Len(sbuf)
      BY <1>1, <1>4, <1>7, ShortBuffer DEF Types
    <3> QED
      BY <1>4, <1>7, <1>8, <3>1
  <2>2. pc' = [pc EXCEPT ![h] = "error"] /\ limit' = limit /\ sts' = sts
    BY <2>1 DEF TakeBody
  <2>3. sbuf' \in Seq(Bytes(h))
    BY <1>1, <1>4, <1>7, <2>1, BytesShort DEF Types
  <2>4. eof[h]
    BY <1>1, <1>4, <1>7, <1>8, NoBlockNeeded
  <2>5. ends[h][Count(h)] < cut[h] /\ cut[h] < ends[h][r]
    <3>1. b + Len(sbuf) = cut[h] /\ ends[h][r] = b + n /\ ends[h][Count(h)] < b
      BY <1>3, <1>5, <1>7, <2>4
    <3>2. b \in Nat /\ n \in Nat /\ Len(sbuf) \in Nat /\ ends[h][Count(h)] \in Nat
      BY <1>3, <1>4, <1>7
    <3> HIDE DEF r, b, n
    <3> QED
      BY <1>8, <3>1, <3>2
  <2>6. /\ pc'[h] = "error"
        /\ pc' \in [Handlers -> Calls \cup {"new", "open", "done", "error"}]
    BY <1>1, <2>2 DEF Types
  <2>7. Count(h)' = Count(h)
    BY <2>2 DEF Count
  <2>8. HasRead(h)'
    BY <1>1, <2>2, <2>7, Fixed DEF HasRead
  <2>9. Placed(h)'
    BY <1>1, <1>4, <2>5, <2>6, <2>7, Fixed DEF Placed, Calls
  <2> QED
    BY <1>1, <2>2, <2>3, <2>6, <2>8, <2>9, StepOf DEF Types
<1>9. CASE n <= Len(sbuf)
  <2>1. /\ ~Short(h) /\ Taken(h) = [i \in 1 .. n |-> File(h)[b + i]]
        /\ Span(h, sbuf', b + n) /\ Len(sbuf') = Len(sbuf) - n
    BY <1>1, <1>3, <1>4, <1>7, <1>9, BytesTaken
  <2>2. ends[h][r] <= cut[h]
    <3>1. b + Len(sbuf) <= cut[h] /\ ends[h][r] = b + n
      BY <1>5, <1>7
    <3>2. b \in Nat /\ n \in Nat /\ Len(sbuf) \in Nat /\ cut[h] \in Nat
      BY <1>3, <1>4, <1>7
    <3> HIDE DEF r, b, n
    <3> QED
      BY <1>9, <3>1, <3>2
  <2>3. Taken(h) = Message(h, r) /\ Message(h, r) \in Messages(h)
    BY <1>4, <1>6, <2>1, <2>2, MessageRead DEF Messages
  <2>4. /\ pc' = [pc EXCEPT ![h] = "test"] /\ limit' = [limit EXCEPT ![h] = @ - 1]
        /\ sts' = [sts EXCEPT ![h] = Append(@, Message(h, r))]
    BY <2>1, <2>3 DEF TakeBody
  <2>5. /\ pc'[h] = "test" /\ limit' \in [Handlers -> Int]
        /\ pc' \in [Handlers -> Calls \cup {"new", "open", "done", "error"}]
    BY <1>1, <2>4 DEF Types, Calls
  <2>6. /\ DOMAIN sts' = Handlers /\ sts'[h] = Append(sts[h], Message(h, r))
        /\ sts[h] \in Seq(Messages(h))
    BY <1>1, <2>4 DEF Types
  <2>7. /\ sts'[h] \in Seq(Messages(h)) /\ Len(sts'[h]) = r /\ sts'[h][r] = Message(h, r)
        /\ \A i \in 1 .. Count(h) : sts'[h][i] = sts[h][i]
    <3>1. /\ Append(sts[h], Message(h, r)) \in Seq(Messages(h))
          /\ Len(Append(sts[h], Message(h, r))) = Len(sts[h]) + 1
          /\ \A i \in 1 .. Len(sts[h]) : Append(sts[h], Message(h, r))[i] = sts[h][i]
          /\ Append(sts[h], Message(h, r))[Len(sts[h]) + 1] = Message(h, r)
      BY <2>3, <2>6, AppendProperties
    <3> QED
      BY <2>6, <3>1 DEF Count
  <2>8. Count(h)' = r
    BY <2>7 DEF Count
  <2>9. HasRead(h)'
    <3>1. \A i \in 1 .. r : sts'[h][i] = Message(h, i)
      <4> TAKE i \in 1 .. r
      <4>1. i = r \/ i \in 1 .. Count(h)
        BY <1>3, <1>6
      <4> QED
        BY <1>1, <2>7, <4>1 DEF HasRead
    <3> QED
      BY <1>1, <1>6, <2>2, <2>8, <3>1, Fixed DEF HasRead
  <2>10. Base(h)' = b + n
    BY <1>1, <1>7, <2>5, <2>8, Fixed DEF Base
  <2>11. Buffered(h)'
    <3>1. pos'[h] = (b + n) + Len(sbuf') /\ pos'[h] <= cut[h]
      <4> HIDE DEF r, b, n
      <4>1. pos'[h] = pos[h] /\ b \in Nat /\ n \in Nat
        BY <1>1, <1>3, <1>7
      <4> QED
        BY <1>4, <1>5, <2>1, <4>1
    <3> QED
      BY <1>1, <1>5, <2>1, <2>10, <3>1, Fixed DEF Buffered, Span
  <2>12. ~eof[h] => sbuf' # << >>
    <3>1. ~eof[h] => Len(sbuf') > 0
      BY <1>1, <1>4, <1>7, <2>1, NoBlockNeeded
    <3>2. sbuf' = << >> => Len(sbuf') = 0
      OBVIOUS
    <3> QED
      BY <3>1, <3>2
  <2>13. Ahead(h)'
    BY <1>1, <2>5, <2>12 DEF Ahead
  <2>14. Placed(h)'
    BY <2>5, <2>11, <2>13 DEF Placed
  <2> QED
    BY <1>1, <2>1, <2>5, <2>6, <2>7, <2>9, <2>14, StepOf DEF Types, Span
<1> QED
  BY <1>4, <1>7, <1>8, <1>9

-----------------------------------------------------------------------------
(* The theorems.                                                           *)

\* The reader keeps its place in the recording, whatever the blocks are.
THEOREM Invariance ==
    ASSUME OneHandler
    PROVE  Spec => []IInv
<1>1. Init => IInv
  <2> SUFFICES ASSUME Init PROVE IInv
    OBVIOUS
  <2>1. Recorded
    BY ReaderAssumption DEF Init, Recorded
  <2>2. Types
    BY EmptySeq, ReaderAssumption DEF Init, Types
  <2>3. ASSUME NEW h \in Handlers PROVE HasRead(h) /\ Placed(h)
    <3>1. Count(h) = 0 /\ ends[h][0] = 0 /\ cut[h] \in Nat /\ MaxRecs \in Nat
      BY <2>1, EndsFacts DEF Init, Count
    <3> QED
      BY <3>1 DEF Init, HasRead, Placed, Calls
  <2> QED
    BY <2>1, <2>2, <2>3 DEF IInv
<1>2. IInv /\ [Next]_vars => IInv'
  <2> SUFFICES ASSUME IInv, [Next]_vars PROVE IInv'
    OBVIOUS
  <2>1. ASSUME NEW h \in Handlers, Open(h) \/ Read(h) \/ ReadStep(h) PROVE IInv'
    BY <2>1, OpenStep, ReadCall, TestStep, FillStep, TakeHeadStep, TakeBodyStep, Zenon DEF ReadStep
  <2>2. CASE UNCHANGED vars
    <3>1. /\ UNCHANGED recording /\ pos' = pos /\ eof' = eof /\ sbuf' = sbuf /\ pc' = pc
          /\ limit' = limit /\ want' = want /\ sts' = sts
      BY <2>2 DEF vars
    <3>2. ASSUME NEW h \in Handlers PROVE IInv'
      <4>1. HasRead(h)' /\ Placed(h)'
        <5>1. Count(h)' = Count(h) /\ Base(h)' = Base(h)
          BY <3>1, Fixed DEF Count, Base
        <5>2. (Buffered(h) => Buffered(h)') /\ (Ahead(h) => Ahead(h)')
          BY <3>1, <5>1, Fixed DEF Buffered, Ahead
        <5> QED
          BY <3>1, <5>1, <5>2, Fixed DEF IInv, HasRead, Placed
      <4> QED
        BY <3>1, <4>1, StepOf DEF IInv, Types
    <3>3. CASE Handlers = {}
      BY <3>1, <3>3 DEF IInv, Recorded, Types, recording
    <3> QED
      BY <3>2, <3>3
  <2> QED
    BY <2>1, <2>2 DEF Next
<1> QED
  BY <1>1, <1>2, PTL DEF Spec

\* What has been read are the first records.
LEMMA ReadFirst ==
    ASSUME IInv, NEW h \in Handlers
    PROVE  ReadsOwn(h)
<1>1. Count(h) \in 0 .. MaxRecs /\ ends[h][Count(h)] <= cut[h] /\ Recorded
  BY Numbers DEF IInv
<1>2. Count(h) <= Cardinality(Complete(h))
  BY <1>1, CompleteAtLeast
<1> QED
  BY <1>2 DEF ReadsOwn, IInv, HasRead, Count

\* Where the recording ends with the records read, they are all of it.
LEMMA AllRead ==
    ASSUME IInv, NEW h \in Handlers, ends[h][Count(h)] = cut[h]
    PROVE  Len(sts[h]) = Cardinality(Complete(h)) /\ ~Truncated(h)
<1>1. Count(h) \in 0 .. MaxRecs /\ ends[h][Count(h)] <= cut[h] /\ Recorded
  BY Numbers DEF IInv
<1>2. Count(h) = MaxRecs \/ cut[h] < ends[h][Count(h) + 1]
  <2> SUFFICES ASSUME Count(h) # MaxRecs PROVE cut[h] < ends[h][Count(h) + 1]
    OBVIOUS
  <2>1. Count(h) + 1 \in Records /\ (Count(h) + 1) - 1 = Count(h)
    BY <1>1, ReaderAssumption DEF Records
  <2>2. /\ ends[h][Count(h) + 1] = ends[h][Count(h)] + HdrLen + MsgLen(h, Count(h) + 1)
        /\ MsgLen(h, Count(h) + 1) \in Nat \ {0} /\ ends[h][Count(h)] \in Nat
    BY <1>1, <2>1, MsgLenType
  <2> QED
    BY <2>2, ReaderAssumption
<1>3. Cardinality(Complete(h)) = Count(h)
  BY <1>1, <1>2, CompleteUpTo
<1> QED
  BY <1>3 DEF Truncated, Count

\* csi_handler_base.read returns every record of the recording, in order and
\* whole, for records of any length, any block_len and any read_count, unless
\* read_count stops it earlier.
THEOREM ReadsEverything ==
    ASSUME OneHandler
    PROVE  Spec => []ReadsAll
<1>1. IInv => ReadsAll
  <2> SUFFICES ASSUME IInv, NEW h \in Handlers, pc[h] = "done"
               PROVE  /\ ReadsOwn(h)
                      /\ \/ limit[h] = 0
                         \/ Len(sts[h]) = Cardinality(Complete(h)) /\ ~Truncated(h)
    BY DEF ReadsAll
  <2>1. limit[h] = 0 \/ ends[h][Count(h)] = cut[h]
    BY DEF IInv, Placed
  <2> QED
    BY <2>1, ReadFirst, AllRead
<1> QED
  BY <1>1, Invariance, PTL

\* An exception of read means that the recording was cut within a record, and every
\* record before it has been read: with look-ahead the end of the file is never met
\* with an empty buffer, so a whole recording never raises one.
THEOREM FailsAtCutOnly ==
    ASSUME OneHandler
    PROVE  Spec => []FailsOnlyAtCut
<1>1. IInv => FailsOnlyAtCut
  <2> SUFFICES ASSUME IInv, NEW h \in Handlers, pc[h] = "error"
               PROVE  /\ Truncated(h) /\ ReadsOwn(h)
                      /\ Len(sts[h]) = Cardinality(Complete(h))
    BY DEF FailsOnlyAtCut
  <2>1. ends[h][Count(h)] < cut[h] /\ cut[h] < ends[h][Count(h) + 1]
    BY DEF IInv, Placed
  <2>2. /\ Count(h) \in 0 .. MaxRecs /\ ends[h][Count(h)] <= cut[h] /\ Recorded
        /\ ends[h][Count(h)] \in Nat /\ cut[h] \in Nat
    BY Numbers DEF IInv
  <2>3. Cardinality(Complete(h)) = Count(h)
    BY <2>1, <2>2, CompleteUpTo
  <2>4. Truncated(h)
    BY <2>1, <2>2, <2>3 DEF Truncated
  <2> QED
    BY <2>3, <2>4, ReadFirst DEF Count
<1> QED
  BY <1>1, Invariance, PTL

\* A session's only handler returns records of its own recording only: what run
\* reader_two finds between two handlers is all due to the sbuf they share.
THEOREM OwnRecordsAlone ==
    ASSUME OneHandler
    PROVE  Spec => []OwnRecords
<1>1. IInv => OwnRecords
  BY ReadFirst DEF OwnRecords
<1> QED
  BY <1>1, Invariance, PTL
=============================================================================
