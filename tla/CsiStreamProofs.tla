--------------------------- MODULE CsiStreamProofs ---------------------------
(***************************************************************************)
(* Machine-checked proofs about the way of CSI frames to the analysis      *)
(* program, for frames of any length, any number of frames, lost           *)
(* connections and readers, and any limit on open files.                   *)
(*                                                                         *)
(* What the reader has not yet cut out, the stream, is a run of whole      *)
(* frames in the order of capture of which the beginning may be missing:   *)
(* the frame the reader is in.  A collector that gives a frame to one call *)
(* of TcpClient::send can only add a whole one to it.                      *)
(***************************************************************************)
EXTENDS CsiStream, SequenceTheorems, TLAPS

\* The units of the byte stream, for any number of frames.
Unit == Nat \X (0 .. Body)

\* What the reader has before it.
Stream == sbuf \o wire

\* The last frame that has been given to TcpClient::send or dropped.
Sent == IF todo = << >> THEN frame ELSE frame - 1

\* A frame as iaxcsi sends it, with one call.
FrameOf(f) == << <<f, 0>> >> \o BodyOf(f)

-----------------------------------------------------------------------------
(* The invariant.                                                          *)

\* Within a frame units follow each other, and a later frame has a greater number and begins
\* with its length.
Run(s) ==
    /\ \A i, j \in 1 .. Len(s) : i < j =>
           IF s[i][2] + (j - i) <= Body THEN s[j] = <<s[i][1], s[i][2] + (j - i)>>
                                        ELSE s[i][1] < s[j][1]
    /\ \A i \in 1 .. Len(s) : i + 1 \in 1 .. Len(s) /\ s[i][2] = Body => s[i + 1][2] = 0

\* The variables the proofs speak of, and where the receive loop is.
Control ==
    /\ frame \in Nat /\ frame <= MaxFrames
    /\ todo = << >> \/ (todo = << FrameOf(frame) >> /\ frame >= 1)
    /\ spc = "send" => todo # << >>
    /\ reader \in {"off", "len", "body"}
    /\ reader = "off" => conn # "up" /\ wire = << >>
    /\ sbuf \in Seq(Unit) /\ wire \in Seq(Unit) /\ last \in Unit
    /\ got \in Seq(Seq(Unit)) /\ want \in Nat

\* The messages g are bodies of frames up to m, in order.
Whole(g, m) ==
    /\ \A k \in 1 .. Len(g) : g[k] = BodyOf(g[k][1][1]) /\ g[k][1][1] \in 1 .. m
    /\ \A j, k \in 1 .. Len(g) : j < k => g[j][1][1] < g[k][1][1]

\* The units of stream s belong to frames up to m, later than the messages g.
Fresh(s, g, m) ==
    /\ \A i \in 1 .. Len(s) : s[i][1] \in 1 .. m
    /\ \A k \in 1 .. Len(g), i \in 1 .. Len(s) : g[k][1][1] < s[i][1]

\* A reader r that waits for a length has a whole frame before it, one that waits for w
\* fields has the rest of the frame whose length it read.
Placed(r, w, s) ==
    /\ r = "len" /\ s # << >> => s[1][2] = 0
    /\ r = "body" => w = Body /\ s # << >> /\ s[1][2] = 1

\* The stream ends with the end of a frame.
Ended(s) == s # << >> => s[Len(s)][2] = Body

\* The last unit l received is the last of the buffer b, or what the reader r has read of it.
Marked(b, l, r) ==
    /\ b # << >> => b[Len(b)][2] = l[2]
    /\ b = << >> /\ r # "off" => l[2] = IF r = "body" THEN 0 ELSE Body

\* The reader is in step with the sender.
InStep ==
    /\ Run(Stream) /\ Whole(got, Sent) /\ Fresh(Stream, got, Sent)
    /\ Placed(reader, want, Stream)
    /\ reader # "off" => Ended(Stream)
    /\ Marked(sbuf, last, reader)

\* The inductive invariant: once torn nothing is claimed.
IInv == Control /\ (~torn => InStep)

-----------------------------------------------------------------------------
(* Frames and runs.                                                        *)

\* Two parts of a stream.
LEMMA Joined ==
    ASSUME NEW s \in Seq(Unit), NEW t \in Seq(Unit)
    PROVE  /\ s \o t \in Seq(Unit) /\ Len(s \o t) = Len(s) + Len(t)
           /\ \A i \in 1 .. Len(s) : (s \o t)[i] = s[i]
           /\ \A i \in Len(s) + 1 .. Len(s) + Len(t) : (s \o t)[i] = t[i - Len(s)]
<1>1. /\ s \o t \in Seq(Unit) /\ Len(s \o t) = Len(s) + Len(t)
      /\ \A i \in 1 .. Len(s) + Len(t) :
             (s \o t)[i] = IF i <= Len(s) THEN s[i] ELSE t[i - Len(s)]
  BY ConcatProperties
<1>2. Len(s) \in Nat /\ Len(t) \in Nat
  OBVIOUS
<1>3. \A i \in 1 .. Len(s) : i \in 1 .. Len(s) + Len(t) /\ i <= Len(s)
  BY <1>2
<1>4. \A i \in Len(s) + 1 .. Len(s) + Len(t) : i \in 1 .. Len(s) + Len(t) /\ ~(i <= Len(s))
  BY <1>2
<1> QED
  BY <1>1, <1>3, <1>4

\* Three parts of a stream.
LEMMA JoinedTwice ==
    ASSUME NEW s \in Seq(Unit), NEW t \in Seq(Unit), NEW u \in Seq(Unit)
    PROVE  s \o (t \o u) = (s \o t) \o u
BY ConcatAssociative

\* The fields of a frame after its length.
LEMMA BodyUnits ==
    ASSUME NEW f \in Nat
    PROVE  /\ BodyOf(f) \in Seq(Unit) /\ Len(BodyOf(f)) = Body
           /\ \A k \in 1 .. Body : BodyOf(f)[k] = <<f, k>>
<1>1. Body \in Nat \ {0}
  BY StreamAssumption
<1> QED
  BY <1>1 DEF BodyOf, Unit

\* A whole frame.
LEMMA FrameUnits ==
    ASSUME NEW f \in Nat
    PROVE  /\ FrameOf(f) \in Seq(Unit) /\ Len(FrameOf(f)) = Body + 1
           /\ \A i \in 1 .. Body + 1 : FrameOf(f)[i] = <<f, i - 1>>
<1> DEFINE b == BodyOf(f)
           h == << <<f, 0>> >>
<1>1. Body \in Nat \ {0}
  BY StreamAssumption
<1>2. b \in Seq(Unit) /\ Len(b) = Body /\ \A k \in 1 .. Body : b[k] = <<f, k>>
  BY BodyUnits
<1>3. h \in Seq(Unit) /\ Len(h) = 1 /\ h[1] = <<f, 0>>
  BY <1>1 DEF Unit
<1> HIDE DEF b, h
<1>4. /\ h \o b \in Seq(Unit) /\ Len(h \o b) = Body + 1 /\ (h \o b)[1] = h[1]
      /\ \A i \in 2 .. Body + 1 : (h \o b)[i] = b[i - 1]
  <2>1. /\ h \o b \in Seq(Unit) /\ Len(h \o b) = Len(h) + Len(b)
        /\ \A i \in 1 .. Len(h) : (h \o b)[i] = h[i]
        /\ \A i \in Len(h) + 1 .. Len(h) + Len(b) : (h \o b)[i] = b[i - Len(h)]
    BY <1>2, <1>3, Joined
  <2>2. 1 \in 1 .. Len(h) /\ Len(h) + Len(b) = Body + 1
    BY <1>1, <1>2, <1>3
  <2>3. \A i \in 2 .. Body + 1 : i \in Len(h) + 1 .. Len(h) + Len(b) /\ i - Len(h) = i - 1
    BY <1>1, <1>2, <1>3
  <2> QED
    BY <2>1, <2>2, <2>3
<1>5. ASSUME NEW i \in 1 .. Body + 1 PROVE (h \o b)[i] = <<f, i - 1>>
  <2>1. CASE i = 1
    BY <1>3, <1>4, <2>1
  <2>2. CASE i # 1
    <3>1. i - 1 \in 1 .. Body /\ i \in 2 .. Body + 1
      BY <1>1, <2>2
    <3> QED
      BY <1>2, <1>4, <3>1
  <2> QED
    BY <2>1, <2>2
<1> QED
  BY <1>4, <1>5 DEF FrameOf, b, h

\* A unit has two numbers.
LEMMA UnitParts ==
    ASSUME NEW s \in Seq(Unit), NEW i \in 1 .. Len(s)
    PROVE  s[i] \in Unit /\ s[i][1] \in Nat /\ s[i][2] \in Nat /\ s[i][2] <= Body
           /\ s[i] = <<s[i][1], s[i][2]>>
<1>1. s[i] \in Unit
  BY ElementOfSeq
<1> QED
  BY <1>1, StreamAssumption DEF Unit

\* A part t of a run s, d units later.
LEMMA RunPart ==
    ASSUME NEW s \in Seq(Unit), Run(s), NEW t \in Seq(Unit), NEW d \in Nat,
           Len(t) + d <= Len(s), \A i \in 1 .. Len(t) : t[i] = s[i + d]
    PROVE  Run(t)
<1>1. Len(t) \in Nat /\ Len(s) \in Nat
  OBVIOUS
<1>2. ASSUME NEW i \in 1 .. Len(t), NEW j \in 1 .. Len(t), i < j
      PROVE  IF t[i][2] + (j - i) <= Body THEN t[j] = <<t[i][1], t[i][2] + (j - i)>>
                                          ELSE t[i][1] < t[j][1]
  <2>1. i + d \in 1 .. Len(s) /\ j + d \in 1 .. Len(s) /\ i + d < j + d
    BY <1>1, <1>2
  <2>2. (j + d) - (i + d) = j - i
    OBVIOUS
  <2>3. t[i] = s[i + d] /\ t[j] = s[j + d]
    OBVIOUS
  <2> QED
    BY <2>1, <2>2, <2>3 DEF Run
<1>3. ASSUME NEW i \in 1 .. Len(t), i + 1 \in 1 .. Len(t), t[i][2] = Body
      PROVE  t[i + 1][2] = 0
  <2>1. i + d \in 1 .. Len(s) /\ (i + d) + 1 \in 1 .. Len(s) /\ (i + 1) + d = (i + d) + 1
    BY <1>1, <1>3
  <2>2. t[i] = s[i + d] /\ t[i + 1] = s[(i + d) + 1]
    BY <1>3, <2>1
  <2> QED
    BY <1>3, <2>1, <2>2 DEF Run
<1> QED
  BY <1>2, <1>3 DEF Run

\* A whole frame follows a run of earlier ones.
LEMMA RunFrame ==
    ASSUME NEW s \in Seq(Unit), Run(s), Ended(s), NEW f \in Nat,
           \A i \in 1 .. Len(s) : s[i][1] < f
    PROVE  Run(s \o FrameOf(f)) /\ Ended(s \o FrameOf(f)) /\ s \o FrameOf(f) # << >>
<1> DEFINE F == FrameOf(f)
           t == s \o F
           n == Len(s)
<1>1. Body \in Nat \ {0} /\ n \in Nat
  BY StreamAssumption
<1>2. F \in Seq(Unit) /\ Len(F) = Body + 1 /\ \A i \in 1 .. Body + 1 : F[i] = <<f, i - 1>>
  BY FrameUnits
<1> HIDE DEF F
<1>3. /\ t \in Seq(Unit) /\ Len(t) = n + (Body + 1)
      /\ \A i \in 1 .. n : t[i] = s[i]
      /\ \A i \in n + 1 .. n + (Body + 1) : t[i] = F[i - n]
  <2>1. /\ t \in Seq(Unit) /\ Len(t) = n + Len(F)
        /\ \A i \in 1 .. n : t[i] = s[i]
        /\ \A i \in n + 1 .. n + Len(F) : t[i] = F[i - n]
    BY <1>2, Joined
  <2> QED
    BY <1>2, <2>1
<1> HIDE DEF t
<1>4. ASSUME NEW i \in n + 1 .. n + (Body + 1) PROVE t[i] = <<f, (i - n) - 1>>
  <2>1. i - n \in 1 .. Body + 1
    BY <1>1
  <2> QED
    BY <1>2, <1>3, <2>1
<1>5. n # 0 => s[n][2] = Body /\ n \in 1 .. n
  BY <1>1 DEF Ended
<1>6. ASSUME NEW i \in 1 .. Len(t), NEW j \in 1 .. Len(t), i < j
      PROVE  IF t[i][2] + (j - i) <= Body THEN t[j] = <<t[i][1], t[i][2] + (j - i)>>
                                          ELSE t[i][1] < t[j][1]
  <2>1. CASE i \in 1 .. n /\ j \in 1 .. n
    BY <1>3, <1>6, <2>1 DEF Run
  <2>2. CASE i \in 1 .. n /\ j \in n + 1 .. n + (Body + 1)
    <3>1. t[i] = s[i] /\ s[i][1] < f /\ s[i][2] \in Nat /\ t[j][1] = f
      BY <1>3, <1>4, <2>2, UnitParts
    <3>2. ~(s[i][2] + (j - i) <= Body)
      <4>1. CASE i = n
        BY <1>1, <1>5, <2>2, <4>1
      <4>2. CASE i # n
        <5>1. i < n /\ n \in 1 .. n
          BY <1>1, <2>2, <4>2
        <5>2. s[i][2] + (n - i) <= Body => s[n] = <<s[i][1], s[i][2] + (n - i)>>
          BY <2>2, <5>1 DEF Run
        <5>3. s[i][2] + (n - i) <= Body => s[i][2] + (n - i) = Body
          BY <1>5, <5>1, <5>2
        <5> QED
          BY <1>1, <2>2, <3>1, <5>1, <5>3
      <4> QED
        BY <4>1, <4>2
    <3> QED
      BY <3>1, <3>2
  <2>3. CASE i \in n + 1 .. n + (Body + 1) /\ j \in n + 1 .. n + (Body + 1)
    <3>1. t[i] = <<f, (i - n) - 1>> /\ t[j] = <<f, (j - n) - 1>>
      BY <1>4, <2>3
    <3>2. ((i - n) - 1) + (j - i) = (j - n) - 1 /\ (j - n) - 1 <= Body
      BY <1>1, <2>3
    <3> QED
      BY <3>1, <3>2
  <2> QED
    BY <1>1, <1>3, <1>6, <2>1, <2>2, <2>3
<1>7. ASSUME NEW i \in 1 .. Len(t), i + 1 \in 1 .. Len(t), t[i][2] = Body
      PROVE  t[i + 1][2] = 0
  <2>1. CASE i + 1 \in 1 .. n
    <3>1. i \in 1 .. n
      BY <1>1, <2>1
    <3> QED
      BY <1>3, <1>7, <2>1, <3>1 DEF Run
  <2>2. CASE i = n
    <3>1. n + 1 \in n + 1 .. n + (Body + 1) /\ ((n + 1) - n) - 1 = 0
      BY <1>1
    <3> QED
      BY <1>4, <2>2, <3>1
  <2>3. CASE i \in n + 1 .. n + (Body + 1)
    <3>1. (i - n) - 1 = Body
      BY <1>4, <1>7, <2>3
    <3> QED
      BY <1>1, <1>3, <1>7, <2>3, <3>1
  <2> QED
    BY <1>1, <1>3, <2>1, <2>2, <2>3
<1>8. Ended(t) /\ t # << >>
  <2>1. Len(t) \in n + 1 .. n + (Body + 1) /\ (Len(t) - n) - 1 = Body
    BY <1>1, <1>3
  <2> QED
    BY <1>1, <1>3, <1>4, <2>1 DEF Ended
<1> QED
  BY <1>6, <1>7, <1>8 DEF Run, t, F

-----------------------------------------------------------------------------
(* Parts of the stream.                                                    *)

\* The beginning of a stream.
LEMMA Front ==
    ASSUME NEW s \in Seq(Unit), NEW k \in 0 .. Len(s)
    PROVE  /\ SubSeq(s, 1, k) \in Seq(Unit) /\ Len(SubSeq(s, 1, k)) = k
           /\ \A i \in 1 .. k : SubSeq(s, 1, k)[i] = s[i]
<1>1. \A i \in 1 .. k : s[i] \in Unit
  BY ElementOfSeq
<1>2. k \in Int /\ k >= 0 /\ 1 \in Int
  OBVIOUS
<1>3. /\ SubSeq(s, 1, k) \in Seq(Unit)
      /\ Len(SubSeq(s, 1, k)) = IF 1 <= k THEN k - 1 + 1 ELSE 0
      /\ \A i \in 1 .. k - 1 + 1 : SubSeq(s, 1, k)[i] = s[1 + i - 1]
  BY <1>1, <1>2, SubSeqProperties
<1>4. \A i \in 1 .. k : 1 + i - 1 = i /\ i \in 1 .. k - 1 + 1
  BY <1>2
<1>5. (IF 1 <= k THEN k - 1 + 1 ELSE 0) = k
  BY <1>2
<1> QED
  BY <1>3, <1>4, <1>5

\* The rest of it.
LEMMA Back ==
    ASSUME NEW s \in Seq(Unit), NEW k \in 0 .. Len(s)
    PROVE  /\ SubSeq(s, k + 1, Len(s)) \in Seq(Unit) /\ Len(SubSeq(s, k + 1, Len(s))) = Len(s) - k
           /\ \A i \in 1 .. Len(s) - k : SubSeq(s, k + 1, Len(s))[i] = s[i + k]
<1> DEFINE n == Len(s)
           m == k + 1
<1>1. n \in Nat /\ k \in Nat /\ k <= n
  OBVIOUS
<1>2. \A i \in m .. n : s[i] \in Unit
  BY <1>1, ElementOfSeq
<1>3. m \in Int /\ n \in Int
  BY <1>1
<1>4. /\ \A i \in 1 .. n - k : (m + i) - 1 = i + k /\ i \in 1 .. (n - m) + 1
      /\ (IF m <= n THEN (n - m) + 1 ELSE 0) = n - k
  BY <1>1
<1> HIDE DEF n, m
<1>5. /\ SubSeq(s, m, n) \in Seq(Unit)
      /\ Len(SubSeq(s, m, n)) = IF m <= n THEN (n - m) + 1 ELSE 0
      /\ \A i \in 1 .. (n - m) + 1 : SubSeq(s, m, n)[i] = s[(m + i) - 1]
  BY <1>2, <1>3, SubSeqProperties
<1>6. /\ SubSeq(s, m, n) \in Seq(Unit) /\ Len(SubSeq(s, m, n)) = n - k
      /\ \A i \in 1 .. n - k : SubSeq(s, m, n)[i] = s[i + k]
  BY <1>4, <1>5
<1> QED
  BY <1>6 DEF n, m

\* A part of a stream is a run, and as fresh.
LEMMA PartKept ==
    ASSUME NEW s \in Seq(Unit), Run(s), NEW t \in Seq(Unit), NEW d \in Nat,
           Len(t) + d <= Len(s), \A i \in 1 .. Len(t) : t[i] = s[i + d],
           NEW g, NEW m, Fresh(s, g, m)
    PROVE  /\ Run(t) /\ Fresh(t, g, m)
           /\ Len(t) + d = Len(s) /\ Ended(s) => Ended(t)
<1>1. Len(t) \in Nat /\ Len(s) \in Nat
  OBVIOUS
<1>2. \A i \in 1 .. Len(t) : i + d \in 1 .. Len(s)
  BY <1>1
<1>3. Fresh(t, g, m)
  BY <1>2 DEF Fresh
<1>4. ASSUME Len(t) + d = Len(s), Ended(s), t # << >> PROVE t[Len(t)][2] = Body
  <2>1. Len(t) \in 1 .. Len(t) /\ s # << >>
    BY <1>1, <1>4
  <2> QED
    BY <1>4, <2>1 DEF Ended
<1> QED
  BY <1>3, <1>4, RunPart DEF Ended

\* Later nothing has been captured less.
LEMMA LaterKept ==
    ASSUME NEW g, NEW s, NEW m \in Nat, NEW n \in Nat, m <= n, Whole(g, m), Fresh(s, g, m)
    PROVE  Whole(g, n) /\ Fresh(s, g, n)
<1>1. \A x \in 1 .. m : x \in 1 .. n
  OBVIOUS
<1> QED
  BY <1>1 DEF Whole, Fresh

\* The two parts of the stream.
LEMMA StreamFacts ==
    ASSUME Control
    PROVE  /\ sbuf \in Seq(Unit) /\ wire \in Seq(Unit) /\ Stream \in Seq(Unit)
           /\ Len(sbuf) \in Nat /\ Len(wire) \in Nat /\ Len(Stream) = Len(sbuf) + Len(wire)
           /\ \A i \in 1 .. Len(sbuf) : Stream[i] = sbuf[i]
           /\ \A i \in Len(sbuf) + 1 .. Len(sbuf) + Len(wire) : Stream[i] = wire[i - Len(sbuf)]
           /\ wire = << >> => Stream = sbuf
           /\ Sent \in Nat /\ Body \in Nat \ {0}
<1>1. sbuf \in Seq(Unit) /\ wire \in Seq(Unit)
  BY DEF Control
<1>2. wire = << >> => sbuf \o wire = sbuf
  BY <1>1, ConcatEmptySeq
<1>3. Sent \in Nat
  BY DEF Control, Sent
<1> QED
  BY <1>1, <1>2, <1>3, Joined, StreamAssumption DEF Stream

-----------------------------------------------------------------------------
(* Steps that leave the stream alone.                                      *)

\* The number of the last frame.
LEMMA SentType == Control => Sent \in Nat
BY StreamFacts

\* The same in the next state.
LEMMA SentNext == (Control => Sent \in Nat)'
BY SentType, PTL

\* The collector does something that reaches nobody.
LEMMA AsideKeeps ==
    ASSUME IInv, Control', UNCHANGED <<wire, reader, sbuf, want, got, last, torn>>, Sent <= Sent'
    PROVE  IInv'
<1>1. ASSUME ~torn' PROVE InStep'
  <2>1. InStep
    BY <1>1 DEF IInv
  <2>2. Sent \in Nat /\ Sent' \in Nat
    BY StreamFacts, SentNext DEF IInv
  <2>3. Stream' = Stream
    BY DEF Stream
  <2>4. Whole(got, Sent') /\ Fresh(Stream, got, Sent')
    BY <2>1, <2>2, LaterKept DEF InStep
  <2> QED
    BY <2>1, <2>3, <2>4 DEF InStep
<1> QED
  BY <1>1 DEF IInv

\* A frame is one part.
LEMMA OnePart ==
    ASSUME ~Split, NEW f \in Nat
    PROVE  /\ PartsOf(f) = << FrameOf(f) >> /\ Head(<< FrameOf(f) >>) = FrameOf(f)
           /\ Tail(<< FrameOf(f) >>) = << >> /\ << FrameOf(f) >> # << >>
<1>1. PartsOf(f) = << FrameOf(f) >>
  BY DEF PartsOf, FrameOf
<1> HIDE DEF FrameOf
<1> QED
  BY <1>1

\* The receive loop takes an event.
LEMMA ReceiveKeeps ==
    ASSUME ~Split, IInv, Receive
    PROVE  IInv'
<1>1. /\ todo = << >> /\ frame < MaxFrames /\ frame' = frame + 1 /\ todo' = PartsOf(frame + 1)
      /\ UNCHANGED <<spc, conn, wire, reader, sbuf, want, got, last, torn>>
  BY DEF Receive, connVars, readerVars
<1>2. frame \in Nat /\ MaxFrames \in Nat
  BY StreamAssumption DEF IInv, Control
<1>3. todo' = << FrameOf(frame') >> /\ todo' # << >>
  BY <1>1, <1>2, OnePart
<1>4. frame' \in Nat /\ frame' <= MaxFrames /\ frame' >= 1 /\ Sent' = Sent /\ Sent <= Sent'
  BY <1>1, <1>2, <1>3 DEF Sent
<1>5. Control'
  BY <1>1, <1>3, <1>4 DEF IInv, Control
<1> QED
  BY <1>1, <1>4, <1>5, AsideKeeps

\* A part is dropped, lost, refused, or about to be sent.
LEMMA SendKeeps ==
    ASSUME ~Split, IInv, TestNeed \/ SysSendVanishes \/ SysSendFails
    PROVE  IInv'
<1>1. /\ UNCHANGED <<frame, conn, wire, reader, sbuf, want, got, last, torn>> /\ todo # << >>
      /\ \/ todo' = Tail(todo) /\ spc' = spc /\ spc = "idle"
         \/ todo' = Tail(todo) /\ spc' = "idle"
         \/ todo' = todo
  BY DEF TestNeed, SysSendVanishes, SysSendFails, PartDone, connVars, readerVars, IInv, Control
<1>2. frame \in Nat /\ todo = << FrameOf(frame) >> /\ frame >= 1
  BY <1>1 DEF IInv, Control
<1>3. Tail(todo) = << >>
  BY <1>2, OnePart
<1>4. todo' = todo \/ (todo' = << >> /\ spc' # "send")
  BY <1>1, <1>3
<1>5. Control'
  BY <1>1, <1>2, <1>4 DEF IInv, Control
<1>6. Sent <= Sent'
  BY <1>1, <1>2, <1>4 DEF Sent
<1> QED
  BY <1>1, <1>5, <1>6, AsideKeeps

\* reconnThread_ touches only its own state and the connection.
LEMMA ReconnectKeeps ==
    ASSUME IInv, Reconnect \/ UNCHANGED vars
    PROVE  IInv'
<1>1. /\ UNCHANGED <<frame, todo, spc, wire, reader, sbuf, want, got, last, torn>>
      /\ reader = "off" /\ conn # "up" => conn' # "up"
  BY DEF Reconnect, Wait, Socket, SocketFails, Connect, ConnectFails, SetConnected, Sleep,
     senderVars, readerVars, connVars, vars
<1>2. Control' /\ Sent' = Sent
  BY <1>1 DEF IInv, Control, Sent
<1>3. Sent <= Sent'
  BY <1>2, StreamFacts DEF IInv
<1> QED
  BY <1>1, <1>2, <1>3, AsideKeeps

-----------------------------------------------------------------------------
(* Steps of the stream.                                                    *)

\* ::send puts a whole frame at the end of the stream.
LEMMA SysSendKeeps ==
    ASSUME ~Split, IInv, SysSend
    PROVE  IInv'
<1> DEFINE F == FrameOf(frame)
           S == Stream
<1>1. /\ spc = "send" /\ conn = "up" /\ wire' = wire \o Head(todo) /\ todo' = Tail(todo)
      /\ spc' = "idle"
      /\ UNCHANGED <<frame, conn, reader, sbuf, want, got, last, torn>>
  BY DEF SysSend, PartDone, connVars, readerVars
<1>2. /\ Control /\ frame \in Nat /\ frame >= 1 /\ todo = << F >> /\ reader # "off"
      /\ reader \in {"off", "len", "body"}
  BY <1>1 DEF IInv, Control
<1>3. Head(todo) = F /\ todo' = << >> /\ todo # << >>
  BY <1>1, <1>2, OnePart
<1>4. F \in Seq(Unit) /\ Len(F) = Body + 1 /\ \A i \in 1 .. Body + 1 : F[i] = <<frame, i - 1>>
  BY <1>2, FrameUnits
<1> HIDE DEF F
<1>5. wire' \in Seq(Unit) /\ Stream' = S \o F
  <2>1. sbuf \in Seq(Unit) /\ wire \in Seq(Unit)
    BY <1>2, StreamFacts
  <2>2. wire' = wire \o F /\ wire \o F \in Seq(Unit)
    BY <1>1, <1>3, <1>4, <2>1, Joined
  <2>3. sbuf \o (wire \o F) = (sbuf \o wire) \o F
    BY <1>4, <2>1, JoinedTwice
  <2> QED
    BY <1>1, <2>2, <2>3 DEF Stream
<1>6. Control'
  BY <1>1, <1>2, <1>3, <1>5 DEF Control
<1>7. Sent = frame - 1 /\ Sent' = frame
  BY <1>1, <1>3 DEF Sent
<1>8. ASSUME ~torn' PROVE InStep'
  <2> DEFINE t == S \o F
             n == Len(S)
  <2>1. InStep
    BY <1>1, <1>8 DEF IInv
  <2>2. /\ S \in Seq(Unit) /\ n \in Nat /\ Body \in Nat \ {0}
    BY <1>2, StreamFacts
  <2>3. \A i \in 1 .. n : S[i][1] \in 1 .. frame - 1
    BY <1>7, <2>1 DEF InStep, Fresh
  <2>4. Run(t) /\ Ended(t) /\ t # << >>
    <3>1. \A i \in 1 .. n : S[i][1] < frame
      BY <1>2, <2>3
    <3>2. Run(S) /\ Ended(S)
      BY <1>2, <2>1 DEF InStep
    <3> HIDE DEF S
    <3> QED
      BY <1>2, <2>2, <3>1, <3>2, RunFrame DEF F
  <2> HIDE DEF S
  <2>5. /\ t \in Seq(Unit) /\ Len(t) = n + Len(F)
        /\ \A i \in 1 .. n : t[i] = S[i]
        /\ \A i \in n + 1 .. n + Len(F) : t[i] = F[i - n]
    BY <1>4, <2>2, Joined
  <2> HIDE DEF t
  <2>6. \A i \in n + 1 .. n + Len(F) : t[i][1] = frame /\ t[i][2] = (i - n) - 1
    <3>1. \A i \in n + 1 .. n + Len(F) : i - n \in 1 .. Body + 1
      BY <1>4, <2>2
    <3> QED
      BY <1>4, <2>5, <3>1
  <2>7. \A i \in 1 .. Len(t) : i \in 1 .. n \/ i \in n + 1 .. n + Len(F)
    BY <1>4, <2>2, <2>5
  <2>8. Whole(got, frame) /\ \A k \in 1 .. Len(got) : got[k][1][1] \in 1 .. frame - 1
    <3>1. frame - 1 \in Nat /\ frame - 1 <= frame
      BY <1>2
    <3>2. Whole(got, frame - 1) /\ Fresh(S, got, frame - 1)
      BY <1>7, <2>1 DEF InStep, S
    <3> QED
      BY <1>2, <3>1, <3>2, LaterKept DEF Whole
  <2>9. Fresh(t, got, frame)
    <3>1. \A k \in 1 .. Len(got), i \in 1 .. n : got[k][1][1] < S[i][1]
      BY <2>1 DEF InStep, Fresh, S
    <3>2. ASSUME NEW i \in 1 .. Len(t)
          PROVE  t[i][1] \in 1 .. frame /\ \A k \in 1 .. Len(got) : got[k][1][1] < t[i][1]
      <4>1. CASE i \in 1 .. n
        BY <1>2, <2>3, <2>5, <3>1, <4>1 DEF S
      <4>2. CASE i \in n + 1 .. n + Len(F)
        BY <1>2, <2>6, <2>8, <4>2
      <4> QED
        BY <2>7, <4>1, <4>2
    <3> QED
      BY <3>2 DEF Fresh
  <2>10. Placed(reader, want, t)
    <3>1. Placed(reader, want, S)
      BY <2>1 DEF InStep, S
    <3>2. CASE S = << >>
      <4>1. n = 0
        BY <2>2, <3>2
      <4>2. 1 \in n + 1 .. n + Len(F) /\ (1 - n) - 1 = 0
        BY <1>4, <2>2, <4>1
      <4> QED
        BY <2>6, <3>1, <3>2, <4>2 DEF Placed
    <3>3. CASE S # << >>
      <4>1. 1 \in 1 .. n
        BY <2>2, <3>3
      <4> QED
        BY <2>4, <2>5, <3>1, <3>3, <4>1 DEF Placed
    <3> QED
      BY <3>2, <3>3
  <2>11. Marked(sbuf, last, reader)
    BY <2>1 DEF InStep
  <2>12. Stream' = t
    BY <1>5 DEF t
  <2> QED
    BY <1>1, <1>7, <2>4, <2>8, <2>9, <2>10, <2>11, <2>12 DEF InStep
<1> QED
  BY <1>6, <1>8 DEF IInv

\* The connection breaks at the end of a frame: what arrives still is a whole number of frames.
LEMMA LoseKeeps ==
    ASSUME IInv, NEW k \in 0 .. Len(wire), Lose(k)
    PROVE  IInv'
<1> DEFINE S == Stream
           t == Stream'
           n == Len(sbuf)
<1>1. /\ conn = "up" /\ conn' = "lost" /\ wire' = SubSeq(wire, 1, k)
      /\ UNCHANGED <<frame, todo, spc, reader, sbuf, want, got, last>>
      /\ torn' = (torn \/ LastUnit(wire', last)[2] # Body)
  BY DEF Lose, senderVars, readerVars
<1>2. Control /\ reader # "off"
  BY <1>1 DEF IInv, Control
<1>3. wire' \in Seq(Unit) /\ Len(wire') = k /\ \A i \in 1 .. k : wire'[i] = wire[i]
  BY <1>1, <1>2, StreamFacts, Front
<1>4. Control'
  BY <1>1, <1>2, <1>3 DEF Control
<1>5. Sent' = Sent
  BY <1>1 DEF Sent
<1>6. ASSUME ~torn' PROVE InStep'
  <2>1. InStep /\ LastUnit(wire', last)[2] = Body
    BY <1>1, <1>6 DEF IInv
  <2>2. /\ S \in Seq(Unit) /\ n \in Nat /\ Body \in Nat \ {0} /\ Len(S) = n + Len(wire)
        /\ Len(wire) \in Nat /\ k \in Nat /\ k <= Len(wire)
        /\ \A i \in 1 .. n : S[i] = sbuf[i]
        /\ \A i \in n + 1 .. n + Len(wire) : S[i] = wire[i - n]
    BY <1>2, StreamFacts
  <2>3. /\ t \in Seq(Unit) /\ Len(t) = n + k
        /\ \A i \in 1 .. n : t[i] = sbuf[i]
        /\ \A i \in n + 1 .. n + k : t[i] = wire'[i - n]
    <3>1. t = sbuf \o wire' /\ sbuf \in Seq(Unit)
      BY <1>1, <1>2 DEF Stream, Control
    <3> HIDE DEF t
    <3>2. /\ t \in Seq(Unit) /\ Len(t) = n + Len(wire')
          /\ \A i \in 1 .. n : t[i] = sbuf[i]
          /\ \A i \in n + 1 .. n + Len(wire') : t[i] = wire'[i - n]
      BY <1>3, <3>1, Joined
    <3> QED
      BY <1>3, <3>2
  <2> HIDE DEF S, t
  <2>4. ASSUME NEW i \in 1 .. Len(t) PROVE t[i] = S[i + 0] /\ i \in 1 .. Len(S)
    <3>1. CASE i \in 1 .. n
      BY <2>2, <2>3, <3>1
    <3>2. CASE i \in n + 1 .. n + k
      <4>1. i - n \in 1 .. k /\ i \in n + 1 .. n + Len(wire) /\ i + 0 = i
        BY <2>2, <3>2
      <4> QED
        BY <1>3, <2>2, <2>3, <4>1
    <3> QED
      BY <2>2, <2>3, <3>1, <3>2
  <2>5. Run(t) /\ Fresh(t, got, Sent)
    <3>1. Len(t) + 0 <= Len(S) /\ 0 \in Nat
      BY <2>2, <2>3
    <3>2. Run(S) /\ Fresh(S, got, Sent)
      BY <2>1 DEF InStep, S
    <3> QED
      BY <2>2, <2>3, <2>4, <3>1, <3>2, PartKept
  <2>6. Marked(sbuf, last, reader)
    BY <2>1 DEF InStep
  <2>7. Ended(t) /\ (reader = "body" => t # << >>)
    <3>1. CASE k = 0
      <4>1. last[2] = Body /\ Len(t) = n
        BY <1>3, <2>1, <2>2, <2>3, <3>1 DEF LastUnit
      <4>2. t = << >> <=> sbuf = << >>
        BY <1>2, <2>2, <2>3, <4>1, StreamFacts
      <4>3. t # << >> => n \in 1 .. n
        BY <2>2, <2>3, <4>1
      <4> QED
        BY <1>2, <2>2, <2>3, <2>6, <4>1, <4>2, <4>3 DEF Marked, Ended
    <3>2. CASE k # 0
      <4>1. /\ wire' # << >> /\ Len(t) \in n + 1 .. n + k /\ Len(t) - n = k
        BY <1>3, <2>2, <2>3, <3>2
      <4>2. t[Len(t)] = wire'[k] /\ t # << >>
        BY <2>2, <2>3, <4>1
      <4>3. wire'[k][2] = Body
        BY <1>3, <2>1, <4>1 DEF LastUnit
      <4> QED
        BY <4>2, <4>3 DEF Ended
    <3> QED
      BY <3>1, <3>2
  <2>8. Placed(reader, want, t)
    <3>1. Placed(reader, want, S)
      BY <2>1 DEF InStep, S
    <3>2. ASSUME t # << >> PROVE t[1] = S[1] /\ S # << >>
      <4>1. 1 \in 1 .. Len(t) /\ 1 + 0 = 1
        BY <2>3, <3>2
      <4> QED
        BY <2>2, <2>4, <4>1
    <3> QED
      BY <2>7, <3>1, <3>2 DEF Placed
  <2> QED
    BY <1>1, <1>5, <2>1, <2>5, <2>6, <2>7, <2>8 DEF InStep, t
<1> QED
  BY <1>4, <1>6 DEF IInv

\* A reader starts, with the buffer of an earlier one or without.
LEMMA ReaderStartKeeps ==
    ASSUME IInv, ReaderStart
    PROVE  IInv'
<1>1. /\ reader = "off" /\ reader' = "len" /\ last' = Boundary
      /\ sbuf' = sbuf \/ sbuf' = << >>
      /\ torn' = (torn \/ (sbuf' # << >> /\ (Head(sbuf')[2] # 0 \/ last[2] # Body)))
      /\ UNCHANGED <<frame, todo, spc, conn, wire, want, got>>
  BY DEF ReaderStart, senderVars, connVars
<1>2. Control /\ wire = << >> /\ Body \in Nat \ {0} /\ sbuf \in Seq(Unit)
  BY <1>1, StreamAssumption DEF IInv, Control
<1>3. last' \in Unit /\ last'[2] = Body
  BY <1>1, <1>2 DEF Boundary, Unit
<1>4. sbuf' \in Seq(Unit)
  <2>1. << >> \in Seq(Unit)
    OBVIOUS
  <2> QED
    BY <1>1, <1>2, <2>1
<1>5. Control'
  BY <1>1, <1>2, <1>3, <1>4 DEF Control
<1>6. Sent' = Sent /\ Stream = sbuf /\ Stream' = sbuf'
  <2>1. \A s \in Seq(Unit) : s \o << >> = s
    BY ConcatEmptySeq
  <2> QED
    BY <1>1, <1>2, <1>4, <2>1 DEF Sent, Stream
<1>7. ASSUME ~torn' PROVE InStep'
  <2>1. InStep /\ (sbuf' = << >> \/ (Head(sbuf')[2] = 0 /\ last[2] = Body))
    BY <1>1, <1>7 DEF IInv
  <2>2. CASE sbuf' = << >>
    <3>1. Run(<< >>) /\ Fresh(<< >>, got, Sent)
      BY DEF Run, Fresh
    <3>2. Placed("len", want, << >>) /\ Ended(<< >>) /\ Marked(<< >>, last', "len")
      BY <1>3 DEF Placed, Ended, Marked
    <3> QED
      BY <1>1, <1>6, <2>1, <2>2, <3>1, <3>2 DEF InStep
  <2>3. CASE sbuf' # << >>
    <3>1. sbuf' = sbuf /\ sbuf # << >> /\ sbuf[1][2] = 0 /\ last[2] = Body
      BY <1>1, <1>2, <2>1, <2>3
    <3>2. sbuf[Len(sbuf)][2] = Body
      BY <2>1, <3>1 DEF InStep, Marked
    <3>3. Placed("len", want, sbuf) /\ Ended(sbuf) /\ Marked(sbuf, last', "len")
      BY <1>3, <3>1, <3>2 DEF Placed, Ended, Marked
    <3> QED
      BY <1>1, <1>6, <2>1, <3>1, <3>3 DEF InStep
  <2> QED
    BY <2>2, <2>3
<1> QED
  BY <1>5, <1>7 DEF IInv

\* A reader stops: its buffer stays, what is on the wire is lost.
LEMMA ReaderStopKeeps ==
    ASSUME IInv, ReaderStop
    PROVE  IInv'
<1>1. /\ reader' = "off" /\ wire' = << >> /\ conn' = IF conn = "up" THEN "lost" ELSE conn
      /\ UNCHANGED <<frame, todo, spc, sbuf, want, got, last, torn>>
  BY DEF ReaderStop, senderVars
<1>2. Control
  BY DEF IInv
<1>3. << >> \in Seq(Unit)
  OBVIOUS
<1>4. Control'
  BY <1>1, <1>2, <1>3 DEF Control
<1>5. Sent' = Sent
  BY <1>1 DEF Sent
<1>6. ASSUME ~torn' PROVE InStep'
  <2>1. InStep
    BY <1>1, <1>6 DEF IInv
  <2>2. Stream' = sbuf /\ sbuf \in Seq(Unit)
    <3>1. sbuf \o << >> = sbuf /\ sbuf \in Seq(Unit)
      BY <1>2, ConcatEmptySeq DEF Control
    <3> QED
      BY <1>1, <3>1 DEF Stream
  <2>3. Run(sbuf) /\ Fresh(sbuf, got, Sent)
    <3>1. Run(Stream) /\ Fresh(Stream, got, Sent)
      BY <2>1 DEF InStep
    <3>2. /\ Stream \in Seq(Unit) /\ Len(sbuf) + 0 <= Len(Stream) /\ 0 \in Nat
          /\ \A i \in 1 .. Len(sbuf) : sbuf[i] = Stream[i + 0]
      BY <1>2, StreamFacts
    <3> QED
      BY <2>2, <3>1, <3>2, PartKept
  <2>4. Placed("off", want, sbuf) /\ Marked(sbuf, last, "off")
    BY <2>1 DEF InStep, Placed, Marked
  <2> QED
    BY <1>1, <1>5, <2>1, <2>2, <2>3, <2>4 DEF InStep
<1> QED
  BY <1>4, <1>6 DEF IInv

\* Units arrive: the stream is the same.
LEMMA DeliverKeeps ==
    ASSUME IInv, NEW k \in 1 .. Len(wire), Deliver(k)
    PROVE  IInv'
<1> DEFINE a == SubSeq(wire, 1, k)
           b == SubSeq(wire, k + 1, Len(wire))
<1>1. /\ reader # "off" /\ sbuf' = sbuf \o a /\ wire' = b /\ last' = wire[k]
      /\ UNCHANGED <<frame, todo, spc, conn, reader, want, got, torn>>
  BY DEF Deliver, senderVars, connVars
<1>2. /\ Control /\ sbuf \in Seq(Unit) /\ wire \in Seq(Unit) /\ Len(wire) \in Nat
      /\ Len(sbuf) \in Nat
  BY StreamFacts DEF IInv
<1>3. k \in 0 .. Len(wire) /\ k \in Nat /\ k >= 1
  BY <1>2
<1>4. /\ a \in Seq(Unit) /\ Len(a) = k /\ \A i \in 1 .. k : a[i] = wire[i]
      /\ b \in Seq(Unit)
  BY <1>2, <1>3, Front, Back
<1>5. a \o b = wire
  <2>1. SubSeq(wire, 1, Len(wire)) = wire
    BY <1>2, SubSeqFull
  <2>2. 1 \in 1 .. Len(wire) + 1 /\ k \in 1 - 1 .. Len(wire) /\ Len(wire) \in k .. Len(wire)
    BY <1>2, <1>3
  <2>3. a \o b = SubSeq(wire, 1, Len(wire))
    BY <1>2, <2>2, ConcatAdjacentSubSeq
  <2> QED
    BY <2>1, <2>3
<1>6. last' \in Unit
  BY <1>1, <1>2, ElementOfSeq
<1> HIDE DEF a, b
<1>7. sbuf' \in Seq(Unit) /\ Len(sbuf') = Len(sbuf) + k /\ sbuf'[Len(sbuf) + k] = a[k]
  <2>1. /\ sbuf \o a \in Seq(Unit) /\ Len(sbuf \o a) = Len(sbuf) + Len(a)
        /\ \A i \in Len(sbuf) + 1 .. Len(sbuf) + Len(a) : (sbuf \o a)[i] = a[i - Len(sbuf)]
    BY <1>2, <1>4, Joined
  <2>2. Len(sbuf) + k \in Len(sbuf) + 1 .. Len(sbuf) + Len(a) /\ (Len(sbuf) + k) - Len(sbuf) = k
    BY <1>2, <1>3, <1>4
  <2> QED
    BY <1>1, <1>4, <2>1, <2>2
<1>8. Stream' = Stream
  <2>1. (sbuf \o a) \o b = sbuf \o (a \o b)
    BY <1>2, <1>4, JoinedTwice
  <2> QED
    BY <1>1, <1>5, <2>1 DEF Stream
<1>9. Control' /\ Sent' = Sent
  BY <1>1, <1>2, <1>4, <1>6, <1>7 DEF Control, Sent
<1>10. Marked(sbuf', last', reader')
  <2>1. sbuf' # << >> /\ k \in 1 .. k
    BY <1>2, <1>3, <1>7
  <2>2. sbuf'[Len(sbuf')] = last'
    BY <1>1, <1>4, <1>7, <2>1
  <2> QED
    BY <2>1, <2>2 DEF Marked
<1>11. ASSUME ~torn' PROVE InStep'
  BY <1>1, <1>8, <1>9, <1>10, <1>11 DEF IInv, InStep
<1> QED
  BY <1>9, <1>11 DEF IInv

\* The reader takes d units from its buffer, of which b is left.
LEMMA Taken ==
    ASSUME Control, NEW d \in Nat, NEW b \in Seq(Unit), Len(b) + d = Len(sbuf),
           \A i \in 1 .. Len(b) : b[i] = sbuf[i + d]
    PROVE  /\ b \o wire \in Seq(Unit) /\ Len(b \o wire) + d = Len(Stream)
           /\ \A i \in 1 .. Len(b \o wire) : (b \o wire)[i] = Stream[i + d]
           /\ b # << >> => b[Len(b)] = sbuf[Len(sbuf)]
<1> DEFINE t == b \o wire
           m == Len(b)
           n == Len(sbuf)
<1>1. /\ n \in Nat /\ Len(wire) \in Nat /\ wire \in Seq(Unit) /\ m \in Nat
      /\ Len(Stream) = n + Len(wire)
      /\ \A i \in 1 .. n : Stream[i] = sbuf[i]
      /\ \A i \in n + 1 .. n + Len(wire) : Stream[i] = wire[i - n]
  BY StreamFacts
<1>2. /\ t \in Seq(Unit) /\ Len(t) = m + Len(wire)
      /\ \A i \in 1 .. m : t[i] = b[i]
      /\ \A i \in m + 1 .. m + Len(wire) : t[i] = wire[i - m]
  BY <1>1, Joined
<1> HIDE DEF t
<1>3. m + d = n /\ \A i \in 1 .. m : b[i] = sbuf[i + d]
  OBVIOUS
<1>4. b # << >> => m \in 1 .. m
  BY <1>1
<1>5. Len(Stream) \in Nat
  BY <1>1
<1> HIDE DEF m, n
<1>6. ASSUME NEW i \in 1 .. Len(t) PROVE t[i] = Stream[i + d]
  <2>1. CASE i \in 1 .. m
    <3>1. i + d \in 1 .. n
      BY <1>1, <1>3, <2>1
    <3> QED
      BY <1>1, <1>2, <1>3, <2>1, <3>1
  <2>2. CASE i \in m + 1 .. m + Len(wire)
    <3>1. i + d \in n + 1 .. n + Len(wire) /\ (i + d) - n = i - m
      BY <1>1, <1>3, <2>2
    <3> QED
      BY <1>1, <1>2, <2>2, <3>1
  <2> QED
    BY <1>1, <1>2, <2>1, <2>2
<1>7. Len(t) + d = Len(Stream)
  <2>1. /\ m \in Nat /\ n \in Nat /\ Len(wire) \in Nat /\ m + d = n
        /\ Len(t) = m + Len(wire) /\ Len(Stream) = n + Len(wire)
    BY <1>1, <1>2, <1>3
  <2> QED
    BY <2>1
<1>8. b # << >> => b[m] = sbuf[n]
  BY <1>3, <1>4
<1> QED
  BY <1>2, <1>6, <1>7, <1>8 DEF t, m, n

\* read_next reads a length: of a frame whose fields follow.
LEMMA ReadLenKeeps ==
    ASSUME IInv, ReadLen
    PROVE  IInv'
<1> DEFINE S == Stream
           t == Stream'
<1>1. /\ reader = "len" /\ sbuf # << >> /\ want' \in LengthOf(Head(sbuf)) /\ sbuf' = Tail(sbuf)
      /\ reader' = "body"
      /\ UNCHANGED <<frame, todo, spc, conn, wire, got, last, torn>>
  BY DEF ReadLen, senderVars, connVars
<1>2. /\ Control /\ sbuf \in Seq(Unit) /\ Len(sbuf) \in Nat /\ Body \in Nat \ {0}
      /\ S \in Seq(Unit)
  BY StreamFacts DEF IInv
<1>3. /\ sbuf' \in Seq(Unit) /\ Len(sbuf') + 1 = Len(sbuf) /\ Len(sbuf) >= 1
      /\ \A i \in 1 .. Len(sbuf') : sbuf'[i] = sbuf[i + 1]
      /\ Head(sbuf) = sbuf[1]
  BY <1>1, <1>2, HeadTailProperties
<1>4. want' \in Nat
  BY <1>1, <1>2 DEF LengthOf
<1>5. Control' /\ Sent' = Sent
  BY <1>1, <1>2, <1>3, <1>4 DEF Control, Sent
<1>6. /\ t \in Seq(Unit) /\ Len(t) + 1 = Len(S)
      /\ \A i \in 1 .. Len(t) : t[i] = S[i + 1]
      /\ sbuf' # << >> => sbuf'[Len(sbuf')] = sbuf[Len(sbuf)]
  <2>1. 1 \in Nat /\ t = sbuf' \o wire
    BY <1>1 DEF Stream
  <2> HIDE DEF t
  <2> QED
    BY <1>2, <1>3, <2>1, Taken
<1>7. S[1] = sbuf[1]
  BY <1>2, <1>3, StreamFacts
<1> HIDE DEF S, t
<1>8. ASSUME ~torn' PROVE InStep'
  <2>1. InStep
    BY <1>1, <1>8 DEF IInv
  <2>2. /\ Run(S) /\ Whole(got, Sent) /\ Fresh(S, got, Sent) /\ Placed("len", want, S)
        /\ Ended(S) /\ Marked(sbuf, last, "len")
    BY <1>1, <2>1 DEF InStep, S
  <2>3. Len(t) \in Nat /\ Len(S) \in Nat /\ S # << >> /\ S[1][2] = 0
    BY <1>2, <1>6, <2>2 DEF Placed
  <2>4. want' = Body
    BY <1>1, <1>3, <1>7, <2>3 DEF LengthOf
  <2>5. Len(S) # 1
    BY <1>2, <2>2, <2>3 DEF Ended
  <2>6. Len(t) >= 1 /\ t # << >> /\ 1 \in 1 .. Len(t) /\ 1 \in 1 .. Len(S) /\ 2 \in 1 .. Len(S)
    BY <1>6, <2>3, <2>5
  <2>7. t[1] = S[2]
    BY <1>6, <2>6
  <2>8. S[2] = <<S[1][1], 1>>
    <3>1. S[1][2] + (2 - 1) = 1 /\ 1 <= Body
      BY <1>2, <2>3
    <3> QED
      BY <2>2, <2>6, <3>1 DEF Run
  <2>9. Placed("body", want', t)
    BY <2>4, <2>6, <2>7, <2>8 DEF Placed
  <2>10. Run(t) /\ Fresh(t, got, Sent) /\ Ended(t)
    <3>1. Len(t) + 1 <= Len(S) /\ 1 \in Nat
      BY <1>6, <2>3
    <3> QED
      BY <1>2, <1>6, <2>2, <3>1, PartKept
  <2>11. Marked(sbuf', last, "body")
    <3>1. sbuf[Len(sbuf)][2] = last[2]
      BY <1>1, <2>2 DEF Marked
    <3>2. sbuf' = << >> => Len(sbuf) = 1
      BY <1>2, <1>3
    <3> QED
      BY <1>6, <1>7, <2>3, <3>1, <3>2 DEF Marked
  <2> QED
    BY <1>1, <1>5, <2>2, <2>9, <2>10, <2>11 DEF InStep, t
<1> QED
  BY <1>5, <1>8 DEF IInv

\* read_next cuts a message out: the rest of the frame it has read the length of.
LEMMA ReadBodyKeeps ==
    ASSUME IInv, ReadBody
    PROVE  IInv'
<1> DEFINE S == Stream
           t == Stream'
           x == SubSeq(sbuf, 1, want)
           n == Len(got)
<1>1. /\ reader = "body" /\ Len(sbuf) >= want /\ got' = Append(got, x)
      /\ sbuf' = SubSeq(sbuf, want + 1, Len(sbuf)) /\ reader' = "len"
      /\ UNCHANGED <<frame, todo, spc, conn, wire, want, last, torn>>
  BY DEF ReadBody, senderVars, connVars
<1>2. /\ Control /\ sbuf \in Seq(Unit) /\ Len(sbuf) \in Nat /\ Body \in Nat \ {0}
      /\ S \in Seq(Unit) /\ Len(S) \in Nat /\ Len(S) >= Len(sbuf)
      /\ \A i \in 1 .. Len(sbuf) : S[i] = sbuf[i]
  BY StreamFacts DEF IInv
<1>3. want \in Nat /\ want \in 0 .. Len(sbuf) /\ got \in Seq(Seq(Unit))
  BY <1>1, <1>2 DEF Control
<1>4. x \in Seq(Unit) /\ Len(x) = want /\ \A i \in 1 .. want : x[i] = sbuf[i]
  BY <1>2, <1>3, Front
<1>5. /\ sbuf' \in Seq(Unit) /\ Len(sbuf') = Len(sbuf) - want
      /\ \A i \in 1 .. Len(sbuf) - want : sbuf'[i] = sbuf[i + want]
  BY <1>1, <1>2, <1>3, Back
<1> HIDE DEF x
<1>6. /\ got' \in Seq(Seq(Unit)) /\ n \in Nat /\ Len(got') = n + 1 /\ got'[n + 1] = x
      /\ \A k \in 1 .. n : got'[k] = got[k]
  BY <1>1, <1>3, <1>4, AppendProperties
<1>7. Control' /\ Sent' = Sent
  BY <1>1, <1>2, <1>5, <1>6 DEF Control, Sent
<1>8. /\ t \in Seq(Unit) /\ Len(t) + want = Len(S)
      /\ \A i \in 1 .. Len(t) : t[i] = S[i + want]
      /\ sbuf' # << >> => sbuf'[Len(sbuf')] = sbuf[Len(sbuf)]
  <2>1. t = sbuf' \o wire /\ Len(sbuf') + want = Len(sbuf)
    BY <1>1, <1>2, <1>3, <1>5 DEF Stream
  <2>2. \A i \in 1 .. Len(sbuf') : sbuf'[i] = sbuf[i + want]
    BY <1>5
  <2> HIDE DEF t
  <2> QED
    BY <1>2, <1>3, <1>5, <2>1, <2>2, Taken
<1> HIDE DEF S, t, n
<1>9. ASSUME ~torn' PROVE InStep'
  <2> DEFINE f == S[1][1]
  <2>1. InStep
    BY <1>1, <1>9 DEF IInv
  <2>2. /\ Run(S) /\ Whole(got, Sent) /\ Fresh(S, got, Sent) /\ Placed("body", want, S)
        /\ Ended(S) /\ Marked(sbuf, last, "body")
    BY <1>1, <2>1 DEF InStep, S
  <2>3. want = Body /\ S # << >> /\ S[1][2] = 1
    BY <2>2 DEF Placed
  <2>4. /\ Len(S) >= Body /\ 1 \in 1 .. Len(S) /\ Body \in 1 .. Len(S)
        /\ \A i \in 1 .. Body : i \in 1 .. Len(S) /\ i \in 1 .. Len(sbuf)
    BY <1>1, <1>2, <2>3
  <2>5. f \in Nat /\ S[1] = <<f, 1>>
    BY <1>2, <2>3, <2>4, UnitParts
  <2>6. ASSUME NEW i \in 1 .. Body PROVE S[i] = <<f, i>>
    <3>1. CASE i = 1
      BY <2>5, <3>1
    <3>2. CASE i # 1
      <4>1. 1 < i /\ S[1][2] + (i - 1) = i /\ i <= Body /\ i \in 1 .. Len(S)
        BY <1>2, <2>3, <2>4, <3>2
      <4> QED
        BY <2>2, <2>4, <4>1 DEF Run
    <3> QED
      BY <3>1, <3>2
  <2>7. f \in 1 .. Sent /\ \A k \in 1 .. n : got[k][1][1] < f
    BY <2>2, <2>4 DEF Fresh, n
  <2> HIDE DEF f
  <2>8. x = BodyOf(f)
    <3>1. BodyOf(f) \in Seq(Unit) /\ Len(BodyOf(f)) = Body
          /\ \A k \in 1 .. Body : BodyOf(f)[k] = <<f, k>>
      BY <2>5, BodyUnits
    <3>2. \A i \in 1 .. Body : x[i] = <<f, i>>
      BY <1>2, <1>4, <2>3, <2>4, <2>6
    <3>3. Len(x) = Len(BodyOf(f)) /\ \A i \in 1 .. Len(x) : x[i] = BodyOf(f)[i]
      BY <1>4, <2>3, <3>1, <3>2
    <3> QED
      BY <1>4, <3>1, <3>3, SeqEqual
  <2>9. x[1][1] = f
    <3>1. 1 \in 1 .. Body
      BY <1>2
    <3> QED
      BY <2>5, <2>8, <3>1, BodyUnits
  <2>10. \A k \in 1 .. n + 1 : k \in 1 .. n \/ k = n + 1
    BY <1>6
  <2>11. Whole(got', Sent)
    <3>1. ASSUME NEW k \in 1 .. n + 1
          PROVE  got'[k] = BodyOf(got'[k][1][1]) /\ got'[k][1][1] \in 1 .. Sent
      <4>1. CASE k \in 1 .. n
        BY <1>6, <2>2, <4>1 DEF Whole, n
      <4>2. CASE k = n + 1
        BY <1>6, <2>7, <2>8, <2>9, <4>2
      <4> QED
        BY <2>10, <4>1, <4>2
    <3>2. ASSUME NEW j \in 1 .. n + 1, NEW k \in 1 .. n + 1, j < k
          PROVE  got'[j][1][1] < got'[k][1][1]
      <4>1. j \in 1 .. n
        BY <1>6, <3>2
      <4>2. CASE k \in 1 .. n
        BY <1>6, <2>2, <3>2, <4>1, <4>2 DEF Whole, n
      <4>3. CASE k = n + 1
        BY <1>6, <2>7, <2>9, <4>1, <4>3
      <4> QED
        BY <2>10, <4>2, <4>3
    <3> QED
      BY <1>6, <3>1, <3>2 DEF Whole
  <2>12. Run(t) /\ Fresh(t, got, Sent) /\ Ended(t)
    <3>1. Len(t) + want <= Len(S) /\ want \in Nat
      BY <1>2, <1>3, <1>8
    <3> QED
      BY <1>2, <1>8, <2>2, <3>1, PartKept
  <2>13. Fresh(t, got', Sent)
    <3>1. ASSUME NEW i \in 1 .. Len(t) PROVE f < t[i][1]
      <4>1. Len(t) \in Nat
        BY <1>8
      <4>2. i + Body \in 1 .. Len(S) /\ 1 < i + Body
        BY <1>2, <1>8, <2>3, <4>1
      <4>3. ~(S[1][2] + ((i + Body) - 1) <= Body)
        BY <1>2, <2>3, <4>1
      <4> QED
        BY <1>8, <2>2, <2>3, <2>4, <4>2, <4>3 DEF Run, f
    <3>2. ASSUME NEW k \in 1 .. n + 1, NEW i \in 1 .. Len(t) PROVE got'[k][1][1] < t[i][1]
      <4>1. CASE k \in 1 .. n
        BY <1>6, <2>12, <4>1 DEF Fresh, n
      <4>2. CASE k = n + 1
        BY <1>6, <2>9, <3>1, <4>2
      <4> QED
        BY <2>10, <4>1, <4>2
    <3> QED
      BY <1>6, <2>12, <3>2 DEF Fresh
  <2>14. Placed("len", want, t)
    <3>1. ASSUME t # << >> PROVE t[1][2] = 0
      <4>1. Len(t) \in Nat /\ Len(t) >= 1
        BY <1>8, <3>1
      <4>2. 1 \in 1 .. Len(t) /\ Body + 1 \in 1 .. Len(S) /\ 1 + Body = Body + 1
        BY <1>2, <1>8, <2>3, <4>1
      <4>3. Body \in 1 .. Body
        BY <1>2
      <4>4. S[Body][2] = Body
        BY <2>6, <4>3
      <4> QED
        BY <1>8, <2>2, <2>3, <2>4, <4>2, <4>4 DEF Run
    <3> QED
      BY <3>1 DEF Placed
  <2>15. Marked(sbuf', last, "len")
    <3>1. sbuf # << >> /\ Body \in 1 .. Body
      BY <1>2, <2>4
    <3>2. sbuf[Len(sbuf)][2] = last[2]
      BY <2>2, <3>1 DEF Marked
    <3>3. sbuf' = << >> => Len(sbuf) = Body
      BY <1>2, <1>5, <2>3
    <3>4. sbuf[Body][2] = Body
      BY <1>2, <2>4, <2>6, <3>1
    <3> QED
      BY <1>8, <3>2, <3>3, <3>4 DEF Marked
  <2> QED
    BY <1>1, <1>7, <2>11, <2>12, <2>13, <2>14, <2>15 DEF InStep, t
<1> QED
  BY <1>7, <1>9 DEF IInv

-----------------------------------------------------------------------------
(* What the reader gets.                                                   *)

\* The invariant holds at the start.
LEMMA InitInv ==
    ASSUME Init
    PROVE  IInv
<1>1. /\ frame = 0 /\ todo = << >> /\ spc = "idle" /\ conn = "none" /\ wire = << >>
      /\ reader = "off" /\ sbuf = << >> /\ want = 0 /\ got = << >> /\ last = Boundary
  BY DEF Init
<1>2. Boundary \in Unit /\ MaxFrames \in Nat
  BY StreamAssumption DEF Boundary, Unit
<1>3. Control
  BY <1>1, <1>2 DEF Control
<1>4. Stream = << >>
  BY <1>1 DEF Stream
<1>5. Run(<< >>) /\ Whole(<< >>, Sent) /\ Fresh(<< >>, << >>, Sent)
  BY DEF Run, Whole, Fresh
<1>6. Placed("off", want, << >>) /\ Marked(<< >>, last, "off")
  BY DEF Placed, Marked
<1> QED
  BY <1>1, <1>3, <1>4, <1>5, <1>6 DEF IInv, InStep

\* Every step of a collector that sends frames whole keeps the invariant.
LEMMA NextInv ==
    ASSUME ~Split, IInv, [Next]_vars
    PROVE  IInv'
<1>1. CASE Collector
  BY <1>1, ReceiveKeeps, SendKeeps, SysSendKeeps DEF Collector
<1>2. CASE Reconnect \/ UNCHANGED vars
  BY <1>2, ReconnectKeeps
<1>3. CASE Network
  BY <1>3, LoseKeeps DEF Network
<1>4. CASE Arrive
  BY <1>4, DeliverKeeps DEF Arrive
<1>5. CASE Reader
  BY <1>5, ReadLenKeeps, ReadBodyKeeps DEF Reader
<1>6. CASE ReaderStart \/ ReaderStop
  BY <1>6, ReaderStartKeeps, ReaderStopKeeps
<1> QED
  BY <1>1, <1>2, <1>3, <1>4, <1>5, <1>6 DEF Next

\* With iaxcsi, which gives a frame to one call of TcpClient::send, the invariant holds in
\* every reachable state.
THEOREM Invariance ==
    ASSUME ~Split
    PROVE  Spec => []IInv
<1>1. Init => IInv
  BY InitInv
<1>2. IInv /\ [Next]_vars => IInv'
  BY NextInv
<1> QED
  BY <1>1, <1>2, PTL DEF Spec

\* What the invariant says of the messages.
LEMMA InvMessages ==
    ASSUME IInv
    PROVE  WholeFrames /\ FramesInOrder
<1>1. Sent \in Nat /\ Sent <= MaxFrames /\ MaxFrames \in Nat
  BY StreamAssumption DEF IInv, Control, Sent
<1>2. \A x \in 1 .. Sent : x \in Frames
  BY <1>1 DEF Frames
<1>3. ~torn => Whole(got, Sent)
  BY DEF IInv, InStep
<1>4. WholeFrames
  BY <1>2, <1>3 DEF Whole, WholeFrames
<1>5. FramesInOrder
  BY <1>3 DEF Whole, FramesInOrder
<1> QED
  BY <1>4, <1>5

\* What read_next of iaxcsi.m cuts out of the byte stream is a captured frame, over any number
\* of lost connections and readers, until one goes on after a frame that was torn.
THEOREM FramesWhole ==
    ASSUME ~Split
    PROVE  Spec => []WholeFrames
<1>1. IInv => WholeFrames
  BY InvMessages
<1> QED
  BY <1>1, Invariance, PTL

\* The frames are read in the order of capture, none twice.
THEOREM FramesOrdered ==
    ASSUME ~Split
    PROVE  Spec => []FramesInOrder
<1>1. IInv => FramesInOrder
  BY InvMessages
<1> QED
  BY <1>1, Invariance, PTL

-----------------------------------------------------------------------------
(* sfd_, shared by two threads.                                            *)

\* Where reconnThread_ may be while needReconn_ is set or clear, and the receive loop.
Link ==
    /\ need => spc # "send"
    /\ rpc \in {"socket", "connect", "connected"} => need
    /\ conn = "none" => need
    /\ rpc = "connected" => conn # "none"

\* One step keeps it.
LEMMA LinkNext ==
    ASSUME Link, [Next]_vars
    PROVE  Link'
<1>1. CASE Collector
  <2>1. CASE Receive
    BY <2>1 DEF Link, Receive, connVars
  <2>2. CASE TestNeed
    BY <2>2 DEF Link, TestNeed, connVars
  <2>3. CASE SysSend \/ SysSendVanishes
    BY <2>3 DEF Link, SysSend, SysSendVanishes, PartDone, connVars
  <2>4. CASE SysSendFails
    BY <2>4 DEF Link, SysSendFails, PartDone
  <2> QED
    BY <1>1, <2>1, <2>2, <2>3, <2>4 DEF Collector
<1>2. CASE Reconnect
  <2>1. CASE Wait
    BY <2>1 DEF Link, Wait, ThreadStep, senderVars
  <2>2. CASE Socket
    BY <2>2 DEF Link, Socket, ThreadStep, senderVars
  <2>3. CASE SocketFails
    BY <2>3 DEF Link, SocketFails, ThreadStep, senderVars
  <2>4. CASE Connect
    BY <2>4 DEF Link, Connect, ThreadStep, senderVars
  <2>5. CASE ConnectFails \/ Sleep
    BY <2>5 DEF Link, ConnectFails, Sleep, ThreadStep, senderVars
  <2>6. CASE SetConnected
    BY <2>6 DEF Link, SetConnected, ThreadStep, senderVars
  <2> QED
    BY <1>2, <2>1, <2>2, <2>3, <2>4, <2>5, <2>6 DEF Reconnect
<1>3. CASE Network
  BY <1>3 DEF Link, Network, Lose, senderVars
<1>4. CASE Arrive
  BY <1>4 DEF Link, Arrive, Deliver, senderVars, connVars
<1>5. CASE Reader \/ ReaderStart
  BY <1>5 DEF Link, Reader, ReadLen, ReadBody, ReaderStart, senderVars, connVars
<1>6. CASE ReaderStop
  BY <1>6 DEF Link, ReaderStop, senderVars
<1>7. CASE UNCHANGED vars
  BY <1>7 DEF Link, vars, senderVars, connVars
<1> QED
  BY <1>1, <1>2, <1>3, <1>4, <1>5, <1>6, <1>7 DEF Next

\* reconnThread_ does not replace sfd_ under a ::send that has passed the unlocked test of
\* needReconn_, for iaxcsi and incsi alike.
THEOREM SocketIsStable == Spec => []SocketStable
<1>1. Init => Link
  BY DEF Init, Link
<1>2. Link /\ [Next]_vars => Link'
  BY LinkNext
<1>3. Link => SocketStable
  BY DEF Link, SocketStable
<1> QED
  BY <1>1, <1>2, <1>3, PTL DEF Spec
=============================================================================
