--------------------------- MODULE CsiConfigProofs ---------------------------
(***************************************************************************)
(* Machine-checked proofs about the configuration of the AX CSI            *)
(* collection, for any settings, values and addresses and any number of    *)
(* writes, firmware errors and interface starts.  That a failure is        *)
(* answered is proved for any number of writers.  That the firmware        *)
(* follows the files needs a single one: the files other than csi_enabled  *)
(* change csi_cfg.flags without mvm->mutex.                                *)
(*                                                                         *)
(* A handler is somewhere in its plan, and the invariant says what is true *)
(* of csi_cfg, of the command being built and of the firmware in each      *)
(* place of it.                                                            *)
(***************************************************************************)
EXTENDS CsiConfig, SequenceTheorems, TLAPS

-----------------------------------------------------------------------------
(* Where a handler is.  The plans are named from their end.                *)

Unlocking == << <<"unlock">> >> \o << >>
Sending == << <<"transmit">> >> \o Unlocking
Copying == << <<"addrs">> >> \o Sending
Composing == << <<"scalars">> >> \o Copying
Telling == << <<"running">> >> \o Composing
Setting == << <<"flag", "ENABLE", TRUE>> >> \o Telling
Loading == << <<"load">> >> \o Setting
Clearing(on) == << <<"flag", "ENABLE", FALSE>> >> \o (IF on THEN Loading ELSE Telling)
Fetching(on) == << <<"load">> >> \o Clearing(on)
Locking(on) == << <<"lock">> >> \o Fetching(on)
Testing(on) == << <<"noop", on>> >> \o Locking(on)

Completing == << <<"complete">> >> \o << >>
Waking == << <<"lock">> >> \o Completing
Starting == << <<"start">> >> \o << >>

\* A write of csi_enabled that has the mutex and has not sent the command.
Pending == {Sending, Copying, Composing, Telling, Setting, Loading,
            Clearing(TRUE), Clearing(FALSE), Fetching(TRUE), Fetching(FALSE)}

\* A write of csi_enabled that has not sent the command.
Busy == Pending \cup {Locking(TRUE), Locking(FALSE), Testing(TRUE), Testing(FALSE)}

\* Places with the mutex held.
Inside == Pending \cup {Unlocking, Completing}

\* All places of a write of csi_enabled.
EnablePlan == Busy \cup {Unlocking}

\* The restart work that is going to send the command, and all its places.
Resending == {Composing, Copying, Sending}
RestartPlan == Resending \cup {<< >>, Starting, Waking, Completing, Unlocking}

\* The writes of the other files: a flag other than ENABLE is stored right after a load.
Plain(q) ==
    \A k \in 1 .. Len(q) :
        /\ q[k][1] \in {"load", "flag", "value", "num", "addr"}
        /\ q[k][1] = "flag" => q[k][2] # "ENABLE" /\ (k > 1 => q[k - 1][1] = "load")

-----------------------------------------------------------------------------
(* Operations and plans.                                                   *)

\* What an operation of each kind carries.
LEMMA OpKinds ==
    ASSUME NEW x \in Ops
    PROVE  /\ x[1] = "flag" => x[2] \in Flags
           /\ x[1] = "value" => x[2] \in Settings /\ x[3] \in 0 .. MaxValue
           /\ x[1] = "num" => x[2] \in 0 .. MaxAddrs
           /\ x[1] = "addr" => x[2] \in 1 .. MaxAddrs /\ x[3] \in Addrs
BY DEF Ops

\* The operations of csi_enabled and of the restart work.
LEMMA OpsOfPlans ==
    /\ <<"unlock">> \in Ops /\ <<"transmit">> \in Ops /\ <<"addrs">> \in Ops
    /\ <<"scalars">> \in Ops /\ <<"running">> \in Ops /\ <<"load">> \in Ops
    /\ <<"lock">> \in Ops /\ <<"complete">> \in Ops /\ <<"start">> \in Ops
    /\ <<"flag", "ENABLE", TRUE>> \in Ops /\ <<"flag", "ENABLE", FALSE>> \in Ops
    /\ <<"noop", TRUE>> \in Ops /\ <<"noop", FALSE>> \in Ops
<1>1. "ENABLE" \in Flags /\ TRUE \in BOOLEAN /\ FALSE \in BOOLEAN
  BY DEF Flags
<1> QED
  BY <1>1 DEF Ops

\* The last operations of the plans with the mutex.
Final == {"unlock", "complete", "start"}

\* Plan c begins with operation x, q comes after it.
Begins(c, x, q) ==
    c \in Seq(Ops) /\ c # << >> /\ Head(c) = x /\ Tail(c) = q /\ c[Len(c)][1] \in Final

\* A plan of an operation and what comes after it.
LEMMA Cons ==
    ASSUME NEW x \in Ops, NEW q \in Seq(Ops), NEW c, c = << x >> \o q,
           IF q = << >> THEN x[1] \in Final ELSE q[Len(q)][1] \in Final
    PROVE  Begins(c, x, q)
<1> DEFINE h == << x >>
<1>1. h \in Seq(Ops) /\ Len(h) = 1 /\ h[1] = x /\ Len(q) \in Nat /\ c = h \o q
  OBVIOUS
<1> HIDE DEF h
<1>2. /\ c \in Seq(Ops) /\ Len(c) = Len(h) + Len(q)
      /\ \A i \in 1 .. Len(h) + Len(q) : c[i] = IF i <= Len(h) THEN h[i] ELSE q[i - Len(h)]
  BY <1>1, ConcatProperties
<1>3. Len(c) = Len(q) + 1 /\ c # << >> /\ c[1] = x
  <2>1. 1 \in 1 .. Len(h) + Len(q) /\ 1 <= Len(h)
    BY <1>1
  <2> QED
    BY <1>1, <1>2, <2>1
<1>4. \A i \in 1 .. Len(q) : c[i + 1] = q[i]
  <2>1. \A i \in 1 .. Len(q) : /\ i + 1 \in 1 .. Len(h) + Len(q) /\ ~(i + 1 <= Len(h))
                               /\ (i + 1) - Len(h) = i
    BY <1>1
  <2> QED
    BY <1>2, <2>1
<1>5. /\ Head(c) = c[1] /\ Tail(c) \in Seq(Ops) /\ Len(Tail(c)) = Len(q)
      /\ \A i \in 1 .. Len(Tail(c)) : Tail(c)[i] = c[i + 1]
  BY <1>1, <1>2, <1>3, HeadTailProperties
<1>6. Tail(c) = q
  BY <1>4, <1>5, SeqEqual
<1>7. c[Len(c)][1] \in Final
  <2>1. CASE q = << >>
    BY <1>3, <2>1
  <2>2. CASE q # << >>
    <3>1. Len(q) \in 1 .. Len(q)
      BY <1>1, <2>2
    <3> QED
      BY <1>3, <1>4, <2>2, <3>1
  <2> QED
    BY <2>1, <2>2
<1> QED
  BY <1>2, <1>3, <1>5, <1>6, <1>7 DEF Begins

\* The places of csi_enabled and of the restart work, and how they follow each other.
LEMMA PlanSteps ==
    /\ Begins(Unlocking, <<"unlock">>, << >>) /\ Begins(Sending, <<"transmit">>, Unlocking)
    /\ Begins(Copying, <<"addrs">>, Sending) /\ Begins(Composing, <<"scalars">>, Copying)
    /\ Begins(Telling, <<"running">>, Composing)
    /\ Begins(Setting, <<"flag", "ENABLE", TRUE>>, Telling)
    /\ Begins(Loading, <<"load">>, Setting)
    /\ Begins(Clearing(TRUE), <<"flag", "ENABLE", FALSE>>, Loading)
    /\ Begins(Clearing(FALSE), <<"flag", "ENABLE", FALSE>>, Telling)
    /\ Begins(Fetching(TRUE), <<"load">>, Clearing(TRUE))
    /\ Begins(Fetching(FALSE), <<"load">>, Clearing(FALSE))
    /\ Begins(Locking(TRUE), <<"lock">>, Fetching(TRUE))
    /\ Begins(Locking(FALSE), <<"lock">>, Fetching(FALSE))
    /\ Begins(Testing(TRUE), <<"noop", TRUE>>, Locking(TRUE))
    /\ Begins(Testing(FALSE), <<"noop", FALSE>>, Locking(FALSE))
    /\ Begins(Completing, <<"complete">>, << >>) /\ Begins(Waking, <<"lock">>, Completing)
    /\ Begins(Starting, <<"start">>, << >>)
<1>1. \A x \in Ops : x[1] \in Final => Begins(<< x >> \o << >>, x, << >>)
  <2>1. << >> \in Seq(Ops)
    OBVIOUS
  <2> QED
    BY <2>1, Cons
<1>2. ASSUME NEW x \in Ops, NEW q, NEW y, NEW r, Begins(q, y, r) PROVE Begins(<< x >> \o q, x, q)
  BY <1>2, Cons DEF Begins
<1>3. /\ Begins(Unlocking, <<"unlock">>, << >>) /\ Begins(Completing, <<"complete">>, << >>)
      /\ Begins(Starting, <<"start">>, << >>)
  BY <1>1, OpsOfPlans DEF Unlocking, Completing, Starting, Final
<1> HIDE DEF Begins
<1>4. Begins(Sending, <<"transmit">>, Unlocking) /\ Begins(Waking, <<"lock">>, Completing)
  BY <1>2, <1>3, OpsOfPlans DEF Sending, Waking
<1>5. Begins(Copying, <<"addrs">>, Sending)
  BY <1>2, <1>4, OpsOfPlans DEF Copying
<1>6. Begins(Composing, <<"scalars">>, Copying)
  BY <1>2, <1>5, OpsOfPlans DEF Composing
<1>7. Begins(Telling, <<"running">>, Composing)
  BY <1>2, <1>6, OpsOfPlans DEF Telling
<1>8. Begins(Setting, <<"flag", "ENABLE", TRUE>>, Telling)
  BY <1>2, <1>7, OpsOfPlans DEF Setting
<1>9. Begins(Loading, <<"load">>, Setting)
  BY <1>2, <1>8, OpsOfPlans DEF Loading
<1>10. /\ Begins(Clearing(TRUE), <<"flag", "ENABLE", FALSE>>, Loading)
       /\ Begins(Clearing(FALSE), <<"flag", "ENABLE", FALSE>>, Telling)
  BY <1>2, <1>7, <1>9, OpsOfPlans DEF Clearing
<1>11. /\ Begins(Fetching(TRUE), <<"load">>, Clearing(TRUE))
       /\ Begins(Fetching(FALSE), <<"load">>, Clearing(FALSE))
  BY <1>2, <1>10, OpsOfPlans DEF Fetching
<1>12. /\ Begins(Locking(TRUE), <<"lock">>, Fetching(TRUE))
       /\ Begins(Locking(FALSE), <<"lock">>, Fetching(FALSE))
  BY <1>2, <1>11, OpsOfPlans DEF Locking
<1>13. /\ Begins(Testing(TRUE), <<"noop", TRUE>>, Locking(TRUE))
       /\ Begins(Testing(FALSE), <<"noop", FALSE>>, Locking(FALSE))
  BY <1>2, <1>12, OpsOfPlans DEF Testing
<1> QED
  BY <1>3, <1>4, <1>5, <1>6, <1>7, <1>8, <1>9, <1>10, <1>11, <1>12, <1>13

\* Concatenation is associative, for plans.
LEMMA Joined ==
    \A s, t, u \in Seq(Ops) : (s \o t) \o u = s \o (t \o u)
BY ConcatAssociative

\* Two operations and what comes after them.
LEMMA Pairs ==
    \A x, y \in Ops : \A q \in Seq(Ops) : << x, y >> \o q = << x >> \o (<< y >> \o q)
<1> SUFFICES ASSUME NEW x \in Ops, NEW y \in Ops, NEW q \in Seq(Ops)
             PROVE  << x, y >> \o q = << x >> \o (<< y >> \o q)
  OBVIOUS
<1> DEFINE h == << x >>
           g == << y >>
           d == << x, y >>
<1>1. /\ h \in Seq(Ops) /\ g \in Seq(Ops) /\ d \in Seq(Ops)
      /\ Len(h) = 1 /\ Len(g) = 1 /\ Len(d) = 2
      /\ h[1] = x /\ g[1] = y /\ d[1] = x /\ d[2] = y
  OBVIOUS
<1> HIDE DEF h, g, d
<1>2. d = h \o g
  <2>1. /\ h \o g \in Seq(Ops) /\ Len(h \o g) = Len(h) + Len(g)
        /\ \A i \in 1 .. Len(h) + Len(g) :
              (h \o g)[i] = IF i <= Len(h) THEN h[i] ELSE g[i - Len(h)]
    BY <1>1, ConcatProperties
  <2>2. Len(h \o g) = 2 /\ (h \o g)[1] = x /\ (h \o g)[2] = y
    BY <1>1, <2>1
  <2> QED
    BY <1>1, <2>1, <2>2, SeqEqual
<1>3. (h \o g) \o q = h \o (g \o q)
  BY <1>1, Joined
<1> QED
  BY <1>2, <1>3 DEF h, g, d

\* Six parts of a plan can be bracketed from the end.
Regroups(n, b, c, r, m, u) ==
    ((((n \o b) \o c) \o r) \o m) \o u = n \o (b \o (c \o (r \o (m \o u))))

\* Concatenation is associative, for six parts.
LEMMA Regrouped ==
    ASSUME NEW n, NEW b, NEW c, NEW r, NEW m, NEW u,
           n \in Seq(Ops) /\ b \in Seq(Ops) /\ c \in Seq(Ops),
           r \in Seq(Ops) /\ m \in Seq(Ops) /\ u \in Seq(Ops)
    PROVE  Regroups(n, b, c, r, m, u)
<1> DEFINE Three(s, t, v) == (s \o t) \o v = s \o (t \o v)
<1>1. \A s, t \in Seq(Ops) : s \o t \in Seq(Ops)
  BY ConcatProperties
<1>2. \A s, t, v \in Seq(Ops) : Three(s, t, v)
  BY Joined
<1> HIDE DEF Three
<1>3. /\ n \o b \in Seq(Ops) /\ (n \o b) \o c \in Seq(Ops) /\ ((n \o b) \o c) \o r \in Seq(Ops)
      /\ m \o u \in Seq(Ops) /\ r \o (m \o u) \in Seq(Ops)
      /\ c \o (r \o (m \o u)) \in Seq(Ops)
  BY <1>1, Zenon
<1>4. Three(((n \o b) \o c) \o r, m, u)
  BY <1>2, <1>3, Zenon
<1>5. Three((n \o b) \o c, r, m \o u)
  BY <1>2, <1>3, Zenon
<1>6. Three(n \o b, c, r \o (m \o u))
  BY <1>2, <1>3, Zenon
<1>7. Three(n, b, c \o (r \o (m \o u)))
  BY <1>2, <1>3, Zenon
<1> QED
  BY <1>4, <1>5, <1>6, <1>7, Zenon DEF Three, Regroups

\* The plans as the handlers write them.
LEMMA PlansAsWritten ==
    /\ SetEnabled(TRUE) = Testing(TRUE) /\ SetEnabled(FALSE) = Testing(FALSE)
    /\ SendCsiCmd \o << <<"unlock">> >> = Composing
    /\ << <<"unlock">> >> = Unlocking /\ << <<"start">> >> = Starting
    /\ << <<"lock">>, <<"complete">> >> = Waking
<1>1. /\ SendCsiCmd \o << <<"unlock">> >> = Composing
      /\ << <<"unlock">> >> = Unlocking /\ << <<"start">> >> = Starting
      /\ << <<"lock">>, <<"complete">> >> = Waking
  BY DEF SendCsiCmd, Composing, Copying, Sending, Unlocking, Starting, Waking, Completing
<1>2. /\ Composing \in Seq(Ops) /\ Telling \in Seq(Ops) /\ Loading \in Seq(Ops)
      /\ Fetching(TRUE) \in Seq(Ops) /\ Fetching(FALSE) \in Seq(Ops)
  BY PlanSteps DEF Begins
<1> DEFINE Paired(x, y, q) == << x, y >> \o q = << x >> \o (<< y >> \o q)
<1>14. \A x, y \in Ops : \A q \in Seq(Ops) : Paired(x, y, q)
  BY Pairs, Zenon
<1> HIDE DEF Paired
<1>3. << <<"load">>, <<"flag", "ENABLE", TRUE>> >> \o Telling = Loading
  <2>1. Paired(<<"load">>, <<"flag", "ENABLE", TRUE>>, Telling)
    BY <1>2, <1>14, OpsOfPlans, Zenon
  <2> QED
    BY <2>1, Zenon DEF Paired, Loading, Setting
<1>4. /\ Clearing(TRUE) = << <<"flag", "ENABLE", FALSE>> >> \o Loading
      /\ Clearing(FALSE) = << <<"flag", "ENABLE", FALSE>> >> \o Telling
  BY Zenon DEF Clearing
<1>10. << <<"load">>, <<"flag", "ENABLE", FALSE>> >> \o Loading = Fetching(TRUE)
  <2>1. Paired(<<"load">>, <<"flag", "ENABLE", FALSE>>, Loading)
    BY <1>2, <1>14, OpsOfPlans, Zenon
  <2> QED
    BY <1>4, <2>1, Zenon DEF Paired, Fetching
<1>11. << <<"load">>, <<"flag", "ENABLE", FALSE>> >> \o Telling = Fetching(FALSE)
  <2>1. Paired(<<"load">>, <<"flag", "ENABLE", FALSE>>, Telling)
    BY <1>2, <1>14, OpsOfPlans, Zenon
  <2> QED
    BY <1>4, <2>1, Zenon DEF Paired, Fetching
<1>12. << <<"noop", TRUE>>, <<"lock">> >> \o Fetching(TRUE) = Testing(TRUE)
  <2>1. Paired(<<"noop", TRUE>>, <<"lock">>, Fetching(TRUE))
    BY <1>2, <1>14, OpsOfPlans, Zenon
  <2> QED
    BY <2>1, Zenon DEF Paired, Testing, Locking
<1>13. << <<"noop", FALSE>>, <<"lock">> >> \o Fetching(FALSE) = Testing(FALSE)
  <2>1. Paired(<<"noop", FALSE>>, <<"lock">>, Fetching(FALSE))
    BY <1>2, <1>14, OpsOfPlans, Zenon
  <2> QED
    BY <2>1, Zenon DEF Paired, Testing, Locking
<1>5. /\ << <<"noop", TRUE>>, <<"lock">> >> \in Seq(Ops)
      /\ << <<"noop", FALSE>>, <<"lock">> >> \in Seq(Ops)
      /\ << <<"load">>, <<"flag", "ENABLE", TRUE>> >> \in Seq(Ops)
      /\ << <<"load">>, <<"flag", "ENABLE", FALSE>> >> \in Seq(Ops)
      /\ << <<"running">> >> \in Seq(Ops) /\ SendCsiCmd \in Seq(Ops)
      /\ << <<"unlock">> >> \in Seq(Ops) /\ << >> \in Seq(Ops)
  BY OpsOfPlans DEF SendCsiCmd
<1>6. << <<"running">> >> \o (SendCsiCmd \o << <<"unlock">> >>) = Telling
  BY <1>1, Zenon DEF Telling
<1>7. << >> \o Telling = Telling
  BY <1>2, ConcatEmptySeq
<1> DEFINE Whole(on, c) == ((((<< <<"noop", on>>, <<"lock">> >>
                               \o << <<"load">>, <<"flag", "ENABLE", FALSE>> >>) \o c)
                             \o << <<"running">> >>) \o SendCsiCmd) \o << <<"unlock">> >>
           Parts(on, c) == << <<"noop", on>>, <<"lock">> >>
                           \o (<< <<"load">>, <<"flag", "ENABLE", FALSE>> >>
                               \o (c \o (<< <<"running">> >>
                                         \o (SendCsiCmd \o << <<"unlock">> >>))))
<1>8. SetEnabled(TRUE) = Testing(TRUE)
  <2>1. SetEnabled(TRUE) = Whole(TRUE, << <<"load">>, <<"flag", "ENABLE", TRUE>> >>)
    BY Zenon DEF SetEnabled, ChangeFlag
  <2>2. Whole(TRUE, << <<"load">>, <<"flag", "ENABLE", TRUE>> >>)
        = Parts(TRUE, << <<"load">>, <<"flag", "ENABLE", TRUE>> >>)
    <3>1. Regroups(<< <<"noop", TRUE>>, <<"lock">> >>,
                   << <<"load">>, <<"flag", "ENABLE", FALSE>> >>,
                   << <<"load">>, <<"flag", "ENABLE", TRUE>> >>,
                   << <<"running">> >>, SendCsiCmd, << <<"unlock">> >>)
      BY <1>5, Regrouped, Zenon
    <3> QED
      BY <3>1, Zenon DEF Regroups
  <2>3. Parts(TRUE, << <<"load">>, <<"flag", "ENABLE", TRUE>> >>) = Testing(TRUE)
    BY <1>3, <1>6, <1>10, <1>12, Zenon
  <2> QED
    BY <2>1, <2>2, <2>3, Zenon
<1>9. SetEnabled(FALSE) = Testing(FALSE)
  <2>1. SetEnabled(FALSE) = Whole(FALSE, << >>)
    BY Zenon DEF SetEnabled, ChangeFlag
  <2>2. Whole(FALSE, << >>) = Parts(FALSE, << >>)
    <3>1. Regroups(<< <<"noop", FALSE>>, <<"lock">> >>,
                   << <<"load">>, <<"flag", "ENABLE", FALSE>> >>,
                   << >>, << <<"running">> >>, SendCsiCmd, << <<"unlock">> >>)
      BY <1>5, Regrouped, Zenon
    <3> QED
      BY <3>1, Zenon DEF Regroups
  <2>3. Parts(FALSE, << >>) = Testing(FALSE)
    BY <1>6, <1>7, <1>11, <1>13, Zenon
  <2> QED
    BY <2>1, <2>2, <2>3, Zenon
<1> QED
  BY <1>1, <1>8, <1>9

\* Plan c begins with an operation of kind k, q comes after it.
Goes(c, k, q) == c \in Seq(Ops) /\ c # << >> /\ Head(c)[1] = k /\ Tail(c) = q

\* The first operation of each place, which tells most places apart.
LEMMA Heads ==
    /\ Goes(Unlocking, "unlock", << >>) /\ Goes(Sending, "transmit", Unlocking)
    /\ Goes(Copying, "addrs", Sending) /\ Goes(Composing, "scalars", Copying)
    /\ Goes(Telling, "running", Composing) /\ Goes(Setting, "flag", Telling)
    /\ Goes(Loading, "load", Setting) /\ Goes(Clearing(TRUE), "flag", Loading)
    /\ Goes(Clearing(FALSE), "flag", Telling) /\ Goes(Fetching(TRUE), "load", Clearing(TRUE))
    /\ Goes(Fetching(FALSE), "load", Clearing(FALSE))
    /\ Goes(Locking(TRUE), "lock", Fetching(TRUE))
    /\ Goes(Locking(FALSE), "lock", Fetching(FALSE))
    /\ Goes(Testing(TRUE), "noop", Locking(TRUE))
    /\ Goes(Testing(FALSE), "noop", Locking(FALSE)) /\ Goes(Completing, "complete", << >>)
    /\ Goes(Waking, "lock", Completing) /\ Goes(Starting, "start", << >>)
<1>1. /\ <<"unlock">>[1] = "unlock" /\ <<"transmit">>[1] = "transmit" /\ <<"addrs">>[1] = "addrs"
      /\ <<"scalars">>[1] = "scalars" /\ <<"running">>[1] = "running" /\ <<"load">>[1] = "load"
      /\ <<"lock">>[1] = "lock" /\ <<"complete">>[1] = "complete" /\ <<"start">>[1] = "start"
      /\ <<"flag", "ENABLE", TRUE>>[1] = "flag" /\ <<"flag", "ENABLE", FALSE>>[1] = "flag"
      /\ <<"noop", TRUE>>[1] = "noop" /\ <<"noop", FALSE>>[1] = "noop"
  OBVIOUS
<1>2. ASSUME NEW c, NEW x, NEW q, Begins(c, x, q) PROVE Goes(c, x[1], q)
  BY <1>2, Zenon DEF Begins, Goes
<1>3. /\ Goes(Unlocking, <<"unlock">>[1], << >>)
      /\ Goes(Sending, <<"transmit">>[1], Unlocking)
      /\ Goes(Copying, <<"addrs">>[1], Sending)
  BY <1>2, PlanSteps, Zenon
<1>4. /\ Goes(Composing, <<"scalars">>[1], Copying)
      /\ Goes(Telling, <<"running">>[1], Composing)
      /\ Goes(Setting, <<"flag", "ENABLE", TRUE>>[1], Telling)
  BY <1>2, PlanSteps, Zenon
<1>5. /\ Goes(Loading, <<"load">>[1], Setting)
      /\ Goes(Clearing(TRUE), <<"flag", "ENABLE", FALSE>>[1], Loading)
      /\ Goes(Clearing(FALSE), <<"flag", "ENABLE", FALSE>>[1], Telling)
  BY <1>2, PlanSteps, Zenon
<1>6. /\ Goes(Fetching(TRUE), <<"load">>[1], Clearing(TRUE))
      /\ Goes(Fetching(FALSE), <<"load">>[1], Clearing(FALSE))
      /\ Goes(Locking(TRUE), <<"lock">>[1], Fetching(TRUE))
  BY <1>2, PlanSteps, Zenon
<1>7. /\ Goes(Locking(FALSE), <<"lock">>[1], Fetching(FALSE))
      /\ Goes(Testing(TRUE), <<"noop", TRUE>>[1], Locking(TRUE))
      /\ Goes(Testing(FALSE), <<"noop", FALSE>>[1], Locking(FALSE))
  BY <1>2, PlanSteps, Zenon
<1>8. /\ Goes(Completing, <<"complete">>[1], << >>)
      /\ Goes(Waking, <<"lock">>[1], Completing)
      /\ Goes(Starting, <<"start">>[1], << >>)
  BY <1>2, PlanSteps, Zenon
<1> QED
  BY <1>1, <1>3, <1>4, <1>5, <1>6, <1>7, <1>8, Zenon

\* How a plan of csi_enabled goes on, by its first operation.
Onward(c) ==
    /\ c \in Seq(Ops) /\ c # << >>
    /\ Head(c)[1] \in {"noop", "lock", "load", "flag", "running", "scalars", "addrs",
                        "transmit", "unlock"}
    /\ Head(c)[1] = "noop" => Tail(c) \in {Locking(TRUE), Locking(FALSE)}
    /\ Head(c)[1] = "lock" => Tail(c) \in {Fetching(TRUE), Fetching(FALSE)}
    /\ Head(c)[1] = "load" =>
           c \in Pending /\ Tail(c) \in {Setting, Clearing(TRUE), Clearing(FALSE)}
    /\ Head(c)[1] = "flag" =>
           c \in Pending /\ Tail(c) \in {Telling, Loading} /\ Head(c)[2] = "ENABLE"
    /\ Head(c)[1] = "running" => c \in Pending /\ Tail(c) = Composing
    /\ Head(c)[1] = "scalars" => c \in Pending /\ Tail(c) = Copying
    /\ Head(c)[1] = "addrs" => c \in Pending /\ Tail(c) = Sending
    /\ Head(c)[1] = "transmit" => c \in Pending /\ Tail(c) = Unlocking
    /\ Head(c)[1] = "unlock" => c = Unlocking /\ Tail(c) = << >>

\* Every place of a write of csi_enabled has its successor.
LEMMA Places ==
    ASSUME NEW c \in EnablePlan
    PROVE  Onward(c)
<1>1. CASE c \in {Sending, Copying, Composing, Telling, Unlocking}
  <2>1. CASE c = Sending
    <3>1. Goes(Sending, "transmit", Unlocking)
      BY Heads, Zenon
    <3> QED
      BY <2>1, <3>1 DEF Goes, Onward, Pending
  <2>2. CASE c = Copying
    <3>1. Goes(Copying, "addrs", Sending)
      BY Heads, Zenon
    <3> QED
      BY <2>2, <3>1 DEF Goes, Onward, Pending
  <2>3. CASE c = Composing
    <3>1. Goes(Composing, "scalars", Copying)
      BY Heads, Zenon
    <3> QED
      BY <2>3, <3>1 DEF Goes, Onward, Pending
  <2>4. CASE c = Telling
    <3>1. Goes(Telling, "running", Composing)
      BY Heads, Zenon
    <3> QED
      BY <2>4, <3>1 DEF Goes, Onward, Pending
  <2>5. CASE c = Unlocking
    <3>1. Goes(Unlocking, "unlock", << >>)
      BY Heads, Zenon
    <3> QED
      BY <2>5, <3>1 DEF Goes, Onward, Pending
  <2> QED
    BY <1>1, <2>1, <2>2, <2>3, <2>4, <2>5
<1>2. CASE c \in {Setting, Loading, Clearing(TRUE), Clearing(FALSE)}
  <2>1. /\ Head(Setting)[2] = "ENABLE" /\ Head(Clearing(TRUE))[2] = "ENABLE"
        /\ Head(Clearing(FALSE))[2] = "ENABLE"
    <3>1. /\ Head(Setting) = <<"flag", "ENABLE", TRUE>>
          /\ Head(Clearing(TRUE)) = <<"flag", "ENABLE", FALSE>>
          /\ Head(Clearing(FALSE)) = <<"flag", "ENABLE", FALSE>>
      BY PlanSteps, Zenon DEF Begins
    <3>2. /\ <<"flag", "ENABLE", TRUE>>[2] = "ENABLE"
          /\ <<"flag", "ENABLE", FALSE>>[2] = "ENABLE"
      OBVIOUS
    <3> QED
      BY <3>1, <3>2, Zenon
  <2>2. CASE c = Setting
    <3>1. Goes(Setting, "flag", Telling)
      BY Heads, Zenon
    <3> QED
      BY <2>1, <2>2, <3>1 DEF Goes, Onward, Pending
  <2>3. CASE c = Clearing(TRUE)
    <3>1. Goes(Clearing(TRUE), "flag", Loading)
      BY Heads, Zenon
    <3> QED
      BY <2>1, <2>3, <3>1 DEF Goes, Onward, Pending
  <2>4. CASE c = Clearing(FALSE)
    <3>1. Goes(Clearing(FALSE), "flag", Telling)
      BY Heads, Zenon
    <3> QED
      BY <2>1, <2>4, <3>1 DEF Goes, Onward, Pending
  <2>5. CASE c = Loading
    <3>1. Goes(Loading, "load", Setting)
      BY Heads, Zenon
    <3> QED
      BY <2>1, <2>5, <3>1 DEF Goes, Onward, Pending
  <2> QED
    BY <1>2, <2>2, <2>3, <2>4, <2>5
<1>3. CASE c \in {Fetching(TRUE), Fetching(FALSE), Locking(TRUE), Locking(FALSE)}
  BY <1>3, Heads DEF Goes, Onward, Pending
<1>4. CASE c \in {Testing(TRUE), Testing(FALSE)}
  BY <1>4, Heads DEF Goes, Onward, Pending
<1> QED
  BY <1>1, <1>2, <1>3, <1>4 DEF EnablePlan, Busy, Pending

\* The places of the restart work.
LEMMA RestartPlaces ==
    ASSUME NEW c \in RestartPlan
    PROVE  /\ c \in Seq(Ops)
           /\ c # << >> =>
                /\ Head(c)[1] \in {"start", "lock", "complete", "scalars", "addrs", "transmit",
                                    "unlock"}
                /\ Head(c)[1] = "start" => c = Starting
                /\ Head(c)[1] = "lock" => c = Waking /\ Tail(c) = Completing
                /\ Head(c)[1] = "complete" => c = Completing
                /\ Head(c)[1] = "scalars" => c = Composing /\ Tail(c) = Copying
                /\ Head(c)[1] = "addrs" => c = Copying /\ Tail(c) = Sending
                /\ Head(c)[1] = "transmit" => c = Sending /\ Tail(c) = Unlocking
                /\ Head(c)[1] = "unlock" => c = Unlocking /\ Tail(c) = << >>
<1>1. CASE c \in {Composing, Copying, Sending, Unlocking}
  BY <1>1, Heads DEF Goes
<1>2. CASE c \in {Starting, Waking, Completing}
  BY <1>2, Heads DEF Goes
<1>3. CASE c = << >>
  BY <1>3
<1> QED
  BY <1>1, <1>2, <1>3 DEF RestartPlan, Resending

\* What remains of a plain write is one, and its flag comes right after its load.
LEMMA PlainNext ==
    ASSUME NEW q \in Seq(Ops), Plain(q), q # << >>
    PROVE  /\ Plain(Tail(q)) /\ Head(q)[1] \in {"load", "flag", "value", "num", "addr"}
           /\ Head(q)[1] = "flag" => Head(q)[2] # "ENABLE"
           /\ Head(q)[1] # "load" /\ Tail(q) # << >> => Head(Tail(q))[1] # "flag"
<1> DEFINE r == Tail(q)
<1>1. /\ Len(q) \in Nat /\ Len(q) > 0 /\ Head(q) = q[1] /\ r \in Seq(Ops)
      /\ Len(r) = Len(q) - 1 /\ \A i \in 1 .. Len(r) : r[i] = q[i + 1]
  BY HeadTailProperties, EmptySeq
<1>2. 1 \in 1 .. Len(q)
  BY <1>1
<1>3. \A i \in 1 .. Len(r) : i + 1 \in 1 .. Len(q) /\ i + 1 > 1 /\ (i + 1) - 1 = i
  BY <1>1
<1> HIDE DEF r
<1>4. Plain(r)
  <2> SUFFICES ASSUME NEW k \in 1 .. Len(r)
               PROVE  /\ r[k][1] \in {"load", "flag", "value", "num", "addr"}
                      /\ r[k][1] = "flag" =>
                           r[k][2] # "ENABLE" /\ (k > 1 => r[k - 1][1] = "load")
    BY DEF Plain
  <2>1. r[k] = q[k + 1] /\ k + 1 \in 1 .. Len(q) /\ k + 1 > 1 /\ (k + 1) - 1 = k
    BY <1>1, <1>3
  <2>2. /\ q[k + 1][1] \in {"load", "flag", "value", "num", "addr"}
        /\ q[k + 1][1] = "flag" => q[k + 1][2] # "ENABLE" /\ q[k][1] = "load"
    BY <2>1 DEF Plain
  <2>3. k > 1 => k - 1 \in 1 .. Len(r) /\ r[k - 1] = q[k]
    <3>1. k > 1 => k - 1 \in 1 .. Len(r) /\ (k - 1) + 1 = k
      BY <1>1
    <3> QED
      BY <1>1, <3>1
  <2> QED
    BY <2>1, <2>2, <2>3
<1>5. /\ q[1][1] \in {"load", "flag", "value", "num", "addr"}
      /\ q[1][1] = "flag" => q[1][2] # "ENABLE"
  BY <1>2 DEF Plain
<1>6. ASSUME r # << >>, q[1][1] # "load" PROVE Head(r)[1] # "flag"
  <2>1. Len(r) > 0 /\ Head(r) = r[1]
    BY <1>1, <1>6, EmptySeq
  <2>2. 2 \in 1 .. Len(q) /\ r[1] = q[2] /\ 2 - 1 = 1 /\ 2 > 1
    <3>1. 1 \in 1 .. Len(r) /\ 1 + 1 = 2 /\ 2 \in 1 .. Len(q)
      BY <1>1, <2>1
    <3> QED
      BY <1>1, <3>1
  <2>3. q[2][1] = "flag" => q[1][1] = "load"
    BY <2>2 DEF Plain
  <2> QED
    BY <1>6, <2>1, <2>2, <2>3
<1> QED
  BY <1>1, <1>4, <1>5, <1>6 DEF r

\* A plain write is at no place of csi_enabled or of the restart work with the mutex.
LEMMA PlainOutside ==
    ASSUME NEW q, Plain(q)
    PROVE  q \notin EnablePlan /\ q \notin Inside
<1>1. ASSUME NEW x, NEW r, Begins(q, x, r) PROVE FALSE
  <2>1. q \in Seq(Ops) /\ q # << >> /\ q[Len(q)][1] \in Final
    BY <1>1 DEF Begins
  <2>2. Len(q) \in 1 .. Len(q)
    BY <2>1, EmptySeq, LenProperties
  <2> QED
    BY <2>1, <2>2 DEF Plain, Final
<1>2. /\ q # Unlocking /\ q # Sending /\ q # Copying /\ q # Composing /\ q # Telling
      /\ q # Setting /\ q # Loading /\ q # Clearing(TRUE) /\ q # Clearing(FALSE)
  BY <1>1, PlanSteps, Zenon
<1>3. /\ q # Fetching(TRUE) /\ q # Fetching(FALSE) /\ q # Locking(TRUE) /\ q # Locking(FALSE)
      /\ q # Testing(TRUE) /\ q # Testing(FALSE) /\ q # Completing
  BY <1>1, PlanSteps, Zenon
<1> QED
  BY <1>2, <1>3 DEF EnablePlan, Busy, Pending, Inside

\* A write begins with an operation other than the store of a flag.
Opening(q) == Head(q)[1] # "flag"

\* A write of a limit or of the frame types.
LEMMA LimitPlan ==
    ASSUME NEW s \in Settings, NEW v \in -1 .. MaxValue, s = "frame_types" => v >= 0
    PROVE  LET q == SetLimit(s, v) IN q \in Seq(Ops) /\ q # << >> /\ Plain(q) /\ Opening(q)
<1> DEFINE x == <<"value", s, IF IsOn(s, v) THEN v ELSE 0>>
           y == <<"load">>
           z == <<"flag", s, IsOn(s, v)>>
<1>1. MaxValue \in Nat /\ s # "ENABLE"
  BY ConfigAssumption
<1>2. IsOn(s, v) \in BOOLEAN
  <2>1. (v >= 0) \in BOOLEAN /\ (v > 0) \in BOOLEAN
    OBVIOUS
  <2> QED
    BY <2>1, Zenon DEF IsOn
<1>3. (IF IsOn(s, v) THEN v ELSE 0) \in 0 .. MaxValue
  BY <1>1 DEF IsOn
<1>4. x \in Ops /\ y \in Ops /\ z \in Ops
  <2>1. s \in Flags
    BY DEF Flags
  <2>2. x \in Ops
    BY <1>3 DEF Ops
  <2>3. z \in {"flag"} \X Flags \X BOOLEAN
    BY <1>2, <2>1
  <2> QED
    BY <2>2, <2>3, OpsOfPlans DEF Ops
<1>5. x[1] = "value" /\ y[1] = "load" /\ z[1] = "flag" /\ z[2] = s
  OBVIOUS
<1>6. /\ SetLimit(s, v) \in {<< x >>, << x >> \o << y, z >>, << y, z >> \o << x >>}
  BY DEF SetLimit, ChangeFlag
<1> HIDE DEF x, y, z
<1>7. ASSUME NEW q, q = << x >> PROVE q \in Seq(Ops) /\ q # << >> /\ Plain(q) /\ Opening(q)
  <2>1. q \in Seq(Ops) /\ q # << >> /\ Len(q) = 1 /\ q[1] = x /\ Head(q) = x
    BY <1>4, <1>7
  <2> QED
    BY <1>1, <1>5, <2>1 DEF Plain, Opening
<1> DEFINE h == << x >>
           g == << y, z >>
<1>8. /\ h \in Seq(Ops) /\ Len(h) = 1 /\ h[1] = x
      /\ g \in Seq(Ops) /\ Len(g) = 2 /\ g[1] = y /\ g[2] = z
  BY <1>4
<1>9. SetLimit(s, v) \in {<< x >>, h \o g, g \o h}
  BY <1>6
<1> HIDE DEF h, g
<1>10. ASSUME NEW q, q = h \o g PROVE q \in Seq(Ops) /\ q # << >> /\ Plain(q) /\ Opening(q)
  <2>1. /\ q \in Seq(Ops) /\ Len(q) = Len(h) + Len(g)
        /\ \A i \in 1 .. Len(h) + Len(g) : q[i] = IF i <= Len(h) THEN h[i] ELSE g[i - Len(h)]
    BY <1>8, <1>10, ConcatProperties
  <2>2. /\ Len(q) = 3 /\ q[1] = x /\ q[2] = y /\ q[3] = z /\ q # << >> /\ Head(q) = q[1]
    BY <1>8, <2>1
  <2>3. \A k \in 1 .. Len(q) : k = 1 \/ k = 2 \/ k = 3
    BY <2>2
  <2>4. Plain(q)
    BY <1>1, <1>5, <2>2, <2>3 DEF Plain
  <2> QED
    BY <1>5, <2>1, <2>2, <2>4 DEF Opening
<1>11. ASSUME NEW q, q = g \o h PROVE q \in Seq(Ops) /\ q # << >> /\ Plain(q) /\ Opening(q)
  <2>1. /\ q \in Seq(Ops) /\ Len(q) = Len(g) + Len(h)
        /\ \A i \in 1 .. Len(g) + Len(h) : q[i] = IF i <= Len(g) THEN g[i] ELSE h[i - Len(g)]
    BY <1>8, <1>11, ConcatProperties
  <2>2. /\ Len(q) = 3 /\ q[1] = y /\ q[2] = z /\ q[3] = x /\ q # << >> /\ Head(q) = q[1]
    <3>1. /\ Len(q) = 3 /\ Len(g) + Len(h) = 3 /\ 3 - Len(g) = 1
          /\ 1 <= Len(g) /\ 2 <= Len(g) /\ ~(3 <= Len(g))
      BY <1>8, <2>1
    <3>2. q[1] = g[1] /\ q[2] = g[2] /\ q[3] = h[1]
      BY <2>1, <3>1
    <3> QED
      BY <1>8, <2>1, <3>1, <3>2
  <2>3. \A k \in 1 .. Len(q) : k = 1 \/ k = 2 \/ k = 3
    BY <2>2
  <2>4. Plain(q)
    BY <1>1, <1>5, <2>2, <2>3 DEF Plain
  <2> QED
    BY <1>5, <2>1, <2>2, <2>4 DEF Opening
<1> QED
  BY <1>7, <1>9, <1>10, <1>11

\* A write of addresses.
LEMMA AddressPlan ==
    ASSUME NEW n \in 0 .. MaxAddrs, NEW as \in [1 .. n -> Addrs]
    PROVE  LET q == SetAddresses(as) IN q \in Seq(Ops) /\ q # << >> /\ Plain(q) /\ Opening(q)
<1> DEFINE h == << <<"num", n>> >>
           t == [i \in 1 .. n |-> <<"addr", i, as[i]>>]
           q == SetAddresses(as)
<1>1. MaxAddrs \in Nat /\ n \in Nat
  BY ConfigAssumption
<1>2. Len(as) = n
  BY <1>1
<1>3. q = h \o t
  BY <1>2 DEF SetAddresses
<1>4. h \in Seq(Ops) /\ Len(h) = 1 /\ h[1] = <<"num", n>>
  BY DEF Ops
<1>5. t \in Seq(Ops) /\ Len(t) = n /\ \A i \in 1 .. n : t[i] = <<"addr", i, as[i]>>
  <2>1. ASSUME NEW i \in 1 .. n PROVE <<"addr", i, as[i]>> \in Ops
    <3>1. as[i] \in Addrs
      OBVIOUS
    <3>3. i \in 1 .. MaxAddrs
      BY <1>1
    <3>2. <<"addr", i, as[i]>> \in {"addr"} \X (1 .. MaxAddrs) \X Addrs
      BY <3>1, <3>3
    <3> QED
      BY <3>2 DEF Ops
  <2>2. t \in [1 .. n -> Ops]
    BY <2>1
  <2>3. \A f \in [1 .. n -> Ops] : f \in Seq(Ops) /\ Len(f) = n
    BY <1>1
  <2> QED
    BY <2>2, <2>3
<1> HIDE DEF h, t, q
<1>6. /\ q \in Seq(Ops) /\ Len(q) = Len(h) + Len(t)
      /\ \A i \in 1 .. Len(h) + Len(t) : q[i] = IF i <= Len(h) THEN h[i] ELSE t[i - Len(h)]
  BY <1>3, <1>4, <1>5, ConcatProperties
<1>7. Len(q) = n + 1 /\ q # << >> /\ q[1] = <<"num", n>> /\ Head(q) = q[1]
  BY <1>1, <1>4, <1>5, <1>6
<1>8. \A k \in 2 .. n + 1 : q[k] = <<"addr", k - 1, as[k - 1]>>
  <2>1. \A k \in 2 .. n + 1 : /\ k \in 1 .. Len(h) + Len(t) /\ ~(k <= Len(h))
                               /\ k - Len(h) = k - 1 /\ k - 1 \in 1 .. n
    BY <1>1, <1>4, <1>5
  <2> QED
    BY <1>5, <1>6, <2>1
<1>9. ASSUME NEW k \in 1 .. Len(q) PROVE q[k][1] \in {"num", "addr"}
  <2>1. k = 1 \/ k \in 2 .. n + 1
    BY <1>1, <1>7
  <2>2. \A a, b : <<"addr", a, b>>[1] = "addr" /\ <<"num", a>>[1] = "num"
    OBVIOUS
  <2>3. CASE k = 1
    BY <1>7, <2>2, <2>3
  <2>4. CASE k \in 2 .. n + 1
    <3>1. q[k] = <<"addr", k - 1, as[k - 1]>>
      BY <1>8, <2>4
    <3>2. <<"addr", k - 1, as[k - 1]>>[1] = "addr"
      BY <2>2, Zenon
    <3> QED
      BY <3>1, <3>2, Zenon
  <2> QED
    BY <2>1, <2>3, <2>4
<1>10. Plain(q)
  BY <1>9 DEF Plain
<1>11. Opening(q)
  BY <1>7 DEF Opening
<1> QED
  BY <1>6, <1>7, <1>10, <1>11 DEF q

-----------------------------------------------------------------------------
(* The invariant, for any number of writers.                               *)

\* A command that is being built.
Partial == [flags : SUBSET Flags, value : [Settings -> 0 .. MaxValue], num : 0 .. MaxAddrs,
            addrs : Seq(Addrs \cup {NoAddr})]

\* Where a thread is in iwl_mvm_nic_restart.
NicPlaces == {"idle", "running", "starting", "inRestart", "requested", "set", "ask"}

\* The types the steps rely on.
Types ==
    /\ flags \in SUBSET Flags /\ value \in [Settings -> 0 .. MaxValue]
    /\ num \in 0 .. MaxAddrs /\ addrs \in [1 .. MaxAddrs -> Addrs \cup {NoAddr}]
    /\ todo \in [Procs -> Seq(Ops)] /\ reg \in [Procs -> SUBSET Flags]
    /\ pkt \in [Procs -> Partial] /\ nic \in [Threads -> NicPlaces]

\* A writer is somewhere in a write of csi_enabled or of another file.
PlanOf(c) == c \in EnablePlan \/ Plain(c)
Plans == \A w \in Writers : PlanOf(todo[w])

\* Who is between lock and unlock has the mutex.
Mutex == \A p \in Procs : todo[p] \in Inside => mutex = p

\* Where the restart work and the start of the device are.
Restarts ==
    /\ todo[Restarter] \in RestartPlan
    /\ rtnl = "restart" <=> todo[Restarter] # << >>
    /\ rtnl = "restart" => open
    /\ rtnl \in {"open", "stop"} => ~open
    /\ rtnl = "open" => boot # "idle"
    /\ boot # "idle" => rtnl = "open" \/ todo[Restarter] = Starting
    /\ boot # "idle" => mutex \in {Opener, Restarter}

\* Firmware that is alive has no error thread, and has its bit until the interface goes
\* down.
Alive == fw = "alive" => nic[Irq] = "idle" /\ (running \/ rtnl = "stop")

\* The device is going to be started before anybody uses it: a start converts a request.
BeforeStart == boot = "convert" \/ (boot = "idle" /\ (~open \/ todo[Restarter] = Starting))

\* Somebody will restart the device, or iwl_mvm_nic_restart has given up; a thread of it
\* is about to do one of the two.
Answered == queued \/ reprobe \/ gaveUp
Asking == \E p \in Threads : nic[p] = "ask"

\* A restart that is requested has somebody who answers the request.
Requests == requested => Answered \/ Asking \/ BeforeStart

\* So has firmware that has failed, and it has its bit.
Failures ==
    fw = "dead" => /\ Answered \/ Asking \/ nic[Irq] # "idle" \/ BeforeStart
                   /\ running \/ BeforeStart

IInv == Types /\ Plans /\ Mutex /\ Restarts /\ Alive /\ Requests /\ Failures

\* The processes.
LEMMA ProcFacts ==
    /\ Restarter \in Procs /\ Restarter \notin Writers /\ Nobody \notin Procs
    /\ Opener \notin Procs /\ Opener # Nobody /\ Irq \notin Procs /\ Irq \in Threads
    /\ \A p \in Procs : p \in Threads
    /\ \A w \in Writers : w \in Procs /\ w # Restarter
    /\ \A p \in Procs : p \in Writers \/ p = Restarter
BY ConfigAssumption DEF Procs, Threads

\* The operation a process is at.
LEMMA ActingOps ==
    ASSUME Types, NEW p \in Procs, NEW k, Does(p, k)
    PROVE  /\ todo[p] \in Seq(Ops) /\ todo[p] # << >> /\ Head(todo[p]) \in Ops
           /\ Tail(todo[p]) \in Seq(Ops) /\ Head(todo[p])[1] = k
<1>1. todo[p] \in Seq(Ops) /\ todo[p] # << >> /\ Head(todo[p])[1] = k
  BY DEF Types, Does
<1> QED
  BY <1>1, HeadTailProperties

\* What an access leaves alone: the other threads, and all but csi_cfg, the mutex, the
\* lock of the restart work and the command.
Aside(p) ==
    /\ \A q \in Procs : q # p => todo'[q] = todo[q] /\ reg'[q] = reg[q] /\ pkt'[q] = pkt[q]
    /\ nic[p] = "idle" /\ nic'[p] # "ask" /\ \A q \in Threads : q # p => nic'[q] = nic[q]
    /\ UNCHANGED <<gaveUp, boot, statusVars, fw, open, queued, reprobe, dirty>>
    /\ rtnl' = IF p = Restarter /\ Does(p, "unlock") THEN "free" ELSE rtnl

\* An access keeps the types.
LEMMA AccessTypes ==
    ASSUME Types, NEW p \in Procs, Access(p)
    PROVE  Types' /\ Aside(p)
<1> USE DEF Aside, Does, nicVars, statusVars, fwVars, ifVars, histVars, cfgVars
<1>13. nic[p] = "idle"
  BY DEF Access
<1>1. CASE Load(p)
  <2>1. Does(p, "load")
    BY <1>1 DEF Load
  <2> QED
    BY <1>1, <1>13, <2>1, ActingOps DEF Load, Done, Types
<1>2. CASE StoreFlag(p)
  <2>1. Does(p, "flag")
    BY <1>2 DEF StoreFlag
  <2>2. Head(todo[p])[2] \in Flags
    BY <2>1, ActingOps, OpKinds
  <2>3. flags' \in SUBSET Flags
    <3>1. reg[p] \in SUBSET Flags
      BY DEF Types
    <3> QED
      BY <1>2, <2>2, <3>1 DEF StoreFlag
  <2> QED
    BY <1>2, <1>13, <2>1, <2>3, ActingOps DEF StoreFlag, Done, Types
<1>3. CASE StoreValue(p)
  <2>1. Does(p, "value")
    BY <1>3 DEF StoreValue
  <2>2. Head(todo[p])[2] \in Settings /\ Head(todo[p])[3] \in 0 .. MaxValue
    BY <2>1, ActingOps, OpKinds
  <2> QED
    BY <1>3, <1>13, <2>1, <2>2, ActingOps DEF StoreValue, Done, Types
<1>4. CASE StoreNum(p)
  <2>1. Does(p, "num")
    BY <1>4 DEF StoreNum
  <2>2. Head(todo[p])[2] \in 0 .. MaxAddrs
    BY <2>1, ActingOps, OpKinds
  <2> QED
    BY <1>4, <1>13, <2>1, <2>2, ActingOps DEF StoreNum, Done, Types
<1>5. CASE StoreAddr(p)
  <2>1. Does(p, "addr")
    BY <1>5 DEF StoreAddr
  <2>2. Head(todo[p])[2] \in 1 .. MaxAddrs /\ Head(todo[p])[3] \in Addrs
    BY <2>1, ActingOps, OpKinds
  <2> QED
    BY <1>5, <1>13, <2>1, <2>2, ActingOps DEF StoreAddr, Done, Types
<1>6. CASE TestNoop(p)
  <2>1. Does(p, "noop") /\ << >> \in Seq(Ops)
    BY <1>6 DEF TestNoop
  <2>2. PICK c \in Seq(Ops) : todo' = [todo EXCEPT ![p] = c]
    BY <1>6, <2>1, ActingOps DEF TestNoop, Done
  <2> QED
    BY <1>6, <1>13, <2>2 DEF TestNoop, Types
<1>7. CASE Lock(p)
  <2>1. Does(p, "lock")
    BY <1>7 DEF Lock
  <2> QED
    BY <1>7, <1>13, <2>1, ActingOps DEF Lock, Done, Types
<1>8. CASE Unlock(p)
  <2>1. Does(p, "unlock")
    BY <1>8 DEF Unlock
  <2> QED
    BY <1>8, <1>13, <2>1, ActingOps DEF Unlock, Done, Types
<1>9. CASE TestRunning(p)
  <2>1. Does(p, "running") /\ << <<"unlock">> >> \in Seq(Ops)
    BY <1>9, OpsOfPlans DEF TestRunning
  <2>2. PICK c \in Seq(Ops) : todo' = [todo EXCEPT ![p] = c]
    BY <1>9, <2>1, ActingOps DEF TestRunning, Done, Skip
  <2> QED
    BY <1>9, <1>13, <2>2 DEF TestRunning, Types
<1>10. CASE BuildScalars(p)
  <2>1. Does(p, "scalars")
    BY <1>10 DEF BuildScalars
  <2>2. [flags |-> flags, value |-> value, num |-> num, addrs |-> << >>] \in Partial
    BY DEF Types, Partial
  <2> QED
    BY <1>10, <1>13, <2>1, <2>2, ActingOps DEF BuildScalars, Done, Types
<1>11. CASE BuildAddrs(p)
  <2>1. Does(p, "addrs") /\ pkt[p] \in Partial
    BY <1>11 DEF BuildAddrs, Types
  <2>2. CASE Len(pkt[p].addrs) < num
    <3> DEFINE c == pkt[p]
               n == Len(c.addrs)
               d == [c EXCEPT !.addrs = Append(c.addrs, addrs[n + 1])]
    <3>1. c.addrs \in Seq(Addrs \cup {NoAddr}) /\ n \in Nat /\ MaxAddrs \in Nat
      BY <2>1, ConfigAssumption DEF Partial
    <3>2. n + 1 \in 1 .. MaxAddrs
      BY <2>2, <3>1 DEF Types
    <3>3. addrs[n + 1] \in Addrs \cup {NoAddr}
      BY <3>2 DEF Types
    <3>4. Append(c.addrs, addrs[n + 1]) \in Seq(Addrs \cup {NoAddr})
      BY <3>1, <3>3, AppendProperties
    <3>5. d \in Partial
      BY <2>1, <3>4 DEF Partial
    <3>6. pkt' = [pkt EXCEPT ![p] = d] /\ todo' = todo
      BY <1>11, <2>2 DEF BuildAddrs
    <3> HIDE DEF d
    <3> QED
      BY <1>11, <1>13, <3>5, <3>6 DEF BuildAddrs, Types
  <2>3. CASE ~(Len(pkt[p].addrs) < num)
    <3>1. todo' = [todo EXCEPT ![p] = Tail(todo[p])] /\ pkt' = pkt
      BY <1>11, <2>3 DEF BuildAddrs, Done
    <3>2. Tail(todo[p]) \in Seq(Ops)
      BY <2>1, ActingOps
    <3> QED
      BY <1>11, <1>13, <3>1, <3>2 DEF BuildAddrs, Types
  <2> QED
    BY <2>2, <2>3
<1>12. CASE Transmit(p)
  <2>1. Does(p, "transmit")
    BY <1>12 DEF Transmit
  <2>2. NoCmd \in Partial
    BY ConfigAssumption DEF NoCmd, Partial
  <2>3. nic' = nic \/ nic' = [nic EXCEPT ![p] = "starting"]
    BY <1>12 DEF Transmit
  <2>4. nic' \in [Threads -> NicPlaces] /\ nic'[p] # "ask" /\ \A q \in Threads : q # p => nic'[q] = nic[q]
    BY <1>13, <2>3, ProcFacts DEF Types, NicPlaces
  <2> QED
    BY <1>12, <1>13, <2>1, <2>2, <2>4, ActingOps DEF Transmit, Done, Types
<1> QED
  BY <1>1, <1>2, <1>3, <1>4, <1>5, <1>6, <1>7, <1>8, <1>9, <1>10, <1>11, <1>12 DEF Access

\* How an access of p moves it on in its plan, and what it does to the mutex.
Advances(p) ==
    /\ todo[p] # << >>
    /\ \/ /\ \E k \in {"load", "flag", "value", "num", "addr", "scalars", "transmit"} : Does(p, k)
          /\ todo'[p] = Tail(todo[p]) /\ mutex' = mutex
       \/ Does(p, "noop") /\ todo'[p] \in {Tail(todo[p]), << >>} /\ mutex' = mutex
       \/ Does(p, "running") /\ todo'[p] \in {Tail(todo[p]), Unlocking} /\ mutex' = mutex
       \/ Does(p, "addrs") /\ todo'[p] \in {Tail(todo[p]), todo[p]} /\ mutex' = mutex
       \/ Does(p, "lock") /\ todo'[p] = Tail(todo[p]) /\ mutex = Nobody /\ mutex' = p
       \/ Does(p, "unlock") /\ todo'[p] = Tail(todo[p]) /\ mutex' = Nobody

\* Every access does so.
LEMMA Advancing ==
    ASSUME Types, NEW p \in Procs, Access(p)
    PROVE  Advances(p)
<1>1. p \in DOMAIN todo
  BY DEF Types
<1>2. Done(p) => todo'[p] = Tail(todo[p])
  BY <1>1 DEF Done
<1>3. CASE Load(p) \/ StoreFlag(p) \/ StoreValue(p) \/ StoreNum(p) \/ StoreAddr(p)
           \/ BuildScalars(p) \/ Transmit(p)
  <2>1. /\ \E k \in {"load", "flag", "value", "num", "addr", "scalars", "transmit"} : Does(p, k)
        /\ Done(p) /\ mutex' = mutex
    BY <1>3 DEF Load, StoreFlag, StoreValue, StoreNum, StoreAddr, BuildScalars, Transmit
  <2>2. todo[p] # << >>
    BY <2>1 DEF Does
  <2> QED
    BY <1>2, <2>1, <2>2, Zenon DEF Advances
<1>4. CASE TestNoop(p)
  <2>1. Does(p, "noop") /\ mutex' = mutex /\ (Done(p) \/ todo' = [todo EXCEPT ![p] = << >>])
    BY <1>4 DEF TestNoop
  <2>2. todo'[p] \in {Tail(todo[p]), << >>} /\ todo[p] # << >>
    BY <1>1, <1>2, <2>1 DEF Does
  <2> QED
    BY <2>1, <2>2, Zenon DEF Advances
<1>5. CASE TestRunning(p)
  <2>1. Does(p, "running") /\ mutex' = mutex /\ (Done(p) \/ Skip(p))
    BY <1>5 DEF TestRunning
  <2>2. todo'[p] \in {Tail(todo[p]), Unlocking} /\ todo[p] # << >>
    BY <1>1, <1>2, <2>1, PlansAsWritten DEF Does, Skip
  <2> QED
    BY <2>1, <2>2, Zenon DEF Advances
<1>6. CASE BuildAddrs(p)
  <2>1. Does(p, "addrs") /\ mutex' = mutex /\ (Done(p) \/ todo' = todo)
    BY <1>6 DEF BuildAddrs
  <2>2. todo'[p] \in {Tail(todo[p]), todo[p]} /\ todo[p] # << >>
    BY <1>1, <1>2, <2>1 DEF Does
  <2> QED
    BY <2>1, <2>2, Zenon DEF Advances
<1>7. CASE Lock(p) \/ Unlock(p)
  <2>1. CASE Lock(p)
    <3>1. Does(p, "lock") /\ mutex = Nobody /\ mutex' = p /\ Done(p)
      BY <2>1 DEF Lock
    <3> QED
      BY <1>2, <3>1, Zenon DEF Advances, Does
  <2>2. CASE Unlock(p)
    <3>1. Does(p, "unlock") /\ mutex' = Nobody /\ Done(p)
      BY <2>2 DEF Unlock
    <3> QED
      BY <1>2, <3>1, Zenon DEF Advances, Does
  <2> QED
    BY <1>7, <2>1, <2>2
<1> QED
  BY <1>3, <1>4, <1>5, <1>6, <1>7 DEF Access

\* A writer stays in a plan, and takes and gives back the mutex where it says so.
LEMMA WriterAdvances ==
    ASSUME Types, Plans, NEW w \in Writers, Advances(w), todo[w] \in Inside => mutex = w
    PROVE  /\ PlanOf(todo'[w]) /\ (todo'[w] \in Inside => mutex' = w)
           /\ \/ mutex' = mutex
              \/ mutex = Nobody /\ mutex' = w
              \/ mutex = w /\ mutex' = Nobody
<1> DEFINE c == todo[w]
           d == todo'[w]
<1>1. c \in Seq(Ops) /\ c # << >> /\ PlanOf(c)
  BY ProcFacts DEF Types, Plans, Advances
<1>2. CASE Plain(c)
  <2>1. Plain(Tail(c)) /\ Head(c)[1] \in {"load", "flag", "value", "num", "addr"}
    BY <1>1, <1>2, PlainNext
  <2>2. d = Tail(c) /\ mutex' = mutex
    BY <2>1 DEF Advances, Does
  <2> QED
    BY <2>1, <2>2, PlainOutside DEF PlanOf
<1>3. CASE c \in EnablePlan
  <2>1. Onward(c)
    BY <1>3, Places
  <2>2. << >> \notin Inside /\ Plain(<< >>)
    <3>1. Plain(<< >>)
      BY DEF Plain
    <3> QED
      BY <3>1, PlainOutside
  <2>3. /\ Locking(TRUE) \notin Inside /\ Locking(FALSE) \notin Inside
    BY Heads DEF Goes, Inside, Pending
  <2>4. c \in Pending => c \in Inside
    BY DEF Inside
  <2>5. CASE Does(w, "noop")
    BY <2>1, <2>2, <2>3, <2>5 DEF Advances, Does, Onward, PlanOf, EnablePlan, Busy
  <2>6. CASE Does(w, "lock")
    BY <2>1, <2>6 DEF Advances, Does, Onward, PlanOf, EnablePlan, Busy, Pending, Inside
  <2>7. CASE Does(w, "unlock")
    BY <2>1, <2>2, <2>7 DEF Advances, Does, Onward, PlanOf, Inside
  <2>8. CASE Does(w, "running") \/ Does(w, "addrs")
    BY <1>3, <2>1, <2>4, <2>8 DEF Advances, Does, Onward, PlanOf, EnablePlan, Busy, Pending, Inside
  <2>9. CASE Does(w, "load") \/ Does(w, "flag") \/ Does(w, "scalars") \/ Does(w, "transmit")
    BY <2>1, <2>4, <2>9 DEF Advances, Does, Onward, PlanOf, EnablePlan, Busy, Pending, Inside
  <2> QED
    BY <1>1, <2>1, <2>5, <2>6, <2>7, <2>8, <2>9 DEF Onward, Does
<1> QED
  BY <1>1, <1>2, <1>3 DEF PlanOf

\* The same of the restart work, which ends when it gives the mutex back.
LEMMA RestarterAdvances ==
    ASSUME Types, NEW p, p = Restarter, todo[p] \in RestartPlan, Advances(p),
           todo[p] \in Inside => mutex = p
    PROVE  /\ todo'[p] \in RestartPlan /\ (todo'[p] \in Inside => mutex' = p)
           /\ todo'[p] = << >> <=> Does(p, "unlock")
           /\ \/ mutex' = mutex
              \/ mutex = Nobody /\ mutex' = p
              \/ mutex = p /\ mutex' = Nobody
<1> DEFINE c == todo[p]
           d == todo'[p]
<1>1. c \in RestartPlan /\ c # << >>
  BY DEF Advances
<1>2. /\ Composing \in Inside /\ Copying \in Inside /\ Sending \in Inside
      /\ Unlocking \in Inside /\ Completing \in Inside
  BY DEF Inside, Pending
<1>3. /\ Composing \in RestartPlan /\ Copying \in RestartPlan /\ Sending \in RestartPlan
      /\ Unlocking \in RestartPlan /\ Completing \in RestartPlan /\ << >> \in RestartPlan
  BY DEF RestartPlan, Resending
<1>4. << >> \notin Inside
  <2>1. Plain(<< >>)
    BY DEF Plain
  <2> QED
    BY <2>1, PlainOutside
<1>5. /\ Composing # << >> /\ Copying # << >> /\ Sending # << >> /\ Unlocking # << >>
      /\ Completing # << >> /\ Waking # << >>
  BY Heads, Zenon DEF Goes
<1>6. /\ Head(Waking)[1] = "lock" /\ Head(Completing)[1] = "complete"
  BY Heads, Zenon DEF Goes
<1>7. CASE Does(p, "lock")
  <2>1. c = Waking /\ Tail(c) = Completing /\ Head(c)[1] = "lock"
    BY <1>1, <1>7, RestartPlaces DEF Does
  <2>2. d = Completing /\ mutex = Nobody /\ mutex' = p
    BY <1>7, <2>1 DEF Advances, Does
  <2> QED
    BY <1>3, <1>5, <2>1, <2>2 DEF Does
<1>8. CASE Does(p, "unlock")
  BY <1>1, <1>2, <1>3, <1>4, <1>6, <1>8, RestartPlaces DEF Advances, Does
<1>9. CASE Does(p, "scalars")
  BY <1>1, <1>2, <1>3, <1>5, <1>6, <1>9, RestartPlaces DEF Advances, Does
<1>10. CASE Does(p, "addrs")
  BY <1>1, <1>2, <1>3, <1>5, <1>6, <1>10, RestartPlaces DEF Advances, Does
<1>11. CASE Does(p, "transmit")
  BY <1>1, <1>2, <1>3, <1>5, <1>6, <1>11, RestartPlaces DEF Advances, Does
<1> QED
  <2>1. /\ Head(c)[1] \in {"start", "lock", "complete", "scalars", "addrs", "transmit", "unlock"}
    BY <1>1, RestartPlaces
  <2>2. Does(p, "lock") \/ Does(p, "unlock") \/ Does(p, "scalars") \/ Does(p, "addrs")
        \/ Does(p, "transmit")
    BY <2>1 DEF Advances, Does
  <2> QED
    BY <1>7, <1>8, <1>9, <1>10, <1>11, <2>2

\* An access keeps the invariant.
LEMMA AccessKeeps ==
    ASSUME IInv, NEW p \in Procs, Access(p)
    PROVE  IInv'
<1>1. Types /\ Plans /\ Mutex /\ Restarts /\ Alive /\ Requests /\ Failures
  BY DEF IInv
<1>2. Types' /\ Aside(p) /\ Advances(p)
  BY <1>1, AccessTypes, Advancing
<1>3. /\ (todo'[p] \in Inside => mutex' = p) /\ (p \in Writers => PlanOf(todo'[p]))
      /\ \/ mutex' = mutex
         \/ mutex = Nobody /\ mutex' = p
         \/ mutex = p /\ mutex' = Nobody
  <2>1. todo[p] \in Inside => mutex = p
    BY <1>1 DEF Mutex
  <2>2. CASE p \in Writers
    BY <1>1, <1>2, <2>1, <2>2, WriterAdvances
  <2>3. CASE p = Restarter
    BY <1>1, <1>2, <2>1, <2>3, RestarterAdvances, ProcFacts DEF Restarts
  <2> QED
    BY <2>2, <2>3, ProcFacts
<1>4. Plans'
  BY <1>1, <1>2, <1>3, ProcFacts DEF Plans, Aside
<1>5. Mutex'
  <2> SUFFICES ASSUME NEW q \in Procs, todo'[q] \in Inside PROVE mutex' = q
    BY DEF Mutex
  <2>1. CASE q = p
    BY <1>3, <2>1
  <2>2. CASE q # p
    <3>1. mutex = q
      BY <1>1, <1>2, <2>2 DEF Mutex, Aside
    <3> QED
      BY <1>3, <2>2, <3>1, ProcFacts
  <2> QED
    BY <2>1, <2>2
<1>8. p = Restarter => todo[p] # Starting
  <2>1. Head(Starting)[1] = "start"
    BY Heads DEF Goes
  <2> QED
    BY <1>2, <2>1 DEF Advances, Does
<1>6. Restarts'
  <2>1. boot' = boot /\ open' = open
    BY <1>2 DEF Aside
  <2>2. CASE p = Restarter
    <3>1. /\ todo'[p] \in RestartPlan
          /\ todo'[p] = << >> <=> Does(p, "unlock")
      BY <1>1, <1>2, <2>2, RestarterAdvances DEF Restarts, Mutex
    <3>2. rtnl = "restart" /\ boot = "idle"
      BY <1>1, <1>2, <1>8, <2>2 DEF Restarts, Advances
    <3>3. rtnl' = IF Does(p, "unlock") THEN "free" ELSE rtnl
      BY <1>2, <2>2 DEF Aside
    <3> QED
      BY <1>1, <2>1, <2>2, <3>1, <3>2, <3>3 DEF Restarts
  <2>3. CASE p # Restarter
    <3>1. rtnl' = rtnl /\ todo'[Restarter] = todo[Restarter]
      BY <1>2, <2>3, ProcFacts DEF Aside
    <3>2. boot # "idle" => mutex' = mutex
      BY <1>1, <1>3, <2>3, ProcFacts DEF Restarts
    <3> QED
      BY <1>1, <2>1, <3>1, <3>2 DEF Restarts
  <2> QED
    BY <2>2, <2>3
<1>7. Alive'
  <2>1. running' = running /\ fw' = fw /\ nic'[Irq] = nic[Irq]
    BY <1>2, ProcFacts DEF Aside, statusVars
  <2>2. rtnl = "stop" => rtnl' = "stop"
    <3>1. p = Restarter => rtnl = "restart"
      BY <1>1, <1>2 DEF Restarts, Advances
    <3> QED
      BY <1>2, <3>1 DEF Aside
  <2> QED
    BY <1>1, <2>1, <2>2 DEF Alive
<1>9. Requests' /\ Failures'
  <2>1. UNCHANGED <<gaveUp, queued, reprobe, requested, running, fw, boot, open>>
    BY <1>2 DEF Aside, statusVars
  <2>2. Answered' = Answered
    BY <2>1 DEF Answered
  <2>3. Asking => Asking'
    BY <1>2 DEF Asking, Aside
  <2>4. nic'[Irq] = nic[Irq]
    BY <1>2, ProcFacts DEF Aside
  <2>5. todo[Restarter] = Starting => todo'[Restarter] = Starting
    BY <1>2, <1>8, ProcFacts DEF Aside
  <2>6. BeforeStart => BeforeStart'
    BY <2>1, <2>5 DEF BeforeStart
  <2> QED
    BY <1>1, <2>1, <2>2, <2>3, <2>4, <2>6 DEF Requests, Failures
<1> QED
  BY <1>2, <1>4, <1>5, <1>6, <1>7, <1>9 DEF IInv

\* A write begins with plan q.
LEMMA CallKeeps ==
    ASSUME IInv, NEW w \in Writers, NEW q \in Seq(Ops), PlanOf(q), q \notin Inside, Call(w, q)
    PROVE  IInv' /\ todo'[w] = q /\ \A p \in Procs : p # w => todo'[p] = todo[p]
<1> USE DEF nicVars, statusVars, fwVars, ifVars, cfgVars
<1>1. Types /\ Plans /\ Mutex /\ Restarts /\ Alive /\ Requests /\ Failures
      /\ w \in Procs /\ w # Restarter
  BY ProcFacts DEF IInv
<1>2. todo'[w] = q /\ \A p \in Procs : p # w => todo'[p] = todo[p]
  BY <1>1 DEF Call, Types
<1>3. Types'
  BY <1>1 DEF Call, Types
<1>4. Plans'
  BY <1>1, <1>2, ProcFacts DEF Plans
<1>5. Mutex'
  BY <1>1, <1>2 DEF Mutex, Call
<1>6. todo'[Restarter] = todo[Restarter]
  BY <1>1, <1>2, ProcFacts
<1>7. Restarts' /\ Alive'
  BY <1>1, <1>6 DEF Restarts, Alive, Call
<1>8. Requests' /\ Failures'
  BY <1>1, <1>6 DEF Requests, Failures, Answered, Asking, BeforeStart, Call
<1> QED
  BY <1>2, <1>3, <1>4, <1>5, <1>7, <1>8 DEF IInv

\* The plans that writes begin with.
LEMMA FirstPlans ==
    ASSUME NEW w \in Writers
    PROVE  /\ WriteLimit(w) =>
                \E q \in Seq(Ops) :
                    Call(w, q) /\ q # << >> /\ Plain(q) /\ Opening(q) /\ dirty' = TRUE
           /\ WriteAddresses(w) =>
                \E q \in Seq(Ops) :
                    Call(w, q) /\ q # << >> /\ Plain(q) /\ Opening(q) /\ dirty' = TRUE
           /\ WriteEnabled(w) =>
                \E q \in {Testing(TRUE), Testing(FALSE)} : Call(w, q) /\ dirty' = FALSE
<1>1. ASSUME WriteLimit(w)
      PROVE  \E q \in Seq(Ops) : Call(w, q) /\ q # << >> /\ Plain(q) /\ Opening(q) /\ dirty' = TRUE
  <2>1. PICK s \in Settings, v \in -1 .. MaxValue :
            (s = "frame_types" => v >= 0) /\ Call(w, SetLimit(s, v))
    BY <1>1 DEF WriteLimit
  <2>2. /\ SetLimit(s, v) \in Seq(Ops) /\ SetLimit(s, v) # << >> /\ Plain(SetLimit(s, v))
        /\ Opening(SetLimit(s, v))
    BY <2>1, LimitPlan
  <2>3. dirty' = TRUE
    BY <1>1 DEF WriteLimit
  <2> QED
    BY <2>1, <2>2, <2>3, Zenon
<1>2. ASSUME WriteAddresses(w)
      PROVE  \E q \in Seq(Ops) : Call(w, q) /\ q # << >> /\ Plain(q) /\ Opening(q) /\ dirty' = TRUE
  <2>1. PICK n \in 0 .. MaxAddrs : \E as \in [1 .. n -> Addrs] : Call(w, SetAddresses(as))
    BY <1>2 DEF WriteAddresses
  <2>2. PICK as \in [1 .. n -> Addrs] : Call(w, SetAddresses(as))
    BY <2>1
  <2>3. /\ SetAddresses(as) \in Seq(Ops) /\ SetAddresses(as) # << >> /\ Plain(SetAddresses(as))
        /\ Opening(SetAddresses(as))
    BY AddressPlan
  <2>4. dirty' = TRUE
    BY <1>2 DEF WriteAddresses
  <2> QED
    BY <2>2, <2>3, <2>4, Zenon
<1>3. ASSUME WriteEnabled(w)
      PROVE  \E q \in {Testing(TRUE), Testing(FALSE)} : Call(w, q) /\ dirty' = FALSE
  <2>1. PICK on \in BOOLEAN : Call(w, SetEnabled(on))
    BY <1>3, Zenon DEF WriteEnabled
  <2>2. dirty' = FALSE
    BY <1>3, Zenon DEF WriteEnabled
  <2>3. SetEnabled(on) \in {Testing(TRUE), Testing(FALSE)}
    BY PlansAsWritten, Zenon
  <2> QED
    BY <2>1, <2>2, <2>3, Zenon
<1> QED
  BY <1>1, <1>2, <1>3

\* A write that begins keeps the invariant.
LEMMA WritesKeep ==
    ASSUME IInv, NEW w \in Writers, WriteLimit(w) \/ WriteAddresses(w) \/ WriteEnabled(w)
    PROVE  IInv'
<1>1. CASE WriteLimit(w) \/ WriteAddresses(w)
  <2>1. PICK q \in Seq(Ops) : Call(w, q) /\ Plain(q)
    BY <1>1, FirstPlans
  <2>2. PlanOf(q) /\ q \notin Inside
    BY <2>1, PlainOutside DEF PlanOf
  <2> QED
    BY <2>1, <2>2, CallKeeps
<1>2. CASE WriteEnabled(w)
  <2>1. PICK q \in {Testing(TRUE), Testing(FALSE)} : Call(w, q)
    BY <1>2, FirstPlans
  <2>2. PlanOf(q) /\ q \in Seq(Ops)
    BY Heads DEF PlanOf, EnablePlan, Busy, Goes
  <2>3. q \notin Inside
    <3>1. Head(q)[1] = "noop"
      BY Heads DEF Goes
    <3> QED
      BY <3>1, Heads DEF Goes, Inside, Pending
  <2> QED
    BY <2>1, <2>2, <2>3, CallKeeps
<1> QED
  BY <1>1, <1>2

\* A thread in iwl_mvm_nic_restart keeps the invariant: it leaves only when somebody
\* answers, or has given up.
LEMMA NicKeeps ==
    ASSUME IInv, NEW p \in Threads, NicStep(p)
    PROVE  IInv'
<1> USE DEF statusVars, fwVars, cfgVars, procVars, histVars
<1>1. Types /\ Plans /\ Mutex /\ Restarts /\ Alive /\ Requests /\ Failures
  BY DEF IInv
<1>2. UNCHANGED <<cfgVars, procVars, mutex, boot, running, fw, open, rtnl>>
  BY DEF NicStep, NicTestRunning, NicTestStarting, NicTestInRestart, NicTestRequested,
         NicSetRequested, NicAskRestart, NicLeaves
<1>3. PICK here, there \in NicPlaces : NicGoes(p, here, there)
  <2>1. /\ (IF running THEN "starting" ELSE "idle") \in NicPlaces
        /\ (IF starting THEN "idle" ELSE "inRestart") \in NicPlaces
        /\ (IF inRestart THEN "idle" ELSE "requested") \in NicPlaces
        /\ (IF requested THEN "idle" ELSE "set") \in NicPlaces
        /\ NicPlaces = {"idle", "running", "starting", "inRestart", "requested", "set", "ask"}
    BY DEF NicPlaces
  <2>2. \A x \in {"idle", "running", "starting", "inRestart", "requested", "set", "ask"} : x \in NicPlaces
    BY DEF NicPlaces
  <2> QED
    BY <2>1, <2>2, Zenon DEF NicStep, NicTestRunning, NicTestStarting, NicTestInRestart,
                       NicTestRequested, NicSetRequested, NicAskRestart
<1>4. Types' /\ Plans' /\ Mutex' /\ Restarts'
  BY <1>1, <1>2, <1>3 DEF Types, Plans, Mutex, Restarts, NicGoes
<1>13. Alive'
  <2>1. nic[p] # "idle"
    BY DEF NicStep, NicTestRunning, NicTestStarting, NicTestInRestart, NicTestRequested,
           NicSetRequested, NicAskRestart, NicGoes
  <2> QED
    BY <1>1, <1>2, <1>3, <2>1, ProcFacts DEF Types, Alive, NicGoes
<1>5. (BeforeStart' <=> BeforeStart)
  BY <1>2 DEF BeforeStart
<1>6. Answered => Answered'
  BY DEF Answered, NicStep, NicTestRunning, NicTestStarting, NicTestInRestart,
         NicTestRequested, NicSetRequested, NicAskRestart, NicGoes
<1>7. \A q \in Threads : q # p => nic'[q] = nic[q]
  BY <1>1, <1>3 DEF Types, NicGoes
<1>8. Asking => Asking' \/ Answered'
  <2>1. nic[p] = "ask" => Answered'
    BY DEF Answered, NicStep, NicTestRunning, NicTestStarting, NicTestInRestart,
           NicTestRequested, NicSetRequested, NicAskRestart, NicGoes
  <2> QED
    BY <1>7, <2>1 DEF Asking
<1>9. requested' => requested \/ Asking'
  <2>1. CASE NicSetRequested(p)
    <3>1. nic'[p] = "ask"
      BY <1>1, <2>1 DEF NicSetRequested, NicGoes, Types
    <3> QED
      BY <3>1 DEF Asking
  <2>2. CASE ~NicSetRequested(p)
    BY <2>2 DEF NicStep, NicTestRunning, NicTestStarting, NicTestInRestart, NicTestRequested,
                NicAskRestart
  <2> QED
    BY <2>1, <2>2
<1>10. Requests'
  BY <1>1, <1>5, <1>6, <1>8, <1>9 DEF Requests
<1>11. ASSUME fw = "dead", p = Irq, ~BeforeStart
       PROVE  nic'[p] # "idle" \/ Answered' \/ Asking'
  <2>1. running
    BY <1>1, <1>11 DEF Failures
  <2>2. requested => Answered \/ Asking
    BY <1>1, <1>11 DEF Requests
  <2>3. CASE NicTestRunning(p)
    BY <1>1, <2>1, <2>3 DEF NicTestRunning, NicGoes, Types
  <2>4. CASE NicTestStarting(p)
    BY <1>1, <2>4 DEF NicTestStarting, NicGoes, Types, Answered
  <2>5. CASE NicTestInRestart(p)
    BY <1>1, <2>5 DEF NicTestInRestart, NicGoes, Types, Answered
  <2>6. CASE NicTestRequested(p)
    <3>1. CASE requested
      BY <1>6, <1>8, <2>2, <3>1
    <3>2. CASE ~requested
      BY <1>1, <2>6, <3>2 DEF NicTestRequested, NicGoes, Types
    <3> QED
      BY <3>1, <3>2
  <2>7. CASE NicSetRequested(p)
    BY <1>1, <2>7 DEF NicSetRequested, NicGoes, Types
  <2>8. CASE NicAskRestart(p)
    BY <2>8 DEF NicAskRestart, Answered
  <2> QED
    BY <2>3, <2>4, <2>5, <2>6, <2>7, <2>8 DEF NicStep
<1>12. Failures'
  BY <1>1, <1>2, <1>5, <1>6, <1>7, <1>8, <1>11, ProcFacts DEF Failures
<1> QED
  BY <1>4, <1>10, <1>12, <1>13 DEF IInv

\* What the device and the interface do without a handler keeps the invariant.
LEMMA DeviceKeeps ==
    ASSUME IInv, NicError \/ InterfaceUp \/ InterfaceDown \/ StopDevice
    PROVE  IInv'
<1> USE DEF statusVars, fwVars, ifVars, cfgVars, procVars, histVars, nicVars
<1>1. Types /\ Plans /\ Mutex /\ Restarts /\ Alive /\ Requests /\ Failures
  BY DEF IInv
<1>2. UNCHANGED <<cfgVars, procVars>>
  BY DEF InterfaceUp, InterfaceDown, StopDevice, NicError
<1>3. Plans'
  BY <1>1, <1>2 DEF Plans
<1>4. CASE NicError
  <2>1. /\ fw = "alive" /\ fw' = "dead" /\ nic' = [nic EXCEPT ![Irq] = "running"]
        /\ UNCHANGED <<mutex, running, requested, boot, open, rtnl, queued, reprobe, gaveUp>>
    BY <1>4 DEF NicError
  <2>2. /\ nic' \in [Threads -> NicPlaces] /\ nic'[Irq] = "running"
        /\ \A q \in Threads : q # Irq => nic'[q] = nic[q]
    BY <1>1, <2>1, ProcFacts DEF Types, NicPlaces
  <2>3. Types' /\ Mutex' /\ Restarts' /\ Alive'
    BY <1>1, <1>2, <2>1, <2>2 DEF Types, Mutex, Restarts, Alive
  <2>5. Requests'
    <3>1. Asking => Asking'
      BY <1>1, <2>1, <2>2 DEF Alive, Asking
    <3>2. BeforeStart => BeforeStart'
      BY <1>2, <2>1 DEF BeforeStart
    <3> QED
      BY <1>1, <2>1, <3>1, <3>2 DEF Requests, Answered
  <2>6. running \/ BeforeStart
    <3>1. rtnl = "stop" => ~open /\ boot = "idle"
      BY <1>1, Heads DEF Restarts, Goes
    <3> QED
      BY <1>1, <2>1, <3>1 DEF Alive, BeforeStart
  <2>7. Failures'
    BY <1>2, <2>1, <2>2, <2>6 DEF Failures, BeforeStart
  <2> QED
    BY <1>3, <2>3, <2>5, <2>7 DEF IInv
<1>5. CASE InterfaceUp
  <2>1. /\ rtnl = "free" /\ ~open /\ rtnl' = "open" /\ boot' = "convert"
        /\ mutex = Nobody /\ mutex' = Opener
        /\ UNCHANGED <<nic, running, requested, fw, open, queued, reprobe, gaveUp>>
    BY <1>5 DEF InterfaceUp, BeginStart
  <2>2. Types' /\ Alive'
    BY <1>1, <1>2, <2>1 DEF Types, Alive
  <2>3. Mutex'
    BY <1>1, <1>2, <2>1, ProcFacts DEF Mutex
  <2>4. Restarts'
    BY <1>1, <1>2, <2>1 DEF Restarts
  <2>5. BeforeStart'
    BY <2>1 DEF BeforeStart
  <2>6. Requests' /\ Failures'
    BY <2>5 DEF Requests, Failures
  <2> QED
    BY <1>3, <2>2, <2>3, <2>4, <2>6 DEF IInv
<1>6. CASE InterfaceDown \/ StopDevice
  <2>1. /\ rtnl \in {"free", "stop"} /\ rtnl' \in {"free", "stop"} /\ open' = FALSE
        /\ rtnl' = "free" => fw' = "off"
        /\ rtnl' = "stop" => fw' = fw
        /\ UNCHANGED <<nic, mutex, boot>>
    <3>1. CASE InterfaceDown
      BY <3>1 DEF InterfaceDown
    <3>2. CASE StopDevice
      <4>1. open' = FALSE
        BY <1>1, <3>2 DEF StopDevice, Restarts
      <4> QED
        BY <3>2, <4>1 DEF StopDevice, FwDown
    <3> QED
      BY <1>6, <3>1, <3>2
  <2>2. Types' /\ Mutex'
    BY <1>1, <1>2, <2>1 DEF Types, Mutex
  <2>3. Alive'
    BY <1>1, <2>1 DEF Alive
  <2>4. todo[Restarter] = << >> /\ << >> # Starting /\ boot = "idle"
    BY <1>1, <2>1, Heads DEF Restarts, Goes
  <2>5. Restarts'
    BY <1>1, <1>2, <2>1, <2>4 DEF Restarts
  <2>6. BeforeStart'
    BY <2>1, <2>4 DEF BeforeStart
  <2>7. Requests' /\ Failures'
    BY <2>6 DEF Requests, Failures
  <2> QED
    BY <1>3, <2>2, <2>3, <2>5, <2>7 DEF IInv
<1> QED
  BY <1>4, <1>5, <1>6

\* The restart work goes on to plan c.
LEMMA RestarterGoes ==
    ASSUME IInv, NEW c \in RestartPlan, todo' = [todo EXCEPT ![Restarter] = c],
           UNCHANGED <<cfgVars, reg, pkt, mutex, nic>>, c \in Inside => mutex = Restarter
    PROVE  /\ Types' /\ Plans' /\ Mutex' /\ todo'[Restarter] = c
           /\ \A w \in Writers : todo'[w] = todo[w]
<1> USE DEF cfgVars
<1>1. Types /\ Plans /\ Mutex /\ c \in Seq(Ops)
  BY RestartPlaces DEF IInv
<1>2. todo'[Restarter] = c /\ \A p \in Procs : p # Restarter => todo'[p] = todo[p]
  BY <1>1, ProcFacts DEF Types
<1>3. \A w \in Writers : todo'[w] = todo[w]
  BY <1>2, ProcFacts
<1>4. Types'
  BY <1>1 DEF Types
<1>5. Plans'
  BY <1>1, <1>3 DEF Plans
<1>6. Mutex'
  BY <1>1, <1>2 DEF Mutex
<1> QED
  BY <1>2, <1>3, <1>4, <1>5, <1>6

\* The steps of the restart work keep the invariant.
LEMMA RestartKeeps ==
    ASSUME IInv, BeginRestart \/ RestartComplete
    PROVE  IInv'
<1> USE DEF statusVars, fwVars, ifVars, cfgVars, nicVars
<1>1. Types /\ Plans /\ Mutex /\ Restarts /\ Alive /\ Requests /\ Failures
  BY DEF IInv
<1>2. /\ Starting # << >> /\ Composing # << >> /\ Unlocking # << >> /\ Completing # << >>
      /\ Head(Starting)[1] = "start" /\ Head(Completing)[1] = "complete"
  BY Heads, Zenon DEF Goes
<1>3. /\ Starting \in RestartPlan /\ Composing \in RestartPlan
      /\ Unlocking \in RestartPlan /\ << >> \in RestartPlan
  BY DEF RestartPlan, Resending
<1>4. Starting \notin Inside /\ << >> \notin Inside
  BY Heads DEF Goes, Inside, Pending
<1>5. CASE BeginRestart
  <2>1. /\ rtnl = "free" /\ boot = "idle" /\ todo[Restarter] = << >>
        /\ UNCHANGED <<boot, nic, statusVars, fw, open, reg, pkt, mutex, cfgVars>>
    BY <1>1, <1>2, <1>5 DEF BeginRestart, Restarts
  <2>2. CASE open
    <3>1. rtnl' = "restart" /\ todo' = [todo EXCEPT ![Restarter] = Starting]
      BY <1>5, <2>2, PlansAsWritten DEF BeginRestart
    <3>2. Types' /\ Plans' /\ Mutex' /\ todo'[Restarter] = Starting
      BY <1>3, <1>4, <2>1, <3>1, RestarterGoes
    <3>3. Restarts' /\ Alive'
      BY <1>1, <1>2, <1>3, <2>1, <2>2, <3>1, <3>2 DEF Restarts, Alive
    <3>4. BeforeStart'
      BY <2>1, <3>2 DEF BeforeStart
    <3> QED
      BY <3>2, <3>3, <3>4 DEF IInv, Requests, Failures
  <2>3. CASE ~open
    <3>1. UNCHANGED <<todo, rtnl>>
      BY <1>5, <2>3 DEF BeginRestart
    <3>2. Types' /\ Plans' /\ Mutex' /\ Restarts' /\ Alive'
      BY <1>1, <2>1, <3>1 DEF Types, Plans, Mutex, Restarts, Alive
    <3>3. BeforeStart'
      BY <2>1, <2>3 DEF BeforeStart
    <3> QED
      BY <3>2, <3>3 DEF IInv, Requests, Failures
  <2> QED
    BY <2>2, <2>3
<1>6. CASE RestartComplete
  <2>1. /\ Does(Restarter, "complete") /\ UNCHANGED <<cfgVars, reg, pkt, mutex, nic, boot>>
        /\ UNCHANGED <<running, requested, fw, open, rtnl, queued, reprobe, gaveUp>>
    BY <1>6 DEF RestartComplete
  <2>2. PICK c \in {Composing, Unlocking} : todo' = [todo EXCEPT ![Restarter] = c]
    BY <1>6, PlansAsWritten DEF RestartComplete, Skip
  <2>3. todo[Restarter] = Completing /\ todo[Restarter] # Starting
    BY <1>1, <1>2, <2>1, RestartPlaces DEF Restarts, Does
  <2>4. mutex = Restarter
    BY <1>1, <2>3, ProcFacts DEF Mutex, Inside
  <2>5. Types' /\ Plans' /\ Mutex' /\ todo'[Restarter] = c
    BY <1>3, <2>1, <2>2, <2>4, RestarterGoes
  <2>6. rtnl = "restart" /\ open /\ boot = "idle" /\ c # << >>
    BY <1>1, <1>2, <2>1, <2>3 DEF Restarts, Does
  <2>7. Restarts' /\ Alive'
    BY <1>1, <1>3, <2>1, <2>5, <2>6 DEF Restarts, Alive
  <2>8. ~BeforeStart
    BY <2>3, <2>6 DEF BeforeStart
  <2>9. Requests' /\ Failures'
    BY <1>1, <2>1, <2>8 DEF Requests, Failures, Answered, Asking
  <2> QED
    BY <2>5, <2>7, <2>9 DEF IInv
<1> QED
  BY <1>5, <1>6

\* The start of the device keeps the invariant.
LEMMA StartKeeps ==
    ASSUME IInv, RestartDevice \/ ConvertRequest \/ LoadFirmware \/ FinishStart \/ RetryStart
                 \/ StartFails
    PROVE  IInv'
<1> USE DEF statusVars, fwVars, ifVars, cfgVars, procVars, histVars, nicVars
<1>1. Types /\ Plans /\ Mutex /\ Restarts /\ Alive /\ Requests /\ Failures
  BY DEF IInv
<1>2. /\ Waking # << >> /\ Starting # << >> /\ Head(Starting)[1] = "start"
  BY Heads, Zenon DEF Goes
<1>3. /\ Waking \in RestartPlan /\ << >> \in RestartPlan
      /\ Waking \notin Inside /\ << >> \notin Inside /\ Starting \notin Inside
  BY Heads DEF RestartPlan, Goes, Inside, Pending
<1>4. boot # "idle" => \A p \in Procs : todo[p] \notin Inside
  <2> SUFFICES ASSUME boot # "idle", NEW p \in Procs, todo[p] \in Inside PROVE FALSE
    OBVIOUS
  <2>1. mutex = p /\ mutex \in {Opener, Restarter}
    BY <1>1 DEF Mutex, Restarts
  <2>2. p = Restarter
    BY <2>1, ProcFacts
  <2>3. todo[Restarter] \in {Starting, << >>}
    BY <1>1 DEF Restarts
  <2> QED
    BY <1>3, <2>2, <2>3
<1>5. CASE RestartDevice
  <2>1. /\ boot = "idle" /\ boot' = "convert" /\ mutex = Nobody /\ mutex' = Restarter
        /\ Does(Restarter, "start")
        /\ UNCHANGED <<cfgVars, procVars, nic, running, fw, open, rtnl>>
    BY <1>5 DEF RestartDevice, BeginStart
  <2>2. todo[Restarter] = Starting
    BY <1>1, <2>1, RestartPlaces DEF Restarts, Does
  <2>3. Types' /\ Plans' /\ Alive'
    BY <1>1, <2>1 DEF Types, Plans, Alive
  <2>4. Mutex'
    BY <1>1, <2>1, ProcFacts DEF Mutex
  <2>5. Restarts'
    BY <1>1, <2>1, <2>2 DEF Restarts
  <2>6. BeforeStart'
    BY <2>1 DEF BeforeStart
  <2> QED
    BY <2>3, <2>4, <2>5, <2>6 DEF IInv, Requests, Failures
<1>6. CASE ConvertRequest \/ RetryStart
  <2>1. /\ boot # "idle" /\ boot' # "idle" /\ fw' = "off"
        /\ ~requested' \/ boot' = "convert"
        /\ UNCHANGED <<cfgVars, procVars, nic, mutex, open, rtnl>>
    BY <1>6 DEF ConvertRequest, RetryStart, FwDown
  <2>2. Types' /\ Plans' /\ Mutex' /\ Restarts' /\ Alive'
    BY <1>1, <2>1 DEF Types, Plans, Mutex, Restarts, Alive
  <2>3. Requests' /\ Failures'
    BY <2>1 DEF Requests, Failures, BeforeStart
  <2> QED
    BY <2>2, <2>3 DEF IInv
<1>7. CASE LoadFirmware
  <2>1. /\ boot = "load" /\ boot' # "idle" /\ nic[Irq] = "idle" /\ fw' = "alive" /\ running' = TRUE
        /\ UNCHANGED <<cfgVars, procVars, nic, mutex, requested, open, rtnl, queued, reprobe,
                       gaveUp>>
    BY <1>7 DEF LoadFirmware
  <2>2. Types' /\ Plans' /\ Mutex' /\ Restarts' /\ Alive'
    BY <1>1, <2>1 DEF Types, Plans, Mutex, Restarts, Alive
  <2>3. ~BeforeStart
    BY <2>1 DEF BeforeStart
  <2>4. Requests' /\ Failures'
    BY <1>1, <2>1, <2>3 DEF Requests, Failures, Answered, Asking
  <2> QED
    BY <2>2, <2>4 DEF IInv
<1>8. CASE FinishStart
  <2>1. /\ boot = "finish" /\ boot' = "idle" /\ mutex' = Nobody
        /\ UNCHANGED <<cfgVars, reg, pkt, nic, running, requested, fw, queued, reprobe, gaveUp>>
    BY <1>8 DEF FinishStart, EndStart
  <2>2. \/ /\ rtnl = "open" /\ open' = TRUE /\ rtnl' = "free" /\ todo' = todo
        \/ /\ rtnl = "restart" /\ open' = open /\ rtnl' = rtnl
           /\ todo' = [todo EXCEPT ![Restarter] = Waking]
    BY <1>8, PlansAsWritten DEF FinishStart
  <2>3. PICK c : todo' = [todo EXCEPT ![Restarter] = c] /\ c \in {todo[Restarter], Waking}
    BY <1>1, <2>2, ProcFacts DEF Types
  <2>4. /\ c \in RestartPlan /\ c \notin Inside /\ c \in Seq(Ops)
        /\ todo'[Restarter] = c /\ \A p \in Procs : p # Restarter => todo'[p] = todo[p]
    <3>1. todo[Restarter] \notin Inside
      BY <1>4, <2>1, ProcFacts
    <3> QED
      BY <1>1, <1>3, <2>3, <3>1, ProcFacts, RestartPlaces DEF Restarts, Types
  <2>5. Types' /\ Plans'
    BY <1>1, <2>1, <2>3, <2>4, ProcFacts DEF Types, Plans
  <2>6. Mutex'
    BY <1>4, <2>1, <2>4 DEF Mutex
  <2>7. Restarts'
    BY <1>1, <1>2, <2>1, <2>2, <2>3, <2>4, ProcFacts DEF Restarts, Types
  <2>8. Alive'
    BY <1>1, <2>1, <2>2 DEF Alive
  <2>9. ~BeforeStart
    BY <2>1 DEF BeforeStart
  <2>10. Requests' /\ Failures'
    BY <1>1, <2>1, <2>9 DEF Requests, Failures, Answered, Asking
  <2> QED
    BY <2>5, <2>6, <2>7, <2>8, <2>10 DEF IInv
<1>9. CASE StartFails
  <2>1. /\ boot # "idle" /\ boot' = "idle" /\ mutex' = Nobody /\ fw' = "off" /\ open' = FALSE
        /\ rtnl' = "free" /\ todo' = [todo EXCEPT ![Restarter] = << >>]
        /\ UNCHANGED <<cfgVars, reg, pkt, nic>>
    BY <1>9 DEF StartFails, EndStart, FwDown
  <2>2. /\ todo'[Restarter] = << >> /\ \A p \in Procs : p # Restarter => todo'[p] = todo[p]
    BY <1>1, <2>1, ProcFacts DEF Types
  <2>3. << >> \in Seq(Ops)
    OBVIOUS
  <2>4. Types' /\ Plans'
    BY <1>1, <2>1, <2>2, <2>3, ProcFacts DEF Types, Plans
  <2>5. Mutex'
    BY <1>3, <1>4, <2>1, <2>2 DEF Mutex
  <2>6. Restarts' /\ Alive' /\ BeforeStart'
    BY <1>3, <2>1, <2>2 DEF Restarts, Alive, BeforeStart
  <2> QED
    BY <2>4, <2>5, <2>6 DEF IInv, Requests, Failures
<1> QED
  BY <1>5, <1>6, <1>7, <1>8, <1>9

\* The configuration of a new device has its types.
LEMMA NewTypes ==
    /\ [s \in Settings |-> IF s = "frame_types" THEN MaxValue ELSE 0]
           \in [Settings -> 0 .. MaxValue]
    /\ 0 \in 0 .. MaxAddrs /\ NoCmd \in Partial
    /\ [i \in 1 .. MaxAddrs |-> NoAddr] \in [1 .. MaxAddrs -> Addrs \cup {NoAddr}]
BY ConfigAssumption DEF NoCmd, Partial

\* A new probe of the device keeps the invariant.
LEMMA ReprobeKeeps ==
    ASSUME IInv, Reprobe
    PROVE  IInv'
<1>1. Types /\ Plans /\ Mutex /\ Restarts /\ Alive
  BY DEF IInv
<1>2. UNCHANGED <<todo, reg, pkt, mutex, rtnl, nic, boot>> /\ rtnl = "free"
  BY DEF Reprobe, procVars, Quiet
<1>3. Types'
  BY <1>1, <1>2, NewTypes DEF Types, Reprobe, NewDevice
<1>4. Plans' /\ Mutex'
  BY <1>1, <1>2 DEF Plans, Mutex
<1>5. requested' = FALSE /\ fw' = "off" /\ open' = FALSE
  BY DEF Reprobe, NewDevice
<1>6. Restarts' /\ Alive'
  BY <1>1, <1>2, <1>5 DEF Restarts, Alive
<1> QED
  BY <1>3, <1>4, <1>5, <1>6 DEF IInv, Requests, Failures

\* The invariant holds at first.
LEMMA InitInv == Init => IInv
<1> SUFFICES ASSUME Init PROVE IInv
  OBVIOUS
<1>1. \A p \in Procs : todo[p] = << >>
  BY DEF Init
<1>2. Types
  <2>1. << >> \in Seq(Ops) /\ {} \in SUBSET Flags /\ "idle" \in NicPlaces
    BY DEF NicPlaces
  <2> QED
    BY <2>1, NewTypes DEF Init, Types
<1>3. Plain(<< >>)
  BY DEF Plain
<1>4. Plans
  BY <1>1, <1>3, ProcFacts DEF Plans, PlanOf
<1>5. Mutex
  BY <1>1, <1>3, PlainOutside DEF Mutex
<1>6. Restarts /\ Alive /\ Requests /\ Failures
  BY <1>1, ProcFacts DEF Init, Restarts, Alive, Requests, Failures, RestartPlan
<1> QED
  BY <1>2, <1>4, <1>5, <1>6 DEF IInv

\* Every step keeps the invariant.
LEMMA StepInv == IInv /\ [Next]_vars => IInv'
<1> SUFFICES ASSUME IInv, [Next]_vars PROVE IInv'
  OBVIOUS
<1>1. CASE UNCHANGED vars
  BY <1>1 DEF vars, cfgVars, procVars, nicVars, statusVars, fwVars, ifVars, IInv, Types, Plans,
              Mutex, Restarts, Alive, Requests, Failures, Answered, Asking, BeforeStart
<1>2. CASE \E w \in Writers : WriteLimit(w) \/ WriteAddresses(w) \/ WriteEnabled(w)
  BY <1>2, WritesKeep
<1>3. CASE \E p \in Procs : Access(p)
  BY <1>3, AccessKeeps
<1>4. CASE NicError \/ InterfaceUp \/ InterfaceDown \/ StopDevice
  BY <1>4, DeviceKeeps
<1>5. CASE BeginRestart \/ RestartComplete
  BY <1>5, RestartKeeps
<1>6. CASE Reprobe
  BY <1>6, ReprobeKeeps
<1>7. CASE \E p \in Threads : NicStep(p)
  BY <1>7, NicKeeps
<1>8. CASE RestartDevice \/ ConvertRequest \/ LoadFirmware \/ FinishStart \/ RetryStart
           \/ StartFails
  BY <1>8, StartKeeps
<1> QED
  BY <1>1, <1>2, <1>3, <1>4, <1>5, <1>6, <1>7, <1>8 DEF Next

\* The invariant holds in every reachable state, for any number of writers.
THEOREM Invariance == Spec => []IInv
BY InitInv, StepInv, PTL DEF Spec

\* Firmware that has failed with the interface up is going to be restarted, or the driver
\* has said that it asks nobody, whoever writes to the files meanwhile and wherever
\* iwl_mvm_nic_restart, which holds no lock, is between its tests and changes of the status
\* bits when the device is stopped or started (iwl_mvm_nic_restart, __iwl_mvm_mac_start,
\* __iwl_mvm_mac_stop).
THEOREM FailuresAnswered == Spec => []FailureAnswered
<1>1. IInv => FailureAnswered
  <2> SUFFICES ASSUME IInv, Quiet, open, fw = "dead" PROVE Answered
    BY DEF FailureAnswered, Answered
  <2>1. ~Asking /\ nic[Irq] = "idle"
    BY ProcFacts DEF Quiet, Asking
  <2>2. ~BeforeStart
    <3>1. todo[Restarter] = << >> /\ Starting # << >>
      BY ProcFacts, Heads DEF Quiet, Goes
    <3>2. boot = "idle"
      BY <3>1 DEF IInv, Restarts, Quiet
    <3> QED
      BY <3>1, <3>2 DEF BeforeStart
  <2> QED
    BY <2>1, <2>2 DEF IInv, Failures
<1> QED
  BY <1>1, Invariance, PTL

-----------------------------------------------------------------------------
(* The invariant for a single writer.                                      *)

\* The files are written by one process, one write after the other: the settings files
\* take no lock, and two writers can undo each other's flags or change the filter while
\* a command is being built.
OneWriter == \A v, w \in Writers : v = w

\* Command c has been filled from csi_cfg as it is.
Agrees(c) ==
    /\ c.flags = flags /\ c.value = value /\ c.num = num /\ Len(c.addrs) <= num
    /\ \A i \in 1 .. Len(c.addrs) : c.addrs[i] = addrs[i]

\* The command that p builds.
Built(p) ==
    /\ Does(p, "addrs") => Agrees(pkt[p])
    /\ Does(p, "transmit") => Agrees(pkt[p]) /\ Len(pkt[p].addrs) = num

\* The flags that a writer is about to store are up to date.
Loaded == \A w \in Writers : Does(w, "flag") => reg[w] = flags

\* So is the command that a writer of csi_enabled sends.
Composed == \A w \in Writers : Built(w)

\* The restart work sends the command only if csi_enabled is set.
Resent == todo[Restarter] \in Resending => Enabled

\* The last write was one of csi_enabled unless dirty says otherwise.
Settled == ~dirty => \A w \in Writers : todo[w] \in EnablePlan \cup {<< >>}

\* What the restart work sends is up to date when nobody writes.
Rebuilt == ~dirty /\ (\A w \in Writers : todo[w] = << >>) => Built(Restarter)

\* It turns measuring on.
Bears == todo[Restarter] \in {Copying, Sending} => "ENABLE" \in pkt[Restarter].flags

\* Firmware that measures is right to, or is about to be told or stopped.
Silent ==
    fw = "alive" /\ "ENABLE" \in fwCfg.flags /\ ~refused =>
        Enabled \/ rtnl = "stop" \/ \E w \in Writers : todo[w] \in Pending

\* The restart work before the command.
Reviving == {Waking, Completing} \cup Resending

\* Firmware follows the files, or is about to be told or stopped.
Follow ==
    fw = "alive" /\ Enabled /\ ~untold /\ ~refused =>
        \/ "ENABLE" \in fwCfg.flags /\ (~dirty => fwCfg = Current)
        \/ rtnl = "stop" \/ todo[Restarter] \in Reviving \/ boot # "idle"
        \/ \E w \in Writers : todo[w] \in Busy

JInv ==
    Loaded /\ Composed /\ Resent /\ Settled /\ Rebuilt /\ Bears /\ Silent /\ Follow

\* A command that is complete is the configuration.
LEMMA PackedCurrent ==
    ASSUME Types, NEW p \in Procs, Agrees(pkt[p]), Len(pkt[p].addrs) = num
    PROVE  Packed(pkt[p]) = Current
<1> DEFINE c == pkt[p]
<1>1. c \in Partial /\ c.addrs \in Seq(Addrs \cup {NoAddr})
  BY DEF Types, Partial
<1>2. DOMAIN c.addrs = 1 .. num
  BY <1>1
<1>3. [i \in 1 .. c.num |-> IF i \in DOMAIN c.addrs THEN c.addrs[i] ELSE NoAddr]
      = AddrsOf(num, addrs)
  BY <1>2 DEF Agrees, AddrsOf
<1>4. Packed(c) = [c EXCEPT !.addrs = AddrsOf(num, addrs)]
  BY <1>3, Zenon DEF Packed
<1> QED
  BY <1>1, <1>4 DEF Agrees, Partial, Current

\* Copying an address, or ending the loop, keeps the command up to date.
LEMMA CopyingKeeps ==
    ASSUME Types, NEW p \in Procs, BuildAddrs(p), Agrees(pkt[p]), todo[p] = Copying
    PROVE  Built(p)'
<1> USE DEF cfgVars
<1> DEFINE c == pkt[p]
           n == Len(c.addrs)
<1>1. /\ c \in Partial /\ c.addrs \in Seq(Addrs \cup {NoAddr}) /\ n \in Nat /\ num \in Nat
      /\ n <= num /\ MaxAddrs \in Nat /\ num <= MaxAddrs
  BY ConfigAssumption DEF Types, Partial, Agrees
<1>2. flags' = flags /\ value' = value /\ num' = num /\ addrs' = addrs
  BY DEF BuildAddrs
<1>3. Head(Copying)[1] = "addrs" /\ Tail(Copying) = Sending /\ Head(Sending)[1] = "transmit"
  BY Heads, Zenon DEF Goes
<1>4. CASE n < num
  <2> DEFINE a == Append(c.addrs, addrs[n + 1])
             d == [c EXCEPT !.addrs = a]
  <2>1. pkt' = [pkt EXCEPT ![p] = d] /\ todo' = todo
    BY <1>4 DEF BuildAddrs
  <2>2. addrs[n + 1] \in Addrs \cup {NoAddr}
    BY <1>1, <1>4 DEF Types
  <2>3. Len(a) = n + 1 /\ a[n + 1] = addrs[n + 1] /\ \A i \in 1 .. n : a[i] = c.addrs[i]
    BY <1>1, <2>2, AppendProperties
  <2>4. d.flags = c.flags /\ d.value = c.value /\ d.num = c.num /\ d.addrs = a
    BY <1>1 DEF Partial
  <2>5. pkt'[p] = d
    BY <2>1 DEF Types
  <2> HIDE DEF d, a
  <2>6. \A i \in 1 .. n + 1 : a[i] = addrs[i]
    <3>1. \A i \in 1 .. n + 1 : i \in 1 .. n \/ i = n + 1
      BY <1>1
    <3> QED
      BY <2>3, <3>1 DEF Agrees
  <2>7. n + 1 <= num
    BY <1>1, <1>4
  <2>8. Agrees(d)
    BY <2>3, <2>4, <2>6, <2>7 DEF Agrees
  <2>9. Agrees(pkt[p])'
    BY <1>2, <2>5, <2>8 DEF Agrees
  <2>10. ~Does(p, "transmit")'
    BY <1>3, <2>1 DEF Does
  <2> QED
    BY <2>9, <2>10 DEF Built
<1>5. CASE ~(n < num)
  <2>1. pkt' = pkt /\ todo'[p] = Sending
    BY <1>3, <1>5 DEF BuildAddrs, Done, Types
  <2>2. n = num
    BY <1>1, <1>5
  <2>3. Agrees(pkt[p])' /\ Len(pkt'[p].addrs) = num'
    BY <1>2, <2>1, <2>2 DEF Agrees
  <2> QED
    BY <2>3 DEF Built
<1> QED
  BY <1>4, <1>5

\* A command that has been begun is up to date.
LEMMA ComposingKeeps ==
    ASSUME Types, NEW p \in Procs, BuildScalars(p), todo[p] = Composing
    PROVE  Built(p)'
<1> USE DEF cfgVars
<1> DEFINE d == [flags |-> flags, value |-> value, num |-> num, addrs |-> << >>]
<1>1. flags' = flags /\ value' = value /\ num' = num /\ addrs' = addrs
  BY DEF BuildScalars
<1>2. Tail(Composing) = Copying /\ Head(Copying)[1] = "addrs"
  BY Heads, Zenon DEF Goes
<1>3. pkt'[p] = d /\ todo'[p] = Copying
  BY <1>2 DEF BuildScalars, Done, Types
<1>4. /\ d.flags = flags /\ d.value = value /\ d.num = num /\ Len(d.addrs) = 0 /\ num \in Nat
  BY ConfigAssumption DEF Types
<1> HIDE DEF d
<1>5. Agrees(d)
  BY <1>4 DEF Agrees
<1>6. Agrees(pkt[p])'
  BY <1>1, <1>3, <1>5 DEF Agrees
<1> QED
  BY <1>2, <1>3, <1>6 DEF Built, Does

\* What the other actors leave alone: the writers and csi_cfg.
Apart ==
    /\ UNCHANGED <<cfgVars, dirty>>
    /\ \A w \in Writers : todo'[w] = todo[w] /\ reg'[w] = reg[w] /\ pkt'[w] = pkt[w]

\* What is said of the writers then remains true.
LEMMA ApartKeeps ==
    ASSUME Loaded, Composed, Settled, Apart
    PROVE  Loaded' /\ Composed' /\ Settled'
<1> USE DEF Apart, cfgVars
<1>1. Loaded'
  BY DEF Loaded, Does
<1>2. Composed'
  BY DEF Composed, Built, Agrees, Does
<1>3. Settled'
  BY DEF Settled
<1> QED
  BY <1>1, <1>2, <1>3

\* How a writer that acts stays in a plan.
LEMMA WriterStays ==
    ASSUME IInv, NEW w \in Writers, Access(w)
    PROVE  /\ todo[w] # << >>
           /\ todo[w] \in Pending =>
                todo'[w] \in Pending \/ Does(w, "transmit") \/ Does(w, "running")
           /\ todo[w] \in Busy =>
                todo'[w] \in Busy \/ Does(w, "transmit") \/ Does(w, "running") \/ Does(w, "noop")
           /\ todo[w] \in EnablePlan =>
                todo'[w] \in EnablePlan \/ (Does(w, "unlock") /\ todo'[w] = << >>)
                \/ (Does(w, "noop") /\ todo'[w] = << >>)
           /\ todo[w] \in EnablePlan =>
                ~Does(w, "value") /\ ~Does(w, "num") /\ ~Does(w, "addr")
           /\ Does(w, "flag") =>
                \/ todo[w] \in Pending /\ todo'[w] \in {Telling, Loading}
                \/ Plain(todo[w]) /\ Head(todo[w])[2] # "ENABLE"
<1> DEFINE c == todo[w]
           d == todo'[w]
<1>1. Types /\ Plans /\ w \in Procs
  BY ProcFacts DEF IInv
<1>2. Advances(w)
  BY <1>1, Advancing
<1>3. c \in Seq(Ops) /\ c # << >> /\ PlanOf(c)
  BY <1>1, <1>2 DEF Types, Plans, Advances
<1>4. c \in Pending => c \in Busy
  BY DEF Busy
<1>5. c \in Busy => c \in EnablePlan
  BY DEF EnablePlan
<1>6. CASE Plain(c)
  <2>1. c \notin EnablePlan /\ (Head(c)[1] = "flag" => Head(c)[2] # "ENABLE")
    BY <1>3, <1>6, PlainOutside, PlainNext
  <2> QED
    BY <1>3, <1>4, <1>5, <1>6, <2>1 DEF Does
<1>7. CASE c \in EnablePlan
  <2>1. Onward(c)
    BY <1>7, Places
  <2>2. CASE Does(w, "noop")
    <3>1. c \notin Pending
      BY <2>2, Heads DEF Goes, Pending, Does
    <3> QED
      BY <1>2, <1>3, <2>1, <2>2, <3>1 DEF Advances, Does, Onward, EnablePlan, Busy
  <2>3. CASE Does(w, "lock")
    <3>1. c \notin Pending
      BY <2>3, Heads DEF Goes, Pending, Does
    <3>2. d \in {Fetching(TRUE), Fetching(FALSE)}
      BY <1>2, <2>1, <2>3 DEF Advances, Does, Onward
    <3> QED
      BY <1>3, <2>3, <3>1, <3>2 DEF Does, EnablePlan, Busy, Pending
  <2>4. CASE Does(w, "unlock")
    <3>1. c \notin Busy
      BY <2>4, Heads DEF Goes, Busy, Pending, Does
    <3> QED
      BY <1>2, <1>3, <1>4, <2>1, <2>4, <3>1 DEF Advances, Does, Onward
  <2>5. CASE Does(w, "running") \/ Does(w, "transmit")
    <3>1. d \in {Composing, Unlocking}
      BY <1>2, <2>1, <2>5 DEF Advances, Does, Onward
    <3> QED
      BY <1>3, <2>5, <3>1 DEF Does, EnablePlan, Busy, Pending
  <2>6. CASE Does(w, "flag")
    <3>1. d \in {Telling, Loading} /\ c \in Pending
      BY <1>2, <2>1, <2>6 DEF Advances, Does, Onward
    <3> QED
      BY <1>3, <2>6, <3>1 DEF Does, EnablePlan, Busy, Pending
  <2>7. CASE Does(w, "load") \/ Does(w, "scalars") \/ Does(w, "addrs")
    <3>1. d \in {Setting, Clearing(TRUE), Clearing(FALSE), Copying, Sending, c} /\ c \in Pending
      BY <1>2, <2>1, <2>7 DEF Advances, Does, Onward
    <3> QED
      BY <1>3, <2>7, <3>1 DEF Does, EnablePlan, Busy, Pending
  <2> QED
    BY <1>3, <2>1, <2>2, <2>3, <2>4, <2>5, <2>6, <2>7 DEF Onward, Does
<1> QED
  BY <1>3, <1>6, <1>7 DEF PlanOf

\* With the mutex of the writer the restart work is outside.
LEMMA Alone ==
    ASSUME IInv, NEW w \in Writers, todo[w] \in Inside
    PROVE  /\ todo[Restarter] \notin Inside /\ todo[Restarter] \notin Resending
           /\ ~Does(Restarter, "addrs") /\ ~Does(Restarter, "transmit")
<1>1. mutex = w /\ w # Restarter /\ todo[Restarter] \in RestartPlan
  BY ProcFacts DEF IInv, Mutex, Restarts
<1>2. todo[Restarter] \notin Inside
  BY <1>1, ProcFacts DEF IInv, Mutex
<1>3. Resending \subseteq Inside
  BY DEF Resending, Inside, Pending
<1>4. /\ Does(Restarter, "addrs") => todo[Restarter] \in Resending
      /\ Does(Restarter, "transmit") => todo[Restarter] \in Resending
  BY <1>1, RestartPlaces DEF Does, Resending
<1> QED
  BY <1>2, <1>3, <1>4

\* What a writer leaves alone for the restart work and the device.
LEMMA WriterAside ==
    ASSUME IInv, NEW w \in Writers, Access(w)
    PROVE  /\ todo'[Restarter] = todo[Restarter] /\ pkt'[Restarter] = pkt[Restarter]
           /\ UNCHANGED <<rtnl, fw, running, dirty, boot>>
<1>1. Types /\ w \in Procs /\ Restarter \in Procs /\ w # Restarter
  BY ProcFacts DEF IInv
<1>2. Aside(w)
  BY <1>1, AccessTypes
<1> QED
  BY <1>1, <1>2 DEF Aside, statusVars

\* Accesses of the writer that change neither csi_cfg nor the firmware.
LEMMA QuietAccess ==
    ASSUME OneWriter, IInv, JInv, NEW w \in Writers, Access(w),
           UNCHANGED <<cfgVars, fwCfg, untold, refused>>,
           ~Does(w, "transmit"), Does(w, "running") /\ running => todo'[w] \in Pending,
           Does(w, "noop") => todo'[w] \in Busy \/ ~Enabled
    PROVE  Resent' /\ Settled' /\ Rebuilt' /\ Bears' /\ Silent' /\ Follow'
<1> USE DEF cfgVars
<1>1. \A v \in Writers : v = w
  BY DEF OneWriter
<1>2. /\ todo'[Restarter] = todo[Restarter] /\ pkt'[Restarter] = pkt[Restarter]
      /\ UNCHANGED <<rtnl, fw, running, dirty, boot>>
  BY WriterAside
<1>3. /\ todo[w] # << >>
      /\ todo[w] \in Pending => todo'[w] \in Pending \/ Does(w, "running")
      /\ todo[w] \in Busy => todo'[w] \in Busy \/ Does(w, "running") \/ Does(w, "noop")
      /\ todo[w] \in EnablePlan =>
           todo'[w] \in EnablePlan \/ (Does(w, "unlock") /\ todo'[w] = << >>)
           \/ (Does(w, "noop") /\ todo'[w] = << >>)
  BY WriterStays
<1>4. (Enabled' <=> Enabled) /\ Current' = Current
  BY DEF Enabled, Current
<1>5. Resent' /\ Bears'
  BY <1>2, <1>4 DEF JInv, Resent, Bears
<1>6. Settled'
  <2>1. ~dirty => todo[w] \in EnablePlan
    BY <1>3 DEF JInv, Settled
  <2> QED
    BY <1>1, <1>2, <1>3, <2>1 DEF Settled
<1>7. Rebuilt'
  <2> SUFFICES ASSUME ~dirty, todo'[w] = << >> PROVE Built(Restarter)'
    BY <1>2 DEF Rebuilt
  <2>1. todo[w] \in EnablePlan
    BY <1>3 DEF JInv, Settled
  <2>2. /\ Does(Restarter, "addrs")' <=> Does(Restarter, "addrs")
        /\ Does(Restarter, "transmit")' <=> Does(Restarter, "transmit")
    BY <1>2 DEF Does
  <2>3. ~Does(Restarter, "addrs") /\ ~Does(Restarter, "transmit")
    <3>1. << >> \notin EnablePlan
      <4>1. Plain(<< >>)
        BY DEF Plain
      <4> QED
        BY <4>1, PlainOutside
    <3>2. CASE Does(w, "unlock")
      <4>1. todo[w] = Unlocking
        BY <2>1, <3>2, Places DEF Onward, Does
      <4> QED
        BY <4>1, Alone DEF Inside
    <3>3. CASE Does(w, "noop")
      <4>1. ~Enabled
        BY <3>1, <3>3 DEF EnablePlan
      <4>2. todo[Restarter] \notin Resending /\ todo[Restarter] \in RestartPlan
        BY <4>1 DEF JInv, Resent, IInv, Restarts
      <4> QED
        BY <4>2, RestartPlaces DEF Does, Resending
    <3> QED
      BY <1>3, <2>1, <3>1, <3>2, <3>3
  <2> QED
    BY <2>2, <2>3 DEF Built
<1>8. Does(w, "running") => running \/ fw # "alive" \/ rtnl = "stop"
  BY DEF IInv, Alive
<1>9. Silent'
  <2> SUFFICES ASSUME fw = "alive", "ENABLE" \in fwCfg.flags, ~refused, ~Enabled, rtnl # "stop"
               PROVE  todo'[w] \in Pending
    BY <1>2, <1>4 DEF Silent
  <2>1. todo[w] \in Pending
    BY <1>1 DEF JInv, Silent
  <2> QED
    BY <1>3, <1>8, <2>1
<1>10. Follow'
  <2> SUFFICES ASSUME fw = "alive", Enabled, ~untold, ~refused, rtnl # "stop", boot = "idle",
                      ~("ENABLE" \in fwCfg.flags /\ (~dirty => fwCfg = Current)),
                      todo[Restarter] \notin Reviving
               PROVE  todo'[w] \in Busy
    BY <1>2, <1>4 DEF Follow
  <2>1. todo[w] \in Busy
    BY <1>1 DEF JInv, Follow
  <2>2. todo'[w] \in Pending => todo'[w] \in Busy
    BY DEF Busy
  <2> QED
    BY <1>3, <1>8, <2>1, <2>2
<1> QED
  BY <1>5, <1>6, <1>7, <1>9, <1>10

\* Where a process is that fills the command.
LEMMA FillPlaces ==
    ASSUME NEW c \in Seq(Ops), c # << >>, PlanOf(c) \/ c \in RestartPlan
    PROVE  /\ Head(c)[1] = "scalars" => c = Composing /\ Tail(c) = Copying
           /\ Head(c)[1] = "addrs" => c = Copying /\ Tail(c) = Sending
           /\ Head(c)[1] = "transmit" => c = Sending /\ Tail(c) = Unlocking
<1>1. CASE c \in RestartPlan
  BY <1>1, RestartPlaces
<1>2. CASE Plain(c)
  BY <1>2, PlainNext
<1>3. CASE c \in EnablePlan
  <2>1. Onward(c)
    BY <1>3, Places
  <2>2. /\ Head(c)[1] = "scalars" => c = Composing
        /\ Head(c)[1] = "addrs" => c = Copying
        /\ Head(c)[1] = "transmit" => c = Sending
    <3>1. c \in {Setting, Loading, Telling, Clearing(TRUE), Clearing(FALSE), Fetching(TRUE),
                 Fetching(FALSE), Locking(TRUE), Locking(FALSE), Testing(TRUE), Testing(FALSE),
                 Unlocking} => Head(c)[1] \notin {"scalars", "addrs", "transmit"}
      BY Heads DEF Goes
    <3>2. c \in {Composing, Copying, Sending} =>
             /\ Head(c)[1] = "scalars" => c = Composing
             /\ Head(c)[1] = "addrs" => c = Copying
             /\ Head(c)[1] = "transmit" => c = Sending
      BY Heads DEF Goes
    <3> QED
      BY <1>3, <3>1, <3>2 DEF EnablePlan, Busy, Pending
  <2> QED
    BY <2>1, <2>2 DEF Onward
<1> QED
  BY <1>1, <1>2, <1>3 DEF PlanOf

\* What the writer has loaded and composed remains true if it comes to other operations.
LEMMA PastKeeps ==
    ASSUME OneWriter, NEW w \in Writers,
           ~Does(w, "flag")', ~Does(w, "addrs")', ~Does(w, "transmit")'
    PROVE  Loaded' /\ Composed'
<1>1. \A v \in Writers : v = w
  BY DEF OneWriter
<1>2. Loaded'
  BY <1>1 DEF Loaded
<1>3. Composed'
  BY <1>1 DEF Composed, Built
<1> QED
  BY <1>2, <1>3

\* A writer tests, locks or unlocks.
LEMMA TestsKeep ==
    ASSUME OneWriter, IInv, JInv, NEW w \in Writers, Access(w),
           TestNoop(w) \/ Lock(w) \/ Unlock(w) \/ TestRunning(w)
    PROVE  JInv'
<1>1. Access(w) /\ w \in Procs /\ Types /\ Plans
  BY ProcFacts DEF Access, IInv
<1>2. Does(w, "noop") \/ Does(w, "lock") \/ Does(w, "unlock") \/ Does(w, "running")
  BY DEF TestNoop, Lock, Unlock, TestRunning
<1>3. UNCHANGED <<cfgVars, fwCfg, untold, refused>>
  BY DEF TestNoop, Lock, Unlock, TestRunning, fwVars, histVars
<1>4. todo[w] \in EnablePlan
  <2>1. PlanOf(todo[w]) /\ todo[w] \in Seq(Ops) /\ todo[w] # << >>
    BY <1>1, <1>2 DEF Plans, Types, Does
  <2> QED
    BY <1>2, <2>1, PlainNext DEF PlanOf, Does
<1>5. Onward(todo[w])
  BY <1>4, Places
<1>6. Advances(w)
  BY <1>1, Advancing
<1>7. todo'[w] \in {Locking(TRUE), Locking(FALSE), << >>, Fetching(TRUE), Fetching(FALSE),
                    Composing, Unlocking}
  BY <1>2, <1>5, <1>6 DEF Onward, Advances, Does
<1>8. ~Does(w, "flag")' /\ ~Does(w, "addrs")' /\ ~Does(w, "transmit")'
  BY <1>7, Heads DEF Goes, Does
<1>9. Does(w, "running") /\ running => todo'[w] \in Pending
  <2> SUFFICES ASSUME Does(w, "running"), running PROVE todo'[w] \in Pending
    OBVIOUS
  <2>1. TestRunning(w)
    BY DEF Does, TestNoop, Lock, Unlock
  <2>2. todo'[w] = Composing
    BY <1>1, <1>5, <2>1 DEF TestRunning, Done, Onward, Does, Types
  <2> QED
    BY <2>2 DEF Pending
<1>10. Does(w, "noop") => todo'[w] \in Busy \/ ~Enabled
  <2> SUFFICES ASSUME Does(w, "noop"), Enabled PROVE todo'[w] \in Busy
    OBVIOUS
  <2>1. TestNoop(w)
    BY DEF Does, TestRunning, Lock, Unlock
  <2>2. todo'[w] = Tail(todo[w])
    BY <1>1, <2>1 DEF TestNoop, Done, Types, Enabled
  <2> QED
    BY <1>5, <2>2 DEF Onward, Does, Busy
<1>11. ~Does(w, "transmit")
  BY <1>2 DEF Does
<1>12. Loaded' /\ Composed'
  BY <1>8, PastKeeps
<1>13. Resent' /\ Settled' /\ Rebuilt' /\ Bears' /\ Silent' /\ Follow'
  BY <1>1, <1>3, <1>9, <1>10, <1>11, QuietAccess
<1> QED
  BY <1>12, <1>13 DEF JInv

\* A writer loads the flags or fills the command.
LEMMA FillsKeep ==
    ASSUME OneWriter, IInv, JInv, NEW w \in Writers, Access(w),
           Load(w) \/ BuildScalars(w) \/ BuildAddrs(w)
    PROVE  JInv'
<1>1. Access(w) /\ w \in Procs /\ Types /\ Plans /\ \A v \in Writers : v = w
  BY ProcFacts DEF Access, IInv, OneWriter
<1>2. Does(w, "load") \/ Does(w, "scalars") \/ Does(w, "addrs")
  BY DEF Load, BuildScalars, BuildAddrs
<1>3. UNCHANGED <<cfgVars, fwCfg, untold, refused>>
  BY DEF Load, BuildScalars, BuildAddrs, fwVars, histVars
<1>4. PlanOf(todo[w]) /\ todo[w] \in Seq(Ops) /\ todo[w] # << >>
  BY <1>1, <1>2 DEF Plans, Types, Does
<1>5. Loaded' /\ Composed'
  <2>1. CASE Load(w)
    <3>1. Does(w, "load") /\ reg'[w] = flags' /\ todo'[w] = Tail(todo[w])
      BY <1>1, <2>1 DEF Load, Done, Types, cfgVars
    <3>2. ~Does(w, "addrs")' /\ ~Does(w, "transmit")'
      <4>1. CASE todo[w] \in EnablePlan
        <5>1. todo'[w] \in {Setting, Clearing(TRUE), Clearing(FALSE)}
          BY <3>1, <4>1, Places DEF Onward, Does
        <5> QED
          BY <5>1, Heads DEF Goes, Does
      <4>2. CASE Plain(todo[w])
        <5>1. Plain(todo'[w]) /\ todo'[w] \in Seq(Ops)
          BY <1>4, <3>1, <4>2, PlainNext, HeadTailProperties
        <5> QED
          BY <5>1, PlainNext DEF Does
      <4> QED
        BY <1>4, <4>1, <4>2 DEF PlanOf
    <3> QED
      BY <1>1, <3>1, <3>2 DEF Loaded, Composed, Built
  <2>2. CASE BuildScalars(w)
    <3>1. Does(w, "scalars")
      BY <2>2 DEF BuildScalars
    <3>2. todo[w] = Composing /\ todo'[w] = Copying
      BY <1>1, <1>4, <2>2, <3>1, FillPlaces DEF Does, BuildScalars, Done, Types
    <3>3. Built(w)'
      BY <1>1, <2>2, <3>2, ComposingKeeps
    <3>4. ~Does(w, "flag")'
      BY <3>2, Heads DEF Goes, Does
    <3> QED
      BY <1>1, <3>3, <3>4 DEF Loaded, Composed
  <2>3. CASE BuildAddrs(w)
    <3>1. Does(w, "addrs")
      BY <2>3 DEF BuildAddrs
    <3>2. todo[w] = Copying /\ Tail(todo[w]) = Sending
      BY <1>4, <3>1, FillPlaces DEF Does
    <3>3. Agrees(pkt[w])
      BY <3>1 DEF JInv, Composed, Built
    <3>4. Built(w)'
      BY <1>1, <2>3, <3>2, <3>3, CopyingKeeps
    <3>5. todo'[w] \in {Copying, Sending}
      BY <1>1, <2>3, <3>2 DEF BuildAddrs, Done, Types
    <3>6. ~Does(w, "flag")'
      BY <3>5, Heads DEF Goes, Does
    <3> QED
      BY <1>1, <3>4, <3>6 DEF Loaded, Composed
  <2> QED
    BY <2>1, <2>2, <2>3
<1>6. ~Does(w, "transmit") /\ ~Does(w, "running") /\ ~Does(w, "noop")
  BY <1>2 DEF Does
<1>7. Resent' /\ Settled' /\ Rebuilt' /\ Bears' /\ Silent' /\ Follow'
  BY <1>1, <1>3, <1>6, QuietAccess
<1> QED
  BY <1>5, <1>7 DEF JInv

\* A writer changes csi_cfg.
LEMMA StoresKeep ==
    ASSUME OneWriter, IInv, JInv, NEW w \in Writers, Access(w),
           StoreFlag(w) \/ StoreValue(w) \/ StoreNum(w) \/ StoreAddr(w)
    PROVE  JInv'
<1>1. Access(w) /\ w \in Procs /\ Types /\ Plans /\ \A v \in Writers : v = w
  BY ProcFacts DEF Access, IInv, OneWriter
<1>2. Does(w, "flag") \/ Does(w, "value") \/ Does(w, "num") \/ Does(w, "addr")
  BY DEF StoreFlag, StoreValue, StoreNum, StoreAddr
<1>3. UNCHANGED <<fwCfg, untold, refused>> /\ todo'[w] = Tail(todo[w])
  BY <1>1 DEF StoreFlag, StoreValue, StoreNum, StoreAddr, fwVars, histVars, Done, Types
<1>4. /\ todo'[Restarter] = todo[Restarter] /\ pkt'[Restarter] = pkt[Restarter]
      /\ UNCHANGED <<rtnl, fw, running, dirty, boot>>
  BY <1>1, WriterAside
<1>5. PlanOf(todo[w]) /\ todo[w] \in Seq(Ops) /\ todo[w] # << >>
  BY <1>1, <1>2 DEF Plans, Types, Does
<1>6. \/ Does(w, "flag") /\ todo[w] \in Pending /\ todo'[w] \in {Telling, Loading}
      \/ Plain(todo[w]) /\ (Does(w, "flag") => Head(todo[w])[2] # "ENABLE")
  <2>1. todo[w] \in EnablePlan => ~Does(w, "value") /\ ~Does(w, "num") /\ ~Does(w, "addr")
    BY <1>1, WriterStays
  <2>2. Does(w, "flag") => \/ todo[w] \in Pending /\ todo'[w] \in {Telling, Loading}
                           \/ Plain(todo[w]) /\ Head(todo[w])[2] # "ENABLE"
    BY <1>1, WriterStays
  <2> QED
    BY <1>2, <1>5, <2>1, <2>2 DEF PlanOf
<1>7. CASE todo[w] \in Pending /\ todo'[w] \in {Telling, Loading}
  <2>1. ~Does(w, "flag")' /\ ~Does(w, "addrs")' /\ ~Does(w, "transmit")' /\ todo'[w] # << >>
    BY <1>7, Heads DEF Goes, Does
  <2>2. Loaded' /\ Composed'
    BY <2>1, PastKeeps
  <2>3. todo'[w] \in Pending /\ todo'[w] \in Busy /\ todo'[w] \in EnablePlan
    BY <1>7 DEF Pending, Busy, EnablePlan
  <2>4. Resent'
    <3>1. todo[Restarter] \notin Resending
      BY <1>7, Alone DEF Inside
    <3> QED
      BY <1>4, <3>1 DEF Resent
  <2>5. Settled'
    BY <1>1, <2>3 DEF Settled
  <2>6. Rebuilt'
    BY <2>1 DEF Rebuilt
  <2>7. Silent' /\ Follow'
    BY <2>3 DEF Silent, Follow
  <2>8. Bears'
    BY <1>4 DEF JInv, Bears
  <2> QED
    BY <2>2, <2>4, <2>5, <2>6, <2>7, <2>8 DEF JInv
<1>8. CASE Plain(todo[w]) /\ (Does(w, "flag") => Head(todo[w])[2] # "ENABLE")
  <2>1. /\ Plain(todo'[w]) /\ todo'[w] \in Seq(Ops)
        /\ todo'[w] # << >> => Head(todo'[w])[1] # "flag"
    <3>1. Head(todo[w])[1] # "load"
      BY <1>2 DEF Does
    <3> QED
      BY <1>3, <1>5, <1>8, <3>1, PlainNext, HeadTailProperties
  <2>2. ~Does(w, "flag")' /\ ~Does(w, "addrs")' /\ ~Does(w, "transmit")'
    BY <2>1, PlainNext DEF Does
  <2>3. Loaded' /\ Composed'
    BY <2>2, PastKeeps
  <2>4. Enabled' <=> Enabled
    <3>1. CASE StoreFlag(w)
      <4>1. Does(w, "flag") /\ reg[w] = flags
        BY <3>1 DEF StoreFlag, JInv, Loaded
      <4> QED
        BY <1>8, <3>1, <4>1 DEF StoreFlag, Enabled
    <3>2. CASE StoreValue(w) \/ StoreNum(w) \/ StoreAddr(w)
      BY <3>2 DEF StoreValue, StoreNum, StoreAddr, Enabled
    <3> QED
      BY <3>1, <3>2
  <2>5. todo[w] \notin EnablePlan /\ todo[w] \notin Pending
    BY <1>8, PlainOutside DEF EnablePlan, Busy
  <2>6. dirty /\ dirty'
    BY <1>4, <1>5, <2>5 DEF JInv, Settled
  <2>7. Resent' /\ Bears'
    BY <1>4, <2>4 DEF JInv, Resent, Bears
  <2>8. Settled' /\ Rebuilt'
    BY <2>6 DEF Settled, Rebuilt
  <2>10. Follow'
    <3>1. todo[w] \notin Busy
      BY <2>5 DEF EnablePlan
    <3> QED
      BY <1>1, <1>3, <1>4, <2>4, <2>6, <3>1 DEF JInv, Follow
  <2>9. Silent'
    BY <1>1, <1>3, <1>4, <2>4, <2>5 DEF JInv, Silent
  <2> QED
    BY <2>3, <2>7, <2>8, <2>9, <2>10 DEF JInv
<1> QED
  BY <1>6, <1>7, <1>8

\* A command leaves with the flags it was filled with.
LEMMA SentFlags ==
    ASSUME Types, NEW p \in Procs
    PROVE  Packed(pkt[p]).flags = pkt[p].flags
<1>1. pkt[p] \in Partial
  BY DEF Types
<1> QED
  BY <1>1 DEF Packed, Partial

\* A writer sends the command.
LEMMA WriterSends ==
    ASSUME OneWriter, IInv, JInv, NEW w \in Writers, Access(w), Transmit(w)
    PROVE  JInv'
<1>1. Access(w) /\ w \in Procs /\ Types /\ Plans /\ \A v \in Writers : v = w
  BY ProcFacts DEF Access, IInv, OneWriter
<1>2. Does(w, "transmit") /\ flags' = flags /\ value' = value /\ num' = num /\ addrs' = addrs
  BY DEF Transmit, cfgVars
<1>3. fw # "alive" \/ fwCfg' = Packed(pkt[w]) \/ refused'
  BY DEF Transmit
<1>4. /\ todo'[Restarter] = todo[Restarter] /\ pkt'[Restarter] = pkt[Restarter]
      /\ UNCHANGED <<rtnl, fw, running, dirty, boot>>
  BY <1>1, WriterAside
<1>5. PlanOf(todo[w]) /\ todo[w] \in Seq(Ops) /\ todo[w] # << >>
  BY <1>1, <1>2 DEF Plans, Types, Does
<1>6. todo[w] = Sending /\ todo'[w] = Unlocking
  BY <1>1, <1>2, <1>5, FillPlaces DEF Does, Transmit, Done, Types
<1>7. Agrees(pkt[w]) /\ Len(pkt[w].addrs) = num
  BY <1>2 DEF JInv, Composed, Built
<1>8. Packed(pkt[w]) = Current /\ Packed(pkt[w]).flags = flags
  BY <1>1, <1>7, PackedCurrent, SentFlags DEF Agrees
<1>9. (Enabled' <=> Enabled) /\ Current' = Current
  BY <1>2 DEF Enabled, Current
<1>10. ~Does(w, "flag")' /\ ~Does(w, "addrs")' /\ ~Does(w, "transmit")' /\ todo'[w] # << >>
  BY <1>6, Heads DEF Goes, Does
<1>11. Loaded' /\ Composed'
  BY <1>10, PastKeeps
<1>12. Resent' /\ Bears'
  BY <1>4, <1>9 DEF JInv, Resent, Bears
<1>13. Settled' /\ Rebuilt'
  BY <1>1, <1>6, <1>10 DEF Settled, Rebuilt, EnablePlan
<1>14. Silent'
  BY <1>2, <1>3, <1>4, <1>8, <1>9 DEF Silent, Enabled
<1>15. Follow'
  BY <1>2, <1>3, <1>4, <1>8, <1>9 DEF Follow, Enabled
<1> QED
  BY <1>11, <1>12, <1>13, <1>14, <1>15 DEF JInv

\* An access of the writer keeps the second invariant.
LEMMA WriterKeeps ==
    ASSUME OneWriter, IInv, JInv, NEW w \in Writers, Access(w)
    PROVE  JInv'
BY TestsKeep, FillsKeep, StoresKeep, WriterSends DEF Access

\* An access of the restart work keeps the second invariant.
LEMMA RestarterKeeps ==
    ASSUME OneWriter, IInv, JInv, Access(Restarter)
    PROVE  JInv'
<1> DEFINE r == Restarter
<1>1. Types /\ Plans /\ Restarts /\ r \in Procs /\ \A w \in Writers : w \in Procs /\ w # r
  BY ProcFacts DEF IInv
<1>2. Aside(r) /\ Advances(r)
  BY <1>1, AccessTypes, Advancing
<1>3. /\ todo[r] \in RestartPlan /\ todo[r] # << >> /\ todo[r] \in Seq(Ops) /\ rtnl = "restart"
  BY <1>1, <1>2, RestartPlaces DEF Restarts, Advances
<1>4. Does(r, "lock") \/ Does(r, "unlock") \/ Does(r, "scalars") \/ Does(r, "addrs")
      \/ Does(r, "transmit")
  <2>1. Head(todo[r])[1] \in {"start", "lock", "complete", "scalars", "addrs", "transmit", "unlock"}
    BY <1>3, RestartPlaces
  <2> QED
    BY <1>2, <2>1 DEF Advances, Does
<1>5. Lock(r) \/ Unlock(r) \/ BuildScalars(r) \/ BuildAddrs(r) \/ Transmit(r)
  BY <1>4 DEF Access, Load, StoreFlag, StoreValue, StoreNum, StoreAddr, TestNoop, TestRunning, Does
<1>6. /\ flags' = flags /\ value' = value /\ num' = num /\ addrs' = addrs
      /\ UNCHANGED <<fw, dirty, boot>> /\ (rtnl' = "stop" <=> rtnl = "stop")
  <2>1. UNCHANGED cfgVars
    BY <1>5 DEF Lock, Unlock, BuildScalars, BuildAddrs, Transmit
  <2> QED
    BY <1>2, <1>3, <2>1 DEF cfgVars, Aside
<1>7. Loaded' /\ Composed' /\ Settled'
  <2>1. Apart
    BY <1>1, <1>2, <1>6 DEF Apart, Aside, cfgVars
  <2> QED
    BY <2>1, ApartKeeps DEF JInv
<1>8. (Enabled' <=> Enabled) /\ Current' = Current
  BY <1>6 DEF Enabled, Current
<1>9. \A w \in Writers : todo'[w] = todo[w]
  BY <1>1, <1>2 DEF Aside
<1>10. /\ Does(r, "lock") => todo[r] = Waking /\ todo'[r] = Completing
       /\ Does(r, "unlock") => todo[r] = Unlocking /\ todo'[r] = << >>
       /\ Does(r, "scalars") => todo[r] = Composing /\ todo'[r] = Copying
       /\ Does(r, "addrs") => todo[r] = Copying /\ todo'[r] \in {Copying, Sending}
       /\ Does(r, "transmit") => todo[r] = Sending /\ todo'[r] = Unlocking
  <2>1. CASE Does(r, "lock") \/ Does(r, "unlock")
    BY <1>2, <1>3, <2>1, RestartPlaces DEF Advances, Does
  <2>2. CASE Does(r, "scalars") \/ Does(r, "addrs") \/ Does(r, "transmit")
    BY <1>2, <1>3, <2>2, RestartPlaces DEF Advances, Does
  <2> QED
    BY <1>4, <2>1, <2>2 DEF Does
<1>11. /\ Completing \notin Resending /\ Unlocking \notin Resending /\ << >> \notin Resending
       /\ Unlocking \notin Reviving
  BY Heads DEF Goes, Resending, Reviving
<1>12. Resent'
  <2>1. todo'[r] \in Resending => todo[r] \in Resending
    BY <1>4, <1>10, <1>11 DEF Resending
  <2> QED
    BY <1>8, <2>1 DEF JInv, Resent
<1>13. Rebuilt'
  <2> SUFFICES ASSUME ~dirty, \A w \in Writers : todo[w] = << >> PROVE Built(r)'
    BY <1>6, <1>9 DEF Rebuilt
  <2>1. Built(r)
    BY DEF JInv, Rebuilt
  <2>2. CASE BuildScalars(r)
    <3>1. todo[r] = Composing
      BY <1>10, <2>2 DEF BuildScalars
    <3> QED
      BY <1>1, <2>2, <3>1, ComposingKeeps
  <2>3. CASE BuildAddrs(r)
    <3>1. Does(r, "addrs") /\ todo[r] = Copying
      BY <1>10, <2>3 DEF BuildAddrs
    <3> QED
      BY <1>1, <2>1, <2>3, <3>1, CopyingKeeps DEF Built
  <2>4. CASE Lock(r) \/ Unlock(r) \/ Transmit(r)
    <3>1. todo'[r] \in {Completing, Unlocking, << >>}
      BY <1>10, <2>4 DEF Lock, Unlock, Transmit
    <3> QED
      BY <3>1, Heads DEF Goes, Built, Does
  <2> QED
    BY <1>5, <2>2, <2>3, <2>4
<1>16. Bears'
  <2>1. CASE BuildScalars(r)
    <3>1. todo[r] = Composing /\ Composing \in Resending
      BY <1>10, <2>1 DEF BuildScalars, Resending
    <3>2. pkt'[r].flags = flags
      BY <1>1, <2>1 DEF BuildScalars, Types
    <3> QED
      BY <3>1, <3>2 DEF JInv, Resent, Enabled, Bears
  <2>2. CASE BuildAddrs(r)
    <3>1. todo[r] = Copying
      BY <1>10, <2>2 DEF BuildAddrs
    <3>2. pkt[r] \in Partial
      BY <1>1 DEF Types
    <3>3. pkt'[r].flags = pkt[r].flags
      BY <1>1, <2>2, <3>2 DEF BuildAddrs, Types, Partial
    <3> QED
      BY <3>1, <3>3 DEF JInv, Bears
  <2>3. CASE Lock(r) \/ Unlock(r) \/ Transmit(r)
    <3>1. todo'[r] \in {Completing, Unlocking, << >>}
      BY <1>10, <2>3 DEF Lock, Unlock, Transmit
    <3>2. Copying \notin {Completing, Unlocking, << >>} /\ Sending \notin {Completing, Unlocking, << >>}
      BY Heads DEF Goes
    <3> QED
      BY <3>1, <3>2 DEF Bears
  <2> QED
    BY <1>5, <2>1, <2>2, <2>3
<1>14. CASE Transmit(r)
  <2>1. todo[r] = Sending /\ todo[r] \in Resending /\ Does(r, "transmit")
    BY <1>10, <1>14 DEF Transmit, Resending
  <2>2. Enabled
    BY <2>1 DEF JInv, Resent
  <2>3. Silent'
    BY <1>8, <2>2 DEF Silent
  <2>4. Follow'
    <3> SUFFICES ASSUME fw = "alive", ~refused', \A w \in Writers : todo[w] \notin Busy
                 PROVE  "ENABLE" \in fwCfg'.flags /\ (~dirty => fwCfg' = Current)
      BY <1>6, <1>8, <1>9 DEF Follow
    <3>3. fwCfg' = Packed(pkt[r])
      BY <1>14 DEF Transmit
    <3>4. "ENABLE" \in fwCfg'.flags
      BY <1>1, <2>1, <3>3, SentFlags DEF JInv, Bears
    <3> SUFFICES ASSUME ~dirty PROVE fwCfg' = Current
      BY <3>4
    <3>1. \A w \in Writers : todo[w] = << >>
      <4>1. ASSUME NEW w \in Writers PROVE todo[w] = << >>
        <5>1. todo[w] \in {Unlocking, << >>}
          BY DEF JInv, Settled, EnablePlan
        <5>2. todo[w] # Unlocking
          BY <2>1, Alone DEF Inside
        <5> QED
          BY <5>1, <5>2
      <4> QED
        BY <4>1
    <3>2. Agrees(pkt[r]) /\ Len(pkt[r].addrs) = num
      BY <2>1, <3>1 DEF JInv, Rebuilt, Built
    <3> QED
      BY <1>1, <3>2, <3>3, PackedCurrent
  <2> QED
    BY <1>7, <1>12, <1>13, <1>16, <2>3, <2>4 DEF JInv
<1>15. CASE Lock(r) \/ Unlock(r) \/ BuildScalars(r) \/ BuildAddrs(r)
  <2>1. UNCHANGED <<fwCfg, untold, refused>>
    BY <1>15 DEF Lock, Unlock, BuildScalars, BuildAddrs, fwVars, histVars
  <2>2. Silent'
    BY <1>6, <1>8, <1>9, <2>1 DEF JInv, Silent
  <2>3. todo[r] \in Reviving => todo'[r] \in Reviving
    <3>1. CASE Unlock(r)
      BY <1>10, <1>11, <3>1 DEF Unlock
    <3>2. CASE Lock(r) \/ BuildScalars(r) \/ BuildAddrs(r)
      BY <1>10, <3>2 DEF Lock, BuildScalars, BuildAddrs, Reviving, Resending
    <3> QED
      BY <1>15, <3>1, <3>2
  <2>4. Follow'
    BY <1>6, <1>8, <1>9, <2>1, <2>3 DEF JInv, Follow
  <2> QED
    BY <1>7, <1>12, <1>13, <1>16, <2>2, <2>4 DEF JInv
<1> QED
  BY <1>5, <1>14, <1>15

\* A write that begins keeps the second invariant.
LEMMA WritesKeepOne ==
    ASSUME OneWriter, IInv, JInv, NEW w \in Writers,
           WriteLimit(w) \/ WriteAddresses(w) \/ WriteEnabled(w)
    PROVE  JInv'
<1> USE DEF statusVars, fwVars, ifVars, cfgVars
<1>1. Types /\ w \in Procs /\ w # Restarter /\ \A v \in Writers : v = w
  BY ProcFacts DEF IInv, OneWriter
<1>2. PICK q : /\ Call(w, q) /\ q \in Seq(Ops) /\ q # << >>
              /\ \/ Plain(q) /\ Opening(q) /\ dirty' = TRUE
                 \/ q \in {Testing(TRUE), Testing(FALSE)} /\ dirty' = FALSE
  <2>1. CASE WriteLimit(w) \/ WriteAddresses(w)
    BY <2>1, FirstPlans
  <2>2. CASE WriteEnabled(w)
    <3>1. PICK q \in {Testing(TRUE), Testing(FALSE)} : Call(w, q) /\ dirty' = FALSE
      BY <2>2, FirstPlans
    <3>2. q \in Seq(Ops) /\ q # << >>
      BY Heads DEF Goes
    <3> QED
      BY <3>1, <3>2
  <2> QED
    BY <2>1, <2>2
<1>3. /\ todo[w] = << >> /\ todo'[w] = q /\ todo'[Restarter] = todo[Restarter]
      /\ pkt' = pkt
  BY <1>1, <1>2, ProcFacts DEF Call, Types
<1>4. UNCHANGED <<flags, value, num, addrs, fw, fwCfg, rtnl, untold, refused, boot>>
  BY <1>2 DEF Call
<1>5. (Enabled' <=> Enabled) /\ Current' = Current
  BY <1>4 DEF Enabled, Current
<1>6. ~Does(w, "flag")' /\ ~Does(w, "addrs")' /\ ~Does(w, "transmit")'
  <2>1. CASE Plain(q) /\ Opening(q)
    <3>1. Head(q)[1] # "flag" /\ Head(q)[1] \in {"load", "flag", "value", "num", "addr"}
      BY <1>2, <2>1, PlainNext DEF Opening
    <3> QED
      BY <1>3, <3>1 DEF Does
  <2>2. CASE q \in {Testing(TRUE), Testing(FALSE)}
    BY <1>3, <2>2, Heads DEF Goes, Does
  <2> QED
    BY <1>2, <2>1, <2>2
<1>7. Loaded' /\ Composed'
  BY <1>6, PastKeeps
<1>8. Resent' /\ Bears'
  BY <1>3, <1>5 DEF JInv, Resent, Bears
<1>9. << >> \notin Pending /\ << >> \notin Busy
  BY Heads DEF Goes, Pending, Busy
<1>10. Silent'
  BY <1>1, <1>3, <1>4, <1>5, <1>9 DEF JInv, Silent
<1>11. Rebuilt'
  BY <1>2, <1>3 DEF Rebuilt
<1>12. Settled' /\ Follow'
  <2>1. CASE dirty'
    <3>1. Follow'
      BY <1>1, <1>3, <1>4, <1>5, <1>9, <2>1 DEF JInv, Follow
    <3> QED
      BY <2>1, <3>1 DEF Settled
  <2>2. CASE ~dirty'
    <3>1. todo'[w] \in Busy /\ todo'[w] \in EnablePlan
      BY <1>2, <1>3, <2>2 DEF Busy, EnablePlan
    <3> QED
      BY <1>1, <3>1 DEF Settled, Follow
  <2> QED
    BY <2>1, <2>2
<1> QED
  BY <1>7, <1>8, <1>10, <1>11, <1>12 DEF JInv

\* What is said of the restart work remains true if it stays where it is.
LEMMA RestarterStill ==
    ASSUME Resent, Rebuilt, Bears, Apart, todo'[Restarter] = todo[Restarter],
           pkt'[Restarter] = pkt[Restarter]
    PROVE  Resent' /\ Rebuilt' /\ Bears'
<1> USE DEF Apart, cfgVars
<1>1. Resent' /\ Bears'
  BY DEF Resent, Enabled, Bears
<1>2. Rebuilt'
  BY DEF Rebuilt, Built, Agrees, Does
<1> QED
  BY <1>1, <1>2

\* What the device does without a handler keeps the second invariant.
LEMMA DeviceKeepsOne ==
    ASSUME IInv, JInv, InterfaceUp \/ InterfaceDown \/ StopDevice \/ NicError
    PROVE  JInv'
<1> USE DEF statusVars, fwVars, ifVars, cfgVars, procVars, histVars
<1>1. UNCHANGED <<cfgVars, procVars, dirty>>
  BY DEF InterfaceUp, InterfaceDown, StopDevice, NicError
<1>2. Apart
  BY <1>1 DEF Apart
<1>3. Loaded' /\ Composed' /\ Settled' /\ Resent' /\ Rebuilt' /\ Bears'
  BY <1>1, <1>2, ApartKeeps, RestarterStill DEF JInv
<1>4. CASE InterfaceUp
  <2>1. /\ UNCHANGED <<fw, fwCfg, refused>> /\ boot' = "convert" /\ rtnl = "free"
    BY <1>4 DEF InterfaceUp, BeginStart
  <2>2. Silent'
    BY <1>1, <2>1 DEF JInv, Silent, Enabled
  <2>3. Follow'
    BY <2>1 DEF Follow
  <2> QED
    BY <1>3, <2>2, <2>3 DEF JInv
<1>5. CASE InterfaceDown
  <2>1. rtnl' = "stop"
    BY <1>5 DEF InterfaceDown
  <2>2. Silent' /\ Follow'
    BY <2>1 DEF Silent, Follow
  <2> QED
    BY <1>3, <2>2 DEF JInv
<1>6. CASE StopDevice \/ NicError
  <2>1. fw' # "alive"
    BY <1>6 DEF StopDevice, FwDown, NicError
  <2>2. Silent' /\ Follow'
    BY <2>1 DEF Silent, Follow
  <2> QED
    BY <1>3, <2>2 DEF JInv
<1> QED
  BY <1>4, <1>5, <1>6

\* The thread of an error changes nothing that the second invariant speaks of.
LEMMA NicKeepsOne ==
    ASSUME JInv, NEW p \in Threads, NicStep(p)
    PROVE  JInv'
<1>1. UNCHANGED <<cfgVars, procVars, boot, fwVars, rtnl, histVars>>
  BY DEF NicStep, NicTestRunning, NicTestStarting, NicTestInRestart, NicTestRequested,
         NicSetRequested, NicAskRestart, NicLeaves
<1> QED
  BY <1>1 DEF cfgVars, procVars, fwVars, histVars, JInv, Loaded, Composed, Resent, Settled,
              Rebuilt, Bears, Silent, Follow, Built, Agrees, Does, Enabled, Current

\* The restart work has gone on to plan c, which does not fill a command.
LEMMA RestarterPasses ==
    ASSUME Types, JInv, NEW c \in {Starting, Waking, Composing, Unlocking, << >>},
           todo' = [todo EXCEPT ![Restarter] = c], UNCHANGED <<cfgVars, reg, pkt, dirty>>,
           c = Composing => Enabled
    PROVE  /\ Loaded' /\ Composed' /\ Settled' /\ Resent' /\ Rebuilt' /\ Bears'
           /\ todo'[Restarter] = c /\ \A w \in Writers : todo'[w] = todo[w]
           /\ (Enabled' <=> Enabled) /\ Current' = Current
<1> USE DEF cfgVars
<1> DEFINE r == Restarter
<1>1. r \in Procs /\ \A w \in Writers : w \in Procs /\ w # r
  BY ProcFacts
<1>2. todo'[r] = c /\ \A w \in Writers : todo'[w] = todo[w]
  BY <1>1 DEF Types
<1>3. Apart
  BY <1>2 DEF Apart
<1>4. Loaded' /\ Composed' /\ Settled'
  BY <1>3, ApartKeeps DEF JInv
<1>5. (Enabled' <=> Enabled) /\ Current' = Current
  BY DEF Enabled, Current
<1>6. ~Does(r, "addrs")' /\ ~Does(r, "transmit")'
  BY <1>2, Heads DEF Goes, Does
<1>7. Rebuilt'
  BY <1>6 DEF Rebuilt, Built
<1>8. Resent'
  <2>1. c # Composing => c \notin Resending
    BY Heads DEF Goes, Resending
  <2> QED
    BY <1>2, <1>5, <2>1 DEF Resent
<1>9. Bears'
  <2>1. c # Copying /\ c # Sending
    BY Heads DEF Goes
  <2> QED
    BY <1>2, <2>1 DEF Bears
<1> QED
  BY <1>2, <1>4, <1>5, <1>7, <1>8, <1>9

\* The steps of the restart work keep the second invariant.
LEMMA RestartKeepsOne ==
    ASSUME IInv, JInv, BeginRestart \/ RestartComplete
    PROVE  JInv'
<1> USE DEF statusVars, fwVars, ifVars, cfgVars, histVars
<1> DEFINE r == Restarter
<1>1. Types /\ Restarts /\ r \in Procs
  BY ProcFacts DEF IInv
<1>2. UNCHANGED <<cfgVars, reg, pkt, dirty, untold, refused, fw, fwCfg, boot>>
  BY DEF BeginRestart, RestartComplete
<1>3. CASE BeginRestart
  <2>1. rtnl = "free" /\ rtnl' # "stop" /\ todo[r] = << >>
    BY <1>1, <1>3 DEF BeginRestart, Restarts
  <2>2. PICK c \in {Starting, << >>} : todo' = [todo EXCEPT ![r] = c]
    <3>1. todo = [todo EXCEPT ![r] = << >>]
      BY <1>1, <2>1 DEF Types
    <3> QED
      BY <1>3, <3>1, PlansAsWritten DEF BeginRestart
  <2>3. Composing \notin {Starting, << >>} /\ << >> \notin Reviving
    BY Heads DEF Goes, Reviving, Resending
  <2>4. /\ Loaded' /\ Composed' /\ Settled' /\ Resent' /\ Rebuilt' /\ Bears'
        /\ \A w \in Writers : todo'[w] = todo[w]
        /\ (Enabled' <=> Enabled) /\ Current' = Current
    BY <1>1, <1>2, <2>2, <2>3, RestarterPasses
  <2>5. Silent'
    BY <1>2, <2>1, <2>4 DEF JInv, Silent
  <2>6. Follow'
    BY <1>2, <2>1, <2>3, <2>4 DEF JInv, Follow
  <2> QED
    BY <2>4, <2>5, <2>6 DEF JInv
<1>4. CASE RestartComplete
  <2>1. rtnl' = rtnl
    BY <1>4 DEF RestartComplete
  <2>2. todo' = [todo EXCEPT ![r] = IF Enabled THEN Composing ELSE Unlocking]
    BY <1>4, PlansAsWritten DEF RestartComplete, Skip, Enabled
  <2>3. PICK c \in {Composing, Unlocking} : /\ todo' = [todo EXCEPT ![r] = c]
                                           /\ c = IF Enabled THEN Composing ELSE Unlocking
    BY <2>2
  <2>4. Composing # Unlocking /\ Composing \in Reviving
    BY Heads DEF Goes, Reviving, Resending
  <2>5. /\ Loaded' /\ Composed' /\ Settled' /\ Resent' /\ Rebuilt' /\ Bears'
        /\ todo'[r] = c /\ \A w \in Writers : todo'[w] = todo[w]
        /\ (Enabled' <=> Enabled) /\ Current' = Current
    BY <1>1, <1>2, <2>3, <2>4, RestarterPasses
  <2>6. Silent'
    BY <1>2, <2>1, <2>5 DEF JInv, Silent
  <2>7. Follow'
    BY <2>3, <2>4, <2>5 DEF Follow
  <2> QED
    BY <2>5, <2>6, <2>7 DEF JInv
<1> QED
  BY <1>3, <1>4

\* The start of the device keeps the second invariant.
LEMMA StartKeepsOne ==
    ASSUME IInv, JInv, RestartDevice \/ ConvertRequest \/ LoadFirmware \/ FinishStart
                       \/ RetryStart \/ StartFails
    PROVE  JInv'
<1> USE DEF statusVars, fwVars, ifVars, cfgVars, procVars, histVars
<1> DEFINE r == Restarter
<1>1. Types /\ Restarts /\ r \in Procs
  BY ProcFacts DEF IInv
<1>2. ASSUME UNCHANGED <<cfgVars, procVars, dirty>>
      PROVE  Loaded' /\ Composed' /\ Settled' /\ Resent' /\ Rebuilt' /\ Bears'
  <2>1. Apart
    BY <1>2 DEF Apart
  <2> QED
    BY <1>2, <2>1, ApartKeeps, RestarterStill DEF JInv
<1>3. CASE RestartDevice
  <2>1. /\ UNCHANGED <<cfgVars, procVars, histVars, fw, fwCfg, rtnl>> /\ boot' = "convert"
    BY <1>3 DEF RestartDevice, BeginStart
  <2>2. Silent'
    BY <2>1 DEF JInv, Silent, Enabled
  <2>3. Follow'
    BY <2>1 DEF Follow
  <2> QED
    BY <1>2, <2>1, <2>2, <2>3 DEF JInv
<1>4. CASE ConvertRequest \/ RetryStart
  <2>1. UNCHANGED <<cfgVars, procVars, dirty>> /\ fw' = "off"
    BY <1>4 DEF ConvertRequest, RetryStart, FwDown
  <2>2. Silent' /\ Follow'
    BY <2>1 DEF Silent, Follow
  <2> QED
    BY <1>2, <2>1, <2>2 DEF JInv
<1>5. CASE LoadFirmware
  <2>1. UNCHANGED <<cfgVars, procVars, dirty>> /\ fwCfg' = NoCmd /\ boot' = "finish"
    BY <1>5 DEF LoadFirmware
  <2>2. "ENABLE" \notin fwCfg'.flags
    BY <2>1 DEF NoCmd
  <2>3. Silent' /\ Follow'
    BY <2>1, <2>2 DEF Silent, Follow
  <2> QED
    BY <1>2, <2>1, <2>3 DEF JInv
<1>6. CASE FinishStart
  <2>1. /\ UNCHANGED <<cfgVars, reg, pkt, fw, fwCfg, dirty, refused>>
        /\ \/ rtnl = "open" /\ rtnl' = "free" /\ untold' = TRUE /\ todo' = todo
           \/ rtnl = "restart" /\ rtnl' = rtnl /\ todo' = [todo EXCEPT ![r] = Waking]
    BY <1>6, PlansAsWritten DEF FinishStart
  <2>2. CASE untold' = TRUE /\ todo' = todo
    <3>1. Loaded' /\ Composed' /\ Settled' /\ Resent' /\ Rebuilt' /\ Bears'
      BY <1>2, <2>1, <2>2
    <3>2. Silent'
      BY <2>1, <2>2 DEF JInv, Silent, Enabled
    <3>3. Follow'
      BY <2>2 DEF Follow
    <3> QED
      BY <3>1, <3>2, <3>3 DEF JInv
  <2>3. CASE rtnl' = rtnl /\ todo' = [todo EXCEPT ![r] = Waking]
    <3>1. Waking # Composing /\ Waking \in Reviving
      BY Heads DEF Goes, Reviving
    <3>2. /\ Loaded' /\ Composed' /\ Settled' /\ Resent' /\ Rebuilt' /\ Bears'
          /\ todo'[r] = Waking /\ \A w \in Writers : todo'[w] = todo[w]
          /\ (Enabled' <=> Enabled)
      BY <1>1, <2>1, <2>3, <3>1, RestarterPasses
    <3>3. Silent'
      BY <2>1, <2>3, <3>2 DEF JInv, Silent
    <3>4. Follow'
      BY <3>1, <3>2 DEF Follow
    <3> QED
      BY <3>2, <3>3, <3>4 DEF JInv
  <2> QED
    BY <2>1, <2>2, <2>3
<1>7. CASE StartFails
  <2>1. /\ todo' = [todo EXCEPT ![r] = << >>] /\ fw' = "off"
        /\ UNCHANGED <<cfgVars, reg, pkt, dirty>>
    BY <1>7 DEF StartFails, FwDown, EndStart
  <2>2. << >> # Composing
    BY Heads DEF Goes
  <2>3. Loaded' /\ Composed' /\ Settled' /\ Resent' /\ Rebuilt' /\ Bears'
    BY <1>1, <2>1, <2>2, RestarterPasses
  <2>4. Silent' /\ Follow'
    BY <2>1 DEF Silent, Follow
  <2> QED
    BY <2>3, <2>4 DEF JInv
<1> QED
  BY <1>3, <1>4, <1>5, <1>6, <1>7

\* With no handler and no firmware there is nothing to say.
LEMMA NothingGoing ==
    ASSUME \A p \in Procs : todo[p] = << >>, fw = "off"
    PROVE  JInv
<1>1. todo[Restarter] = << >> /\ \A w \in Writers : todo[w] = << >>
  BY ProcFacts
<1>2. << >> \notin Resending
  BY Heads DEF Goes, Resending
<1>5. << >> # Copying /\ << >> # Sending
  BY Heads DEF Goes
<1>3. Loaded /\ Composed /\ Settled /\ Rebuilt
  BY <1>1 DEF Loaded, Composed, Settled, Rebuilt, Built, Does
<1>4. Resent /\ Bears /\ Silent /\ Follow
  BY <1>1, <1>2, <1>5 DEF Resent, Bears, Silent, Follow
<1> QED
  BY <1>3, <1>4 DEF JInv

\* A new probe of the device keeps the second invariant.
LEMMA ReprobeKeepsOne ==
    ASSUME IInv, JInv, Reprobe
    PROVE  JInv'
<1>1. fw' = "off" /\ \A p \in Procs : todo'[p] = << >>
  BY DEF Reprobe, Quiet, NewDevice, procVars
<1>6. << >> # Copying /\ << >> # Sending
  BY Heads DEF Goes
<1>2. todo'[Restarter] = << >> /\ \A w \in Writers : todo'[w] = << >>
  BY <1>1, ProcFacts
<1>3. << >> \notin Resending
  BY Heads DEF Goes, Resending
<1>4. Loaded' /\ Composed' /\ Settled' /\ Rebuilt'
  BY <1>2 DEF Loaded, Composed, Settled, Rebuilt, Built, Does
<1>5. Resent' /\ Bears' /\ Silent' /\ Follow'
  BY <1>1, <1>2, <1>3, <1>6 DEF Resent, Bears, Silent, Follow
<1> QED
  BY <1>4, <1>5 DEF JInv

\* With a single writer the second invariant holds at first ...
LEMMA InitOne == Init => JInv
<1> SUFFICES ASSUME Init PROVE JInv
  OBVIOUS
<1>1. fw = "off" /\ \A p \in Procs : todo[p] = << >>
  BY DEF Init
<1> QED
  BY <1>1, NothingGoing

\* ... and every step keeps it.
LEMMA StepOne ==
    ASSUME OneWriter
    PROVE  IInv /\ JInv /\ [Next]_vars => JInv'
<1> SUFFICES ASSUME IInv, JInv, [Next]_vars PROVE JInv'
  OBVIOUS
<1>1. CASE UNCHANGED vars
  BY <1>1 DEF vars, cfgVars, procVars, fwVars, ifVars, histVars, JInv, Loaded, Composed, Resent,
              Settled, Rebuilt, Bears, Silent, Follow, Built, Agrees, Does, Enabled, Current
<1>2. CASE \E w \in Writers : WriteLimit(w) \/ WriteAddresses(w) \/ WriteEnabled(w)
  BY <1>2, WritesKeepOne
<1>3. CASE \E p \in Procs : Access(p)
  BY <1>3, WriterKeeps, RestarterKeeps, ProcFacts
<1>4. CASE InterfaceUp \/ InterfaceDown \/ StopDevice \/ NicError
  BY <1>4, DeviceKeepsOne
<1>5. CASE BeginRestart \/ RestartComplete
  BY <1>5, RestartKeepsOne
<1>6. CASE Reprobe
  BY <1>6, ReprobeKeepsOne
<1>7. CASE \E p \in Threads : NicStep(p)
  BY <1>7, NicKeepsOne
<1>8. CASE RestartDevice \/ ConvertRequest \/ LoadFirmware \/ FinishStart \/ RetryStart
           \/ StartFails
  BY <1>8, StartKeepsOne
<1> QED
  BY <1>1, <1>2, <1>3, <1>4, <1>5, <1>6, <1>7, <1>8 DEF Next

\* With a single writer both invariants hold in every reachable state.
THEOREM InvarianceOne ==
    ASSUME OneWriter
    PROVE  Spec => [](IInv /\ JInv)
<1>1. Init => IInv /\ JInv
  BY InitInv, InitOne
<1>2. IInv /\ JInv /\ [Next]_vars => (IInv /\ JInv)'
  BY StepInv, StepOne
<1> QED
  BY <1>1, <1>2, PTL DEF Spec

\* With a single writer the firmware does not measure when csi_enabled reads 0 and nothing
\* is under way, unless the driver could not send the last command: the write that clears it
\* is never cut short of the command while firmware is alive and stays so, and the restart
\* work never turns measuring on again after it (iwl_dbgfs_csi_enabled_write,
\* iwl_mvm_restart_complete).
THEOREM DisabledStaysSilent ==
    ASSUME OneWriter
    PROVE  Spec => []DisabledIsSilent
<1>1. IInv /\ JInv => DisabledIsSilent
  <2>1. << >> \notin Pending
    BY Heads DEF Goes, Pending
  <2> QED
    BY <2>1, ProcFacts DEF JInv, Silent, DisabledIsSilent, Quiet, Measuring
<1> QED
  BY <1>1, InvarianceOne, PTL

\* With a single writer the firmware measures when nothing is under way and csi_enabled is
\* set, and has exactly the configuration of the files if its last write came after those of
\* the settings, also after any number of restarts, unless the interface has come up or the
\* driver could not send the last command (iwl_mvm_send_csi_cmd, iwl_mvm_restart_complete).
THEOREM FirmwareInStep ==
    ASSUME OneWriter
    PROVE  Spec => []FirmwareFollows
<1>1. IInv /\ JInv => FirmwareFollows
  <2> SUFFICES ASSUME IInv, JInv, Quiet PROVE FirmwareFollows
    BY DEF FirmwareFollows
  <2>1. << >> \notin Busy /\ << >> \notin Reviving /\ << >> # Starting
    BY Heads DEF Goes, Busy, Pending, Reviving, Resending
  <2>2. /\ rtnl = "free" /\ todo[Restarter] = << >> /\ \A w \in Writers : todo[w] = << >>
    BY ProcFacts DEF Quiet
  <2>3. boot = "idle"
    BY <2>1, <2>2 DEF IInv, Restarts
  <2> QED
    BY <2>1, <2>2, <2>3 DEF JInv, Follow, FirmwareFollows
<1> QED
  BY <1>1, InvarianceOne, PTL
=============================================================================
