----------------------------- MODULE ReportQueue -----------------------------
(***************************************************************************)
(* What the connector promises to the two sides of it: a bounded FIFO of   *)
(* reports.  A report is accepted at most once, only while fewer than      *)
(* Capacity reports wait, and the accepted ones are delivered in order.    *)
(* Reports that are not accepted are dropped and leave no trace here.      *)
(***************************************************************************)
EXTENDS Integers, Sequences

CONSTANTS Reports, Capacity

VARIABLES
    queue,      \* the reports accepted and not delivered yet
    delivered   \* the reports delivered, in order

qvars == <<queue, delivered>>

Elements(s) == {s[k] : k \in 1 .. Len(s)}

QInit ==
    /\ queue = << >>
    /\ delivered = << >>

Accept(r) ==
    /\ Len(queue) < Capacity
    /\ r \notin Elements(queue) \cup Elements(delivered)
    /\ queue' = Append(queue, r)
    /\ UNCHANGED delivered

Deliver ==
    /\ queue # << >>
    /\ delivered' = Append(delivered, Head(queue))
    /\ queue' = Tail(queue)

QNext == Deliver \/ \E r \in Reports : Accept(r)

QSpec == QInit /\ [][QNext]_qvars
=============================================================================
