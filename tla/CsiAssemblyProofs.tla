------------------------- MODULE CsiAssemblyProofs -------------------------
(***************************************************************************)
(* Machine-checked proofs about the assembly of AX CSI events, for every   *)
(* number of chunks, every width of the chunk fields, any clients, and any *)
(* number of measurements, lost notifications and restarts.                *)
(*                                                                         *)
(* Both the page references and the order of the events rest on the order  *)
(* in which the firmware sends notifications: a page that waits in one of  *)
(* the lists is younger than every page that is in csi_data_entries, was   *)
(* left behind by an op mode, or gave its header to an event.  So no page  *)
(* is held twice, which makes freeing sets of pages exact.                 *)
(*                                                                         *)
(* The second half is about losses.  It sees the lists and the slots as    *)
(* two sets of notifications, W that wait and E that are kept, and follows *)
(* through every step which measurement has lost its end (no other one can *)
(* get mixed) and which measurements will still be completed (a fault or a *)
(* restart takes at most two of them off that track).                      *)
(***************************************************************************)
EXTENDS CsiAssembly, FiniteSetTheorems, SequenceTheorems, WellFoundedInduction, TLAPS

\* Pages are numbered by measurement and place in it; this is the order of sending.
Before(p, q) == p[1] < q[1] \/ (p[1] = q[1] /\ p[2] < q[2])

\* The page the firmware sends next; every page sent is before it.
FwPage == <<fw.meas, fw.next>>

\* The pages of a list of notifications.
SeqPages(s) == {PageOf(s[i]) : i \in 1 .. Len(s)}

\* The pages of the headers that events were made from.
EventPages == {<<events[k].hdr, 0>> : k \in 1 .. Len(events)}

\* A list in the order of sending.
Sorted(s) == \A i, j \in 1 .. Len(s) : i < j => Before(PageOf(s[i]), PageOf(s[j]))

-----------------------------------------------------------------------------
(* The invariant.                                                          *)

\* Notifications as the receive path makes them: only a header has index 0.
Notif == {n \in [meas : Nat \ {0}, seq : Nat, idx : Nat, num : Nat, whole : BOOLEAN] :
             n.idx = 0 <=> n.seq = 0}

\* The variables the proofs speak of.
Types ==
    /\ fw \in [meas : Nat, count : Nat, next : Nat]
    /\ fw.next <= fw.count + 1 /\ (fw.meas = 0 => FwIdle)
    /\ list \in Seq(Notif) /\ local \in Seq(Notif)
    /\ entries \in [EntryIdx -> Notif \cup {NoNotif}]
    /\ ref \in [Pages -> Int]
    /\ orphans \subseteq Nat \X Nat
    /\ events \in Seq({events[k] : k \in 1 .. Len(events)})
    /\ \A k \in 1 .. Len(events) : events[k].hdr \in Nat

\* The pages in local_list l and async_handlers_list q are in the order of sending, and
\* older than the next one, f.
Waiting(l, q, f) ==
    /\ Sorted(l) /\ Sorted(q)
    /\ \A p \in SeqPages(l), r \in SeqPages(q) : Before(p, r)
    /\ \A p \in SeqPages(l) \cup SeqPages(q) : Before(p, f)

\* Pages that have been handled (those of csi_data_entries e, of earlier op modes o, and the
\* headers of events v) are older than the pages w that wait; csi_data_entries has no page
\* twice, and in the place for the header a header that no event has had.
Handed(e, o, v, w, f) ==
    /\ \A p \in EntryPages(e) \cup o \cup v : Before(p, f)
    /\ \A p \in EntryPages(e) \cup o \cup v, r \in w : Before(p, r)
    /\ EntryPages(e) \cap o = {}
    /\ \A i, j \in Occupied(e) : PageOf(e[i]) = PageOf(e[j]) => i = j
    /\ e[0] # NoNotif => e[0].seq = 0 /\ \A p \in v : Before(p, PageOf(e[0]))

\* A page has one reference while the kernel holds it.
Counted(r, held) == \A p \in Pages : r[p] = IF p \in held THEN 1 ELSE 0

\* The event that is being built has the header in csi_data_entries.
Building == sending # Idle => entries[0] # NoNotif /\ sending.hdr = entries[0].meas

WaitingPages == SeqPages(local) \cup SeqPages(list)
HeldPages == WaitingPages \cup EntryPages(entries) \cup orphans

\* The inductive invariant.
IInv ==
    /\ Types
    /\ Waiting(local, list, FwPage)
    /\ Handed(entries, orphans, EventPages, WaitingPages, FwPage)
    /\ Counted(ref, HeldPages)
    /\ Building /\ ReportedOnceInOrder

-----------------------------------------------------------------------------
(* Pages and their order.                                                  *)

\* The order of sending is a strict one.
LEMMA BeforeOrder ==
    ASSUME NEW p \in Nat \X Nat, NEW q \in Nat \X Nat
    PROVE  /\ ~Before(p, p)
           /\ Before(p, q) => ~Before(q, p) /\ p # q
           /\ \A r \in Nat \X Nat : Before(p, q) /\ Before(q, r) => Before(p, r)
BY DEF Before

\* A notification has a page, and is not the empty slot.
LEMMA NotifPage ==
    ASSUME NEW n \in Notif
    PROVE  PageOf(n) \in Nat \X Nat /\ n # NoNotif /\ PageOf(n)[1] = n.meas /\ PageOf(n)[2] = n.seq
BY DEF Notif, PageOf, NoNotif

\* Lists hold pages.
LEMMA SeqPagesType ==
    ASSUME NEW s \in Seq(Notif)
    PROVE  SeqPages(s) \subseteq Nat \X Nat
<1>1. \A i \in 1 .. Len(s) : PageOf(s[i]) \in Nat \X Nat
  BY NotifPage
<1> QED
  BY <1>1 DEF SeqPages

\* The pages of the empty list.
LEMMA PagesEmpty == SeqPages(<< >>) = {} /\ Sorted(<< >>)
BY DEF SeqPages, Sorted

\* A notification at the end of a list.
LEMMA PagesAppend ==
    ASSUME NEW s \in Seq(Notif), NEW n \in Notif
    PROVE  /\ SeqPages(Append(s, n)) = SeqPages(s) \cup {PageOf(n)}
           /\ Sorted(s) /\ (\A p \in SeqPages(s) : Before(p, PageOf(n))) => Sorted(Append(s, n))
<1> DEFINE t == Append(s, n)
<1>1. /\ Len(t) = Len(s) + 1 /\ Len(s) \in Nat /\ t[Len(s) + 1] = n
      /\ \A i \in 1 .. Len(s) : t[i] = s[i]
  BY AppendProperties
<1> HIDE DEF t
<1>2. /\ \A i \in 1 .. Len(t) : i \in 1 .. Len(s) \/ i = Len(s) + 1
      /\ \A i \in 1 .. Len(s) : i \in 1 .. Len(t) /\ i < Len(s) + 1
      /\ Len(s) + 1 \in 1 .. Len(t)
  BY <1>1
<1>3. SeqPages(t) = SeqPages(s) \cup {PageOf(n)}
  <2>1. ASSUME NEW i \in 1 .. Len(t) PROVE PageOf(t[i]) \in SeqPages(s) \cup {PageOf(n)}
    BY <1>1, <1>2 DEF SeqPages
  <2>2. ASSUME NEW i \in 1 .. Len(s) PROVE PageOf(s[i]) \in SeqPages(t)
    BY <1>1, <1>2 DEF SeqPages
  <2>3. PageOf(n) \in SeqPages(t)
    BY <1>1, <1>2 DEF SeqPages
  <2> QED
    BY <2>1, <2>2, <2>3 DEF SeqPages
<1>4. ASSUME Sorted(s), \A p \in SeqPages(s) : Before(p, PageOf(n)) PROVE Sorted(t)
  <2>1. SUFFICES ASSUME NEW i \in 1 .. Len(t), NEW j \in 1 .. Len(t), i < j
                 PROVE  Before(PageOf(t[i]), PageOf(t[j]))
    BY DEF Sorted
  <2>2. i \in 1 .. Len(s)
    BY <1>1, <2>1
  <2>3. CASE j \in 1 .. Len(s)
    BY <1>1, <1>4, <2>1, <2>2, <2>3 DEF Sorted
  <2>4. CASE j = Len(s) + 1
    <3>1. PageOf(s[i]) \in SeqPages(s)
      BY <2>2 DEF SeqPages
    <3> QED
      BY <1>1, <1>4, <2>2, <2>4, <3>1
  <2> QED
    BY <1>2, <2>3, <2>4
<1> QED
  BY <1>3, <1>4 DEF t

\* The first notification of a list.
LEMMA PagesTail ==
    ASSUME NEW s \in Seq(Notif), s # << >>
    PROVE  /\ Head(s) \in Notif /\ Tail(s) \in Seq(Notif)
           /\ SeqPages(s) = {PageOf(Head(s))} \cup SeqPages(Tail(s))
           /\ Sorted(s) => /\ Sorted(Tail(s))
                           /\ \A p \in SeqPages(Tail(s)) : Before(PageOf(Head(s)), p)
<1> DEFINE h == Head(s)
           t == Tail(s)
<1>1. /\ h \in Notif /\ t \in Seq(Notif) /\ Len(t) = Len(s) - 1 /\ h = s[1]
      /\ Len(s) \in Nat /\ Len(s) >= 1
      /\ \A i \in 1 .. Len(s) - 1 : t[i] = s[i + 1]
  BY HeadTailProperties
<1> HIDE DEF h, t
<1>2. /\ \A i \in 1 .. Len(s) : i = 1 \/ (i - 1 \in 1 .. Len(t) /\ (i - 1) + 1 = i)
      /\ \A i \in 1 .. Len(t) : i \in 1 .. Len(s) - 1 /\ i + 1 \in 1 .. Len(s) /\ 1 < i + 1
      /\ 1 \in 1 .. Len(s)
  BY <1>1
<1>3. SeqPages(s) = {PageOf(h)} \cup SeqPages(t)
  <2>1. ASSUME NEW i \in 1 .. Len(s) PROVE PageOf(s[i]) \in {PageOf(h)} \cup SeqPages(t)
    <3>1. CASE i = 1
      BY <1>1, <3>1
    <3>2. CASE i # 1
      <4>1. i - 1 \in 1 .. Len(t) /\ t[i - 1] = s[i]
        BY <1>1, <1>2, <3>2
      <4> QED
        BY <4>1 DEF SeqPages
    <3> QED
      BY <3>1, <3>2
  <2>2. ASSUME NEW i \in 1 .. Len(t) PROVE PageOf(t[i]) \in SeqPages(s)
    BY <1>1, <1>2 DEF SeqPages
  <2>3. PageOf(h) \in SeqPages(s)
    BY <1>1, <1>2 DEF SeqPages
  <2> QED
    BY <2>1, <2>2, <2>3 DEF SeqPages
<1>4. ASSUME Sorted(s)
      PROVE  Sorted(t) /\ \A p \in SeqPages(t) : Before(PageOf(h), p)
  <2>1. ASSUME NEW i \in 1 .. Len(t), NEW j \in 1 .. Len(t), i < j
        PROVE  Before(PageOf(t[i]), PageOf(t[j]))
    <3>1. /\ i + 1 \in 1 .. Len(s) /\ j + 1 \in 1 .. Len(s) /\ i + 1 < j + 1
          /\ t[i] = s[i + 1] /\ t[j] = s[j + 1]
      BY <1>1, <1>2, <2>1
    <3> QED
      BY <1>4, <3>1 DEF Sorted
  <2>2. ASSUME NEW i \in 1 .. Len(t) PROVE Before(PageOf(h), PageOf(t[i]))
    <3>1. i + 1 \in 1 .. Len(s) /\ 1 < i + 1 /\ 1 \in 1 .. Len(s) /\ t[i] = s[i + 1]
      BY <1>1, <1>2
    <3> QED
      BY <1>1, <1>4, <3>1 DEF Sorted
  <2> QED
    BY <2>1, <2>2 DEF Sorted, SeqPages
<1> QED
  BY <1>1, <1>3, <1>4 DEF h, t

-----------------------------------------------------------------------------
(* csi_data_entries.                                                       *)

\* There is a slot for the header.
LEMMA ZeroIsSlot == 0 \in EntryIdx /\ MaxChunks \in Nat \ {0} /\ EntryIdx \subseteq Nat
BY CountAssumption DEF EntryIdx

\* The slots hold pages.
LEMMA EntryPagesType ==
    ASSUME NEW e \in [EntryIdx -> Notif \cup {NoNotif}]
    PROVE  /\ EntryPages(e) \subseteq Nat \X Nat
           /\ \A i \in Occupied(e) : e[i] \in Notif /\ PageOf(e[i]) \in EntryPages(e)
           /\ e[0] # NoNotif => e[0] \in Notif /\ PageOf(e[0]) \in EntryPages(e)
<1>1. \A i \in Occupied(e) : e[i] \in Notif
  BY DEF Occupied
<1>2. \A i \in Occupied(e) : PageOf(e[i]) \in Nat \X Nat
  BY <1>1, NotifPage
<1>3. e[0] # NoNotif => 0 \in Occupied(e)
  BY ZeroIsSlot DEF Occupied
<1> QED
  BY <1>1, <1>2, <1>3 DEF EntryPages

\* Empty slots hold none.
LEMMA EntryPagesNone ==
    /\ NoEntries \in [EntryIdx -> Notif \cup {NoNotif}]
    /\ Occupied(NoEntries) = {} /\ EntryPages(NoEntries) = {} /\ NoEntries[0] = NoNotif
BY ZeroIsSlot DEF NoEntries, Occupied, EntryPages

\* Slots d are slots e with a page in a slot that was empty.
SlotSet(e, i, n, d) ==
    /\ e[i] = NoNotif
    /\ d \in [EntryIdx -> Notif \cup {NoNotif}]
    /\ d[i] = n /\ \A j \in EntryIdx \ {i} : d[j] = e[j]

\* A page goes into an empty slot.
LEMMA EntryPagesSet ==
    ASSUME NEW e \in [EntryIdx -> Notif \cup {NoNotif}], NEW i \in EntryIdx, NEW n \in Notif,
           NEW d, SlotSet(e, i, n, d)
    PROVE  /\ Occupied(d) = Occupied(e) \cup {i} /\ i \notin Occupied(e)
           /\ EntryPages(d) = EntryPages(e) \cup {PageOf(n)}
<1>1. n # NoNotif
  BY NotifPage
<1>2. Occupied(d) = Occupied(e) \cup {i} /\ i \notin Occupied(e)
  BY <1>1 DEF Occupied, SlotSet
<1>3. \A j \in Occupied(e) : d[j] = e[j]
  BY <1>2 DEF Occupied, SlotSet
<1>4. d[i] = n
  BY DEF SlotSet
<1>5. ASSUME NEW j \in Occupied(d) PROVE PageOf(d[j]) \in EntryPages(e) \cup {PageOf(n)}
  BY <1>2, <1>3, <1>4 DEF EntryPages
<1>6. ASSUME NEW j \in Occupied(e) PROVE PageOf(e[j]) \in EntryPages(d)
  <2>1. j \in Occupied(d) /\ PageOf(d[j]) = PageOf(e[j])
    BY <1>2, <1>3
  <2> QED
    BY <2>1 DEF EntryPages
<1>7. PageOf(n) \in EntryPages(d)
  <2>1. i \in Occupied(d) /\ PageOf(d[i]) = PageOf(n)
    BY <1>2, <1>4
  <2> QED
    BY <2>1 DEF EntryPages
<1>8. EntryPages(d) \subseteq EntryPages(e) \cup {PageOf(n)}
  BY <1>5 DEF EntryPages
<1>9. EntryPages(e) \subseteq EntryPages(d)
  BY <1>6 DEF EntryPages
<1> QED
  BY <1>2, <1>7, <1>8, <1>9

-----------------------------------------------------------------------------
(* How the lists change.                                                   *)

\* The firmware goes on.
LEMMA WaitingLater ==
    ASSUME NEW l \in Seq(Notif), NEW q \in Seq(Notif), NEW f \in Nat \X Nat, NEW g \in Nat \X Nat,
           Waiting(l, q, f), f = g \/ Before(f, g)
    PROVE  Waiting(l, q, g)
<1>1. SeqPages(l) \subseteq Nat \X Nat /\ SeqPages(q) \subseteq Nat \X Nat
  BY SeqPagesType
<1> QED
  BY <1>1, BeforeOrder DEF Waiting

\* Its notification is queued.
LEMMA WaitingAppend ==
    ASSUME NEW l \in Seq(Notif), NEW q \in Seq(Notif), NEW f \in Nat \X Nat, NEW g \in Nat \X Nat,
           Waiting(l, q, f), Before(f, g), NEW n \in Notif, PageOf(n) = f
    PROVE  Waiting(l, Append(q, n), g)
<1>1. SeqPages(l) \subseteq Nat \X Nat /\ SeqPages(q) \subseteq Nat \X Nat
  BY SeqPagesType
<1>2. Waiting(l, q, g)
  BY WaitingLater
<1>3. SeqPages(Append(q, n)) = SeqPages(q) \cup {f}
  BY PagesAppend
<1>4. Sorted(Append(q, n))
  BY PagesAppend DEF Waiting
<1> QED
  BY <1>2, <1>3, <1>4 DEF Waiting

\* The worker takes the list over.
LEMMA WaitingSplice ==
    ASSUME NEW q, NEW f, Waiting(<< >>, q, f)
    PROVE  Waiting(q, << >>, f)
BY PagesEmpty DEF Waiting

\* The list is purged.
LEMMA WaitingPurge ==
    ASSUME NEW l, NEW q, NEW f, Waiting(l, q, f)
    PROVE  Waiting(l, << >>, f)
BY PagesEmpty DEF Waiting

\* A notification is handled: the others are younger.
LEMMA WaitingTail ==
    ASSUME NEW l \in Seq(Notif), NEW q \in Seq(Notif), NEW f, Waiting(l, q, f), l # << >>
    PROVE  /\ Waiting(Tail(l), q, f)
           /\ Before(PageOf(Head(l)), f)
           /\ \A r \in SeqPages(Tail(l)) \cup SeqPages(q) : Before(PageOf(Head(l)), r)
           /\ SeqPages(l) = {PageOf(Head(l))} \cup SeqPages(Tail(l))
<1>1. /\ SeqPages(l) = {PageOf(Head(l))} \cup SeqPages(Tail(l))
      /\ Sorted(Tail(l)) /\ \A p \in SeqPages(Tail(l)) : Before(PageOf(Head(l)), p)
  BY PagesTail DEF Waiting
<1> QED
  BY <1>1 DEF Waiting

-----------------------------------------------------------------------------
(* How the pages that have been handled change.                            *)

\* The firmware goes on.
LEMMA HandedLater ==
    ASSUME NEW e \in [EntryIdx -> Notif \cup {NoNotif}], NEW o \in SUBSET (Nat \X Nat),
           NEW v \in SUBSET (Nat \X Nat), NEW w,
           NEW f \in Nat \X Nat, NEW g \in Nat \X Nat,
           Handed(e, o, v, w, f), f = g \/ Before(f, g)
    PROVE  Handed(e, o, v, w, g)
<1>1. EntryPages(e) \subseteq Nat \X Nat
  BY EntryPagesType
<1>2. \A p \in EntryPages(e) \cup o \cup v : Before(p, g)
  BY <1>1, BeforeOrder DEF Handed
<1> QED
  BY <1>2 DEF Handed

\* The page it has sent waits.
LEMMA HandedQueued ==
    ASSUME NEW e \in [EntryIdx -> Notif \cup {NoNotif}], NEW o \in SUBSET (Nat \X Nat),
           NEW v \in SUBSET (Nat \X Nat), NEW w,
           NEW f \in Nat \X Nat, NEW g \in Nat \X Nat,
           Handed(e, o, v, w, f), Before(f, g)
    PROVE  Handed(e, o, v, w \cup {f}, g)
<1>1. Handed(e, o, v, w, g)
  BY HandedLater
<1>2. \A p \in EntryPages(e) \cup o \cup v, r \in w \cup {f} : Before(p, r)
  BY DEF Handed
<1> QED
  BY <1>1, <1>2 DEF Handed

\* Fewer pages wait.
LEMMA HandedFewer ==
    ASSUME NEW e, NEW o, NEW v, NEW w, NEW f, NEW x \in SUBSET w, Handed(e, o, v, w, f)
    PROVE  Handed(e, o, v, x, f)
BY DEF Handed

\* The slots are cleared.
LEMMA HandedNone ==
    ASSUME NEW e, NEW o, NEW v, NEW w, NEW f, Handed(e, o, v, w, f)
    PROVE  Handed(NoEntries, o, v, w, f)
BY EntryPagesNone DEF Handed

\* A page that waited is put into an empty slot.
LEMMA HandedStolen ==
    ASSUME NEW e \in [EntryIdx -> Notif \cup {NoNotif}], NEW o \in SUBSET (Nat \X Nat),
           NEW v \in SUBSET (Nat \X Nat), NEW w, NEW x \in SUBSET w, NEW f \in Nat \X Nat,
           Handed(e, o, v, w, f),
           NEW n \in Notif, NEW i \in EntryIdx, i = n.idx,
           PageOf(n) \in w, Before(PageOf(n), f), \A r \in x : Before(PageOf(n), r),
           NEW d, SlotSet(e, i, n, d)
    PROVE  Handed(d, o, v, x, f)
<1>1. d[i] = n /\ \A j \in EntryIdx \ {i} : d[j] = e[j]
  BY DEF SlotSet
<1>2. /\ Occupied(d) = Occupied(e) \cup {i} /\ i \notin Occupied(e)
      /\ EntryPages(d) = EntryPages(e) \cup {PageOf(n)}
  BY EntryPagesSet
<1>3. PageOf(n) \in Nat \X Nat /\ EntryPages(e) \subseteq Nat \X Nat
  BY NotifPage, EntryPagesType
<1>4. \A p \in EntryPages(e) \cup o \cup v : Before(p, PageOf(n))
  BY DEF Handed
<1>5. PageOf(n) \notin EntryPages(e) \cup o
  BY <1>3, <1>4, BeforeOrder
<1>6. /\ \A p \in EntryPages(d) \cup o \cup v : Before(p, f)
      /\ \A p \in EntryPages(d) \cup o \cup v, r \in x : Before(p, r)
  BY <1>2 DEF Handed
<1>9. EntryPages(d) \cap o = {}
  BY <1>2, <1>5 DEF Handed
<1>7. \A j, k \in Occupied(d) : PageOf(d[j]) = PageOf(d[k]) => j = k
  <2>1. \A j \in Occupied(e) : d[j] = e[j] /\ PageOf(e[j]) \in EntryPages(e)
    BY <1>1, <1>2, EntryPagesType DEF Occupied
  <2> QED
    BY <1>1, <1>2, <1>5, <2>1 DEF Handed
<1>8. d[0] # NoNotif => d[0].seq = 0 /\ \A p \in v : Before(p, PageOf(d[0]))
  <2>1. CASE i = 0
    <3>1. n.seq = 0
      BY <2>1 DEF Notif
    <3> QED
      BY <1>1, <1>4, <2>1, <3>1
  <2>2. CASE i # 0
    <3>1. d[0] = e[0]
      BY <1>1, <2>2, ZeroIsSlot
    <3> QED
      BY <3>1 DEF Handed
  <2> QED
    BY <2>1, <2>2
<1> QED
  BY <1>6, <1>7, <1>8, <1>9 DEF Handed

\* An op mode goes and leaves its pages behind.
LEMMA HandedLeft ==
    ASSUME NEW e, NEW o, NEW v, NEW w, NEW f, Handed(e, o, v, w, f)
    PROVE  Handed(NoEntries, o \cup EntryPages(e), v, w, f)
BY EntryPagesNone DEF Handed

\* The header in its slot becomes that of an event.
LEMMA HandedEvent ==
    ASSUME NEW e \in [EntryIdx -> Notif \cup {NoNotif}], NEW o, NEW v, NEW w, NEW f,
           Handed(e, o, v, w, f), e[0] # NoNotif
    PROVE  Handed(NoEntries, o, v \cup {PageOf(e[0])}, w, f)
<1>1. PageOf(e[0]) \in EntryPages(e)
  BY EntryPagesType
<1> QED
  BY <1>1, EntryPagesNone DEF Handed

\* The marks against which pages are ordered.
LEMMA MarkTypes ==
    ASSUME Types
    PROVE  EventPages \in SUBSET (Nat \X Nat) /\ FwPage \in Nat \X Nat
<1>1. \A k \in 1 .. Len(events) : <<events[k].hdr, 0>> \in Nat \X Nat
  BY DEF Types
<1>2. EventPages \in SUBSET (Nat \X Nat)
  BY <1>1 DEF EventPages
<1>3. fw.meas \in Nat /\ fw.next \in Nat
  BY DEF Types
<1> QED
  BY <1>2, <1>3 DEF FwPage

-----------------------------------------------------------------------------
(* References.                                                             *)

\* Pages that are held, each once, are put.
LEMMA CountedPut ==
    ASSUME NEW r \in [Pages -> Int], NEW held, NEW ps \in SUBSET held, Counted(r, held)
    PROVE  Put(r, ps) \in [Pages -> Int] /\ Counted(Put(r, ps), held \ ps)
BY DEF Put, Counted

\* The entries and the references after iwl_mvm_csi_steal.
LEMMA StealKeeps ==
    ASSUME IInv, local # << >>, Head(local).idx \in EntryIdx
    PROVE  LET n == Head(local)
               s == Steal(entries, n.idx, n)
               w == SeqPages(Tail(local)) \cup SeqPages(list)
           IN  /\ s.slots \in [EntryIdx -> Notif \cup {NoNotif}] /\ s.ref \in [Pages -> Int]
               /\ Handed(s.slots, orphans, EventPages, w, FwPage)
               /\ Counted(s.ref, w \cup EntryPages(s.slots) \cup orphans)
               /\ Waiting(Tail(local), list, FwPage) /\ Tail(local) \in Seq(Notif)
<1> DEFINE n == Head(local)
           P == PageOf(n)
           w == SeqPages(Tail(local)) \cup SeqPages(list)
           V == EventPages
           F == FwPage
           E == EntryPages(entries)
<1>1. /\ Types /\ local \in Seq(Notif) /\ list \in Seq(Notif)
      /\ entries \in [EntryIdx -> Notif \cup {NoNotif}] /\ ref \in [Pages -> Int]
      /\ orphans \in SUBSET (Nat \X Nat)
      /\ Waiting(local, list, F) /\ Handed(entries, orphans, V, WaitingPages, F)
      /\ Counted(ref, HeldPages)
  BY DEF IInv, Types
<1>2. V \in SUBSET (Nat \X Nat) /\ F \in Nat \X Nat
  BY <1>1, MarkTypes
<1>3. n \in Notif /\ Tail(local) \in Seq(Notif) /\ n.idx \in EntryIdx
  BY <1>1, PagesTail
<1>4. /\ Waiting(Tail(local), list, F) /\ Before(P, F)
      /\ \A r \in w : Before(P, r)
      /\ SeqPages(local) = {P} \cup SeqPages(Tail(local))
  BY <1>1, WaitingTail
<1>5. /\ WaitingPages = w \cup {P} /\ P \in Nat \X Nat /\ E \subseteq Nat \X Nat
      /\ w \subseteq Nat \X Nat
  BY <1>1, <1>3, <1>4, NotifPage, SeqPagesType, EntryPagesType DEF WaitingPages
<1>6. /\ \A p \in E \cup orphans : Before(p, P)
      /\ \A p \in E \cup orphans, r \in w : Before(p, r)
      /\ E \cap orphans = {}
  BY <1>1, <1>5 DEF Handed
<1>7. P \notin w \cup E \cup orphans /\ E \cap (w \cup orphans) = {}
  BY <1>4, <1>5, <1>6, BeforeOrder
<1>8. HeldPages = w \cup {P} \cup E \cup orphans
  BY <1>5 DEF HeldPages
<1> HIDE DEF n, P, w, V, F, E
<1>9. CASE entries[n.idx] # NoNotif
  <2> DEFINE r1 == Put(ref, E)
             r2 == Put(r1, {P})
  <2>1. Steal(entries, n.idx, n) = [slots |-> NoEntries, ref |-> r2]
    BY <1>9 DEF Steal, E, P
  <2>2. E \in SUBSET HeldPages
    BY <1>8
  <2>3. r1 \in [Pages -> Int] /\ Counted(r1, HeldPages \ E)
    BY <1>1, <2>2, CountedPut
  <2> HIDE DEF r1
  <2>4. {P} \in SUBSET (HeldPages \ E)
    BY <1>7, <1>8
  <2>5. r2 \in [Pages -> Int] /\ Counted(r2, (HeldPages \ E) \ {P})
    BY <2>3, <2>4, CountedPut
  <2>6. (HeldPages \ E) \ {P} = w \cup {} \cup orphans
    BY <1>7, <1>8
  <2>7. Handed(NoEntries, orphans, V, WaitingPages, F)
    BY <1>1, HandedNone
  <2>8. Handed(NoEntries, orphans, V, w, F)
    BY <1>5, <2>7, HandedFewer
  <2> HIDE DEF r2
  <2>9. /\ Steal(entries, n.idx, n).slots = NoEntries /\ Steal(entries, n.idx, n).ref = r2
        /\ EntryPages(NoEntries) = {}
        /\ NoEntries \in [EntryIdx -> Notif \cup {NoNotif}]
    BY <2>1, EntryPagesNone
  <2> QED
    BY <1>3, <1>4, <2>5, <2>6, <2>8, <2>9 DEF n, w, V, F
<1>10. CASE entries[n.idx] = NoNotif
  <2> DEFINE d == [entries EXCEPT ![n.idx] = n]
  <2>1. Steal(entries, n.idx, n) = [slots |-> d, ref |-> ref]
    BY <1>10 DEF Steal
  <2>20. SlotSet(entries, n.idx, n, d)
    BY <1>1, <1>3, <1>10 DEF SlotSet
  <2> HIDE DEF d
  <2>2. d \in [EntryIdx -> Notif \cup {NoNotif}] /\ EntryPages(d) = E \cup {P}
    BY <1>1, <1>3, <2>20, EntryPagesSet DEF E, P, SlotSet
  <2>3. P \in WaitingPages /\ w \in SUBSET WaitingPages
    BY <1>5
  <2>4. Handed(d, orphans, V, w, F)
    BY <1>1, <1>2, <1>3, <1>4, <2>3, <2>20, HandedStolen DEF P
  <2>5. w \cup EntryPages(d) \cup orphans = HeldPages
    BY <1>8, <2>2
  <2>6. Steal(entries, n.idx, n).slots = d /\ Steal(entries, n.idx, n).ref = ref
    BY <2>1
  <2> QED
    BY <1>1, <1>3, <1>4, <2>2, <2>4, <2>5, <2>6 DEF n, w, V, F
<1> QED
  BY <1>9, <1>10

-----------------------------------------------------------------------------
(* Every step keeps the invariant.                                         *)

\* What the steps below take from the invariant.
LEMMA Facts ==
    ASSUME IInv
    PROVE  /\ fw \in [meas : Nat, count : Nat, next : Nat]
           /\ fw.next <= fw.count + 1 /\ (fw.meas = 0 => FwIdle)
           /\ list \in Seq(Notif) /\ local \in Seq(Notif)
           /\ entries \in [EntryIdx -> Notif \cup {NoNotif}]
           /\ ref \in [Pages -> Int]
           /\ orphans \in SUBSET (Nat \X Nat)
           /\ EventPages \in SUBSET (Nat \X Nat) /\ FwPage \in Nat \X Nat
           /\ EntryPages(entries) \subseteq Nat \X Nat
           /\ WaitingPages \subseteq Nat \X Nat
           /\ Waiting(local, list, FwPage)
           /\ Handed(entries, orphans, EventPages, WaitingPages, FwPage)
           /\ Counted(ref, HeldPages)
<1>1. Types
  BY DEF IInv
<1>2. EventPages \in SUBSET (Nat \X Nat) /\ FwPage \in Nat \X Nat
  BY <1>1, MarkTypes
<1>3. EntryPages(entries) \subseteq Nat \X Nat
  BY <1>1, EntryPagesType DEF Types
<1>4. WaitingPages \subseteq Nat \X Nat
  BY <1>1, SeqPagesType DEF Types, WaitingPages
<1>5. orphans \in SUBSET (Nat \X Nat)
  BY <1>1 DEF Types
<1> QED
  BY <1>1, <1>2, <1>3, <1>4, <1>5 DEF IInv, Types

\* The events and what is said of them do not change.
LEMMA SameEvents ==
    ASSUME IInv, events' = events
    PROVE  /\ EventPages' = EventPages /\ ReportedOnceInOrder'
           /\ events' \in Seq({events[k] : k \in 1 .. Len(events)}')
           /\ \A k \in 1 .. Len(events') : events'[k].hdr \in Nat
BY DEF IInv, Types, EventPages, ReportedOnceInOrder

\* A step of the firmware that reaches nobody, or of something else altogether.
LEMMA FirmwareKeeps ==
    ASSUME IInv, UNCHANGED <<list, local, entries, sending, ref, orphans, events>>,
           fw' \in [meas : Nat, count : Nat, next : Nat],
           fw'.next <= fw'.count + 1, fw'.meas = 0 => fw'.next > fw'.count,
           FwPage = FwPage' \/ Before(FwPage, FwPage')
    PROVE  IInv'
<1>1. Types'
  BY SameEvents, Facts DEF Types, FwIdle
<1>2. FwPage' \in Nat \X Nat
  BY DEF FwPage
<1>3. Waiting(local, list, FwPage') /\ Handed(entries, orphans, EventPages, WaitingPages, FwPage')
  BY <1>2, Facts, WaitingLater, HandedLater
<1>4. WaitingPages' = WaitingPages /\ HeldPages' = HeldPages
  BY DEF WaitingPages, HeldPages
<1>5. Waiting(local, list, FwPage)' /\ Counted(ref, HeldPages)'
  BY <1>3, <1>4, Facts
<1>6. Handed(entries, orphans, EventPages, WaitingPages, FwPage)'
  BY <1>3, <1>4, SameEvents
<1>7. Building' /\ ReportedOnceInOrder'
  BY SameEvents DEF IInv, Building
<1> QED
  BY <1>1, <1>5, <1>6, <1>7 DEF IInv

\* The firmware measures.
LEMMA CaptureKeeps ==
    ASSUME IInv, NEW n \in ChunkCounts, Capture(n)
    PROVE  IInv'
<1>1. n \in Nat /\ fw \in [meas : Nat, count : Nat, next : Nat]
  BY CountAssumption, Facts
<1>2. fw' = [meas |-> fw.meas + 1, count |-> n, next |-> 0]
  BY DEF Capture
<1>3. /\ fw' \in [meas : Nat, count : Nat, next : Nat]
      /\ fw'.next <= fw'.count + 1 /\ fw'.meas # 0
      /\ Before(FwPage, FwPage')
  BY <1>1, <1>2 DEF Before, FwPage
<1>4. UNCHANGED <<list, local, entries, sending, ref, orphans, events>>
  BY DEF Capture, kernelVars, histVars
<1> QED
  BY <1>3, <1>4, FirmwareKeeps

\* The firmware sends something.
LEMMA FwSendsFacts ==
    ASSUME IInv, FwSends
    PROVE  /\ fw.meas \in Nat \ {0} /\ fw.next \in Nat /\ fw.count \in Nat
           /\ fw' \in [meas : Nat, count : Nat, next : Nat]
           /\ fw'.next <= fw'.count + 1 /\ fw'.meas = fw.meas
           /\ Before(FwPage, FwPage') /\ FwPage' \in Nat \X Nat
<1>1. fw \in [meas : Nat, count : Nat, next : Nat] /\ (fw.meas = 0 => FwIdle)
  BY Facts
<1>2. fw' = [fw EXCEPT !.next = fw.next + 1] /\ ~FwIdle
  BY DEF FwSends
<1>3. /\ fw'.meas = fw.meas /\ fw'.next = fw.next + 1 /\ fw'.count = fw.count
      /\ fw' \in [meas : Nat, count : Nat, next : Nat]
  BY <1>1, <1>2
<1> QED
  BY <1>1, <1>2, <1>3 DEF FwIdle, FwPage, Before

\* A notification is lost.
LEMMA RxLostKeeps ==
    ASSUME IInv, RxLost
    PROVE  IInv'
<1>1. FwSends /\ UNCHANGED <<list, local, entries, sending, ref, orphans, events>>
  BY DEF RxLost, kernelVars, histVars
<1> QED
  BY <1>1, FwSendsFacts, FirmwareKeeps

\* The firmware restarts.
LEMMA FwRestartKeeps ==
    ASSUME IInv, FwRestart
    PROVE  IInv'
<1>1. /\ fw \in [meas : Nat, count : Nat, next : Nat] /\ fw.next <= fw.count + 1
      /\ fw' = [fw EXCEPT !.next = fw.count + 1]
  BY Facts DEF FwRestart
<1>2. /\ fw'.meas = fw.meas /\ fw'.next = fw.count + 1 /\ fw'.count = fw.count
      /\ fw' \in [meas : Nat, count : Nat, next : Nat]
  BY <1>1
<1>3. FwPage = FwPage' \/ Before(FwPage, FwPage')
  BY <1>1, <1>2 DEF FwPage, Before
<1>4. UNCHANGED <<list, local, entries, sending, ref, orphans, events>>
  BY DEF FwRestart, kernelVars, histVars
<1>5. fw'.next <= fw'.count + 1 /\ fw'.next > fw'.count
  BY <1>1, <1>2
<1> QED
  BY <1>2, <1>3, <1>4, <1>5, FirmwareKeeps

\* Steps that leave the firmware, the lists, the pages and the events alone.
LEMMA ElsewhereKeeps ==
    ASSUME IInv,
           \/ MacStart \/ OpModeStart \/ UNCHANGED vars
           \/ \E c \in Clients : CsiRegister(c) \/ NetlinkRelease(c)
    PROVE  IInv'
<1>1. UNCHANGED <<fw, list, local, entries, sending, ref, orphans, events>>
  BY DEF MacStart, OpModeStart, CsiRegister, NetlinkRelease, vars, kernelVars, histVars
<1>2. FwPage' = FwPage
  BY <1>1 DEF FwPage
<1> QED
  BY <1>1, <1>2, Facts, FirmwareKeeps DEF FwIdle

\* The notification the firmware sends carries the next page.
LEMMA UpcomingNotif ==
    ASSUME IInv, FwSends, NEW ok \in BOOLEAN
    PROVE  Upcoming(ok) \in Notif /\ PageOf(Upcoming(ok)) = FwPage
<1> DEFINE i == IF fw.next = 0 THEN 0 ELSE ((fw.next - 1) % FieldSize) + 1
           c == fw.count % FieldSize
<1>1. FieldSize \in Nat \ {0} /\ fw.meas \in Nat \ {0} /\ fw.next \in Nat /\ fw.count \in Nat
  BY CountAssumption, FwSendsFacts
<1>2. i \in Nat /\ (i = 0 <=> fw.next = 0) /\ c \in Nat
  BY <1>1
<1>3. Upcoming(ok) = [meas |-> fw.meas, seq |-> fw.next, whole |-> ok, idx |-> i, num |-> c]
  BY DEF Upcoming
<1> HIDE DEF i, c
<1> QED
  BY <1>1, <1>2, <1>3 DEF Notif, PageOf, FwPage

\* iwl_mvm_rx_common queues it.
LEMMA EnqueueKeeps ==
    ASSUME IInv, FwSends, NEW ok \in BOOLEAN, Enqueue(Upcoming(ok)),
           UNCHANGED <<local, entries, sending, orphans, events>>
    PROVE  IInv'
<1> DEFINE n == Upcoming(ok)
           P == PageOf(n)
<1>1. n \in Notif /\ P = FwPage
  BY UpcomingNotif
<1>2. list' = Append(list, n) /\ ref' = [ref EXCEPT ![P] = ref[P] + 1]
  BY DEF Enqueue
<1>3. /\ list' \in Seq(Notif) /\ SeqPages(list') = SeqPages(list) \cup {P}
  BY <1>1, <1>2, Facts, PagesAppend, AppendProperties
<1>4. Before(FwPage, FwPage') /\ FwPage' \in Nat \X Nat
  BY FwSendsFacts
<1>5. Waiting(local, list', FwPage')
  BY <1>1, <1>2, <1>4, Facts, WaitingAppend
<1>6. Handed(entries, orphans, EventPages, WaitingPages \cup {P}, FwPage')
  BY <1>1, <1>4, Facts, HandedQueued
<1>7. WaitingPages' = WaitingPages \cup {P} /\ HeldPages' = HeldPages \cup {P}
  BY <1>3 DEF WaitingPages, HeldPages
<1>8. P \notin HeldPages
  <2>1. \A p \in HeldPages : Before(p, FwPage)
    BY Facts DEF HeldPages, WaitingPages, Waiting, Handed
  <2>2. ~Before(FwPage, FwPage)
    BY Facts, BeforeOrder
  <2> QED
    BY <1>1, <2>1, <2>2
<1> HIDE DEF n, P
<1>9. Counted(ref', HeldPages') /\ ref' \in [Pages -> Int]
  <2>1. ref \in [Pages -> Int] /\ Counted(ref, HeldPages)
    BY Facts
  <2>2. CASE P \in Pages
    BY <1>2, <1>7, <1>8, <2>1, <2>2 DEF Counted
  <2>3. CASE P \notin Pages
    <3>1. ref' = ref
      BY <1>2, <2>1, <2>3
    <3> QED
      BY <1>7, <2>1, <2>3, <3>1 DEF Counted
  <2> QED
    BY <2>2, <2>3
<1>10. Types'
  BY <1>3, <1>9, SameEvents, Facts, FwSendsFacts DEF Types, FwIdle
<1>11. Handed(entries, orphans, EventPages, WaitingPages, FwPage)'
  BY <1>6, <1>7, SameEvents
<1>12. Building' /\ ReportedOnceInOrder'
  BY SameEvents DEF IInv, Building
<1>13. Waiting(local, list, FwPage)' /\ Counted(ref, HeldPages)'
  BY <1>5, <1>9
<1> QED
  BY <1>10, <1>11, <1>12, <1>13 DEF IInv

\* The notifications that arrive.
LEMMA RxKeeps ==
    ASSUME IInv, RxNotif \/ RxShortChunk
    PROVE  IInv'
<1>1. CASE RxNotif
  <2>1. /\ FwSends /\ Enqueue(Upcoming(TRUE))
        /\ UNCHANGED <<local, entries, sending, orphans, events>>
    BY <1>1 DEF RxNotif, histVars
  <2>2. TRUE \in BOOLEAN
    OBVIOUS
  <2> QED
    BY <2>1, <2>2, EnqueueKeeps
<1>2. CASE RxShortChunk
  <2>1. /\ FwSends /\ Enqueue(Upcoming(FALSE))
        /\ UNCHANGED <<local, entries, sending, orphans, events>>
    BY <1>2 DEF RxShortChunk, histVars
  <2>2. FALSE \in BOOLEAN
    OBVIOUS
  <2> QED
    BY <2>1, <2>2, EnqueueKeeps
<1> QED
  BY <1>1, <1>2

\* Csi_data_entries is freed.
LEMMA Cleared ==
    ASSUME NEW e \in [EntryIdx -> Notif \cup {NoNotif}], NEW r \in [Pages -> Int],
           NEW o \in SUBSET (Nat \X Nat), NEW v, NEW w \in SUBSET (Nat \X Nat), NEW f,
           Handed(e, o, v, w, f), Counted(r, w \cup EntryPages(e) \cup o)
    PROVE  /\ Put(r, EntryPages(e)) \in [Pages -> Int]
           /\ Counted(Put(r, EntryPages(e)), w \cup EntryPages(NoEntries) \cup o)
           /\ Handed(NoEntries, o, v, w, f)
<1> DEFINE E == EntryPages(e)
           H == w \cup E \cup o
<1>1. E \subseteq Nat \X Nat
  BY EntryPagesType
<1>2. E \cap o = {} /\ \A p \in E, q \in w : Before(p, q)
  BY DEF Handed
<1>3. E \cap w = {}
  BY <1>1, <1>2, BeforeOrder
<1>4. EntryPages(NoEntries) = {}
  BY EntryPagesNone
<1> HIDE DEF E
<1>5. H \ E = w \cup EntryPages(NoEntries) \cup o /\ E \in SUBSET H
  BY <1>2, <1>3, <1>4
<1>6. Counted(r, H)
  BY DEF E
<1> HIDE DEF H
<1>7. Put(r, E) \in [Pages -> Int] /\ Counted(Put(r, E), H \ E)
  BY <1>5, <1>6, CountedPut
<1> QED
  BY <1>5, <1>7, HandedNone DEF E

\* A step that sends no event keeps the invariant when it keeps its parts.
LEMMA StepKeeps ==
    ASSUME IInv, fw' \in [meas : Nat, count : Nat, next : Nat],
           fw'.next <= fw'.count + 1, fw'.meas = 0 => fw'.next > fw'.count,
           list' \in Seq(Notif), local' \in Seq(Notif),
           entries' \in [EntryIdx -> Notif \cup {NoNotif}], ref' \in [Pages -> Int],
           orphans' \in SUBSET (Nat \X Nat), events' = events,
           Waiting(local', list', FwPage'),
           Handed(entries', orphans', EventPages, WaitingPages', FwPage'),
           Counted(ref', HeldPages'),
           sending' # Idle => entries'[0] # NoNotif /\ sending'.hdr = entries'[0].meas
    PROVE  IInv'
<1>1. Types'
  BY SameEvents DEF Types, FwIdle
<1>2. Building' /\ ReportedOnceInOrder'
  BY SameEvents DEF Building, Idle
<1>3. /\ Handed(entries, orphans, EventPages, WaitingPages, FwPage)'
      /\ Waiting(local, list, FwPage)' /\ Counted(ref, HeldPages)'
  BY SameEvents
<1> QED
  BY <1>1, <1>2, <1>3 DEF IInv

\* The same when the firmware does nothing.
LEMMA KernelKeeps ==
    ASSUME IInv, fw' = fw, list' \in Seq(Notif), local' \in Seq(Notif),
           entries' \in [EntryIdx -> Notif \cup {NoNotif}], ref' \in [Pages -> Int],
           orphans' \in SUBSET (Nat \X Nat), events' = events,
           Waiting(local', list', FwPage),
           Handed(entries', orphans', EventPages, WaitingPages', FwPage),
           Counted(ref', HeldPages'),
           sending' # Idle => entries'[0] # NoNotif /\ sending'.hdr = entries'[0].meas
    PROVE  IInv'
<1>1. FwPage' = FwPage
  BY DEF FwPage
<1>2. /\ fw' \in [meas : Nat, count : Nat, next : Nat]
      /\ fw'.next <= fw'.count + 1 /\ (fw'.meas = 0 => fw'.next > fw'.count)
  BY Facts DEF FwIdle
<1> QED
  BY <1>1, <1>2, StepKeeps

\* The worker takes the list over.
LEMMA SpliceKeeps ==
    ASSUME IInv, Splice
    PROVE  IInv'
<1>1. /\ local = << >> /\ local' = list /\ list' = << >>
      /\ UNCHANGED <<fw, entries, sending, ref, orphans, events>>
  BY DEF Splice, histVars
<1>2. Waiting(local', list', FwPage)
  BY <1>1, Facts, WaitingSplice
<1>3. WaitingPages' = WaitingPages /\ HeldPages' = HeldPages
  BY <1>1, PagesEmpty DEF WaitingPages, HeldPages
<1>4. list' \in Seq(Notif) /\ local' \in Seq(Notif)
  BY <1>1, Facts
<1>5. sending' # Idle => entries'[0] # NoNotif /\ sending'.hdr = entries'[0].meas
  BY <1>1 DEF IInv, Building
<1>6. /\ Handed(entries', orphans', EventPages, WaitingPages', FwPage)
      /\ Counted(ref', HeldPages')
      /\ entries' \in [EntryIdx -> Notif \cup {NoNotif}] /\ ref' \in [Pages -> Int]
      /\ orphans' \in SUBSET (Nat \X Nat)
  BY <1>1, <1>3, Facts
<1> QED
  BY <1>1, <1>2, <1>4, <1>5, <1>6, KernelKeeps

\* The pages that wait and those that are held when the worker has gone on by one.
LEMMA HandledPages ==
    ASSUME local' = Tail(local), list' = list, orphans' = orphans
    PROVE  /\ WaitingPages' = SeqPages(Tail(local)) \cup SeqPages(list)
           /\ HeldPages' = (SeqPages(Tail(local)) \cup SeqPages(list)) \cup EntryPages(entries')
                           \cup orphans
BY DEF WaitingPages, HeldPages

\* iwl_mvm_rx_csi_header.
LEMMA HandleHeaderKeeps ==
    ASSUME IInv, HandleHeader
    PROVE  IInv'
<1> DEFINE s == Steal(entries, 0, Head(local))
<1>1. /\ local # << >> /\ Head(local).idx = 0 /\ sending = Idle
      /\ entries' = s.slots /\ ref' = s.ref /\ local' = Tail(local)
      /\ UNCHANGED <<fw, list, sending, orphans, events>>
  BY DEF HandleHeader, Handled
<1>2. Head(local).idx \in EntryIdx
  BY <1>1, ZeroIsSlot
<1>3. s = Steal(entries, Head(local).idx, Head(local))
  BY <1>1
<1> HIDE DEF s
<1>4. /\ entries' \in [EntryIdx -> Notif \cup {NoNotif}] /\ ref' \in [Pages -> Int]
      /\ Handed(entries', orphans', EventPages, WaitingPages', FwPage)
      /\ Counted(ref', HeldPages')
      /\ Waiting(local', list', FwPage) /\ local' \in Seq(Notif)
  BY <1>1, <1>2, <1>3, StealKeeps, HandledPages
<1>5. list' \in Seq(Notif) /\ orphans' \in SUBSET (Nat \X Nat)
  BY <1>1, Facts
<1> QED
  BY <1>1, <1>4, <1>5, KernelKeeps

\* A chunk beyond the slots is ignored.
LEMMA IgnoreChunkKeeps ==
    ASSUME IInv, IgnoreChunk
    PROVE  IInv'
<1> DEFINE P == PageOf(Head(local))
           w == SeqPages(Tail(local)) \cup SeqPages(list)
           E == EntryPages(entries)
<1>1. /\ local # << >> /\ ref' = Put(ref, {P}) /\ local' = Tail(local)
      /\ UNCHANGED <<fw, list, entries, sending, orphans, events>>
  BY DEF IgnoreChunk, Handled, histVars
<1>2. Head(local) \in Notif /\ Tail(local) \in Seq(Notif)
  BY <1>1, Facts, PagesTail
<1>3. /\ Waiting(Tail(local), list, FwPage)
      /\ \A r \in w : Before(P, r)
      /\ SeqPages(local) = {P} \cup SeqPages(Tail(local))
  BY <1>1, Facts, WaitingTail
<1>4. WaitingPages = {P} \cup w /\ HeldPages = {P} \cup w \cup E \cup orphans
  BY <1>3 DEF WaitingPages, HeldPages
<1>5. WaitingPages' = w /\ HeldPages' = w \cup E \cup orphans
  BY <1>1, HandledPages
<1>6. \A p \in E \cup orphans : Before(p, P)
  BY <1>4, Facts DEF Handed
<1>7. P \in Nat \X Nat /\ E \subseteq Nat \X Nat /\ orphans \in SUBSET (Nat \X Nat)
      /\ w \subseteq Nat \X Nat
  BY <1>4, Facts
<1>8. P \notin w \cup E \cup orphans
  BY <1>3, <1>6, <1>7, BeforeOrder
<1> HIDE DEF P, w, E
<1>9. HeldPages' = HeldPages \ {P} /\ {P} \in SUBSET HeldPages
  BY <1>4, <1>5, <1>8
<1>10. ref' \in [Pages -> Int] /\ Counted(ref', HeldPages')
  BY <1>1, <1>9, Facts, CountedPut
<1>11. Handed(entries', orphans', EventPages, WaitingPages', FwPage)
  <2>1. w \in SUBSET WaitingPages
    BY <1>4
  <2> QED
    BY <1>1, <1>5, <2>1, Facts, HandedFewer
<1>12. /\ list' \in Seq(Notif) /\ local' \in Seq(Notif) /\ orphans' \in SUBSET (Nat \X Nat)
       /\ entries' \in [EntryIdx -> Notif \cup {NoNotif}]
       /\ Waiting(local', list', FwPage)
  BY <1>1, <1>2, <1>3, Facts
<1>13. sending' # Idle => entries'[0] # NoNotif /\ sending'.hdr = entries'[0].meas
  BY <1>1 DEF IInv, Building
<1> QED
  BY <1>1, <1>10, <1>11, <1>12, <1>13, KernelKeeps

\* iwl_mvm_rx_csi_chunk.
LEMMA HandleChunkKeeps ==
    ASSUME IInv, HandleChunk
    PROVE  IInv'
<1> DEFINE n == Head(local)
           s == Steal(entries, n.idx, n)
           e == s.slots
           r == s.ref
           w == SeqPages(Tail(local)) \cup SeqPages(list)
<1>1. /\ local # << >> /\ n.idx > 0 /\ n.idx < MaxChunks /\ sending = Idle
      /\ local' = Tail(local)
      /\ UNCHANGED <<fw, list, orphans, events>>
      /\ \/ entries' = e /\ ref' = r /\ sending' = sending
         \/ entries' = NoEntries /\ ref' = Put(r, EntryPages(e)) /\ sending' = sending
         \/ entries' = e /\ ref' = r /\ Reportable(e) /\ sending' = Report(e)
  BY DEF HandleChunk, Handled, InRange
<1>2. n.idx \in EntryIdx
  <2>1. n.idx \in Nat
    BY <1>1, Facts, PagesTail DEF Notif
  <2> QED
    BY <1>1, <2>1, ZeroIsSlot DEF EntryIdx
<1>3. /\ e \in [EntryIdx -> Notif \cup {NoNotif}] /\ r \in [Pages -> Int]
      /\ Handed(e, orphans, EventPages, w, FwPage)
      /\ Counted(r, w \cup EntryPages(e) \cup orphans)
      /\ Waiting(Tail(local), list, FwPage) /\ Tail(local) \in Seq(Notif)
  BY <1>1, <1>2, StealKeeps
<1> HIDE DEF n, s
<1>4. WaitingPages' = w /\ HeldPages' = w \cup EntryPages(entries') \cup orphans
  BY <1>1, HandledPages
<1>5. /\ list' \in Seq(Notif) /\ local' \in Seq(Notif) /\ orphans' \in SUBSET (Nat \X Nat)
      /\ Waiting(local', list', FwPage)
  BY <1>1, <1>3, Facts
<1>6. w \in SUBSET (Nat \X Nat) /\ orphans \in SUBSET (Nat \X Nat)
  BY <1>3, Facts, SeqPagesType
<1> HIDE DEF e, r, w
<1>7. CASE entries' = e /\ ref' = r /\ sending' = sending
  BY <1>1, <1>3, <1>4, <1>5, <1>7, KernelKeeps
<1>8. CASE entries' = NoEntries /\ ref' = Put(r, EntryPages(e)) /\ sending' = sending
  <2>1. /\ ref' \in [Pages -> Int] /\ Counted(ref', HeldPages')
        /\ Handed(entries', orphans', EventPages, WaitingPages', FwPage)
    BY <1>1, <1>3, <1>4, <1>6, <1>8, Cleared
  <2>2. entries' \in [EntryIdx -> Notif \cup {NoNotif}]
    BY <1>8, EntryPagesNone
  <2> QED
    BY <1>1, <1>5, <1>8, <2>1, <2>2, KernelKeeps
<1>9. CASE entries' = e /\ ref' = r /\ Reportable(e) /\ sending' = Report(e)
  <2>1. entries'[0] # NoNotif /\ sending'.hdr = entries'[0].meas
    BY <1>9 DEF Reportable, Report
  <2> QED
    BY <1>1, <1>3, <1>4, <1>5, <1>9, <2>1, KernelKeeps
<1> QED
  BY <1>1, <1>7, <1>8, <1>9

\* iwl_mvm_csi_complete has sent its event, or could not: the pages are freed.
LEMMA FinishFacts ==
    ASSUME IInv, FinishEvent
    PROVE  /\ UNCHANGED <<fw, list, local, orphans>> /\ sending' = Idle
           /\ entries' = NoEntries /\ entries' \in [EntryIdx -> Notif \cup {NoNotif}]
           /\ ref' \in [Pages -> Int] /\ Counted(ref', HeldPages')
           /\ WaitingPages' = WaitingPages
           /\ entries[0] # NoNotif /\ sending.hdr = entries[0].meas
<1>1. /\ UNCHANGED <<fw, list, local, orphans>> /\ sending # Idle /\ sending' = Idle
      /\ entries' = NoEntries /\ ref' = Put(ref, EntryPages(entries))
  BY DEF FinishEvent
<1>2. WaitingPages' = WaitingPages
  BY <1>1 DEF WaitingPages
<1>3. /\ HeldPages = WaitingPages \cup EntryPages(entries) \cup orphans
      /\ HeldPages' = WaitingPages \cup EntryPages(NoEntries) \cup orphans
  BY <1>1, <1>2 DEF HeldPages
<1>4. WaitingPages \in SUBSET (Nat \X Nat)
  BY Facts
<1>5. ref' \in [Pages -> Int] /\ Counted(ref', HeldPages')
  BY <1>1, <1>3, <1>4, Facts, Cleared
<1> QED
  BY <1>1, <1>2, <1>5, EntryPagesNone DEF IInv, Building

\* The message could not be allocated.
LEMMA EventAllocFailsKeeps ==
    ASSUME IInv, EventAllocFails
    PROVE  IInv'
<1>1. FinishEvent /\ events' = events
  BY DEF EventAllocFails
<1>2. Handed(entries', orphans', EventPages, WaitingPages', FwPage)
  BY <1>1, FinishFacts, Facts, HandedNone
<1>3. /\ list' \in Seq(Notif) /\ local' \in Seq(Notif) /\ orphans' \in SUBSET (Nat \X Nat)
      /\ Waiting(local', list', FwPage)
  BY <1>1, FinishFacts, Facts
<1> QED
  BY <1>1, <1>2, <1>3, FinishFacts, KernelKeeps

\* One more event.
LEMMA EventAdded ==
    ASSUME NEW v, v \in Seq({v[k] : k \in 1 .. Len(v)}), NEW x, NEW u, u = Append(v, x)
    PROVE  /\ u \in Seq({u[k] : k \in 1 .. Len(u)})
           /\ Len(v) \in Nat /\ Len(u) = Len(v) + 1
           /\ u[Len(v) + 1] = x /\ \A k \in 1 .. Len(v) : u[k] = v[k]
<1> DEFINE V == {v[k] : k \in 1 .. Len(v)}
           S == V \cup {x}
           U == {u[k] : k \in 1 .. Len(u)}
<1>1. v \in Seq(S)
  BY SeqMonotonic
<1>2. x \in S
  OBVIOUS
<1> HIDE DEF S
<1>3. /\ u \in Seq(S) /\ Len(v) \in Nat /\ Len(u) = Len(v) + 1
      /\ u[Len(v) + 1] = x /\ \A k \in 1 .. Len(v) : u[k] = v[k]
  BY <1>1, <1>2, AppendProperties
<1>4. \A k \in 1 .. Len(u) : u[k] \in U
  OBVIOUS
<1> HIDE DEF U
<1>5. u \in [1 .. Len(u) -> U] /\ Len(u) \in Nat
  BY <1>3, <1>4, LenProperties
<1>6. u \in Seq(U)
  <2>1. [1 .. Len(u) -> U] \in {[1 .. n -> U] : n \in Nat}
    BY <1>5
  <2>2. u \in UNION {[1 .. n -> U] : n \in Nat}
    BY <1>5, <2>1, Zenon
  <2>3. Seq(U) = UNION {[1 .. n -> U] : n \in Nat}
    BY SeqDef, Zenon
  <2> QED
    BY <2>2, <2>3, Zenon
<1> QED
  BY <1>3, <1>6 DEF U

\* The event is sent: its header is younger than those of the events before.
LEMMA SendEventKeeps ==
    ASSUME IInv, SendEvent
    PROVE  IInv'
<1> DEFINE x == [to |-> portid, hdr |-> sending.hdr, data |-> sending.data]
           H == entries[0]
<1>1. FinishEvent /\ events' = Append(events, x)
  BY DEF SendEvent
<1>2. H # NoNotif /\ x.hdr = H.meas
  BY <1>1, FinishFacts
<1>3. H \in Notif /\ PageOf(H) \in EntryPages(entries)
  BY <1>2, Facts, EntryPagesType
<1>4. H.seq = 0 /\ \A p \in EventPages : Before(p, PageOf(H))
  BY <1>2, Facts DEF Handed
<1>5. PageOf(H) = <<x.hdr, 0>> /\ x.hdr \in Nat
  BY <1>2, <1>3, <1>4 DEF PageOf, Notif
<1>6. Handed(entries', orphans', EventPages \cup {PageOf(H)}, WaitingPages', FwPage)
  <2>1. /\ Handed(entries, orphans, EventPages, WaitingPages, FwPage)
        /\ entries \in [EntryIdx -> Notif \cup {NoNotif}] /\ entries[0] # NoNotif
    BY <1>2, Facts
  <2>2. Handed(NoEntries, orphans, EventPages \cup {PageOf(entries[0])}, WaitingPages, FwPage)
    BY <2>1, HandedEvent
  <2>3. entries' = NoEntries /\ orphans' = orphans /\ WaitingPages' = WaitingPages
    BY <1>1, FinishFacts
  <2> QED
    BY <2>2, <2>3
<1> HIDE DEF x, H
<1>7. events \in Seq({events[k] : k \in 1 .. Len(events)})
  BY DEF IInv, Types
<1>8. /\ events' \in Seq({events'[k] : k \in 1 .. Len(events')})
      /\ Len(events) \in Nat /\ Len(events') = Len(events) + 1
      /\ events'[Len(events) + 1] = x
      /\ \A k \in 1 .. Len(events) : events'[k] = events[k]
  BY <1>1, <1>7, EventAdded
<1>9. /\ \A k \in 1 .. Len(events') : k \in 1 .. Len(events) \/ k = Len(events) + 1
      /\ \A k \in 1 .. Len(events) : k \in 1 .. Len(events')
      /\ Len(events) + 1 \in 1 .. Len(events')
  BY <1>8
<1>10. \A k \in 1 .. Len(events) : events[k].hdr \in Nat
  BY DEF IInv, Types
<1>11. \A k \in 1 .. Len(events') : events'[k].hdr \in Nat
  BY <1>5, <1>8, <1>9, <1>10
<1>12. EventPages' = EventPages \cup {PageOf(H)}
  <2>1. ASSUME NEW k \in 1 .. Len(events')
        PROVE  <<events'[k].hdr, 0>> \in EventPages \cup {PageOf(H)}
    BY <1>5, <1>8, <1>9 DEF EventPages
  <2>2. ASSUME NEW k \in 1 .. Len(events) PROVE <<events[k].hdr, 0>> \in EventPages'
    <3>1. k \in 1 .. Len(events') /\ events'[k].hdr = events[k].hdr
      BY <1>8, <1>9
    <3> QED
      BY <3>1 DEF EventPages
  <2>3. PageOf(H) \in EventPages'
    BY <1>5, <1>8, <1>9 DEF EventPages
  <2> QED
    BY <2>1, <2>2, <2>3 DEF EventPages
<1>13. ReportedOnceInOrder'
  <2>1. SUFFICES ASSUME NEW j \in 1 .. Len(events'), NEW k \in 1 .. Len(events'), j < k
                 PROVE  events'[j].hdr < events'[k].hdr
    BY DEF ReportedOnceInOrder
  <2>2. j \in 1 .. Len(events)
    BY <1>8, <2>1
  <2>3. CASE k \in 1 .. Len(events)
    BY <1>8, <2>1, <2>2, <2>3 DEF IInv, ReportedOnceInOrder
  <2>4. CASE k = Len(events) + 1
    <3>1. Before(<<events[j].hdr, 0>>, <<x.hdr, 0>>)
      BY <1>4, <1>5, <2>2 DEF EventPages
    <3>2. events[j].hdr < x.hdr
      BY <1>5, <1>10, <2>2, <3>1 DEF Before
    <3> QED
      BY <1>8, <2>2, <2>4, <3>2
  <2> QED
    BY <1>9, <2>3, <2>4
<1>14. Types'
  BY <1>1, <1>8, <1>11, Facts, FinishFacts DEF Types, FwIdle
<1>15. FwPage' = FwPage
  BY <1>1, FinishFacts DEF FwPage
<1>16. Handed(entries, orphans, EventPages, WaitingPages, FwPage)'
  BY <1>6, <1>12, <1>15
<1>17. Waiting(local, list, FwPage)' /\ Counted(ref, HeldPages)'
  BY <1>1, <1>15, Facts, FinishFacts
<1>18. Building'
  BY <1>1, FinishFacts DEF Building, Idle
<1> QED
  BY <1>13, <1>14, <1>16, <1>17, <1>18 DEF IInv

\* iwl_mvm_mac_stop purges the list.
LEMMA MacStopKeeps ==
    ASSUME IInv, MacStop
    PROVE  IInv'
<1> DEFINE Q == SeqPages(list)
           L == SeqPages(local)
           E == EntryPages(entries)
<1>1. /\ fw' = [fw EXCEPT !.next = fw.count + 1] /\ list' = << >> /\ ref' = Put(ref, Q)
      /\ UNCHANGED <<local, entries, sending, orphans, events>>
  BY DEF MacStop, SeqPages
<1>2. /\ fw \in [meas : Nat, count : Nat, next : Nat] /\ fw.next <= fw.count + 1
  BY Facts
<1>3. /\ fw'.meas = fw.meas /\ fw'.next = fw.count + 1 /\ fw'.count = fw.count
      /\ fw' \in [meas : Nat, count : Nat, next : Nat]
      /\ fw'.next <= fw'.count + 1 /\ fw'.next > fw'.count
  BY <1>1, <1>2
<1>4. FwPage = FwPage' \/ Before(FwPage, FwPage')
  BY <1>2, <1>3 DEF FwPage, Before
<1>5. FwPage' \in Nat \X Nat
  BY <1>3 DEF FwPage
<1>6. << >> \in Seq(Notif) /\ SeqPages(<< >>) = {}
  BY PagesEmpty
<1>7. Waiting(local, << >>, FwPage)
  BY Facts, WaitingPurge
<1>8. Waiting(local', list', FwPage')
  BY <1>1, <1>4, <1>5, <1>6, <1>7, Facts, WaitingLater
<1>9. WaitingPages = L \cup Q /\ HeldPages = L \cup Q \cup E \cup orphans
  BY DEF WaitingPages, HeldPages
<1>10. WaitingPages' = L /\ HeldPages' = L \cup E \cup orphans
  BY <1>1, <1>6 DEF WaitingPages, HeldPages
<1>11. \A p \in L \cup E \cup orphans, r \in Q : Before(p, r)
  BY <1>9, Facts DEF Waiting, Handed
<1>12. /\ L \subseteq Nat \X Nat /\ Q \subseteq Nat \X Nat /\ E \subseteq Nat \X Nat
       /\ orphans \in SUBSET (Nat \X Nat)
  BY <1>9, Facts
<1> HIDE DEF L, Q, E
<1>13. Q \cap (L \cup E \cup orphans) = {}
  BY <1>11, <1>12, BeforeOrder
<1>14. HeldPages' = HeldPages \ Q /\ Q \in SUBSET HeldPages /\ L \in SUBSET WaitingPages
  BY <1>9, <1>10, <1>13
<1>15. ref' \in [Pages -> Int] /\ Counted(ref', HeldPages')
  BY <1>1, <1>14, Facts, CountedPut
<1>16. Handed(entries, orphans, EventPages, WaitingPages, FwPage')
  BY <1>4, <1>5, Facts, HandedLater
<1>17. Handed(entries', orphans', EventPages, WaitingPages', FwPage')
  BY <1>1, <1>10, <1>14, <1>16, HandedFewer
<1>18. sending' # Idle => entries'[0] # NoNotif /\ sending'.hdr = entries'[0].meas
  BY <1>1 DEF IInv, Building
<1>19. /\ list' \in Seq(Notif) /\ local' \in Seq(Notif) /\ orphans' \in SUBSET (Nat \X Nat)
       /\ entries' \in [EntryIdx -> Notif \cup {NoNotif}]
  BY <1>1, <1>6, Facts
<1> QED
  BY <1>1, <1>3, <1>8, <1>15, <1>17, <1>18, <1>19, StepKeeps

\* iwl_op_mode_mvm_stop leaves the pages of csi_data_entries behind.
LEMMA OpModeStopKeeps ==
    ASSUME IInv, OpModeStop
    PROVE  IInv'
<1>1. /\ orphans' = orphans \cup EntryPages(entries) /\ entries' = NoEntries /\ sending = Idle
      /\ UNCHANGED <<fw, list, local, sending, ref, events>>
  BY DEF OpModeStop, WorkerDone
<1>2. WaitingPages' = WaitingPages
  BY <1>1 DEF WaitingPages
<1>3. HeldPages' = HeldPages
  BY <1>1, <1>2, EntryPagesNone DEF HeldPages
<1>4. Handed(entries', orphans', EventPages, WaitingPages', FwPage)
  BY <1>1, <1>2, Facts, HandedLeft
<1>5. orphans' \in SUBSET (Nat \X Nat) /\ entries' \in [EntryIdx -> Notif \cup {NoNotif}]
  BY <1>1, Facts, EntryPagesNone
<1>6. /\ list' \in Seq(Notif) /\ local' \in Seq(Notif) /\ ref' \in [Pages -> Int]
      /\ Waiting(local', list', FwPage) /\ Counted(ref', HeldPages')
  BY <1>1, <1>3, Facts
<1> QED
  BY <1>1, <1>4, <1>5, <1>6, KernelKeeps

\* The invariant holds at the start.
LEMMA InitInv ==
    ASSUME Init
    PROVE  IInv
<1>1. /\ fw = [meas |-> 0, count |-> 0, next |-> 1] /\ list = << >> /\ local = << >>
      /\ entries = NoEntries /\ sending = Idle /\ ref = [p \in Pages |-> 0]
      /\ orphans = {} /\ events = << >>
  BY DEF Init
<1>2. Len(events) = 0 /\ EventPages = {}
  BY <1>1 DEF EventPages
<1>3. WaitingPages = {} /\ HeldPages = {}
  BY <1>1, PagesEmpty, EntryPagesNone DEF WaitingPages, HeldPages
<1>4. Types
  BY <1>1, EntryPagesNone DEF Types, FwIdle
<1>5. Waiting(local, list, FwPage)
  BY <1>1, PagesEmpty DEF Waiting
<1>6. Handed(entries, orphans, EventPages, WaitingPages, FwPage)
  BY <1>1, <1>2, <1>3, EntryPagesNone DEF Handed
<1>7. Counted(ref, HeldPages)
  BY <1>1, <1>3 DEF Counted
<1>8. Building /\ ReportedOnceInOrder
  BY <1>1 DEF Building, ReportedOnceInOrder
<1> QED
  BY <1>4, <1>5, <1>6, <1>7, <1>8 DEF IInv

\* Every step of the system keeps the invariant.
LEMMA NextInv ==
    ASSUME IInv, [Next]_vars
    PROVE  IInv'
<1>1. CASE \E n \in ChunkCounts : Capture(n)
  BY <1>1, CaptureKeeps
<1>2. CASE Receive
  BY <1>2, RxKeeps, RxLostKeeps DEF Receive
<1>3. CASE Worker
  BY <1>3, SpliceKeeps, HandleHeaderKeeps, IgnoreChunkKeeps, HandleChunkKeeps, SendEventKeeps,
     EventAllocFailsKeeps DEF Worker
<1>4. CASE FwRestart \/ MacStop \/ OpModeStop
  BY <1>4, FwRestartKeeps, MacStopKeeps, OpModeStopKeeps
<1>5. CASE \/ MacStart \/ OpModeStart \/ UNCHANGED vars
           \/ \E c \in Clients : CsiRegister(c) \/ NetlinkRelease(c)
  BY <1>5, ElsewhereKeeps
<1> QED
  BY <1>1, <1>2, <1>3, <1>4, <1>5 DEF Next, Lifecycle

-----------------------------------------------------------------------------
(* References, exactly.                                                    *)

\* How many of the notifications in a list have page p: none or one.
LEMMA InListOnce ==
    ASSUME NEW s \in Seq(Notif), Sorted(s), NEW p
    PROVE  Cardinality({i \in 1 .. Len(s) : PageOf(s[i]) = p})
             = IF p \in SeqPages(s) THEN 1 ELSE 0
<1> DEFINE I == {i \in 1 .. Len(s) : PageOf(s[i]) = p}
<1>1. CASE p \in SeqPages(s)
  <2>1. PICK k \in 1 .. Len(s) : PageOf(s[k]) = p
    BY <1>1 DEF SeqPages
  <2>2. \A i \in 1 .. Len(s) : s[i] \in Notif
    OBVIOUS
  <2>3. p \in Nat \X Nat
    BY <2>1, <2>2, NotifPage
  <2>4. ~Before(p, p)
    BY <2>3, BeforeOrder
  <2>5. ASSUME NEW i \in I PROVE i = k
    <3>1. i \in 1 .. Len(s) /\ PageOf(s[i]) = p
      OBVIOUS
    <3>2. ~(i < k) /\ ~(k < i)
      BY <2>1, <2>4, <3>1 DEF Sorted
    <3> QED
      BY <3>1, <3>2
  <2>6. I = {k}
    BY <2>1, <2>5
  <2> QED
    BY <1>1, <2>6, FS_Singleton
<1>2. CASE p \notin SeqPages(s)
  <2>1. I = {}
    BY <1>2 DEF SeqPages
  <2> QED
    BY <1>2, <2>1, FS_EmptySet
<1> QED
  BY <1>1, <1>2

\* The same for csi_data_entries.
LEMMA InSlotsOnce ==
    ASSUME NEW e, \A i, j \in Occupied(e) : PageOf(e[i]) = PageOf(e[j]) => i = j, NEW p
    PROVE  Cardinality({i \in Occupied(e) : PageOf(e[i]) = p})
             = IF p \in EntryPages(e) THEN 1 ELSE 0
<1> DEFINE I == {i \in Occupied(e) : PageOf(e[i]) = p}
<1>1. CASE p \in EntryPages(e)
  <2>1. PICK k \in Occupied(e) : PageOf(e[k]) = p
    BY <1>1 DEF EntryPages
  <2>2. I = {k}
    BY <2>1
  <2> QED
    BY <1>1, <2>2, FS_Singleton
<1>2. CASE p \notin EntryPages(e)
  <2>1. I = {}
    BY <1>2 DEF EntryPages
  <2> QED
    BY <1>2, <2>1, FS_EmptySet
<1> QED
  BY <1>1, <1>2

\* The kernel holds a page at most once, so its reference count is the number of holders.
LEMMA ExactFromInv ==
    ASSUME IInv
    PROVE  RefExact
<1> SUFFICES ASSUME NEW p \in Pages PROVE ref[p] = Holders(p)
  BY DEF RefExact
<1> DEFINE L == SeqPages(local)
           Q == SeqPages(list)
           E == EntryPages(entries)
<1>1. Sorted(local) /\ Sorted(list) /\ local \in Seq(Notif) /\ list \in Seq(Notif)
  BY Facts DEF Waiting
<1>2. \A i, j \in Occupied(entries) : PageOf(entries[i]) = PageOf(entries[j]) => i = j
  BY Facts DEF Handed
<1>3. /\ Cardinality({i \in 1 .. Len(list) : PageOf(list[i]) = p}) = IF p \in Q THEN 1 ELSE 0
      /\ Cardinality({i \in 1 .. Len(local) : PageOf(local[i]) = p}) = IF p \in L THEN 1 ELSE 0
      /\ Cardinality({i \in Occupied(entries) : PageOf(entries[i]) = p})
           = IF p \in E THEN 1 ELSE 0
  BY <1>1, <1>2, InListOnce, InSlotsOnce
<1>4. /\ \A a \in L, b \in Q : Before(a, b)
      /\ \A a \in E \cup orphans, b \in L \cup Q : Before(a, b)
      /\ E \cap orphans = {}
  BY Facts DEF Waiting, Handed, WaitingPages
<1>5. /\ L \subseteq Nat \X Nat /\ E \cup orphans \subseteq Nat \X Nat
      /\ Q \subseteq Nat \X Nat
  BY Facts DEF WaitingPages
<1> HIDE DEF L, Q, E
<1>6. /\ L \cap Q = {} /\ (E \cup orphans) \cap (L \cup Q) = {}
  BY <1>4, <1>5, BeforeOrder
<1>7. ref[p] = IF p \in L \cup Q \cup E \cup orphans THEN 1 ELSE 0
  BY Facts DEF Counted, HeldPages, WaitingPages, L, Q, E
<1> DEFINE a == IF p \in Q THEN 1 ELSE 0
           b == IF p \in L THEN 1 ELSE 0
           c == IF p \in E THEN 1 ELSE 0
           d == IF p \in orphans THEN 1 ELSE 0
<1>8. Holders(p) = a + b + c + d
  BY <1>3 DEF Holders
<1> QED
  BY <1>4, <1>6, <1>7, <1>8

-----------------------------------------------------------------------------
(* What the assembly guarantees.                                           *)

\* The invariant holds in every reachable state: pages wait in the order of sending and after
\* those that csi_data_entries, earlier op modes and events have had, each held once.
THEOREM Invariance == Spec => []IInv
<1>1. Init => IInv
  BY InitInv
<1>2. IInv /\ [Next]_vars => IInv'
  BY NextInv
<1> QED
  BY <1>1, <1>2, PTL DEF Spec

\* The reference count of every page equals the number of its holders, through steal, purge,
\* the "confused" path and the completion: no double free, and only op mode stop leaks.
THEOREM ReferencesExact == Spec => []RefExact
<1>1. IInv => RefExact
  BY ExactFromInv
<1> QED
  BY <1>1, Invariance, PTL

\* Events carry the headers of different measurements in the order of capture, whatever is lost,
\* restarted or stopped.
THEOREM EventsInOrder == Spec => []ReportedOnceInOrder
<1>1. IInv => ReportedOnceInOrder
  BY DEF IInv
<1> QED
  BY <1>1, Invariance, PTL

-----------------------------------------------------------------------------
(* Losses and mixtures.  The rest of this module assumes that a measurement *)
(* has fewer chunks than csi_data_entries has slots for them, and than the  *)
(* fields of chunk->ctl can count; then no chunk is ignored.                *)

CountsFit == \A n \in ChunkCounts : n < MaxChunks /\ n < FieldSize

\* The notifications that wait, and those in csi_data_entries that no event is being built of.
RangeOf(s) == {s[i] : i \in 1 .. Len(s)}
Waits == RangeOf(local) \cup RangeOf(list)
SlotSetOf(e) == {e[i] : i \in Occupied(e)}
Kept == IF sending = Idle THEN SlotSetOf(entries) ELSE {}

\* The order of sending; f is the firmware.
Older(x, y) == x.meas < y.meas \/ (x.meas = y.meas /\ x.seq < y.seq)
Sent(x, f) == x.meas < f.meas \/ (x.meas = f.meas /\ x.seq < f.next)
Over(f) == f.next > f.count

\* A notification as the firmware makes it, and the last one of a measurement.
Fits(n) == n \in Notif /\ n.idx = n.seq /\ n.seq <= n.num /\ 0 < n.num /\ n.num < MaxChunks
Final(n) == n.seq = n.num

FwFits(f) ==
    /\ f \in [meas : Nat, count : Nat, next : Nat] /\ f.next <= f.count + 1
    /\ f.count < MaxChunks /\ f.count < FieldSize
    /\ IF f.meas = 0 THEN Over(f) ELSE f.count > 0

\* W wait, E are in csi_data_entries: sent before, in this order, no last chunk is kept, and
\* a slot has one notification.
Flow(W, E, f) ==
    /\ \A x \in W \cup E : Fits(x) /\ Sent(x, f) /\ (x.meas = f.meas => x.num = f.count)
    /\ \A x, y \in W \cup E : x.meas = y.meas => x.num = y.num
    /\ \A x \in E : ~Final(x) /\ \A y \in W : Older(x, y)
    /\ \A x, y \in E : x.seq = y.seq => x = y

\* n is handled next.
First(n, W) == n \in W /\ \A y \in W : y = n \/ Older(n, y)

\* The fields of a notification and of the firmware are numbers.
LEMMA FlowTypes ==
    ASSUME NEW W, NEW E, NEW f, Flow(W, E, f), FwFits(f)
    PROVE  /\ \A x \in W \cup E : x.meas \in Nat \ {0} /\ x.seq \in Nat /\ x.num \in Nat \ {0}
           /\ f.meas \in Nat /\ f.next \in Nat /\ f.count \in Nat
BY DEF Flow, Fits, Notif, FwFits

\* The firmware measures.
LEMMA FlowBegins ==
    ASSUME NEW W, NEW E, NEW f, NEW g, FwFits(f), FwFits(g), Flow(W, E, f),
           g.meas = f.meas + 1
    PROVE  Flow(W, E, g)
<1>1. \A x \in W \cup E : x.meas \in Nat /\ x.meas < g.meas
  <2> TAKE x \in W \cup E
  <2>1. x.meas \in Nat /\ f.meas \in Nat /\ Sent(x, f)
    BY FlowTypes DEF Flow
  <2> QED
    BY <2>1 DEF Sent
<1>2. g.meas \in Nat
  BY DEF FwFits
<1> QED
  BY <1>1, <1>2 DEF Flow, Sent

\* Notifications are lost, in the receive path (V is W) or with the list.
LEMMA FlowLost ==
    ASSUME NEW W, NEW V, NEW E, NEW f, NEW g, FwFits(f), FwFits(g), Flow(W, E, f),
           V \subseteq W, g.meas = f.meas, g.count = f.count, f.next <= g.next
    PROVE  Flow(V, E, g)
<1>1. f.next \in Nat /\ g.next \in Nat
  BY DEF FwFits
<1>2. \A x \in W \cup E : Sent(x, g)
  <2> TAKE x \in W \cup E
  <2>1. x.seq \in Nat /\ Sent(x, f)
    BY FlowTypes DEF Flow
  <2> QED
    BY <1>1, <2>1 DEF Sent
<1> QED
  BY <1>2 DEF Flow

\* The notification n that f sends next.
Next1(n, f) == /\ Fits(n) /\ n.meas = f.meas /\ n.seq = f.next /\ n.num = f.count
               /\ f.next <= f.count
Sends(f, g) == g.meas = f.meas /\ g.count = f.count /\ g.next = f.next + 1

\* The firmware sends, and the notification is queued.
LEMMA FlowQueued ==
    ASSUME NEW W, NEW E, NEW f, NEW g, NEW n, FwFits(f), FwFits(g), Flow(W, E, f),
           Next1(n, f), Sends(f, g)
    PROVE  Flow(W \cup {n}, E, g)
<1>1. /\ \A x \in W \cup E : x.meas \in Nat /\ x.seq \in Nat /\ Sent(x, f)
      /\ f.meas \in Nat /\ f.next \in Nat
  BY FlowTypes DEF Flow
<1>2. \A x \in W \cup E : Sent(x, g)
  BY <1>1 DEF Sent, Sends
<1>3. Sent(n, g) /\ Fits(n) /\ n.num = g.count /\ n.meas = g.meas
  BY <1>1 DEF Sent, Sends, Next1
<1>4. \A x \in W \cup E : Older(x, n)
  BY <1>1 DEF Sent, Older, Next1
<1>5. \A x \in W \cup E : x.meas = g.meas => x.num = g.count
  BY DEF Flow, Sends
<1> QED
  BY <1>2, <1>3, <1>4, <1>5 DEF Flow

\* n goes to its slot.
LEMMA FlowKept ==
    ASSUME NEW W, NEW E, NEW f, NEW n, FwFits(f), Flow(W, E, f), First(n, W),
           ~Final(n), \A x \in E : x.seq # n.seq
    PROVE  Flow(W \ {n}, E \cup {n}, f)
BY DEF Flow, First

\* The slots are cleared.
LEMMA FlowCleared ==
    ASSUME NEW W, NEW V, NEW E, NEW f, Flow(W, E, f), V \subseteq W
    PROVE  Flow(V, {}, f)
BY DEF Flow

-----------------------------------------------------------------------------
(* One measurement per event.                                              *)

HasHeader(m, S) == \E y \in S : y.meas = m /\ y.seq = 0

\* The last chunk of measurement m is on its way.
LastComes(m, W, f) == (\E y \in W : y.meas = m /\ Final(y)) \/ (f.meas = m /\ ~Over(f))

\* The slots have one owner.
OneOwner(E) == \A x, y \in E : x.meas = y.meas

\* No measurement but m has lost its end.  While something of m is left its header is, so
\* that the header of the next one, which has not been handled yet, will find its slot taken.
Damaged(m, W, E, f) ==
    /\ m \in Nat /\ m <= f.meas /\ (f.meas = m => Over(f))
    /\ OneOwner(E)
    /\ \A x \in W \cup E : x.meas # m => LastComes(x.meas, W, f)
    /\ (\E x \in W \cup E : x.meas = m) =>
        /\ HasHeader(m, W \cup E)
        /\ \A x \in W : x.meas > m => HasHeader(x.meas, W)
        /\ f.meas > m /\ ~Over(f) /\ f.next > 0 => HasHeader(f.meas, W)

\* Nothing has been lost.
Headed(W, E, f) ==
    /\ \A x \in W \cup E : HasHeader(x.meas, W \cup E)
    /\ ~Over(f) /\ f.next > 0 => HasHeader(f.meas, W \cup E)

\* The firmware measures: no measurement but m loses its end by that.
LEMMA DamagedBegins ==
    ASSUME NEW W, NEW E, NEW f, NEW g, NEW m, FwFits(f), FwFits(g), Flow(W, E, f),
           g.meas = f.meas + 1, g.next = 0, Over(f), Damaged(m, W, E, f)
    PROVE  Damaged(m, W, E, g)
<1>1. m \in Nat /\ m <= g.meas /\ m # g.meas /\ f.meas \in Nat
  BY DEF Damaged, FwFits
<1>2. \A x \in W \cup E : x.meas # m => LastComes(x.meas, W, g)
  BY DEF Damaged, LastComes
<1> QED
  BY <1>1, <1>2 DEF Damaged

\* Nor does one lose its header.
LEMMA HeadedBegins ==
    ASSUME NEW W, NEW E, NEW f, NEW g, g.next = 0, Headed(W, E, f)
    PROVE  Headed(W, E, g)
BY DEF Headed

\* A notification is queued.
LEMMA DamagedQueued ==
    ASSUME NEW W, NEW E, NEW f, NEW g, NEW n, NEW m, FwFits(f), FwFits(g), Flow(W, E, f),
           Next1(n, f), Sends(f, g), Damaged(m, W, E, f)
    PROVE  Damaged(m, W \cup {n}, E, g)
<1>1. /\ m \in Nat /\ f.meas # m /\ m < f.meas /\ f.meas \in Nat /\ f.next \in Nat
      /\ f.count \in Nat
  BY FlowTypes DEF Damaged, Next1, Over
<1>2. g.meas = f.meas /\ g.count = f.count /\ g.next = f.next + 1
  BY DEF Sends
<1>3. LastComes(f.meas, W \cup {n}, g)
  BY <1>1, <1>2 DEF LastComes, Final, Over, Next1
<1>4. ASSUME NEW x \in (W \cup {n}) \cup E, x.meas # m
      PROVE  LastComes(x.meas, W \cup {n}, g)
  <2>1. CASE x.meas = f.meas
    BY <1>3, <2>1
  <2>2. CASE x.meas # f.meas
    <3>1. x \in W \cup E /\ LastComes(x.meas, W, f)
      BY <1>4, <2>2 DEF Next1, Damaged
    <3> QED
      BY <2>2, <3>1 DEF LastComes
  <2> QED
    BY <2>1, <2>2
<1>5. ASSUME NEW p \in (W \cup {n}) \cup E, p.meas = m
      PROVE  /\ HasHeader(m, (W \cup {n}) \cup E)
             /\ \A x \in W \cup {n} : x.meas > m => HasHeader(x.meas, W \cup {n})
             /\ HasHeader(f.meas, W \cup {n})
  <2>1. p \in W \cup E
    BY <1>1, <1>5 DEF Next1
  <2>2. /\ HasHeader(m, W \cup E)
        /\ \A x \in W : x.meas > m => HasHeader(x.meas, W)
        /\ f.next > 0 => HasHeader(f.meas, W)
    BY <1>1, <1>5, <2>1 DEF Damaged, Over, Next1
  <2>3. HasHeader(f.meas, W \cup {n})
    BY <1>1, <2>2 DEF HasHeader, Next1
  <2> QED
    BY <2>2, <2>3 DEF HasHeader, Next1
<1> QED
  BY <1>1, <1>2, <1>4, <1>5 DEF Damaged

\* The first one that is queued of a measurement is its header.
LEMMA HeadedQueued ==
    ASSUME NEW W, NEW E, NEW f, NEW g, NEW n, FwFits(f),
           Next1(n, f), Sends(f, g), Headed(W, E, f)
    PROVE  Headed(W \cup {n}, E, g)
<1>1. f.next \in Nat /\ f.count \in Nat
  BY DEF FwFits
<1>2. HasHeader(f.meas, (W \cup {n}) \cup E)
  BY <1>1 DEF HasHeader, Next1, Headed, Over
<1> QED
  BY <1>2 DEF Headed, HasHeader, Next1, Sends

\* The first loss is that of a notification that is not the last of its measurement.
LEMMA DamagedMiddle ==
    ASSUME NEW W, NEW E, NEW f, NEW g, FwFits(f), Flow(W, E, f), f.next < f.count,
           Sends(f, g), Damaged(0, W, E, f)
    PROVE  Damaged(0, W, E, g)
<1>1. ~Over(f) /\ ~Over(g) /\ g.meas = f.meas
  BY DEF Over, Sends, FwFits
<1>2. \A x \in W \cup E : x.meas # 0
  BY FlowTypes
<1> QED
  BY <1>1, <1>2 DEF Damaged, LastComes

\* Or the firmware's measurement ends here, and V are left of the notifications that waited.
LEMMA DamagedEnd ==
    ASSUME NEW W, NEW V, NEW E, NEW f, NEW g, FwFits(f), Flow(W, E, f),
           V \subseteq W, \A x \in V, y \in W \ V : Older(x, y),
           g.meas = f.meas, Over(g), Damaged(0, W, E, f), Headed(W, E, f)
    PROVE  \E m \in 0 .. f.meas : Damaged(m, V, E, g)
<1>1. /\ \A x \in W \cup E : /\ x.meas \in Nat \ {0} /\ x.seq \in Nat /\ x.num \in Nat
                             /\ Sent(x, f) /\ LastComes(x.meas, W, f) /\ HasHeader(x.meas, W \cup E)
      /\ f.meas \in Nat /\ f.next \in Nat
  <2>1. /\ \A x \in W \cup E : x.meas \in Nat \ {0} /\ x.seq \in Nat /\ x.num \in Nat
        /\ f.meas \in Nat /\ f.next \in Nat
    BY FlowTypes
  <2>2. \A x \in W \cup E : Sent(x, f) /\ HasHeader(x.meas, W \cup E)
    BY DEF Flow, Headed
  <2>3. \A x \in W \cup E : LastComes(x.meas, W, f)
    BY <2>1 DEF Damaged
  <2> QED
    BY <2>1, <2>2, <2>3
<1>2. OneOwner(E)
  BY DEF Damaged
<1> DEFINE Ends(k) == \E y \in V : y.meas = k /\ Final(y)
<1>3. \A x \in V \cup E, y \in W \ V : Older(x, y)
  BY DEF Flow
<1>4. ASSUME NEW x \in V \cup E, NEW z \in V \cup E, ~Ends(x.meas), x.meas < z.meas PROVE FALSE
  <2>1. LastComes(x.meas, W, f) /\ Sent(z, f) /\ x.meas \in Nat /\ z.meas \in Nat
    BY <1>1
  <2>2. PICK y \in W : y.meas = x.meas /\ Final(y)
    BY <1>1, <1>4, <2>1 DEF LastComes, Sent
  <2>3. y \in W \ V
    BY <1>4, <2>2
  <2>4. Older(z, y)
    BY <1>3, <2>3
  <2> QED
    BY <1>4, <2>1, <2>2, <2>4 DEF Older
<1>5. CASE \A x \in V \cup E : Ends(x.meas)
  <2>1. \A x \in V \cup E : LastComes(x.meas, V, g) /\ x.meas # 0
    BY <1>1, <1>5 DEF LastComes
  <2>2. Damaged(0, V, E, g)
    BY <1>1, <1>2, <2>1 DEF Damaged
  <2> QED
    BY <1>1, <2>2
<1>6. CASE \E x \in V \cup E : ~Ends(x.meas)
  <2>1. PICK p \in V \cup E : ~Ends(p.meas)
    BY <1>6
  <2> DEFINE m == p.meas
  <2>2. m \in Nat /\ m <= f.meas /\ m \in 0 .. f.meas
    BY <1>1 DEF Sent
  <2>3. ASSUME NEW x \in V \cup E, x.meas # m PROVE LastComes(x.meas, V, g)
    <3>1. x.meas \in Nat
      BY <1>1
    <3>2. CASE x.meas < m
      BY <1>4, <3>2 DEF LastComes
    <3>3. CASE m < x.meas
      BY <1>4, <2>1, <3>3
    <3> QED
      BY <2>2, <2>3, <3>1, <3>2, <3>3
  <2>4. ASSUME NEW x \in V \cup E, NEW h \in W \cup E, h.meas = x.meas, h.seq = 0
        PROVE  h \in V \cup E
    <3> SUFFICES ASSUME h \in W \ V PROVE FALSE
      OBVIOUS
    <3>1. Older(x, h)
      BY <1>3
    <3> QED
      BY <1>1, <2>4, <3>1 DEF Older
  <2>5. HasHeader(m, V \cup E)
    BY <1>1, <2>4 DEF HasHeader
  <2>6. ASSUME NEW x \in V, x.meas > m PROVE HasHeader(x.meas, V)
    <3>1. PICK h \in W \cup E : h.meas = x.meas /\ h.seq = 0
      BY <1>1 DEF HasHeader
    <3>2. h \in V \cup E
      BY <2>4, <3>1
    <3>3. h \notin E
      <4> SUFFICES ASSUME h \in E PROVE FALSE
        OBVIOUS
      <4>1. p \in V
        BY <1>2, <2>2, <2>6, <3>1 DEF OneOwner
      <4>2. Older(h, p)
        BY <4>1 DEF Flow
      <4> QED
        BY <1>1, <2>2, <2>6, <3>1, <4>2 DEF Older
    <3> QED
      BY <3>1, <3>2, <3>3 DEF HasHeader
  <2>7. Damaged(m, V, E, g)
    BY <1>2, <2>2, <2>3, <2>5, <2>6 DEF Damaged
  <2> QED
    BY <2>2, <2>7
<1> QED
  BY <1>5, <1>6

\* What is in the slots when n is handled belongs to the measurement of n, unless n is a header
\* that finds another one.
LEMMA Alone ==
    ASSUME NEW W, NEW E, NEW f, NEW m, NEW n, NEW x \in E, FwFits(f), Flow(W, E, f),
           Damaged(m, W, E, f), First(n, W),
           n.seq > 0 \/ (\A y \in E : y.seq # 0) \/ x.meas # m
    PROVE  x.meas = n.meas
<1>1. /\ \A y \in W \cup E : y.meas \in Nat /\ y.seq \in Nat /\ Sent(y, f)
      /\ f.meas \in Nat /\ m \in Nat /\ n \in W
  BY FlowTypes DEF Flow, Damaged, First
<1>2. \A y \in W : Older(x, y) /\ (y = n \/ Older(n, y))
  BY DEF Flow, First
<1> SUFFICES ASSUME x.meas < n.meas PROVE FALSE
  BY <1>1, <1>2 DEF Older
<1>3. CASE x.meas # m
  <2>1. LastComes(x.meas, W, f)
    BY <1>3 DEF Damaged
  <2>2. ~(f.meas = x.meas)
    BY <1>1 DEF Sent
  <2> QED
    BY <1>1, <1>2, <2>1, <2>2 DEF LastComes, Older
<1>4. CASE x.meas = m
  <2>1. HasHeader(m, W \cup E) /\ HasHeader(n.meas, W)
    BY <1>1, <1>4 DEF Damaged
  <2>2. PICK y \in W \cup E : y.meas = m /\ y.seq = 0
    BY <2>1 DEF HasHeader
  <2>3. y \in E
    BY <1>1, <1>2, <1>4, <2>2 DEF Older
  <2>4. n.seq > 0
    BY <1>4, <2>2, <2>3
  <2>5. PICK z \in W : z.meas = n.meas /\ z.seq = 0
    BY <2>1 DEF HasHeader
  <2> QED
    BY <1>1, <1>2, <2>4, <2>5 DEF Older
<1> QED
  BY <1>3, <1>4

\* A notification goes to its free slot.
LEMMA DamagedKept ==
    ASSUME NEW W, NEW E, NEW f, NEW m, NEW n, FwFits(f), Flow(W, E, f),
           Damaged(m, W, E, f), First(n, W), ~Final(n), \A x \in E : x.seq # n.seq
    PROVE  Damaged(m, W \ {n}, E \cup {n}, f)
<1>1. /\ \A y \in W \cup E : y.meas \in Nat /\ y.seq \in Nat
      /\ m \in Nat /\ n \in W /\ (W \ {n}) \cup (E \cup {n}) = W \cup E
  BY FlowTypes DEF Damaged, First
<1>2. \A x \in E : x.meas = n.meas
  <2>1. n.seq > 0 \/ \A y \in E : y.seq # 0
    BY <1>1
  <2> QED
    BY <2>1, Alone
<1>3. OneOwner(E \cup {n})
  BY <1>2 DEF OneOwner
<1>4. \A x \in W \cup E : x.meas # m => LastComes(x.meas, W \ {n}, f)
  BY DEF Damaged, LastComes
<1>5. ASSUME NEW p \in W \cup E, p.meas = m, NEW k, k > m, HasHeader(k, W), k \in Nat
      PROVE  HasHeader(k, W \ {n})
  <2>1. PICK z \in W : z.meas = k /\ z.seq = 0
    BY <1>5 DEF HasHeader
  <2>2. z # n
    <3> SUFFICES ASSUME z = n PROVE FALSE
      OBVIOUS
    <3>1. p \notin E /\ p # n
      BY <1>1, <1>2, <1>5, <2>1
    <3>2. Older(n, p)
      BY <3>1 DEF First
    <3> QED
      BY <1>1, <1>5, <2>1, <3>2 DEF Older
  <2> QED
    BY <2>1, <2>2 DEF HasHeader
<1>6. f.meas \in Nat
  BY DEF FwFits
<1> HIDE DEF HasHeader, LastComes, OneOwner
<1> QED
  BY <1>1, <1>3, <1>4, <1>5, <1>6 DEF Damaged

\* A header that goes to its slot is still there.
LEMMA HeadedKept ==
    ASSUME NEW W, NEW E, NEW f, NEW n, First(n, W), Headed(W, E, f)
    PROVE  Headed(W \ {n}, E \cup {n}, f)
<1>1. (W \ {n}) \cup (E \cup {n}) = W \cup E
  BY DEF First
<1> QED
  BY <1>1 DEF Headed

\* A last chunk, or one that finds its slot taken, clears the slots.
LEMMA DamagedCleared ==
    ASSUME NEW W, NEW E, NEW f, NEW m, NEW n, FwFits(f), Flow(W, E, f),
           Damaged(m, W, E, f), First(n, W), Final(n) \/ \E x \in E : x.seq = n.seq
    PROVE  Damaged(m, W \ {n}, {}, f)
<1>1. /\ \A y \in W \cup E : y.meas \in Nat /\ y.seq \in Nat /\ y.num \in Nat \ {0} /\ y.seq <= y.num
      /\ \A y \in W \cup E : y.meas = n.meas => y.num = n.num
      /\ \A y \in W : y # n => Older(n, y)
      /\ \A y \in E : Older(y, n)
      /\ m \in Nat /\ n \in W /\ f.meas \in Nat
  BY FlowTypes DEF Damaged, First, Flow, Fits
<1>2. ASSUME NEW x \in W \ {n}, x.meas = n.meas PROVE ~Final(n)
  BY <1>1, <1>2 DEF Final, Older
<1>3. ASSUME NEW x \in W \ {n}, x.meas # m PROVE LastComes(x.meas, W \ {n}, f)
  BY <1>2, <1>3 DEF Damaged, LastComes
<1>4. ASSUME NEW p \in W \ {n}, p.meas = m
      PROVE  /\ HasHeader(m, W \ {n})
             /\ \A k \in Nat : k > m /\ HasHeader(k, W) => HasHeader(k, W \ {n})
  <2>1. PICK h \in W \cup E : h.meas = m /\ h.seq = 0
    BY <1>4 DEF Damaged, HasHeader
  <2>2. h # n
    <3> SUFFICES ASSUME h = n PROVE FALSE
      OBVIOUS
    <3>1. PICK x \in E : x.seq = n.seq
      BY <1>1, <2>1 DEF Final
    <3>2. x.meas # m
      BY <1>1, <2>1, <3>1 DEF Older
    <3>3. x.meas = n.meas
      BY <3>2, Alone
    <3> QED
      BY <2>1, <3>2, <3>3
  <2>3. h \notin E
    <3> SUFFICES ASSUME h \in E PROVE FALSE
      OBVIOUS
    <3>1. n.meas = m /\ n.seq > 0
      BY <1>1, <1>4, <2>1 DEF Older
    <3>2. PICK x \in E : x.seq = n.seq
      BY <1>2, <1>4, <3>1
    <3>3. x.meas = n.meas
      BY <3>1, Alone
    <3> QED
      BY <1>1, <3>2, <3>3 DEF Older
  <2>4. ASSUME NEW k \in Nat, k > m, HasHeader(k, W) PROVE HasHeader(k, W \ {n})
    <3>1. PICK z \in W : z.meas = k /\ z.seq = 0
      BY <2>4 DEF HasHeader
    <3>2. z # n
      BY <1>1, <1>4, <2>4, <3>1 DEF Older
    <3> QED
      BY <3>1, <3>2 DEF HasHeader
  <2> QED
    BY <2>1, <2>2, <2>3, <2>4 DEF HasHeader
<1> HIDE DEF HasHeader, LastComes, OneOwner
<1>5. OneOwner({})
  BY DEF OneOwner
<1> QED
  BY <1>1, <1>3, <1>4, <1>5 DEF Damaged

\* Nothing has been lost: the slots cleared are those of a measurement that is complete.
LEMMA HeadedCleared ==
    ASSUME NEW W, NEW E, NEW f, NEW n, FwFits(f), Flow(W, E, f), Damaged(0, W, E, f),
           Headed(W, E, f), First(n, W), Final(n) \/ \E x \in E : x.seq = n.seq
    PROVE  Headed(W \ {n}, {}, f)
<1>1. /\ \A y \in W \cup E : y.meas \in Nat \ {0} /\ y.seq \in Nat /\ y.num \in Nat \ {0} /\ y.seq <= y.num
      /\ \A y \in W \cup E : y.meas = n.meas => y.num = n.num
      /\ \A y \in W : y # n => Older(n, y)
      /\ \A y \in E : Older(y, n)
      /\ n \in W /\ f.meas \in Nat /\ f.next \in Nat /\ f.count \in Nat
      /\ Sent(n, f) /\ (n.meas = f.meas => n.num = f.count)
  BY FlowTypes DEF First, Flow, Fits
<1>2. Final(n)
  <2> SUFFICES ASSUME NEW x \in E, x.seq = n.seq PROVE FALSE
    OBVIOUS
  <2>1. x.meas # 0
    BY <1>1
  <2>2. x.meas = n.meas
    BY <2>1, Alone
  <2> QED
    BY <1>1, <2>2 DEF Older
<1>3. \A y \in W \cup E : y.seq = 0 => y # n
  BY <1>1, <1>2 DEF Final
<1>4. ASSUME NEW x \in W \ {n} PROVE HasHeader(x.meas, W \ {n})
  <2>1. PICK h \in W \cup E : h.meas = x.meas /\ h.seq = 0
    BY DEF Headed, HasHeader
  <2>2. h \notin E
    BY <1>1, <1>2, <2>1 DEF Older, Final
  <2> QED
    BY <1>3, <2>1, <2>2 DEF HasHeader
<1>5. ASSUME ~Over(f), f.next > 0 PROVE HasHeader(f.meas, W \ {n})
  <2>1. PICK h \in W \cup E : h.meas = f.meas /\ h.seq = 0
    BY <1>5 DEF Headed, HasHeader
  <2>2. h \notin E
    BY <1>1, <1>2, <1>5, <2>1 DEF Older, Final, Sent, Over
  <2> QED
    BY <1>3, <2>1, <2>2 DEF HasHeader
<1> QED
  BY <1>4, <1>5 DEF Headed

-----------------------------------------------------------------------------
(* How many measurements a disturbance costs.                              *)

\* Chunk i (or the header) of measurement m, which has c of them, is in S and whole.
HasPart(m, c, i, S) == \E x \in S : x.meas = m /\ x.seq = i /\ x.num = c /\ x.whole

\* Everything of measurement m is there or will be sent.
Present(m, W, E, f) ==
    \E c \in Nat : \A i \in 0 .. c :
        HasPart(m, c, i, W \cup E) \/ (f.meas = m /\ f.count = c /\ f.next <= i)

\* When the header of measurement m is handled the slots will be empty: what is left of earlier
\* measurements is followed by a last chunk, which clears them.
ClearFor(m, W, E) ==
    \A x \in W \cup E : x.meas < m => \E y \in W : y.meas < m /\ Final(y) /\ ~Older(y, x)

\* Measurement m will be completed; the one after f.meas, when it comes.
OnTrack(m, W, E, f) ==
    IF m > f.meas THEN Over(f) => ClearFor(m, W, E)
    ELSE ClearFor(m, W, E) /\ Present(m, W, E, f)

\* The firmware measures: the measurement that was expected has begun.
LEMMA OnTrackBegins ==
    ASSUME NEW W, NEW E, NEW f, NEW g, NEW m \in Nat, FwFits(f), FwFits(g),
           g.meas = f.meas + 1, g.next = 0, Over(f), m <= g.meas + 1,
           m <= g.meas => OnTrack(m, W, E, f)
    PROVE  OnTrack(m, W, E, g)
<1>1. f.meas \in Nat /\ g.count \in Nat \ {0} /\ g.meas \in Nat
  BY DEF FwFits
<1>2. CASE m <= f.meas
  <2>1. ~(m > f.meas) /\ ~(m > g.meas) /\ m <= g.meas
    BY <1>1, <1>2
  <2>2. ClearFor(m, W, E) /\ Present(m, W, E, f)
    BY <2>1 DEF OnTrack
  <2>3. Present(m, W, E, g)
    <3>1. PICK c \in Nat : \A i \in 0 .. c :
             HasPart(m, c, i, W \cup E) \/ (f.meas = m /\ f.count = c /\ f.next <= i)
      BY <2>2 DEF Present
    <3>2. \A i \in 0 .. c : HasPart(m, c, i, W \cup E)
      <4> TAKE i \in 0 .. c
      <4>1. ~(f.count = c /\ f.next <= i)
        BY DEF Over, FwFits
      <4> QED
        BY <3>1, <4>1
    <3> QED
      BY <3>2 DEF Present
  <2> QED
    BY <2>1, <2>2, <2>3 DEF OnTrack
<1>3. CASE m = g.meas
  <2>1. m > f.meas /\ ~(m > g.meas) /\ m <= g.meas
    BY <1>1, <1>3
  <2>2. ClearFor(m, W, E)
    BY <2>1 DEF OnTrack
  <2>3. Present(m, W, E, g)
    BY <1>1, <1>3 DEF Present
  <2> QED
    BY <2>1, <2>2, <2>3 DEF OnTrack
<1>4. CASE m > g.meas
  <2>1. ~Over(g)
    BY <1>1 DEF Over
  <2> QED
    BY <1>4, <2>1 DEF OnTrack
<1> QED
  BY <1>1, <1>2, <1>3, <1>4

\* A notification is queued; a short one costs its own measurement.
LEMMA OnTrackQueued ==
    ASSUME NEW W, NEW E, NEW f, NEW g, NEW n, NEW m \in Nat, FwFits(f), Flow(W, E, f),
           Next1(n, f), Sends(f, g), OnTrack(m, W, E, f), n.whole \/ m # f.meas
    PROVE  OnTrack(m, W \cup {n}, E, g)
<1>1. /\ \A x \in W \cup E : x.meas \in Nat /\ x.seq \in Nat /\ Sent(x, f)
      /\ f.meas \in Nat /\ f.next \in Nat /\ f.count \in Nat
      /\ n.meas = f.meas /\ n.seq = f.next /\ n.num = f.count /\ f.next <= f.count
      /\ g.meas = f.meas /\ g.count = f.count /\ g.next = f.next + 1
  BY FlowTypes DEF Flow, Sends, Next1
<1>2. CASE m > f.meas
  <2>1. ASSUME Over(g), NEW x \in (W \cup {n}) \cup E
        PROVE  n.meas < m /\ Final(n) /\ ~Older(n, x)
    BY <1>1, <1>2, <2>1 DEF Over, Final, Older, Sent
  <2>2. Over(g) => ClearFor(m, W \cup {n}, E)
    BY <2>1 DEF ClearFor
  <2> QED
    BY <1>1, <1>2, <2>2 DEF OnTrack
<1>3. CASE ~(m > f.meas)
  <2>1. ClearFor(m, W, E) /\ Present(m, W, E, f)
    BY <1>3 DEF OnTrack
  <2>2. ClearFor(m, W \cup {n}, E)
    BY <1>1, <1>3, <2>1 DEF ClearFor
  <2>3. PICK c \in Nat : \A i \in 0 .. c :
             HasPart(m, c, i, W \cup E) \/ (f.meas = m /\ f.count = c /\ f.next <= i)
    BY <2>1 DEF Present
  <2>4. ASSUME NEW i \in 0 .. c
        PROVE  HasPart(m, c, i, (W \cup {n}) \cup E) \/ (g.meas = m /\ g.count = c /\ g.next <= i)
    <3>1. CASE HasPart(m, c, i, W \cup E)
      BY <3>1 DEF HasPart
    <3>2. CASE f.meas = m /\ f.count = c /\ f.next <= i
      <4>1. f.next = i \/ g.next <= i
        BY <1>1, <3>2
      <4>2. f.next = i => HasPart(m, c, i, (W \cup {n}) \cup E)
        BY <1>1, <3>2 DEF HasPart
      <4> QED
        BY <1>1, <3>2, <4>1, <4>2
    <3> QED
      BY <2>3, <3>1, <3>2
  <2>5. Present(m, W \cup {n}, E, g)
    BY <2>4 DEF Present
  <2> QED
    BY <1>1, <1>3, <2>2, <2>5 DEF OnTrack
<1> QED
  BY <1>2, <1>3

\* A loss or a restart may cost the measurement that is being sent and the next one.
LEMMA OnTrackLost ==
    ASSUME NEW W, NEW V, NEW E, NEW f, NEW g, NEW m \in Nat, FwFits(f), Flow(W, E, f),
           V \subseteq W, \A x \in V, y \in W \ V : Older(x, y), g.meas = f.meas,
           m < f.meas, \A y \in W \ V : y.meas # m, OnTrack(m, W, E, f)
    PROVE  OnTrack(m, V, E, g)
<1>1. /\ \A x \in W \cup E : x.meas \in Nat /\ x.seq \in Nat
      /\ f.meas \in Nat /\ ~(m > f.meas) /\ f.meas # m
  BY FlowTypes
<1>2. \A x \in V \cup E, y \in W \ V : Older(x, y)
  BY DEF Flow
<1>3. ClearFor(m, W, E) /\ Present(m, W, E, f)
  BY <1>1 DEF OnTrack
<1>4. PICK c \in Nat : \A i \in 0 .. c : HasPart(m, c, i, W \cup E)
  BY <1>1, <1>3 DEF Present
<1>5. \A i \in 0 .. c : HasPart(m, c, i, V \cup E)
  BY <1>4 DEF HasPart
<1>6. PICK p \in V \cup E : p.meas = m
  BY <1>5 DEF HasPart
<1>7. ClearFor(m, V, E)
  <2> SUFFICES ASSUME NEW x \in V \cup E, x.meas < m
               PROVE  \E y \in V : y.meas < m /\ Final(y) /\ ~Older(y, x)
    BY DEF ClearFor
  <2>1. PICK y \in W : y.meas < m /\ Final(y) /\ ~Older(y, x)
    BY <1>3 DEF ClearFor
  <2>2. y \in V
    <3> SUFFICES ASSUME y \in W \ V PROVE FALSE
      OBVIOUS
    <3>1. Older(p, y)
      BY <1>2
    <3> QED
      BY <1>1, <1>6, <2>1, <3>1 DEF Older
  <2> QED
    BY <2>1, <2>2
<1>8. Present(m, V, E, g)
  BY <1>5 DEF Present
<1> QED
  BY <1>1, <1>7, <1>8 DEF OnTrack

\* A notification goes to its free slot.
LEMMA OnTrackKept ==
    ASSUME NEW W, NEW E, NEW f, NEW n, NEW m, First(n, W), ~Final(n), OnTrack(m, W, E, f)
    PROVE  OnTrack(m, W \ {n}, E \cup {n}, f)
<1>1. (W \ {n}) \cup (E \cup {n}) = W \cup E
  BY DEF First
<1>2. ClearFor(m, W, E) => ClearFor(m, W \ {n}, E \cup {n})
  BY <1>1 DEF ClearFor
<1>3. Present(m, W, E, f) => Present(m, W \ {n}, E \cup {n}, f)
  BY <1>1 DEF Present
<1> QED
  BY <1>2, <1>3 DEF OnTrack

\* The slots E and the last chunk n are a whole measurement.
Whole(n, E) ==
    /\ Final(n) /\ n.whole
    /\ \A x \in E : x.meas = n.meas /\ x.seq < n.seq /\ x.whole
    /\ \A i \in 0 .. n.num - 1 : \E x \in E : x.seq = i

\* The slots are cleared: n completes its measurement, or none that is on track is lost.
LEMMA OnTrackCleared ==
    ASSUME NEW W, NEW E, NEW f, NEW n, NEW m \in Nat, FwFits(f), Flow(W, E, f), First(n, W),
           Final(n) \/ \E x \in E : x.seq = n.seq, OnTrack(m, W, E, f)
    PROVE  OnTrack(m, W \ {n}, {}, f) \/ (n.meas = m /\ Whole(n, E))
<1>1. /\ \A y \in W \cup E : /\ y.meas \in Nat \ {0} /\ y.seq \in Nat /\ y.num \in Nat \ {0}
                             /\ y.seq <= y.num
      /\ \A y \in W \cup E : y.meas = n.meas => y.num = n.num
      /\ \A y \in W : y # n => Older(n, y)
      /\ \A y \in E : Older(y, n) /\ ~Final(y)
      /\ \A y, z \in E : y.seq = z.seq => y = z
      /\ n \in W /\ f.meas \in Nat /\ f.next \in Nat /\ f.count \in Nat
      /\ Sent(n, f) /\ (n.meas = f.meas => n.num = f.count)
  BY FlowTypes DEF First, Flow, Fits
<1>2. ClearFor(m, W, E) => ClearFor(m, W \ {n}, {})
  <2> SUFFICES ASSUME ClearFor(m, W, E), NEW x \in W \ {n}, x.meas < m
               PROVE  \E y \in W \ {n} : y.meas < m /\ Final(y) /\ ~Older(y, x)
    BY DEF ClearFor
  <2> QED
    BY <1>1 DEF ClearFor
<1>3. CASE m > f.meas
  BY <1>2, <1>3 DEF OnTrack
<1>4. CASE ~(m > f.meas)
  <2>1. ClearFor(m, W, E) /\ Present(m, W, E, f)
    BY <1>4 DEF OnTrack
  <2>2. PICK c \in Nat : \A i \in 0 .. c :
             HasPart(m, c, i, W \cup E) \/ (f.meas = m /\ f.count = c /\ f.next <= i)
    BY <2>1 DEF Present
  <2>3. CASE n.meas < m
    <3>1. \A x \in W \cup E : x.meas = m => x \in W \ {n}
      BY <1>1, <2>3 DEF Older
    <3>2. \A i \in 0 .. c : HasPart(m, c, i, W \cup E) => HasPart(m, c, i, (W \ {n}) \cup {})
      BY <3>1 DEF HasPart
    <3>3. Present(m, W \ {n}, {}, f)
      BY <2>2, <3>2 DEF Present
    <3> QED
      BY <1>2, <1>4, <2>1, <3>3 DEF OnTrack
  <2>4. CASE n.meas > m
    <3>1. f.meas # m /\ c \in 0 .. c
      BY <1>1, <2>4 DEF Sent
    <3>2. PICK x \in W \cup E : x.meas = m /\ x.seq = c /\ x.num = c
      BY <2>2, <3>1 DEF HasPart
    <3>3. x \in E
      BY <1>1, <2>4, <3>2 DEF Older
    <3> QED
      BY <1>1, <3>2, <3>3 DEF Final
  <2>5. CASE n.meas = m
    <3>1. \A x \in E : x.meas = m /\ x.seq < n.seq
      <4> TAKE x \in E
      <4>1. ~(x.meas < m)
        BY <1>1, <2>1, <2>5 DEF ClearFor, Older
      <4> QED
        BY <1>1, <2>5, <4>1 DEF Older
    <3>2. Final(n)
      BY <1>1, <3>1
    <3>3. c = n.num
      <4>1. HasPart(m, c, 0, W \cup E) \/ (f.meas = m /\ f.count = c)
        BY <2>2
      <4> QED
        BY <1>1, <2>5, <4>1 DEF HasPart
    <3>4. ASSUME NEW i \in 0 .. c PROVE \E x \in W \cup E : x.meas = m /\ x.seq = i /\ x.whole
      <4>1. ~(f.meas = m /\ f.next <= i)
        BY <1>1, <2>5, <3>2, <3>3 DEF Sent, Final
      <4> QED
        BY <2>2, <4>1 DEF HasPart
    <3>5. ASSUME NEW x \in W \cup E, x.meas = m PROVE IF x.seq < c THEN x \in E ELSE x = n
      BY <1>1, <2>5, <3>1, <3>2, <3>3, <3>5 DEF Older, Final
    <3>6. n.whole
      <4>1. PICK x \in W \cup E : x.meas = m /\ x.seq = c /\ x.whole
        BY <3>4
      <4> QED
        BY <3>5, <4>1
    <3>7. ASSUME NEW i \in 0 .. c - 1 PROVE \E x \in E : x.seq = i /\ x.whole
      <4>1. i \in 0 .. c /\ i < c
        OBVIOUS
      <4>2. PICK x \in W \cup E : x.meas = m /\ x.seq = i /\ x.whole
        BY <3>4, <4>1
      <4> QED
        BY <3>5, <4>1, <4>2
    <3>8. ASSUME NEW x \in E PROVE x.whole
      <4>1. x.seq \in 0 .. c - 1
        BY <1>1, <3>1, <3>2, <3>3 DEF Final
      <4> QED
        BY <1>1, <3>7, <4>1
    <3> QED
      BY <2>5, <3>1, <3>2, <3>3, <3>6, <3>7, <3>8 DEF Whole
  <2> QED
    BY <1>1, <2>3, <2>4, <2>5
<1> QED
  BY <1>3, <1>4

\* With nothing waiting and the firmware idle no measurement is on track any more.
LEMMA OffTrack ==
    ASSUME NEW E, NEW f, NEW m \in Nat, FwFits(f), Flow({}, E, f), Over(f), m <= f.meas
    PROVE  ~OnTrack(m, {}, E, f)
<1> SUFFICES ASSUME OnTrack(m, {}, E, f) PROVE FALSE
  OBVIOUS
<1>1. f.meas \in Nat /\ f.next \in Nat /\ f.count \in Nat
  BY DEF FwFits
<1>2. Present(m, {}, E, f)
  BY <1>1 DEF OnTrack
<1>3. PICK c \in Nat : \A i \in 0 .. c :
           HasPart(m, c, i, {} \cup E) \/ (f.meas = m /\ f.count = c /\ f.next <= i)
  BY <1>2 DEF Present
<1>4. c \in 0 .. c /\ ~(f.count = c /\ f.next <= c)
  BY <1>1 DEF Over
<1>5. PICK x \in E : x.seq = c /\ x.num = c
  BY <1>3, <1>4 DEF HasPart
<1> QED
  BY <1>5 DEF Flow, Final

-----------------------------------------------------------------------------
(* The same for the numbers of faults and restarts, d.                     *)

Unmixed(W, E, f, d) ==
    /\ d = 0 => Headed(W, E, f) /\ Damaged(0, W, E, f)
    /\ d = 1 => \E m \in 0 .. f.meas : Damaged(m, W, E, f)

OffTrackSet(W, E, f, S) == {m \in 1 .. f.meas + 1 : m \notin S /\ ~OnTrack(m, W, E, f)}
Bounded(W, E, f, S, d) == Cardinality(OffTrackSet(W, E, f, S)) <= 2 * d

\* The firmware measures.
LEMMA UnmixedBegins ==
    ASSUME NEW W, NEW E, NEW f, NEW g, NEW d, FwFits(f), FwFits(g), Flow(W, E, f),
           g.meas = f.meas + 1, g.next = 0, Over(f), Unmixed(W, E, f, d)
    PROVE  Unmixed(W, E, g, d)
<1>1. d = 0 => Headed(W, E, g) /\ Damaged(0, W, E, g)
  BY DamagedBegins, HeadedBegins DEF Unmixed
<1>2. ASSUME d = 1 PROVE \E m \in 0 .. g.meas : Damaged(m, W, E, g)
  <2>1. PICK m \in 0 .. f.meas : Damaged(m, W, E, f)
    BY <1>2 DEF Unmixed
  <2>2. Damaged(m, W, E, g) /\ m \in 0 .. g.meas
    BY <2>1, DamagedBegins DEF FwFits
  <2> QED
    BY <2>2
<1> QED
  BY <1>1, <1>2 DEF Unmixed

\* A notification is queued; a short one is a fault, and leaves no gap.
LEMMA UnmixedQueued ==
    ASSUME NEW W, NEW E, NEW f, NEW g, NEW n, NEW d \in Nat, NEW e \in {d, d + 1},
           FwFits(f), FwFits(g), Flow(W, E, f), Next1(n, f), Sends(f, g), Unmixed(W, E, f, d)
    PROVE  Unmixed(W \cup {n}, E, g, e)
<1>1. d = 0 => Headed(W \cup {n}, E, g) /\ Damaged(0, W \cup {n}, E, g)
  BY DamagedQueued, HeadedQueued DEF Unmixed
<1>2. ASSUME d = 1 PROVE \E m \in 0 .. g.meas : Damaged(m, W \cup {n}, E, g)
  <2>1. PICK m \in 0 .. f.meas : Damaged(m, W, E, f)
    BY <1>2 DEF Unmixed
  <2>2. Damaged(m, W \cup {n}, E, g)
    BY <2>1, DamagedQueued
  <2> QED
    BY <2>1, <2>2 DEF Sends
<1>3. e = 0 => d = 0
  OBVIOUS
<1>4. e = 1 => d = 0 \/ d = 1
  OBVIOUS
<1>5. 0 \in 0 .. g.meas
  BY DEF FwFits
<1> QED
  BY <1>1, <1>2, <1>3, <1>4, <1>5 DEF Unmixed

\* One more loss or restart.
LEMMA UnmixedLost ==
    ASSUME NEW W, NEW V, NEW E, NEW f, NEW g, NEW d \in Nat, FwFits(f), Flow(W, E, f),
           V \subseteq W, \A x \in V, y \in W \ V : Older(x, y), g.meas = f.meas,
           Over(g) \/ (V = W /\ f.next < f.count /\ Sends(f, g)),
           Unmixed(W, E, f, d)
    PROVE  Unmixed(V, E, g, d + 1)
<1>1. ASSUME d = 0 PROVE \E m \in 0 .. g.meas : Damaged(m, V, E, g)
  <2>1. Headed(W, E, f) /\ Damaged(0, W, E, f)
    BY <1>1 DEF Unmixed
  <2>2. CASE Over(g)
    BY <2>1, <2>2, DamagedEnd
  <2>3. CASE V = W /\ f.next < f.count /\ Sends(f, g)
    <3>1. Damaged(0, V, E, g)
      BY <2>1, <2>3, DamagedMiddle
    <3>2. 0 \in 0 .. g.meas
      BY DEF FwFits
    <3> QED
      BY <3>1, <3>2
  <2> QED
    BY <2>2, <2>3
<1>2. d + 1 # 0 /\ (d + 1 = 1 => d = 0)
  OBVIOUS
<1> QED
  BY <1>1, <1>2 DEF Unmixed

\* A notification goes to its free slot.
LEMMA UnmixedKept ==
    ASSUME NEW W, NEW E, NEW f, NEW n, NEW d, FwFits(f), Flow(W, E, f), First(n, W),
           ~Final(n), \A x \in E : x.seq # n.seq, Unmixed(W, E, f, d)
    PROVE  Unmixed(W \ {n}, E \cup {n}, f, d)
BY DamagedKept, HeadedKept DEF Unmixed

\* The slots are cleared.
LEMMA UnmixedCleared ==
    ASSUME NEW W, NEW E, NEW f, NEW n, NEW d, FwFits(f), Flow(W, E, f), First(n, W),
           Final(n) \/ \E x \in E : x.seq = n.seq, Unmixed(W, E, f, d)
    PROVE  Unmixed(W \ {n}, {}, f, d)
BY DamagedCleared, HeadedCleared DEF Unmixed

\* An op mode ends with nothing waiting.
LEMMA UnmixedReset ==
    ASSUME NEW E, NEW f, NEW d, FwFits(f), Over(f), Unmixed({}, E, f, d)
    PROVE  Unmixed({}, {}, f, d)
<1>1. Headed({}, {}, f) /\ Damaged(0, {}, {}, f) /\ 0 \in 0 .. f.meas
  BY DEF Headed, Damaged, OneOwner, FwFits
<1> QED
  BY <1>1 DEF Unmixed

\* What the slots hold when a chunk is handled belongs to the chunk's measurement.
LEMMA UnmixedChunk ==
    ASSUME NEW W, NEW E, NEW f, NEW n, NEW d \in Nat, d <= 1, FwFits(f), Flow(W, E, f),
           First(n, W), n.seq > 0, Unmixed(W, E, f, d)
    PROVE  \A x \in E : x.meas = n.meas
<1>1. \E m \in Nat : Damaged(m, W, E, f)
  <2>1. d = 0 \/ d = 1
    OBVIOUS
  <2>2. \A m \in 0 .. f.meas : m \in Nat
    BY DEF FwFits
  <2> QED
    BY <2>1, <2>2 DEF Unmixed
<1> QED
  BY <1>1, Alone

\* Finitely many measurements.
LEMMA OffTrackFinite ==
    ASSUME NEW W, NEW E, NEW f, NEW S, f.meas \in Nat
    PROVE  /\ IsFiniteSet(OffTrackSet(W, E, f, S))
           /\ Cardinality(OffTrackSet(W, E, f, S)) \in Nat
<1>1. 1 \in Int /\ f.meas + 1 \in Int
  OBVIOUS
<1>2. IsFiniteSet(1 .. f.meas + 1)
  BY <1>1, FS_Interval
<1>3. OffTrackSet(W, E, f, S) \in SUBSET (1 .. f.meas + 1)
  BY DEF OffTrackSet
<1>4. IsFiniteSet(OffTrackSet(W, E, f, S))
  BY <1>2, <1>3, FS_Subset
<1> QED
  BY <1>4, FS_CardinalityType

\* No measurement leaves the track.
LEMMA BoundedSame ==
    ASSUME NEW W, NEW E, NEW f, NEW S, NEW V, NEW F, NEW g, NEW T, NEW d,
           f.meas \in Nat, d \in Nat, Bounded(W, E, f, S, d),
           OffTrackSet(V, F, g, T) \subseteq OffTrackSet(W, E, f, S)
    PROVE  Bounded(V, F, g, T, d) /\ Bounded(V, F, g, T, d + 1)
<1> DEFINE A == OffTrackSet(W, E, f, S)
           B == OffTrackSet(V, F, g, T)
<1>1. IsFiniteSet(A) /\ Cardinality(A) \in Nat /\ Cardinality(A) <= 2 * d
  BY OffTrackFinite DEF Bounded
<1>2. B \in SUBSET A
  OBVIOUS
<1> HIDE DEF A, B
<1>3. IsFiniteSet(B) /\ Cardinality(B) <= Cardinality(A)
  BY <1>1, <1>2, FS_Subset
<1>4. Cardinality(B) \in Nat
  BY <1>3, FS_CardinalityType
<1>5. Cardinality(B) <= 2 * d /\ Cardinality(B) <= 2 * (d + 1)
  BY <1>1, <1>3, <1>4
<1> QED
  BY <1>5 DEF Bounded, B

\* Two may.
LEMMA BoundedMore ==
    ASSUME NEW W, NEW E, NEW f, NEW S, NEW V, NEW F, NEW g, NEW T, NEW d, NEW a, NEW b,
           f.meas \in Nat, d \in Nat, Bounded(W, E, f, S, d),
           OffTrackSet(V, F, g, T) \subseteq (OffTrackSet(W, E, f, S) \cup {a}) \cup {b}
    PROVE  Bounded(V, F, g, T, d + 1)
<1> DEFINE A == OffTrackSet(W, E, f, S)
           B == OffTrackSet(V, F, g, T)
           C == A \cup {a}
           D == C \cup {b}
<1>1. IsFiniteSet(A) /\ Cardinality(A) \in Nat /\ Cardinality(A) <= 2 * d
  BY OffTrackFinite DEF Bounded
<1>2. B \in SUBSET D
  OBVIOUS
<1> HIDE DEF A, B
<1>3. IsFiniteSet(C) /\ Cardinality(C) \in Nat /\ Cardinality(C) <= 2 * d + 1
  <2>1. IsFiniteSet(C) /\ Cardinality(C) = IF a \in A THEN Cardinality(A) ELSE Cardinality(A) + 1
    BY <1>1, FS_AddElement
  <2> QED
    BY <1>1, <2>1
<1> HIDE DEF C
<1>4. IsFiniteSet(D) /\ Cardinality(D) \in Nat /\ Cardinality(D) <= 2 * d + 2
  <2>1. IsFiniteSet(D) /\ Cardinality(D) = IF b \in C THEN Cardinality(C) ELSE Cardinality(C) + 1
    BY <1>3, FS_AddElement
  <2> QED
    BY <1>3, <2>1
<1> HIDE DEF D
<1>5. IsFiniteSet(B) /\ Cardinality(B) <= Cardinality(D)
  BY <1>2, <1>4, FS_Subset
<1>6. Cardinality(B) \in Nat
  BY <1>5, FS_CardinalityType
<1>7. Cardinality(B) <= 2 * (d + 1)
  BY <1>4, <1>5, <1>6
<1> QED
  BY <1>7 DEF Bounded, B

\* The firmware measures.
LEMMA BoundedBegins ==
    ASSUME NEW W, NEW E, NEW f, NEW g, NEW S, NEW d \in Nat, FwFits(f), FwFits(g),
           g.meas = f.meas + 1, g.next = 0, Over(f), Bounded(W, E, f, S, d)
    PROVE  Bounded(W, E, g, S, d)
<1>1. f.meas \in Nat
  BY DEF FwFits
<1>2. ASSUME NEW m \in 1 .. g.meas + 1, ~OnTrack(m, W, E, g)
      PROVE  m \in 1 .. f.meas + 1 /\ ~OnTrack(m, W, E, f)
  <2>1. m \in Nat /\ m <= g.meas + 1
    BY <1>1
  <2>2. m <= g.meas /\ ~OnTrack(m, W, E, f)
    BY <1>2, <2>1, OnTrackBegins
  <2> QED
    BY <1>1, <2>2
<1>3. OffTrackSet(W, E, g, S) \subseteq OffTrackSet(W, E, f, S)
  BY <1>2 DEF OffTrackSet
<1> QED
  BY <1>1, <1>3, BoundedSame

\* A notification is queued; a short one is charged with its measurement.
LEMMA BoundedQueued ==
    ASSUME NEW W, NEW E, NEW f, NEW g, NEW n, NEW S, NEW d \in Nat, NEW e \in {d, d + 1},
           FwFits(f), Flow(W, E, f), Next1(n, f), Sends(f, g), Bounded(W, E, f, S, d),
           n.whole \/ e = d + 1
    PROVE  Bounded(W \cup {n}, E, g, S, e)
<1>1. f.meas \in Nat /\ g.meas = f.meas
  BY DEF FwFits, Sends
<1>2. ASSUME NEW m \in 1 .. f.meas + 1, ~OnTrack(m, W \cup {n}, E, g), n.whole \/ m # f.meas
      PROVE  ~OnTrack(m, W, E, f)
  <2>1. m \in Nat
    BY <1>1
  <2> QED
    BY <1>2, <2>1, OnTrackQueued
<1>3. CASE n.whole
  <2>1. OffTrackSet(W \cup {n}, E, g, S) \subseteq OffTrackSet(W, E, f, S)
    BY <1>1, <1>2, <1>3 DEF OffTrackSet
  <2> QED
    BY <1>1, <2>1, BoundedSame
<1>4. CASE e = d + 1
  <2>1. OffTrackSet(W \cup {n}, E, g, S) \subseteq (OffTrackSet(W, E, f, S) \cup {f.meas}) \cup {f.meas}
    BY <1>1, <1>2 DEF OffTrackSet
  <2> QED
    BY <1>1, <1>4, <2>1, BoundedMore
<1> QED
  BY <1>3, <1>4

\* A loss or a restart is charged with two measurements; those purged are not counted.
LEMMA BoundedLost ==
    ASSUME NEW W, NEW V, NEW E, NEW f, NEW g, NEW S, NEW T, NEW d \in Nat, FwFits(f),
           Flow(W, E, f), V \subseteq W, \A x \in V, y \in W \ V : Older(x, y),
           g.meas = f.meas, S \subseteq T, \A y \in W \ V : y.meas \in T,
           Bounded(W, E, f, S, d)
    PROVE  Bounded(V, E, g, T, d + 1)
<1>1. f.meas \in Nat
  BY DEF FwFits
<1>2. ASSUME NEW m \in 1 .. f.meas + 1, ~OnTrack(m, V, E, g), m \notin T, m # f.meas, m # f.meas + 1
      PROVE  ~OnTrack(m, W, E, f)
  <2>1. m \in Nat /\ m < f.meas
    BY <1>1, <1>2
  <2>2. \A y \in W \ V : y.meas # m
    BY <1>2
  <2> QED
    BY <1>2, <2>1, <2>2, OnTrackLost
<1>3. OffTrackSet(V, E, g, T) \subseteq (OffTrackSet(W, E, f, S) \cup {f.meas}) \cup {f.meas + 1}
  BY <1>1, <1>2 DEF OffTrackSet
<1> QED
  BY <1>1, <1>3, BoundedMore

\* A notification goes to its free slot.
LEMMA BoundedKept ==
    ASSUME NEW W, NEW E, NEW f, NEW n, NEW S, NEW d \in Nat, FwFits(f), First(n, W),
           ~Final(n), Bounded(W, E, f, S, d)
    PROVE  Bounded(W \ {n}, E \cup {n}, f, S, d)
<1>1. OffTrackSet(W \ {n}, E \cup {n}, f, S) \subseteq OffTrackSet(W, E, f, S)
  BY OnTrackKept DEF OffTrackSet
<1>2. f.meas \in Nat
  BY DEF FwFits
<1> QED
  BY <1>1, <1>2, BoundedSame

\* The slots are cleared, and a measurement that was whole is completed.
LEMMA BoundedCleared ==
    ASSUME NEW W, NEW E, NEW f, NEW n, NEW S, NEW T, NEW d \in Nat, FwFits(f), Flow(W, E, f),
           First(n, W), Final(n) \/ \E x \in E : x.seq = n.seq, S \subseteq T,
           Whole(n, E) => n.meas \in T, Bounded(W, E, f, S, d)
    PROVE  Bounded(W \ {n}, {}, f, T, d)
<1>1. f.meas \in Nat
  BY DEF FwFits
<1>2. ASSUME NEW m \in 1 .. f.meas + 1, m \notin T, ~OnTrack(m, W \ {n}, {}, f)
      PROVE  ~OnTrack(m, W, E, f)
  <2>1. m \in Nat
    BY <1>1
  <2> QED
    BY <1>2, <2>1, OnTrackCleared
<1>3. OffTrackSet(W \ {n}, {}, f, T) \subseteq OffTrackSet(W, E, f, S)
  BY <1>2 DEF OffTrackSet
<1> QED
  BY <1>1, <1>3, BoundedSame

\* An op mode ends with nothing waiting.
LEMMA BoundedReset ==
    ASSUME NEW E, NEW f, NEW S, NEW d \in Nat, FwFits(f), Flow({}, E, f), Over(f),
           Bounded({}, E, f, S, d)
    PROVE  Bounded({}, {}, f, S, d)
<1>1. f.meas \in Nat
  BY DEF FwFits
<1>2. ASSUME NEW m \in 1 .. f.meas + 1, ~OnTrack(m, {}, {}, f) PROVE ~OnTrack(m, {}, E, f)
  <2>1. m \in Nat /\ (m <= f.meas \/ m > f.meas)
    BY <1>1
  <2>2. m > f.meas => OnTrack(m, {}, {}, f)
    BY DEF OnTrack, ClearFor
  <2> QED
    BY <1>2, <2>1, <2>2, OffTrack
<1>3. OffTrackSet({}, {}, f, S) \subseteq OffTrackSet({}, E, f, S)
  BY <1>2 DEF OffTrackSet
<1> QED
  BY <1>1, <1>3, BoundedSame

-----------------------------------------------------------------------------
(* The assembly.                                                           *)

\* A notification is in the slot of its number.
InPlace(e) == \A i \in EntryIdx : e[i] # NoNotif => e[i].seq = i

Disturbances == faults + restarts

\* The event that is being built has one measurement.
BuildsOne == sending # Idle => sending.data = Chunks(sending.hdr, Len(sending.data))

StreamInv ==
    /\ FwFits(fw) /\ Flow(Waits, Kept, fw) /\ InPlace(entries)
    /\ status # "up" => list = << >> /\ FwIdle
    /\ faults \in Nat /\ restarts \in Nat

\* The inductive invariant of this part; it is kept together with IInv.
JInv ==
    /\ StreamInv
    /\ Unmixed(Waits, Kept, fw, Disturbances)
    /\ Disturbances <= 1 => OneMeasurement /\ BuildsOne
    /\ Bounded(Waits, Kept, fw, completed \cup purged, Disturbances)

\* Lists as sets.
LEMMA RangeAppend ==
    ASSUME NEW s \in Seq(Notif), NEW n \in Notif
    PROVE  RangeOf(Append(s, n)) = RangeOf(s) \cup {n}
<1> DEFINE t == Append(s, n)
<1>1. /\ Len(t) = Len(s) + 1 /\ Len(s) \in Nat /\ t[Len(s) + 1] = n
      /\ \A i \in 1 .. Len(s) : t[i] = s[i]
  BY AppendProperties
<1> HIDE DEF t
<1>2. /\ \A i \in 1 .. Len(t) : i \in 1 .. Len(s) \/ i = Len(s) + 1
      /\ \A i \in 1 .. Len(s) : i \in 1 .. Len(t)
      /\ Len(s) + 1 \in 1 .. Len(t)
  BY <1>1
<1>3. RangeOf(t) = RangeOf(s) \cup {n}
  <2>1. \A i \in 1 .. Len(t) : t[i] \in RangeOf(s) \cup {n}
    BY <1>1, <1>2 DEF RangeOf
  <2>2. \A i \in 1 .. Len(s) : s[i] \in RangeOf(t)
    BY <1>1, <1>2 DEF RangeOf
  <2>3. n \in RangeOf(t)
    BY <1>1, <1>2 DEF RangeOf
  <2> QED
    BY <2>1, <2>2, <2>3 DEF RangeOf
<1> QED
  BY <1>3 DEF t

\* The head of a list and the others.
LEMMA RangeTail ==
    ASSUME NEW s \in Seq(Notif), s # << >>
    PROVE  RangeOf(s) = {Head(s)} \cup RangeOf(Tail(s))
<1> DEFINE h == Head(s)
           t == Tail(s)
<1>1. /\ Len(t) = Len(s) - 1 /\ h = s[1] /\ Len(s) \in Nat /\ Len(s) >= 1
      /\ \A i \in 1 .. Len(s) - 1 : t[i] = s[i + 1]
  BY HeadTailProperties
<1> HIDE DEF h, t
<1>2. \A i \in 1 .. Len(s) : s[i] \in {h} \cup RangeOf(t)
  <2> TAKE i \in 1 .. Len(s)
  <2>1. CASE i = 1
    BY <1>1, <2>1
  <2>2. CASE i # 1
    <3>1. i - 1 \in 1 .. Len(t) /\ i - 1 \in 1 .. Len(s) - 1 /\ (i - 1) + 1 = i
      BY <1>1, <2>2
    <3>2. t[i - 1] = s[i]
      BY <1>1, <3>1
    <3> QED
      BY <3>1, <3>2 DEF RangeOf
  <2> QED
    BY <2>1, <2>2
<1>3. \A i \in 1 .. Len(t) : t[i] \in RangeOf(s)
  <2> TAKE i \in 1 .. Len(t)
  <2>1. i + 1 \in 1 .. Len(s) /\ t[i] = s[i + 1]
    BY <1>1
  <2> QED
    BY <2>1 DEF RangeOf
<1>4. h \in RangeOf(s)
  BY <1>1 DEF RangeOf
<1> QED
  BY <1>2, <1>3, <1>4 DEF RangeOf, h, t

\* An empty list.
LEMMA RangeEmpty == RangeOf(<< >>) = {}
BY DEF RangeOf

\* The notifications of a list have its pages.
LEMMA RangePages ==
    ASSUME NEW s \in Seq(Notif), NEW x \in RangeOf(s)
    PROVE  x \in Notif /\ PageOf(x) \in SeqPages(s)
BY DEF RangeOf, SeqPages

\* The two ways to compare notifications.
LEMMA OlderIs ==
    ASSUME NEW x, NEW y, Before(PageOf(x), PageOf(y))
    PROVE  Older(x, y)
BY DEF Before, PageOf, Older

\* The head of local_list is handled first.
LEMMA HeadFirst ==
    ASSUME IInv, local # << >>
    PROVE  /\ First(Head(local), Waits)
           /\ RangeOf(Tail(local)) \cup RangeOf(list) = Waits \ {Head(local)}
<1> DEFINE n == Head(local)
           R == RangeOf(Tail(local)) \cup RangeOf(list)
<1>1. local \in Seq(Notif) /\ list \in Seq(Notif) /\ Waiting(local, list, FwPage)
  BY Facts
<1>2. n \in Notif /\ Tail(local) \in Seq(Notif)
  BY <1>1, PagesTail
<1>3. \A r \in SeqPages(Tail(local)) \cup SeqPages(list) : Before(PageOf(n), r)
  BY <1>1, WaitingTail
<1>4. ASSUME NEW y \in R PROVE Older(n, y) /\ y # n
  <2>1. y \in Notif /\ Before(PageOf(n), PageOf(y))
    BY <1>1, <1>2, <1>3, RangePages
  <2>2. Older(n, y)
    BY <2>1, OlderIs
  <2>3. n.meas \in Nat /\ n.seq \in Nat
    BY <1>2 DEF Notif
  <2> QED
    BY <2>2, <2>3 DEF Older
<1>5. Waits = {n} \cup R
  BY <1>1, RangeTail DEF Waits
<1> HIDE DEF n, R
<1>6. First(n, Waits) /\ R = Waits \ {n}
  BY <1>4, <1>5 DEF First
<1> QED
  BY <1>6 DEF n, R

\* The parts of the invariant of the next state.
LEMMA JStep ==
    ASSUME FwFits(fw'), Flow(Waits', Kept', fw'), InPlace(entries'),
           status' # "up" => list' = << >> /\ FwIdle',
           faults' \in Nat, restarts' \in Nat,
           Unmixed(Waits', Kept', fw', Disturbances'),
           Disturbances' <= 1 => OneMeasurement' /\ BuildsOne',
           Bounded(Waits', Kept', fw', completed' \cup purged', Disturbances')
    PROVE  JInv'
BY DEF JInv, StreamInv

\* Events are as they were.
LEMMA EventsKept ==
    ASSUME JInv, events' = events, sending' = sending,
           Disturbances' \in {Disturbances, Disturbances + 1}
    PROVE  Disturbances' <= 1 => OneMeasurement' /\ BuildsOne'
<1>1. Disturbances \in Nat
  BY DEF JInv, StreamInv, Disturbances
<1>2. Disturbances' <= 1 => Disturbances <= 1
  BY <1>1
<1>3. (OneMeasurement => OneMeasurement') /\ (BuildsOne => BuildsOne')
  BY DEF OneMeasurement, BuildsOne, Chunks
<1> QED
  BY <1>2, <1>3 DEF JInv

\* A step that leaves the stream alone.
LEMMA StreamKept ==
    ASSUME JInv, Waits' = Waits, Kept' = Kept, fw' = fw, InPlace(entries'),
           status' # "up" => list' = << >> /\ FwIdle,
           UNCHANGED <<completed, purged, faults, restarts>>,
           Disturbances' <= 1 => OneMeasurement' /\ BuildsOne'
    PROVE  JInv'
<1>1. Disturbances' = Disturbances /\ FwIdle' = FwIdle
  BY DEF Disturbances, FwIdle
<1> QED
  BY <1>1, JStep DEF JInv, StreamInv

\* The firmware measures.
LEMMA JCapture ==
    ASSUME CountsFit, IInv, JInv, NEW n \in ChunkCounts, Capture(n)
    PROVE  JInv'
<1>1. /\ fw' = [meas |-> fw.meas + 1, count |-> n, next |-> 0] /\ Over(fw)
      /\ status' = status /\ status = "up"
      /\ UNCHANGED <<list, local, entries, sending, events, completed, purged, faults, restarts>>
  BY DEF Capture, kernelVars, histVars, FwIdle, Over
<1>2. n \in Nat \ {0} /\ n < MaxChunks /\ n < FieldSize
  BY CountAssumption DEF CountsFit
<1>3. FwFits(fw) /\ Flow(Waits, Kept, fw) /\ InPlace(entries) /\ Disturbances \in Nat
      /\ faults \in Nat /\ restarts \in Nat
  BY DEF JInv, StreamInv, Disturbances
<1>4. FwFits(fw') /\ fw'.meas = fw.meas + 1 /\ fw'.next = 0
  BY <1>1, <1>2, <1>3 DEF FwFits, Over
<1>5. Waits' = Waits /\ Kept' = Kept /\ Disturbances' = Disturbances
  BY <1>1 DEF Waits, Kept, Disturbances
<1>6. /\ Flow(Waits, Kept, fw') /\ Unmixed(Waits, Kept, fw', Disturbances)
      /\ Bounded(Waits, Kept, fw', completed \cup purged, Disturbances)
  BY <1>1, <1>3, <1>4, FlowBegins, UnmixedBegins, BoundedBegins DEF JInv
<1>7. Disturbances' <= 1 => OneMeasurement' /\ BuildsOne'
  BY <1>1, <1>5, EventsKept
<1> QED
  BY <1>1, <1>3, <1>4, <1>5, <1>6, <1>7, JStep

\* A remainder that is the number itself.
LEMMA Small ==
    ASSUME NEW a \in Nat, NEW b \in Nat \ {0}, a < b
    PROVE  a % b = a
OBVIOUS

\* What the firmware sends fits.
LEMMA UpcomingFits ==
    ASSUME IInv, JInv, FwSends, NEW ok \in BOOLEAN
    PROVE  /\ Next1(Upcoming(ok), fw) /\ Upcoming(ok).whole = ok
           /\ Sends(fw, fw') /\ FwFits(fw') /\ fw.next <= fw.count
<1>1. FwFits(fw) /\ fw.next <= fw.count /\ fw' = [fw EXCEPT !.next = fw.next + 1]
  BY DEF JInv, StreamInv, FwSends, FwIdle, FwFits
<1>2. /\ fw.meas \in Nat \ {0} /\ fw.next \in Nat /\ fw.count \in Nat \ {0}
      /\ fw.count < MaxChunks /\ fw.count < FieldSize /\ FieldSize \in Nat \ {0}
  BY <1>1, CountAssumption DEF FwFits, Over
<1>3. Upcoming(ok) \in Notif
  BY UpcomingNotif
<1>4. fw.next # 0 => (fw.next - 1) % FieldSize = fw.next - 1
  <2> SUFFICES ASSUME fw.next # 0 PROVE (fw.next - 1) % FieldSize = fw.next - 1
    OBVIOUS
  <2>1. fw.next - 1 \in Nat /\ fw.next - 1 < FieldSize
    BY <1>1, <1>2
  <2> QED
    BY <1>2, <2>1, Small
<1>5. fw.count % FieldSize = fw.count
  BY <1>2, Small
<1>6. /\ Upcoming(ok).meas = fw.meas /\ Upcoming(ok).seq = fw.next /\ Upcoming(ok).num = fw.count
      /\ Upcoming(ok).idx = fw.next /\ Upcoming(ok).whole = ok
  BY <1>2, <1>4, <1>5 DEF Upcoming
<1>7. Fits(Upcoming(ok))
  BY <1>1, <1>2, <1>3, <1>6 DEF Fits
<1>8. Sends(fw, fw')
  BY <1>1 DEF Sends, FwFits
<1>9. FwFits(fw')
  BY <1>1, <1>2 DEF FwFits, Over
<1> QED
  BY <1>1, <1>6, <1>7, <1>8, <1>9 DEF Next1

\* A notification is queued, whole or short.
LEMMA JQueued ==
    ASSUME IInv, JInv, NEW ok \in BOOLEAN, FwSends, list' = Append(list, Upcoming(ok)),
           ok \/ Disturbances' = Disturbances + 1,
           Disturbances' \in {Disturbances, Disturbances + 1},
           faults' \in Nat, restarts' \in Nat,
           UNCHANGED <<status, local, entries, sending, events, completed, purged>>
    PROVE  JInv'
<1> DEFINE n == Upcoming(ok)
<1>2. /\ Next1(n, fw) /\ n.whole = ok /\ Sends(fw, fw') /\ FwFits(fw') /\ n \in Notif
      /\ status = "up"
  BY UpcomingFits, UpcomingNotif DEF FwSends
<1> HIDE DEF n
<1>3. /\ FwFits(fw) /\ Flow(Waits, Kept, fw) /\ InPlace(entries) /\ Disturbances \in Nat
      /\ list \in Seq(Notif)
  BY Facts DEF JInv, StreamInv, Disturbances
<1>4. Waits' = Waits \cup {n} /\ Kept' = Kept
  BY <1>2, <1>3, RangeAppend DEF Waits, Kept, n
<1>5. /\ Flow(Waits \cup {n}, Kept, fw') /\ Unmixed(Waits \cup {n}, Kept, fw', Disturbances')
      /\ Bounded(Waits \cup {n}, Kept, fw', completed \cup purged, Disturbances')
  <2>1. /\ Unmixed(Waits, Kept, fw, Disturbances)
        /\ Bounded(Waits, Kept, fw, completed \cup purged, Disturbances)
    BY DEF JInv
  <2>2. n.whole \/ Disturbances' = Disturbances + 1
    BY <1>2
  <2>3. Flow(Waits \cup {n}, Kept, fw')
    BY <1>2, <1>3, FlowQueued
  <2>4. Unmixed(Waits \cup {n}, Kept, fw', Disturbances')
    BY <1>2, <1>3, <2>1, UnmixedQueued
  <2>5. Bounded(Waits \cup {n}, Kept, fw', completed \cup purged, Disturbances')
    BY <1>2, <1>3, <2>1, <2>2, BoundedQueued
  <2> QED
    BY <2>3, <2>4, <2>5
<1>6. Disturbances' <= 1 => OneMeasurement' /\ BuildsOne'
  BY EventsKept
<1> QED
  BY <1>2, <1>3, <1>4, <1>5, <1>6, JStep

\* The two ways a notification comes.
LEMMA JReceive ==
    ASSUME IInv, JInv, RxNotif \/ RxShortChunk
    PROVE  JInv'
<1>1. faults \in Nat /\ restarts \in Nat
  BY DEF JInv, StreamInv
<1>2. CASE RxNotif
  <2>1. /\ FwSends /\ list' = Append(list, Upcoming(TRUE)) /\ faults' = faults /\ restarts' = restarts
        /\ UNCHANGED <<status, local, entries, sending, events, completed, purged>>
    BY <1>2 DEF RxNotif, Enqueue, histVars
  <2>2. Disturbances' = Disturbances
    BY <2>1 DEF Disturbances
  <2> QED
    BY <1>1, <2>1, <2>2, JQueued
<1>3. CASE RxShortChunk
  <2>1. /\ FwSends /\ list' = Append(list, Upcoming(FALSE)) /\ faults' = faults + 1
        /\ restarts' = restarts
        /\ UNCHANGED <<status, local, entries, sending, events, completed, purged>>
    BY <1>3 DEF RxShortChunk, Enqueue, histVars
  <2>2. Disturbances' = Disturbances + 1 /\ faults' \in Nat /\ restarts' \in Nat
    BY <1>1, <2>1 DEF Disturbances
  <2> QED
    BY <2>1, <2>2, JQueued
<1> QED
  BY <1>2, <1>3

\* A notification is lost, or those that waited in the list and the rest of the measurement are.
LEMMA JDisturbed ==
    ASSUME IInv, JInv, FwFits(fw'), fw'.meas = fw.meas, fw'.count = fw.count,
           fw.next <= fw'.next, Kept' = Kept, entries' = entries,
           UNCHANGED <<events, sending, completed>>, Waits' \subseteq Waits,
           \A x \in Waits', y \in Waits \ Waits' : Older(x, y),
           \A y \in Waits \ Waits' : y.meas \in purged',
           purged \subseteq purged',
           Over(fw') \/ (Waits' = Waits /\ fw.next < fw.count /\ Sends(fw, fw')),
           status' # "up" => list' = << >> /\ FwIdle',
           faults' \in Nat /\ restarts' \in Nat /\ Disturbances' = Disturbances + 1
    PROVE  JInv'
<1>1. FwFits(fw) /\ Flow(Waits, Kept, fw) /\ InPlace(entries) /\ Disturbances \in Nat
  BY DEF JInv, StreamInv, Disturbances
<1>2. /\ Unmixed(Waits, Kept, fw, Disturbances)
      /\ Bounded(Waits, Kept, fw, completed \cup purged, Disturbances)
  BY DEF JInv
<1>3. Flow(Waits', Kept, fw')
  BY <1>1, FlowLost
<1>4. Unmixed(Waits', Kept, fw', Disturbances + 1)
  BY <1>1, <1>2, UnmixedLost
<1>5. Bounded(Waits', Kept, fw', completed' \cup purged', Disturbances + 1)
  <2>1. /\ completed \cup purged \subseteq completed' \cup purged'
        /\ \A y \in Waits \ Waits' : y.meas \in completed' \cup purged'
    OBVIOUS
  <2> QED
    BY <1>1, <1>2, <2>1, BoundedLost
<1>6. Disturbances' <= 1 => OneMeasurement' /\ BuildsOne'
  BY EventsKept
<1> QED
  BY <1>1, <1>3, <1>4, <1>5, <1>6, JStep

\* The receive path loses a notification.
LEMMA JRxLost ==
    ASSUME IInv, JInv, RxLost
    PROVE  JInv'
<1>1. /\ FwSends /\ faults' = faults + 1 /\ restarts' = restarts /\ status = "up" /\ status' = status
      /\ UNCHANGED <<list, local, entries, sending, events, completed, purged>>
  BY DEF RxLost, kernelVars, histVars, FwSends
<1>2. Sends(fw, fw') /\ FwFits(fw') /\ fw.next <= fw.count /\ FwFits(fw)
  BY <1>1, UpcomingFits DEF JInv, StreamInv
<1>3. faults' \in Nat /\ restarts' \in Nat /\ Disturbances' = Disturbances + 1
  BY <1>1 DEF JInv, StreamInv, Disturbances
<1>4. Waits' = Waits /\ Kept' = Kept
  BY <1>1 DEF Waits, Kept
<1>5. /\ fw'.meas = fw.meas /\ fw'.count = fw.count /\ fw.next <= fw'.next
      /\ Over(fw') \/ fw.next < fw.count
  BY <1>2 DEF Sends, FwFits, Over
<1> QED
  BY <1>1, <1>2, <1>3, <1>4, <1>5, JDisturbed

\* What is left of the firmware's measurement after a restart: nothing.
LEMMA FwCut ==
    ASSUME JInv, fw' = [fw EXCEPT !.next = fw.count + 1]
    PROVE  /\ FwFits(fw') /\ fw'.meas = fw.meas /\ fw'.count = fw.count
           /\ fw.next <= fw'.next /\ Over(fw') /\ FwIdle'
<1>1. FwFits(fw)
  BY DEF JInv, StreamInv
<1>2. fw'.meas = fw.meas /\ fw'.count = fw.count /\ fw'.next = fw.count + 1
  BY <1>1 DEF FwFits
<1>3. fw' \in [meas : Nat, count : Nat, next : Nat]
  BY <1>1 DEF FwFits
<1> QED
  BY <1>1, <1>2, <1>3 DEF FwFits, Over, FwIdle

\* The firmware restarts.
LEMMA JFwRestart ==
    ASSUME IInv, JInv, FwRestart
    PROVE  JInv'
<1>1. /\ restarts' = restarts + 1 /\ faults' = faults /\ status = "up" /\ status' = status
      /\ fw' = [fw EXCEPT !.next = fw.count + 1]
      /\ UNCHANGED <<list, local, entries, sending, events, completed, purged>>
  BY DEF FwRestart, kernelVars, histVars
<1>2. faults' \in Nat /\ restarts' \in Nat /\ Disturbances' = Disturbances + 1
  BY <1>1 DEF JInv, StreamInv, Disturbances
<1>3. Waits' = Waits /\ Kept' = Kept
  BY <1>1 DEF Waits, Kept
<1> QED
  BY <1>1, <1>2, <1>3, FwCut, JDisturbed

\* The interface goes down, and the list is purged.
LEMMA JMacStop ==
    ASSUME IInv, JInv, MacStop
    PROVE  JInv'
<1>1. /\ restarts' = restarts + 1 /\ faults' = faults
      /\ fw' = [fw EXCEPT !.next = fw.count + 1] /\ list' = << >>
      /\ purged' = purged \cup {list[i].meas : i \in 1 .. Len(list)}
      /\ UNCHANGED <<local, entries, sending, events, completed>>
  BY DEF MacStop
<1>2. faults' \in Nat /\ restarts' \in Nat /\ Disturbances' = Disturbances + 1
  BY <1>1 DEF JInv, StreamInv, Disturbances
<1>3. Waits' = RangeOf(local) /\ Waits = RangeOf(local) \cup RangeOf(list) /\ Kept' = Kept
  BY <1>1, RangeEmpty DEF Waits, Kept
<1>4. local \in Seq(Notif) /\ list \in Seq(Notif) /\ Waiting(local, list, FwPage)
  BY Facts
<1>5. \A x \in RangeOf(local), y \in RangeOf(list) : Older(x, y)
  <2> TAKE x \in RangeOf(local), y \in RangeOf(list)
  <2>1. PageOf(x) \in SeqPages(local) /\ PageOf(y) \in SeqPages(list)
    BY <1>4, RangePages
  <2>2. Before(PageOf(x), PageOf(y))
    BY <1>4, <2>1 DEF Waiting
  <2> QED
    BY <2>2, OlderIs
<1>6. \A y \in RangeOf(list) : y.meas \in purged'
  BY <1>1 DEF RangeOf
<1>7. /\ Waits' \subseteq Waits /\ \A x \in Waits', y \in Waits \ Waits' : Older(x, y)
      /\ \A y \in Waits \ Waits' : y.meas \in purged'
      /\ purged \subseteq purged'
  BY <1>1, <1>3, <1>5, <1>6
<1> QED
  BY <1>1, <1>2, <1>3, <1>7, FwCut, JDisturbed

\* A set of numbers has a least one.
LEMMA LeastOf ==
    ASSUME NEW T, T \subseteq Nat, T # {}
    PROVE  \E x \in T : \A y \in T : x <= y
<1> DEFINE R == OpToRel(<, Nat)
<1>1. IsWellFoundedOn(R, Nat)
  BY NatLessThanWellFounded
<1>2. \A x, y \in Nat : y < x => <<y, x>> \in R
  BY DEF OpToRel
<1> HIDE DEF R
<1>3. PICK x \in T : \A y \in T : ~(<<y, x>> \in R)
  BY <1>1, WFMin
<1>4. \A y \in T : ~(y < x)
  BY <1>2, <1>3, Zenon
<1>5. x \in Nat /\ \A y \in T : y \in Nat
  OBVIOUS
<1> QED
  BY <1>4, <1>5

\* iwl_mvm_csi_complete walks occupied slots only, and stops at a free one.
LEMMA FilledIs ==
    ASSUME NEW e, e[MaxChunks] = NoNotif
    PROVE  /\ Filled(e) \in Nat /\ Filled(e) < MaxChunks
           /\ \A i \in 1 .. Filled(e) : i \in EntryIdx /\ e[i] # NoNotif
<1> DEFINE T == {k \in Nat : k < MaxChunks /\ e[k + 1] = NoNotif}
           P(k) == /\ \A i \in 1 .. k : e[i] # NoNotif
                   /\ k = MaxChunks \/ e[k + 1] = NoNotif
<1>1. MaxChunks \in Nat \ {0} /\ EntryIdx = 0 .. MaxChunks
  BY CountAssumption DEF EntryIdx
<1>2. MaxChunks - 1 \in T
  BY <1>1
<1>3. T \subseteq Nat /\ T # {}
  BY <1>2
<1>4. PICK k \in T : \A j \in T : k <= j
  <2> HIDE DEF T
  <2> QED
    BY <1>3, LeastOf
<1>5. ASSUME NEW i \in 1 .. k PROVE e[i] # NoNotif
  <2>1. i - 1 \in Nat /\ i - 1 < k /\ i - 1 < MaxChunks /\ (i - 1) + 1 = i
    BY <1>1
  <2>2. i - 1 \notin T
    BY <1>4, <2>1
  <2> QED
    BY <2>1, <2>2
<1>6. k \in EntryIdx /\ P(k)
  BY <1>1, <1>5
<1>7. Filled(e) = CHOOSE j \in EntryIdx : P(j)
  BY DEF Filled
<1> HIDE DEF P
<1>8. Filled(e) \in EntryIdx /\ P(Filled(e))
  BY <1>6, <1>7
<1> USE DEF P
<1>9. Filled(e) # MaxChunks
  BY <1>1, <1>8
<1> QED
  BY <1>1, <1>8, <1>9

\* The slots, when a notification is stolen for its slot: it is added, or all are cleared.
LEMMA StealSlots ==
    ASSUME NEW e \in [EntryIdx -> Notif \cup {NoNotif}], InPlace(e), NEW n, Fits(n),
           NEW s, s = Steal(e, n.idx, n).slots
    PROVE  /\ (\E x \in SlotSetOf(e) : x.seq = n.seq) => s = NoEntries
           /\ (\A x \in SlotSetOf(e) : x.seq # n.seq) =>
                 /\ s = [e EXCEPT ![n.idx] = n] /\ SlotSetOf(s) = SlotSetOf(e) \cup {n}
                 /\ InPlace(s) /\ s \in [EntryIdx -> Notif \cup {NoNotif}]
<1> DEFINE k == n.idx
<1>1. k \in EntryIdx /\ k = n.seq /\ n \in Notif /\ n # NoNotif
  <2>1. n \in Notif /\ k = n.seq /\ n.seq \in Nat /\ n.num \in Nat /\ n.seq <= n.num
        /\ n.num < MaxChunks /\ MaxChunks \in Nat
    BY CountAssumption DEF Fits, Notif
  <2> QED
    BY <2>1, NotifPage DEF EntryIdx
<1>2. s = IF e[k] # NoNotif THEN NoEntries ELSE [e EXCEPT ![k] = n]
  BY DEF Steal
<1>3. (\E x \in SlotSetOf(e) : x.seq = n.seq) <=> e[k] # NoNotif
  BY <1>1 DEF SlotSetOf, Occupied, InPlace
<1> HIDE DEF k
<1>4. CASE e[k] = NoNotif
  <2> DEFINE t == [e EXCEPT ![k] = n]
  <2>1. t[k] = n /\ \A i \in EntryIdx : i # k => t[i] = e[i]
    BY <1>1
  <2>2. t \in [EntryIdx -> Notif \cup {NoNotif}]
    BY <1>1
  <2> HIDE DEF t
  <2>3. Occupied(t) = Occupied(e) \cup {k} /\ k \notin Occupied(e)
    BY <1>1, <1>4, <2>1 DEF Occupied
  <2>4. \A i \in Occupied(e) : i \in EntryIdx /\ t[i] = e[i]
    BY <2>1, <2>3 DEF Occupied
  <2>5. SlotSetOf(t) = SlotSetOf(e) \cup {n}
    BY <2>1, <2>3, <2>4 DEF SlotSetOf
  <2>6. InPlace(t)
    BY <1>1, <2>1 DEF InPlace
  <2>7. s = t
    BY <1>2, <1>4 DEF t
  <2> QED
    BY <1>3, <1>4, <2>2, <2>5, <2>6, <2>7 DEF t, k
<1>5. CASE e[k] # NoNotif
  BY <1>2, <1>3, <1>5
<1> QED
  BY <1>4, <1>5

\* No slot is occupied.
LEMMA NoSlots ==
    /\ NoEntries \in [EntryIdx -> Notif \cup {NoNotif}] /\ SlotSetOf(NoEntries) = {}
    /\ InPlace(NoEntries) /\ NoEntries[0] = NoNotif
<1>1. Occupied(NoEntries) = {}
  BY DEF Occupied, NoEntries
<1>2. 0 \in EntryIdx
  BY ZeroIsSlot
<1> QED
  BY <1>1, <1>2 DEF SlotSetOf, InPlace, NoEntries

\* An occupied slot holds what its number says, and the last one is free.
LEMMA SlotIs ==
    ASSUME NEW e \in [EntryIdx -> Notif \cup {NoNotif}], InPlace(e),
           \A x \in SlotSetOf(e) : Fits(x)
    PROVE  /\ e[MaxChunks] = NoNotif
           /\ \A i \in EntryIdx : e[i] # NoNotif => e[i] \in SlotSetOf(e) /\ e[i].seq = i
           /\ \A x \in SlotSetOf(e) : x.seq \in EntryIdx /\ e[x.seq] = x /\ x # NoNotif
<1>1. \A i \in EntryIdx : e[i] # NoNotif => e[i] \in SlotSetOf(e) /\ e[i].seq = i
  BY DEF SlotSetOf, Occupied, InPlace
<1>2. \A x \in SlotSetOf(e) : x.seq \in EntryIdx /\ e[x.seq] = x /\ x # NoNotif
  BY DEF SlotSetOf, Occupied, InPlace
<1>3. MaxChunks \in EntryIdx /\ MaxChunks \in Nat
  BY CountAssumption DEF EntryIdx
<1>4. \A x \in SlotSetOf(e) : x.seq # MaxChunks
  BY <1>3 DEF Fits, Notif
<1> QED
  BY <1>1, <1>2, <1>3, <1>4

\* The event made of the slots of one measurement.
LEMMA ReportIsOne ==
    ASSUME NEW e \in [EntryIdx -> Notif \cup {NoNotif}], InPlace(e),
           \A x \in SlotSetOf(e) : Fits(x), \A x, y \in SlotSetOf(e) : x.meas = y.meas,
           e[0] # NoNotif
    PROVE  Report(e).data = Chunks(Report(e).hdr, Len(Report(e).data))
<1> DEFINE k == Filled(e)
           d == [i \in 1 .. k |-> <<e[i].meas, e[i].seq>>]
<1>1. /\ k \in Nat /\ \A i \in 1 .. k : i \in EntryIdx /\ e[i] # NoNotif
  BY SlotIs, FilledIs
<1>2. Report(e).data = d /\ Report(e).hdr = e[0].meas
  BY DEF Report
<1> HIDE DEF k
<1>3. \A i \in 1 .. k : e[i].meas = e[0].meas /\ e[i].seq = i
  BY <1>1, SlotIs, ZeroIsSlot
<1>4. Len(d) = k
  BY <1>1
<1>5. d = [i \in 1 .. k |-> <<e[0].meas, i>>]
  BY <1>3
<1> HIDE DEF d
<1> QED
  BY <1>2, <1>4, <1>5 DEF Chunks

\* A whole measurement is reported, as the measurement of its last chunk n.
LEMMA WholeReports ==
    ASSUME NEW e \in [EntryIdx -> Notif \cup {NoNotif}], InPlace(e),
           \A x \in SlotSetOf(e) : Fits(x), NEW n, Fits(n), Whole(n, SlotSetOf(e)),
           NEW s, s = Steal(e, n.idx, n).slots
    PROVE  Reportable(s) /\ s[0].meas = n.meas
<1>1. /\ \A x \in SlotSetOf(e) : x.meas = n.meas /\ x.whole /\ x.seq # n.seq
      /\ n.whole /\ n.idx = n.num /\ n.seq = n.num /\ n.num \in Nat \ {0}
      /\ \A i \in 0 .. n.num - 1 : \E x \in SlotSetOf(e) : x.seq = i
  <2>1. n.seq \in Nat /\ n.num \in Nat /\ n.num # 0
    BY DEF Fits, Notif
  <2>2. \A x \in SlotSetOf(e) : x.seq \in Nat
    BY DEF Fits, Notif
  <2> QED
    BY <2>1, <2>2 DEF Whole, Final, Fits
<1>2. /\ s = [e EXCEPT ![n.idx] = n] /\ SlotSetOf(s) = SlotSetOf(e) \cup {n} /\ InPlace(s)
      /\ s \in [EntryIdx -> Notif \cup {NoNotif}]
  <2>1. \A x \in SlotSetOf(e) : x.seq # n.seq
    BY <1>1
  <2> QED
    BY <2>1, StealSlots
<1>3. \A x \in SlotSetOf(s) : Fits(x) /\ x.meas = n.meas /\ x.whole
  BY <1>1, <1>2
<1>4. /\ s[MaxChunks] = NoNotif
      /\ \A i \in EntryIdx : s[i] # NoNotif => s[i] \in SlotSetOf(s)
      /\ \A x \in SlotSetOf(s) : x.seq \in EntryIdx /\ s[x.seq] = x /\ x # NoNotif
  BY <1>2, <1>3, SlotIs
<1>5. s[0] # NoNotif /\ s[1] # NoNotif /\ s[0].meas = n.meas
  <2>1. PICK x \in SlotSetOf(s) : x.seq = 0
    BY <1>1, <1>2
  <2>2. PICK y \in SlotSetOf(s) : y.seq = 1
    <3>1. CASE n.num = 1
      BY <1>1, <1>2, <3>1
    <3>2. CASE n.num # 1
      BY <1>1, <1>2, <3>2
    <3> QED
      BY <3>1, <3>2
  <2> QED
    BY <1>3, <1>4, <2>1, <2>2
<1>6. \A i \in 1 .. Filled(s) : s[i].whole
  BY <1>3, <1>4, FilledIs
<1> QED
  BY <1>5, <1>6 DEF Reportable

\* The head of local_list is handled: it goes to its slot, or the slots are cleared.
LEMMA JHandled ==
    ASSUME IInv, JInv, local # << >>, sending = Idle, NEW n, n = Head(local),
           Handled, UNCHANGED <<list, fw, status, faults, restarts, purged, events>>,
           InPlace(entries'), completed \subseteq completed',
           Whole(n, Kept) => n.meas \in completed',
           \/ Kept' = Kept \cup {n} /\ ~Final(n) /\ \A x \in Kept : x.seq # n.seq
           \/ Kept' = {} /\ (Final(n) \/ \E x \in Kept : x.seq = n.seq),
           Disturbances <= 1 => BuildsOne'
    PROVE  JInv'
<1>1. First(n, Waits) /\ Waits' = Waits \ {n}
  BY HeadFirst DEF Handled, Waits
<1>2. /\ FwFits(fw) /\ Flow(Waits, Kept, fw) /\ Disturbances \in Nat /\ Disturbances' = Disturbances
      /\ faults \in Nat /\ restarts \in Nat
  BY DEF JInv, StreamInv, Disturbances
<1>3. /\ Unmixed(Waits, Kept, fw, Disturbances)
      /\ Bounded(Waits, Kept, fw, completed \cup purged, Disturbances)
      /\ Disturbances <= 1 => OneMeasurement
      /\ status # "up" => list = << >> /\ FwIdle
  BY DEF JInv, StreamInv
<1>4. completed \cup purged \subseteq completed' \cup purged'
  OBVIOUS
<1>5. /\ Flow(Waits', Kept', fw) /\ Unmixed(Waits', Kept', fw, Disturbances)
      /\ Bounded(Waits', Kept', fw, completed' \cup purged', Disturbances)
  <2>1. CASE Kept' = Kept \cup {n} /\ ~Final(n) /\ \A x \in Kept : x.seq # n.seq
    <3>1. Flow(Waits', Kept', fw) /\ Unmixed(Waits', Kept', fw, Disturbances)
      BY <1>1, <1>2, <1>3, <2>1, FlowKept, UnmixedKept
    <3>2. Bounded(Waits', Kept', fw, completed \cup purged, Disturbances)
      BY <1>1, <1>2, <1>3, <2>1, BoundedKept
    <3>3. OffTrackSet(Waits', Kept', fw, completed' \cup purged')
              \subseteq OffTrackSet(Waits', Kept', fw, completed \cup purged)
      BY <1>4 DEF OffTrackSet
    <3>4. fw.meas \in Nat
      BY <1>2 DEF FwFits
    <3> QED
      BY <1>2, <3>1, <3>2, <3>3, <3>4, BoundedSame
  <2>2. CASE Kept' = {} /\ (Final(n) \/ \E x \in Kept : x.seq = n.seq)
    <3>1. Flow(Waits', {}, fw) /\ Unmixed(Waits', {}, fw, Disturbances)
      BY <1>1, <1>2, <1>3, <2>2, FlowCleared, UnmixedCleared
    <3>2. Whole(n, Kept) => n.meas \in completed' \cup purged'
      OBVIOUS
    <3>3. Bounded(Waits \ {n}, {}, fw, completed' \cup purged', Disturbances)
      BY <1>1, <1>2, <1>3, <1>4, <2>2, <3>2, BoundedCleared
    <3> QED
      BY <1>1, <2>2, <3>1, <3>3
  <2> QED
    BY <2>1, <2>2
<1>6. OneMeasurement => OneMeasurement'
  BY DEF OneMeasurement, Chunks
<1>7. FwIdle' = FwIdle
  BY DEF FwIdle
<1> QED
  BY <1>2, <1>3, <1>5, <1>6, <1>7, JStep

\* What a handler finds.
LEMMA HandlerFinds ==
    ASSUME IInv, JInv, local # << >>, sending = Idle
    PROVE  /\ Fits(Head(local)) /\ Kept = SlotSetOf(entries)
           /\ entries \in [EntryIdx -> Notif \cup {NoNotif}] /\ InPlace(entries)
           /\ \A x \in SlotSetOf(entries) : Fits(x)
<1>1. Head(local) \in Waits /\ Flow(Waits, Kept, fw) /\ InPlace(entries)
  BY HeadFirst DEF First, JInv, StreamInv
<1>2. Kept = SlotSetOf(entries)
  BY DEF Kept
<1> QED
  BY <1>1, <1>2, Facts DEF Flow

\* No event is being built.
LEMMA KeptIs ==
    ASSUME sending' = Idle
    PROVE  Kept' = SlotSetOf(entries') /\ BuildsOne'
BY DEF Kept, BuildsOne

\* iwl_mvm_rx_csi_header.
LEMMA JHandleHeader ==
    ASSUME IInv, JInv, HandleHeader
    PROVE  JInv'
<1> DEFINE n == Head(local)
<1>1. /\ local # << >> /\ sending = Idle /\ sending' = Idle /\ n.idx = 0
      /\ entries' = Steal(entries, n.idx, n).slots /\ Handled /\ completed' = completed
      /\ UNCHANGED <<list, fw, status, faults, restarts, purged, events>>
  BY DEF HandleHeader
<1>2. /\ Fits(n) /\ Kept = SlotSetOf(entries) /\ InPlace(entries)
      /\ entries \in [EntryIdx -> Notif \cup {NoNotif}]
  BY <1>1, HandlerFinds
<1> HIDE DEF n
<1>3. n.seq = 0 /\ ~Final(n) /\ ~Whole(n, Kept)
  BY <1>1, <1>2 DEF Fits, Final, Whole
<1>4. /\ (\E x \in Kept : x.seq = n.seq) => entries' = NoEntries
      /\ (\A x \in Kept : x.seq # n.seq) => SlotSetOf(entries') = Kept \cup {n} /\ InPlace(entries')
  BY <1>1, <1>2, StealSlots
<1>5. Kept' = SlotSetOf(entries') /\ BuildsOne'
  BY <1>1, KeptIs
<1>6. CASE \E x \in Kept : x.seq = n.seq
  <2>1. Kept' = {} /\ InPlace(entries')
    BY <1>4, <1>5, <1>6, NoSlots
  <2> QED
    BY <1>1, <1>3, <1>5, <1>6, <2>1, JHandled DEF n
<1>7. CASE \A x \in Kept : x.seq # n.seq
  <2>1. Kept' = Kept \cup {n} /\ InPlace(entries')
    BY <1>4, <1>5, <1>7
  <2> QED
    BY <1>1, <1>3, <1>5, <1>7, <2>1, JHandled DEF n
<1> QED
  BY <1>6, <1>7

\* No chunk is ignored.
LEMMA JIgnoreChunk ==
    ASSUME IInv, JInv, IgnoreChunk
    PROVE  FALSE
<1>1. Fits(Head(local)) /\ ~InRange(Head(local).idx)
  BY HandlerFinds DEF IgnoreChunk
<1> DEFINE n == Head(local)
<1> HIDE DEF n
<1>2. Fits(n) /\ ~(n.idx < MaxChunks)
  BY <1>1 DEF n, InRange
<1> QED
  BY <1>2, CountAssumption DEF Fits, Notif

\* iwl_mvm_rx_csi_chunk.
LEMMA JHandleChunk ==
    ASSUME IInv, JInv, HandleChunk
    PROVE  JInv'
<1> DEFINE n == Head(local)
           s == Steal(entries, n.idx, n).slots
<1>1. /\ local # << >> /\ sending = Idle /\ n.idx > 0 /\ Handled
      /\ UNCHANGED <<list, fw, status, faults, restarts, purged, events>>
  BY DEF HandleChunk
<1>2. \/ ~IsLast(n) /\ entries' = s /\ sending' = sending /\ completed' = completed
      \/ /\ IsLast(n) /\ ~Reportable(s) /\ entries' = NoEntries /\ sending' = sending
         /\ completed' = completed
      \/ /\ IsLast(n) /\ Reportable(s) /\ completed' = completed \cup {s[0].meas}
         /\ \/ entries' = NoEntries /\ sending' = sending
            \/ entries' = s /\ sending' = Report(s)
  BY DEF HandleChunk
<1>3. /\ Fits(n) /\ Kept = SlotSetOf(entries) /\ InPlace(entries)
      /\ entries \in [EntryIdx -> Notif \cup {NoNotif}] /\ \A x \in SlotSetOf(entries) : Fits(x)
  BY <1>1, HandlerFinds
<1>4. IsLast(n) <=> Final(n)
  BY <1>3 DEF IsLast, Final, Fits
<1>5. First(n, Waits)
  BY <1>1, HeadFirst
<1>6. /\ (\E x \in Kept : x.seq = n.seq) => s = NoEntries
      /\ (\A x \in Kept : x.seq # n.seq) =>
            /\ SlotSetOf(s) = Kept \cup {n} /\ InPlace(s)
            /\ s \in [EntryIdx -> Notif \cup {NoNotif}]
  BY <1>3, StealSlots
<1>7. Whole(n, Kept) => Reportable(s) /\ s[0].meas = n.meas
  BY <1>3, WholeReports
<1>8. Whole(n, Kept) => Final(n)
  BY DEF Whole
<1>9. n = Head(local) /\ n.seq > 0
  BY <1>1, <1>3 DEF Fits
<1> HIDE DEF n, s
<1>10. CASE ~IsLast(n)
  <2>1. entries' = s /\ sending' = Idle /\ completed' = completed
    BY <1>1, <1>2, <1>10
  <2>2. Kept' = SlotSetOf(s) /\ BuildsOne'
    BY <2>1, KeptIs
  <2>3. ~Whole(n, Kept) /\ ~Final(n)
    BY <1>4, <1>8, <1>10
  <2>4. CASE \E x \in Kept : x.seq = n.seq
    <3>1. Kept' = {} /\ InPlace(entries')
      BY <1>6, <2>1, <2>2, <2>4, NoSlots
    <3> QED
      BY <1>1, <1>9, <2>1, <2>2, <2>3, <2>4, <3>1, JHandled
  <2>5. CASE \A x \in Kept : x.seq # n.seq
    <3>1. Kept' = Kept \cup {n} /\ InPlace(entries')
      BY <1>6, <2>1, <2>2, <2>5
    <3> QED
      BY <1>1, <1>9, <2>1, <2>2, <2>3, <2>5, <3>1, JHandled
  <2> QED
    BY <2>4, <2>5
<1>11. CASE IsLast(n) /\ entries' = NoEntries /\ sending' = sending
  <2>1. Kept' = {} /\ InPlace(entries') /\ BuildsOne'
    BY <1>1, <1>11, KeptIs, NoSlots
  <2>2. completed \subseteq completed' /\ (Whole(n, Kept) => n.meas \in completed')
    BY <1>2, <1>7, <1>11
  <2>3. Final(n)
    BY <1>4, <1>11
  <2> QED
    BY <1>1, <1>9, <2>1, <2>2, <2>3, JHandled
<1>12. CASE /\ IsLast(n) /\ Reportable(s) /\ completed' = completed \cup {s[0].meas}
            /\ entries' = s /\ sending' = Report(s)
  <2>1. \A x \in Kept : x.seq # n.seq
    BY <1>6, <1>12, NoSlots DEF Reportable
  <2>2. /\ SlotSetOf(s) = Kept \cup {n} /\ InPlace(s) /\ s \in [EntryIdx -> Notif \cup {NoNotif}]
        /\ s[0] # NoNotif
    BY <1>6, <1>12, <2>1 DEF Reportable
  <2>3. s[0].meas # 0
    BY <2>2, ZeroIsSlot DEF Notif
  <2>4. sending' # Idle
    BY <1>12, <2>3 DEF Report, Idle
  <2>5. Kept' = {}
    BY <2>4 DEF Kept
  <2>6. completed \subseteq completed' /\ (Whole(n, Kept) => n.meas \in completed')
    BY <1>7, <1>12
  <2>7. ASSUME Disturbances <= 1 PROVE BuildsOne'
    <3>1. \A x \in Kept : x.meas = n.meas
      <4>1. /\ FwFits(fw) /\ Flow(Waits, Kept, fw) /\ Disturbances \in Nat
            /\ Unmixed(Waits, Kept, fw, Disturbances)
        BY DEF JInv, StreamInv, Disturbances
      <4> QED
        BY <1>5, <1>9, <2>7, <4>1, UnmixedChunk
    <3>2. \A x \in SlotSetOf(s) : Fits(x) /\ x.meas = n.meas
      BY <1>3, <2>2, <3>1
    <3>3. Report(s).data = Chunks(Report(s).hdr, Len(Report(s).data))
      BY <2>2, <3>2, ReportIsOne
    <3> QED
      BY <1>12, <3>3 DEF BuildsOne, Chunks
  <2>8. Final(n) /\ InPlace(entries')
    BY <1>4, <1>12, <2>2
  <2> QED
    BY <1>1, <1>9, <2>5, <2>6, <2>7, <2>8, JHandled
<1> QED
  BY <1>2, <1>10, <1>11, <1>12

\* The work begins.
LEMMA JSplice ==
    ASSUME IInv, JInv, Splice
    PROVE  JInv'
<1>1. /\ local = << >> /\ local' = list /\ list' = << >>
      /\ UNCHANGED <<status, fw, entries, sending, events, completed, purged, faults, restarts>>
  BY DEF Splice, histVars
<1>2. Waits' = Waits /\ Kept' = Kept
  BY <1>1, RangeEmpty DEF Waits, Kept
<1>3. InPlace(entries') /\ (status' # "up" => list' = << >> /\ FwIdle)
  BY <1>1 DEF JInv, StreamInv
<1>4. Disturbances' <= 1 => OneMeasurement' /\ BuildsOne'
  BY <1>1, EventsKept DEF Disturbances
<1> QED
  BY <1>1, <1>2, <1>3, <1>4, StreamKept

\* An event is finished, sent or not.
LEMMA JFinish ==
    ASSUME IInv, JInv, SendEvent \/ EventAllocFails
    PROVE  JInv'
<1>1. /\ sending # Idle /\ sending' = Idle /\ entries' = NoEntries
      /\ UNCHANGED <<status, fw, list, local, completed, purged, faults, restarts>>
  BY DEF SendEvent, EventAllocFails, FinishEvent
<1>2. Kept = {} /\ Kept' = {} /\ InPlace(entries') /\ BuildsOne' /\ Waits' = Waits
  BY <1>1, KeptIs, NoSlots DEF Kept, Waits
<1>3. status' # "up" => list' = << >> /\ FwIdle
  BY <1>1 DEF JInv, StreamInv
<1>4. ASSUME OneMeasurement, BuildsOne PROVE OneMeasurement'
  <2>1. CASE EventAllocFails
    BY <1>4, <2>1 DEF EventAllocFails, OneMeasurement, Chunks
  <2>2. CASE SendEvent
    <3> DEFINE x == [to |-> portid, hdr |-> sending.hdr, data |-> sending.data]
    <3>1. events' = Append(events, x)
      BY <2>2 DEF SendEvent
    <3>2. x.data = Chunks(x.hdr, Len(x.data))
      BY <1>1, <1>4 DEF BuildsOne
    <3> HIDE DEF x
    <3>3. events \in Seq({events[k] : k \in 1 .. Len(events)})
      BY DEF IInv, Types
    <3>4. /\ Len(events) \in Nat /\ Len(events') = Len(events) + 1
          /\ events'[Len(events) + 1] = x
          /\ \A k \in 1 .. Len(events) : events'[k] = events[k]
      BY <3>1, <3>3, EventAdded
    <3>5. ASSUME NEW k \in 1 .. Len(events')
          PROVE  events'[k].data = Chunks(events'[k].hdr, Len(events'[k].data))
      <4>1. k \in 1 .. Len(events) \/ k = Len(events) + 1
        BY <3>4
      <4>2. CASE k \in 1 .. Len(events)
        BY <1>4, <3>4, <4>2 DEF OneMeasurement
      <4>3. CASE k = Len(events) + 1
        BY <3>2, <3>4, <4>3
      <4> QED
        BY <4>1, <4>2, <4>3
    <3> QED
      BY <3>5 DEF OneMeasurement, Chunks
  <2> QED
    BY <2>1, <2>2
<1>5. Disturbances' = Disturbances
  BY <1>1 DEF Disturbances
<1>6. Disturbances' <= 1 => OneMeasurement' /\ BuildsOne'
  BY <1>2, <1>4, <1>5 DEF JInv
<1> QED
  BY <1>1, <1>2, <1>3, <1>6, StreamKept

\* An op mode ends: what is in the slots is forgotten.
LEMMA JOpModeStop ==
    ASSUME IInv, JInv, OpModeStop
    PROVE  JInv'
<1>1. /\ status = "down" /\ local = << >> /\ sending = Idle /\ sending' = Idle
      /\ entries' = NoEntries
      /\ UNCHANGED <<fw, list, local, purged, events, completed, faults, restarts>>
  BY DEF OpModeStop, WorkerDone
<1>2. /\ list = << >> /\ FwIdle /\ FwFits(fw) /\ Flow(Waits, Kept, fw) /\ Disturbances \in Nat
      /\ faults \in Nat /\ restarts \in Nat
      /\ Unmixed(Waits, Kept, fw, Disturbances)
      /\ Bounded(Waits, Kept, fw, completed \cup purged, Disturbances)
  BY <1>1 DEF JInv, StreamInv, Disturbances
<1>3. Waits = {} /\ Waits' = {} /\ Over(fw) /\ Kept' = {} /\ InPlace(entries')
  BY <1>1, <1>2, RangeEmpty, KeptIs, NoSlots DEF Waits, Over, FwIdle
<1>4. /\ Flow({}, {}, fw) /\ Unmixed({}, {}, fw, Disturbances)
      /\ Bounded({}, {}, fw, completed \cup purged, Disturbances)
  BY <1>2, <1>3, FlowCleared, UnmixedReset, BoundedReset
<1>5. Disturbances' = Disturbances /\ FwIdle' = FwIdle
  BY <1>1 DEF Disturbances, FwIdle
<1>6. Disturbances' <= 1 => OneMeasurement' /\ BuildsOne'
  BY <1>1, <1>5, EventsKept
<1> QED
  BY <1>1, <1>2, <1>3, <1>4, <1>5, <1>6, JStep

\* Steps elsewhere.
LEMMA JElsewhere ==
    ASSUME IInv, JInv,
           \/ MacStart \/ OpModeStart \/ UNCHANGED vars
           \/ \E c \in Clients : CsiRegister(c) \/ NetlinkRelease(c)
    PROVE  JInv'
<1>1. /\ UNCHANGED <<fw, list, local, entries, sending, events, completed, purged, faults, restarts>>
      /\ status' \in {status, "up"} \/ status = "gone"
  BY DEF MacStart, OpModeStart, vars, CsiRegister, NetlinkRelease, kernelVars, histVars
<1>2. Waits' = Waits /\ Kept' = Kept
  BY <1>1 DEF Waits, Kept
<1>3. InPlace(entries') /\ (status' # "up" => list' = << >> /\ FwIdle)
  BY <1>1 DEF JInv, StreamInv
<1>4. Disturbances' <= 1 => OneMeasurement' /\ BuildsOne'
  BY <1>1, EventsKept DEF Disturbances
<1> QED
  BY <1>1, <1>2, <1>3, <1>4, StreamKept

\* The invariant holds at the start.
LEMMA JInit ==
    ASSUME Init
    PROVE  JInv
<1>1. /\ fw = [meas |-> 0, count |-> 0, next |-> 1] /\ list = << >> /\ local = << >>
      /\ entries = NoEntries /\ sending = Idle /\ events = << >> /\ status = "up"
      /\ faults = 0 /\ restarts = 0
  BY DEF Init
<1>2. Waits = {} /\ Kept = {} /\ InPlace(entries) /\ Disturbances = 0
  BY <1>1, RangeEmpty, NoSlots DEF Waits, Kept, Disturbances
<1>3. FwFits(fw) /\ fw.meas = 0 /\ Over(fw)
  BY <1>1, CountAssumption DEF FwFits, Over
<1>4. Flow({}, {}, fw)
  BY DEF Flow
<1>5. Unmixed({}, {}, fw, 0)
  BY <1>3 DEF Unmixed, Headed, Damaged, OneOwner
<1>6. OneMeasurement /\ BuildsOne
  BY <1>1 DEF OneMeasurement, BuildsOne
<1>7. Bounded({}, {}, fw, completed \cup purged, 0)
  <2>1. \A m \in 1 .. fw.meas + 1 : OnTrack(m, {}, {}, fw)
    BY <1>3 DEF OnTrack, ClearFor
  <2>2. OffTrackSet({}, {}, fw, completed \cup purged) = {}
    BY <2>1 DEF OffTrackSet
  <2>3. Cardinality({}) = 0
    BY FS_EmptySet
  <2> QED
    BY <2>2, <2>3 DEF Bounded
<1> QED
  BY <1>1, <1>2, <1>3, <1>4, <1>5, <1>6, <1>7 DEF JInv, StreamInv

\* Every step of the system keeps it.
LEMMA JNext ==
    ASSUME CountsFit, IInv, JInv, [Next]_vars
    PROVE  JInv'
<1>1. CASE \E n \in ChunkCounts : Capture(n)
  BY <1>1, JCapture
<1>2. CASE Receive
  BY <1>2, JReceive, JRxLost DEF Receive
<1>3. CASE Worker
  BY <1>3, JSplice, JHandleHeader, JIgnoreChunk, JHandleChunk, JFinish DEF Worker
<1>4. CASE FwRestart \/ MacStop \/ OpModeStop
  BY <1>4, JFwRestart, JMacStop, JOpModeStop
<1>5. CASE \/ MacStart \/ OpModeStart \/ UNCHANGED vars
           \/ \E c \in Clients : CsiRegister(c) \/ NetlinkRelease(c)
  BY <1>5, JElsewhere
<1> QED
  BY <1>1, <1>2, <1>3, <1>4, <1>5 DEF Next, Lifecycle

\* The invariant of the stream of notifications holds in every state, when measurements have
\* fewer chunks than slots: what iwl_mvm_rx_csi_chunk does then never meets its range test.
THEOREM StreamInvariance ==
    ASSUME CountsFit
    PROVE  Spec => [](IInv /\ JInv)
<1>1. Init => IInv /\ JInv
  BY InitInv, JInit
<1>2. (IInv /\ JInv) /\ [Next]_vars => (IInv /\ JInv)'
  BY NextInv, JNext
<1> QED
  BY <1>1, <1>2, PTL DEF Spec

\* With at most one notification lost or short, or one restart, no event of
\* iwl_mvm_send_csi_event mixes measurements, for any number of measurements.
THEOREM EventsUnmixed ==
    ASSUME CountsFit
    PROVE  Spec => [](faults + restarts <= 1 => OneMeasurement)
<1>1. IInv /\ JInv => (faults + restarts <= 1 => OneMeasurement)
  BY DEF JInv, Disturbances
<1> QED
  BY <1>1, StreamInvariance, PTL

\* A lost or short notification and a restart cost at most two measurements each: when
\* nothing is in flight, all others have reached iwl_mvm_send_csi_event or were purged by
\* iwl_mvm_mac_stop.
THEOREM LossIsBounded ==
    ASSUME CountsFit
    PROVE  Spec => []LossBounded
<1>1. IInv /\ JInv => LossBounded
  <2> SUFFICES ASSUME IInv, JInv, Quiet
               PROVE  Cardinality((1 .. fw.meas) \ (completed \cup purged)) <= 2 * (faults + restarts)
    BY DEF LossBounded
  <2> DEFINE S == completed \cup purged
             A == (1 .. fw.meas) \ S
             B == OffTrackSet(Waits, Kept, fw, S)
  <2>1. Waits = {} /\ Over(fw)
    BY RangeEmpty DEF Quiet, WorkerDone, Waits, Over, FwIdle
  <2>2. /\ FwFits(fw) /\ Flow({}, Kept, fw) /\ fw.meas \in Nat
        /\ Cardinality(B) <= 2 * (faults + restarts) /\ faults + restarts \in Nat
    BY <2>1 DEF JInv, StreamInv, FwFits, Bounded, Disturbances
  <2>3. A \subseteq B
    <3> SUFFICES ASSUME NEW m \in A PROVE m \in B
      OBVIOUS
    <3>1. m \in Nat /\ m <= fw.meas /\ m \in 1 .. fw.meas + 1 /\ m \notin S
      BY <2>2
    <3>2. ~OnTrack(m, {}, Kept, fw)
      BY <2>1, <2>2, <3>1, OffTrack
    <3> QED
      BY <2>1, <3>1, <3>2 DEF OffTrackSet
  <2>4. IsFiniteSet(B) /\ Cardinality(B) \in Nat
    BY <2>2, OffTrackFinite
  <2> HIDE DEF A, B
  <2>5. IsFiniteSet(A) /\ Cardinality(A) <= Cardinality(B)
    BY <2>3, <2>4, FS_Subset
  <2>6. Cardinality(A) \in Nat
    BY <2>5, FS_CardinalityType
  <2>7. Cardinality(A) <= 2 * (faults + restarts)
    BY <2>2, <2>4, <2>5, <2>6
  <2> QED
    BY <2>7 DEF A
<1> QED
  BY <1>1, StreamInvariance, PTL
=============================================================================
