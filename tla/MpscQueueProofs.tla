-------------------------- MODULE MpscQueueProofs --------------------------
(***************************************************************************)
(* Proofs about the ring of MpscQueue for any number of producers, any     *)
(* Capacity and any number of tickets, on a machine that keeps the order   *)
(* of Dequeue's stores (~ReorderStores).                                   *)
(***************************************************************************)
EXTENDS MpscQueue, TLAPS

(* Division with remainder, the only arithmetic fact the ring needs.       *)
LEMMA DivMod ==
  ASSUME NEW C \in Nat \ {0}, NEW k \in Nat
  PROVE  /\ k \div C \in Nat /\ k % C \in 0..(C - 1)
         /\ k = C * (k \div C) + (k % C)
BY SMT

(* Tickets less than Capacity apart live in different cells.               *)
LEMMA SlotDistinct ==
  ASSUME NEW k \in Nat, NEW l \in Nat, k < l, l < k + Capacity
  PROVE  Slot(k) # Slot(l)
<1> DEFINE C == Capacity  a == k \div C  b == l \div C
<1>0. C \in Nat \ {0} BY MpscAssumption
<1>1. /\ a \in Nat /\ b \in Nat
      /\ k = C * a + (k % C) /\ l = C * b + (l % C)
  BY <1>0, DivMod
<1>2. SUFFICES ASSUME k % C = l % C PROVE FALSE
  BY DEF Slot
<1> HIDE DEF C, a, b
<1>3. C * b - C * a = l - k BY <1>0, <1>1, <1>2
<1>4. CASE b <= a
  <2>1. C * b <= C * a BY <1>0, <1>1, <1>4
  <2> QED BY <2>1, <1>3, <1>1, <1>0
<1>5. CASE b >= a + 1
  <2>1. C * b >= C * (a + 1) BY <1>0, <1>1, <1>5
  <2>2. C * (a + 1) = C * a + C BY <1>0, <1>1
  <2> QED BY <2>1, <2>2, <1>3, <1>1, <1>0 DEF C
<1> QED BY <1>4, <1>5, <1>1

(* The same, for two tickets of the window that starts at h.               *)
LEMMA WindowDistinct ==
  ASSUME NEW h \in Nat, NEW k \in Nat, NEW l \in Nat, k # l,
         h <= k, k < h + Capacity, h <= l, l < h + Capacity
  PROVE  Slot(k) # Slot(l)
<1>1. CASE k < l BY <1>1, MpscAssumption, SlotDistinct
<1>2. CASE l < k BY <1>2, MpscAssumption, SlotDistinct
<1> QED BY <1>1, <1>2

(* A ticket one lap later uses the same cell.                              *)
LEMMA SlotWraps ==
  ASSUME NEW k \in Nat
  PROVE  /\ Slot(k) \in Slots /\ Slot(k + Capacity) = Slot(k)
<1> DEFINE C == Capacity  m == k + C  a == k \div C  b == m \div C
<1>0. C \in Nat \ {0} /\ m \in Nat BY MpscAssumption
<1>1. /\ a \in Nat /\ b \in Nat
      /\ k % C \in 0..(C - 1) /\ m % C \in 0..(C - 1)
      /\ k = C * a + (k % C) /\ m = C * b + (m % C)
  BY <1>0, DivMod
<1>2. k % C \in 0..(C - 1) BY <1>1
<1>3. m % C = k % C
  <2>0. m = k + C OBVIOUS
  <2> HIDE DEF C, a, b, m
  <2>1. CASE b <= a
    <3>1. C * b <= C * a BY <1>0, <1>1, <2>1
    <3> QED BY <3>1, <1>1, <1>0, <2>0
  <2>2. CASE b >= a + 2
    <3>1. C * b >= C * (a + 2) BY <1>0, <1>1, <2>2
    <3>2. C * (a + 2) = C * a + C + C BY <1>0, <1>1
    <3> QED BY <3>1, <3>2, <1>1, <1>0, <2>0
  <2>3. CASE b = a + 1
    <3>1. C * (a + 1) = C * a + C BY <1>0, <1>1
    <3> QED BY <3>1, <2>3, <1>1, <1>0, <2>0
  <2> QED BY <2>1, <2>2, <2>3, <1>1
<1> QED BY <1>2, <1>3 DEF Slot, Slots
----------------------------------------------------------------------------
(* The inductive invariant.  The tickets in head_ .. tail_-1 are live, and *)
(* each is either owned by one producer or ready; the cells of the window  *)
(* head_ .. head_+Capacity-1 are pairwise different.                       *)
Consuming == todo # {}

Window == /\ head_ <= tail_ /\ tail_ <= head_ + Capacity
          /\ Len(tickets) = tail_
          /\ Len(out) = head_ + (IF todo \in {{"clear", "advance"}, {"advance"}}
                                 THEN 1 ELSE 0)

Consumer == /\ todo \in {{}, {"move", "clear", "advance"},
                         {"clear", "advance"}, {"advance"}}
            /\ Consuming => /\ cur = head_ /\ head_ < tail_
                            /\ \A p \in Owners : ctail[p] # head_

Reserving == \A p \in Producers :
  /\ ppc[p] = "head" => ctail[p] <= tail_
  /\ ppc[p] = "cas" => /\ ctail[p] <= tail_ /\ chead[p] <= head_
                       /\ ctail[p] < chead[p] + Capacity
  /\ p \in Owners => /\ head_ <= ctail[p] /\ ctail[p] < tail_
                     /\ chead[p] <= head_ /\ ctail[p] < chead[p] + Capacity
                     /\ item[p] = tickets[ctail[p] + 1]
  /\ ppc[p] = "publish" => storage[Slot(ctail[p])] = item[p]

Distinct == \A p, q \in Owners : p # q => ctail[p] # ctail[q]

Cells == \A k \in Nat : (head_ <= k /\ k < head_ + Capacity) =>
  /\ ready[Slot(k)] <=> /\ k < tail_ /\ \A p \in Owners : ctail[p] # k
                        /\ ~(k = head_ /\ todo = {"advance"})
  /\ (ready[Slot(k)] /\ ~(k = head_ /\ todo = {"clear", "advance"}))
        => storage[Slot(k)] = tickets[k + 1]

RingInv == /\ QueueTypeOK /\ Window /\ Consumer /\ Reserving /\ Distinct /\ Cells
           /\ FifoNoLoss

(* The invariant holds initially: the ring is empty.                       *)
LEMMA RingInvInit == QueueInit => RingInv
<1> SUFFICES ASSUME QueueInit PROVE RingInv
  OBVIOUS
<1>1. QueueTypeOK BY MpscAssumption DEF QueueInit, QueueTypeOK
<1>2. Window /\ FifoNoLoss BY MpscAssumption DEF QueueInit, Window, FifoNoLoss
<1>3. Owners = {} BY DEF QueueInit, Owners
<1>4. Consumer /\ Reserving /\ Distinct
  BY <1>3 DEF QueueInit, Consumer, Consuming, Reserving, Distinct, Owners
<1>5. Cells
  <2> SUFFICES ASSUME NEW k \in Nat, head_ <= k, k < head_ + Capacity
               PROVE  ~ready[Slot(k)] /\ ~(k < tail_)
    BY DEF Cells
  <2> QED BY SlotWraps DEF QueueInit
<1> QED BY <1>1, <1>2, <1>4, <1>5 DEF RingInv

(* The values of todo when the stores are made in order.                   *)
LEMMA TodoValues ==
  /\ {"move", "clear", "advance"} \ {"move"} = {"clear", "advance"}
  /\ {"clear", "advance"} \ {"clear"} = {"advance"}
  /\ {"advance"} \ {"advance"} = {}
  /\ "move" \notin {"clear", "advance"} /\ "move" \notin {"advance"}
  /\ "clear" \notin {"advance"}
OBVIOUS

(* Every step of the queue preserves the invariant.                        *)
LEMMA RingInvStep ==
  ASSUME ~ReorderStores, RingInv, [QueueNext]_queueVars
  PROVE  RingInv'
<1> USE MpscAssumption
<1>0. QueueTypeOK /\ Window /\ Consumer /\ Reserving /\ Distinct /\ Cells /\ FifoNoLoss
  BY DEF RingInv
<1> USE <1>0
<1>1. ASSUME NEW p \in Producers, LoadTail(p) PROVE RingInv'
  <2>0. Owners' = Owners BY <1>1 DEF LoadTail, Owners, QueueTypeOK
  <2>1. QueueTypeOK' BY <1>1 DEF LoadTail, QueueTypeOK
  <2>2. Window' /\ FifoNoLoss' BY <1>1 DEF LoadTail, Window, FifoNoLoss
  <2>3. Consumer' /\ Distinct' BY <1>1, <2>0 DEF LoadTail, Consumer, Consuming, Distinct, Owners, QueueTypeOK
  <2>4. Reserving' BY <1>1, <2>0 DEF LoadTail, Reserving, Window, Owners, QueueTypeOK
  <2>5. Cells' BY <1>1, <2>0 DEF LoadTail, Cells, Owners, QueueTypeOK
  <2> QED BY <2>1, <2>2, <2>3, <2>4, <2>5 DEF RingInv
<1>2. ASSUME NEW p \in Producers, LoadHead(p) PROVE RingInv'
  <2>0. Owners' = Owners BY <1>2 DEF LoadHead, Owners, QueueTypeOK
  <2>1. QueueTypeOK' BY <1>2 DEF LoadHead, QueueTypeOK
  <2>2. Window' /\ FifoNoLoss' BY <1>2 DEF LoadHead, Window, FifoNoLoss
  <2>3. Consumer' /\ Distinct' BY <1>2, <2>0 DEF LoadHead, Consumer, Consuming, Distinct, Owners, QueueTypeOK
  <2>4. Reserving' BY <1>2, <2>0 DEF LoadHead, Reserving, Window, Owners, QueueTypeOK
  <2>5. Cells' BY <1>2, <2>0 DEF LoadHead, Cells
  <2> QED BY <2>1, <2>2, <2>3, <2>4, <2>5 DEF RingInv
<1>3. ASSUME NEW p \in Producers, ClaimTicket(p) PROVE RingInv'
  <2> USE <1>3 DEF ClaimTicket
  <2>1. CASE tail_' = tail_
    <3>0. ppc' = [ppc EXCEPT ![p] = "head"] /\ ctail' = [ctail EXCEPT ![p] = tail_]
          /\ tickets' = tickets
      BY <2>1 DEF QueueTypeOK
    <3>1. Owners' = Owners BY <3>0 DEF Owners, QueueTypeOK
    <3>2. QueueTypeOK' BY <3>0 DEF QueueTypeOK
    <3>3. Window' /\ FifoNoLoss' BY <2>1, <3>0 DEF Window, FifoNoLoss
    <3>4. Consumer' /\ Distinct'
      BY <2>1, <3>0, <3>1 DEF Consumer, Consuming, Distinct, Owners, QueueTypeOK
    <3>5. Reserving' BY <2>1, <3>0, <3>1 DEF Reserving, Owners, QueueTypeOK
    <3>6. Cells' BY <2>1, <3>0, <3>1 DEF Cells, Owners, QueueTypeOK
    <3> QED BY <3>2, <3>3, <3>4, <3>5, <3>6 DEF RingInv
  <2>2. CASE tail_' # tail_
    <3>0. /\ tail_ = ctail[p] /\ tail_' = tail_ + 1 /\ ctail' = ctail
          /\ tickets' = Append(tickets, item[p])
          /\ ppc' = [ppc EXCEPT ![p] = "construct"]
      BY <2>2
    <3>1. Owners' = Owners \cup {p} /\ p \notin Owners
      BY <3>0 DEF Owners, QueueTypeOK
    <3>2. tail_ < head_ + Capacity /\ chead[p] <= head_ /\ ctail[p] < chead[p] + Capacity
      BY <3>0 DEF Reserving, QueueTypeOK
    <3>3. /\ tickets' \in Seq(Items) /\ Len(tickets') = tail_ + 1
          /\ tickets'[tail_ + 1] = item[p]
          /\ \A i \in 1..tail_ : tickets'[i] = tickets[i]
      BY <3>0 DEF Window, QueueTypeOK
    <3>4. \A q \in Owners : /\ ctail[q] < tail_ /\ ctail[q] # tail_
                            /\ ctail[q] \in Nat /\ ctail[q] + 1 \in 1..tail_
      BY DEF Reserving, QueueTypeOK, Owners
    <3>5. QueueTypeOK' BY <3>0, <3>3 DEF QueueTypeOK
    <3>6. Window' BY <3>0, <3>2, <3>3 DEF Window, QueueTypeOK
    <3>7. Consumer'
      BY <3>0, <3>1 DEF Consumer, Consuming, QueueTypeOK
    <3>8. Distinct' BY <3>0, <3>1, <3>4 DEF Distinct
    <3>9. Reserving'
      <4> SUFFICES ASSUME NEW q \in Producers
                   PROVE  (/\ ppc[q] = "head" => ctail[q] <= tail_
                           /\ ppc[q] = "cas" => /\ ctail[q] <= tail_ /\ chead[q] <= head_
                                                /\ ctail[q] < chead[q] + Capacity
                           /\ q \in Owners => /\ head_ <= ctail[q] /\ ctail[q] < tail_
                                              /\ chead[q] <= head_ /\ ctail[q] < chead[q] + Capacity
                                              /\ item[q] = tickets[ctail[q] + 1]
                           /\ ppc[q] = "publish" => storage[Slot(ctail[q])] = item[q])'
        BY DEF Reserving
      <4>1. CASE q = p BY <4>1, <3>0, <3>2, <3>3 DEF Window, QueueTypeOK
      <4>2. CASE q # p
        <5>1. ppc'[q] = ppc[q] /\ (q \in Owners' <=> q \in Owners)
          BY <4>2, <3>0, <3>1 DEF QueueTypeOK
        <5>2. q \in Owners => tickets'[ctail[q] + 1] = tickets[ctail[q] + 1]
          BY <3>3, <3>4
        <5>3. /\ ppc[q] = "head" => ctail[q] <= tail_
              /\ ppc[q] = "cas" => /\ ctail[q] <= tail_ /\ chead[q] <= head_
                                   /\ ctail[q] < chead[q] + Capacity
              /\ q \in Owners => /\ head_ <= ctail[q] /\ ctail[q] < tail_
                                 /\ chead[q] <= head_ /\ ctail[q] < chead[q] + Capacity
                                 /\ item[q] = tickets[ctail[q] + 1]
              /\ ppc[q] = "publish" => storage[Slot(ctail[q])] = item[q]
          BY DEF Reserving
        <5>4. /\ head_' = head_ /\ chead' = chead /\ item' = item
              /\ storage' = storage /\ tail_ \in Nat /\ ctail[q] \in Nat
          BY DEF QueueTypeOK
        <5> HIDE <1>0, <1>3 DEF ClaimTicket
        <5>5. ctail'[q] = ctail[q] /\ tail_' = tail_ + 1 BY <3>0
        <5>6. (ppc[q] = "head" => ctail[q] <= tail_)' BY <5>1, <5>3, <5>4, <5>5
        <5>7. (ppc[q] = "cas" => /\ ctail[q] <= tail_ /\ chead[q] <= head_
                                 /\ ctail[q] < chead[q] + Capacity)'
          BY <5>1, <5>3, <5>4, <5>5
        <5>8. (q \in Owners => /\ head_ <= ctail[q] /\ ctail[q] < tail_
                               /\ chead[q] <= head_ /\ ctail[q] < chead[q] + Capacity
                               /\ item[q] = tickets[ctail[q] + 1])'
          BY <5>1, <5>2, <5>3, <5>4, <5>5
        <5>9. (ppc[q] = "publish" => storage[Slot(ctail[q])] = item[q])'
          BY <5>1, <5>3, <5>4, <5>5
        <5> QED BY <5>6, <5>7, <5>8, <5>9
      <4> QED BY <4>1, <4>2
    <3>10. Cells'
      <4> SUFFICES ASSUME NEW k \in Nat, head_ <= k, k < head_ + Capacity
                   PROVE  (/\ ready[Slot(k)] <=> /\ k < tail_ /\ \A q \in Owners : ctail[q] # k
                                                 /\ ~(k = head_ /\ todo = {"advance"})
                           /\ (ready[Slot(k)] /\ ~(k = head_ /\ todo = {"clear", "advance"}))
                                 => storage[Slot(k)] = tickets[k + 1])'
        BY DEF Cells
      <4>1. ready[Slot(k)] => k < tail_ BY DEF Cells
      <4>2. CASE k < tail_
        <5>1. tickets'[k + 1] = tickets[k + 1] BY <4>2, <3>3 DEF QueueTypeOK
        <5>2. (\A q \in Owners' : ctail'[q] # k) <=> (\A q \in Owners : ctail[q] # k)
          BY <4>2, <3>0, <3>1 DEF QueueTypeOK
        <5>3. /\ ready[Slot(k)] <=> /\ k < tail_ /\ \A q \in Owners : ctail[q] # k
                                    /\ ~(k = head_ /\ todo = {"advance"})
              /\ (ready[Slot(k)] /\ ~(k = head_ /\ todo = {"clear", "advance"}))
                    => storage[Slot(k)] = tickets[k + 1]
          BY DEF Cells
        <5>4. /\ head_' = head_ /\ ready' = ready /\ todo' = todo
              /\ storage' = storage /\ k < tail_'
          BY <4>2, <3>0 DEF QueueTypeOK
        <5> HIDE <1>0, <1>3 DEF ClaimTicket
        <5> QED BY <4>2, <5>1, <5>2, <5>3, <5>4
      <4>3. CASE k >= tail_
        <5>1. ~ready[Slot(k)] BY <4>1, <4>3 DEF QueueTypeOK
        <5>2. k < tail_ + 1 => k = tail_ BY <4>3 DEF QueueTypeOK
        <5> QED BY <5>1, <5>2, <3>0, <3>1
      <4> QED BY <4>2, <4>3 DEF QueueTypeOK
    <3>11. FifoNoLoss'
      BY <3>0, <3>3 DEF FifoNoLoss, Window, QueueTypeOK
    <3> QED BY <3>5, <3>6, <3>7, <3>8, <3>9, <3>10, <3>11 DEF RingInv
  <2> QED BY <2>1, <2>2
<1>4. ASSUME NEW p \in Producers, Construct(p) PROVE RingInv'
  <2>0. Owners' = Owners /\ p \in Owners BY <1>4 DEF Construct, Owners, QueueTypeOK
  <2>1. /\ head_ <= ctail[p] /\ ctail[p] < tail_ /\ ctail[p] \in Nat
        /\ head_ \in Nat /\ tail_ \in Nat /\ tail_ <= head_ + Capacity
    BY <2>0 DEF Reserving, QueueTypeOK, Window
  <2>2. \A k \in Nat : (head_ <= k /\ k < head_ + Capacity /\ k # ctail[p])
           => storage'[Slot(k)] = storage[Slot(k)]
    <3> SUFFICES ASSUME NEW k \in Nat, head_ <= k, k < head_ + Capacity, k # ctail[p]
                 PROVE  storage'[Slot(k)] = storage[Slot(k)]
      OBVIOUS
    <3>1. Slot(k) # Slot(ctail[p])
      BY <2>1, WindowDistinct
    <3>2. storage' = [storage EXCEPT ![Slot(ctail[p])] = storage'[Slot(ctail[p])]]
      BY <1>4, <2>1, SlotWraps DEF Construct, QueueTypeOK
    <3> QED BY <3>1, <3>2, SlotWraps DEF QueueTypeOK
  <2>3. storage'[Slot(ctail[p])] = item[p]
    BY <1>4, <2>1, SlotWraps DEF Construct, QueueTypeOK
  <2>4. QueueTypeOK' BY <1>4 DEF Construct, QueueTypeOK
  <2>5. Window' /\ FifoNoLoss' BY <1>4 DEF Construct, Window, FifoNoLoss
  <2>6. Consumer' /\ Distinct'
    BY <1>4, <2>0 DEF Construct, Consumer, Consuming, Distinct
  <2>7. Reserving'
    <3> SUFFICES ASSUME NEW q \in Producers, ppc'[q] = "publish"
                 PROVE  storage'[Slot(ctail[q])] = item[q]
      BY <1>4, <2>0 DEF Construct, Reserving, Owners, QueueTypeOK
    <3>1. CASE q = p BY <3>1, <2>3
    <3>2. CASE q # p
      <4>1. q \in Owners /\ ppc[q] = "publish" BY <3>2, <1>4 DEF Construct, Owners, QueueTypeOK
      <4>2. /\ ctail[q] # ctail[p] /\ ctail[q] \in Nat
            /\ head_ <= ctail[q] /\ ctail[q] < head_ + Capacity
        BY <4>1, <3>2, <2>0, <2>1 DEF Distinct, Reserving, QueueTypeOK
      <4> QED BY <4>1, <4>2, <2>2 DEF Reserving
    <3> QED BY <3>1, <3>2
  <2>8. Cells'
    <3> SUFFICES ASSUME NEW k \in Nat, head_ <= k, k < head_ + Capacity,
                        ready[Slot(k)]
                 PROVE  storage'[Slot(k)] = storage[Slot(k)]
      BY <1>4, <2>0 DEF Construct, Cells
    <3>1. k # ctail[p] BY <2>0 DEF Cells
    <3> QED BY <3>1, <2>2
  <2> QED BY <2>4, <2>5, <2>6, <2>7, <2>8 DEF RingInv
<1>5. ASSUME NEW p \in Producers, PublishReady(p) PROVE RingInv'
  <2>0. p \in Owners /\ Owners' = Owners \ {p}
    BY <1>5 DEF PublishReady, Owners, QueueTypeOK
  <2>1. /\ head_ <= ctail[p] /\ ctail[p] < tail_ /\ ctail[p] \in Nat
        /\ head_ \in Nat /\ tail_ \in Nat /\ tail_ <= head_ + Capacity
    BY <2>0 DEF Reserving, QueueTypeOK, Window
  <2>2. \A k \in Nat : (head_ <= k /\ k < head_ + Capacity /\ k # ctail[p])
           => ready'[Slot(k)] = ready[Slot(k)]
    <3> SUFFICES ASSUME NEW k \in Nat, head_ <= k, k < head_ + Capacity, k # ctail[p]
                 PROVE  ready'[Slot(k)] = ready[Slot(k)]
      OBVIOUS
    <3>1. Slot(k) # Slot(ctail[p])
      BY <2>1, WindowDistinct
    <3>2. ready' = [ready EXCEPT ![Slot(ctail[p])] = ready'[Slot(ctail[p])]]
      BY <1>5, <2>1, SlotWraps DEF PublishReady, QueueTypeOK
    <3> QED BY <3>1, <3>2, SlotWraps DEF QueueTypeOK
  <2>3. ready'[Slot(ctail[p])] = TRUE
    BY <1>5, <2>1, SlotWraps DEF PublishReady, QueueTypeOK
  <2>4. QueueTypeOK' BY <1>5 DEF PublishReady, QueueTypeOK
  <2>5. Window' /\ FifoNoLoss' BY <1>5 DEF PublishReady, Window, FifoNoLoss
  <2>6. Consumer' /\ Distinct'
    BY <1>5, <2>0 DEF PublishReady, Consumer, Consuming, Distinct
  <2>7. Reserving'
    BY <1>5, <2>0 DEF PublishReady, Reserving, Owners, QueueTypeOK
  <2>8. Cells'
    <3> SUFFICES ASSUME NEW k \in Nat, head_ <= k, k < head_ + Capacity
                 PROVE  (/\ ready[Slot(k)] <=> /\ k < tail_ /\ \A q \in Owners : ctail[q] # k
                                               /\ ~(k = head_ /\ todo = {"advance"})
                         /\ (ready[Slot(k)] /\ ~(k = head_ /\ todo = {"clear", "advance"}))
                               => storage[Slot(k)] = tickets[k + 1])'
      BY <1>5 DEF PublishReady, Cells
    <3>1. CASE k = ctail[p]
      <4>1. \A q \in Owners' : ctail'[q] # k
        BY <3>1, <2>0, <1>5 DEF Distinct, PublishReady
      <4>2. ~(k = head_ /\ todo = {"advance"})
        BY <3>1, <2>0 DEF Consumer, Consuming
      <4>3. storage[Slot(k)] = tickets[k + 1]
        BY <3>1, <2>0, <1>5 DEF Reserving, PublishReady
      <4> QED BY <3>1, <2>1, <2>3, <4>1, <4>2, <4>3, <1>5 DEF PublishReady
    <3>2. CASE k # ctail[p]
      <4>1. (\A q \in Owners' : ctail'[q] # k) <=> (\A q \in Owners : ctail[q] # k)
        BY <3>2, <2>0, <1>5 DEF PublishReady
      <4> QED BY <3>2, <2>2, <4>1, <1>5 DEF PublishReady, Cells
    <3> QED BY <3>1, <3>2
  <2> QED BY <2>4, <2>5, <2>6, <2>7, <2>8 DEF RingInv
<1>6. ASSUME DequeueBegin PROVE RingInv'
  <2>0. Owners' = Owners /\ todo = {} /\ todo' = {"move", "clear", "advance"}
    BY <1>6 DEF DequeueBegin, Owners, pvars
  <2>1. /\ head_ < tail_ /\ \A p \in Owners : ctail[p] # head_
    BY <1>6 DEF DequeueBegin, Cells, QueueTypeOK
  <2>2. todo \notin {{"clear", "advance"}, {"advance"}}
    BY <2>0
  <2>3. todo' \notin {{"clear", "advance"}, {"advance"}}
    BY <2>0, TodoValues
  <2>4. QueueTypeOK' BY <1>6 DEF DequeueBegin, QueueTypeOK, pvars
  <2>5. Window' /\ FifoNoLoss'
    BY <1>6, <2>2, <2>3 DEF DequeueBegin, Window, FifoNoLoss
  <2>6. Consumer' BY <1>6, <2>0, <2>1 DEF DequeueBegin, Consumer, Consuming, pvars
  <2>7. Reserving' /\ Distinct'
    BY <1>6, <2>0 DEF DequeueBegin, Reserving, Distinct, pvars
  <2>8. Cells' BY <1>6, <2>0, <2>2, <2>3 DEF DequeueBegin, Cells, pvars
  <2> QED BY <2>4, <2>5, <2>6, <2>7, <2>8 DEF RingInv
<1>7. ASSUME MoveOut PROVE RingInv'
  <2>0. /\ Owners' = Owners /\ todo = {"move", "clear", "advance"}
        /\ todo' = {"clear", "advance"} /\ cur = head_ /\ head_ < tail_
        /\ \A p \in Owners : ctail[p] # head_
    BY <1>7, TodoValues DEF MoveOut, Owners, pvars, Consumer, Consuming
  <2>1. todo \notin {{"clear", "advance"}, {"advance"}} /\ todo' # {"advance"}
    BY <2>0, TodoValues
  <2>2. head_ \in Nat /\ tail_ \in Nat /\ head_ < head_ + Capacity BY DEF QueueTypeOK
  <2>3. storage[Slot(head_)] = tickets[head_ + 1] /\ ready[Slot(head_)]
    BY <2>0, <2>1, <2>2 DEF Cells
  <2>4. /\ tickets[head_ + 1] \in Items /\ Len(out) = head_ /\ Len(tickets) = tail_
    BY <2>0, <2>1, <2>2 DEF Window, QueueTypeOK
  <2>5. /\ out' = Append(out, tickets[head_ + 1]) /\ out' \in Seq(Items)
        /\ Len(out') = head_ + 1 /\ out'[head_ + 1] = tickets[head_ + 1]
        /\ \A i \in 1..head_ : out'[i] = out[i]
    BY <1>7, <2>0, <2>3, <2>4 DEF MoveOut, QueueTypeOK
  <2>6. \A k \in Nat : (head_ <= k /\ k < head_ + Capacity /\ k # head_)
           => storage'[Slot(k)] = storage[Slot(k)]
    <3> SUFFICES ASSUME NEW k \in Nat, head_ <= k, k < head_ + Capacity, k # head_
                 PROVE  storage'[Slot(k)] = storage[Slot(k)]
      OBVIOUS
    <3>1. Slot(k) # Slot(head_)
      BY <2>0, <2>2, WindowDistinct
    <3>2. storage' = [storage EXCEPT ![Slot(head_)] = storage'[Slot(head_)]]
      BY <1>7, <2>0, <2>2, SlotWraps DEF MoveOut, QueueTypeOK
    <3> QED BY <3>1, <3>2, SlotWraps DEF QueueTypeOK
  <2>7. QueueTypeOK' BY <1>7, <2>0, <2>5 DEF MoveOut, QueueTypeOK, pvars
  <2>8. Window' BY <1>7, <2>0, <2>5 DEF MoveOut, Window, QueueTypeOK
  <2>9. FifoNoLoss'
    <3>1. Len(out') <= Len(tickets') BY <1>7, <2>0, <2>2, <2>4, <2>5 DEF MoveOut
    <3>2. ASSUME NEW i \in 1..(head_ + 1) PROVE out'[i] = tickets[i]
      <4>1. CASE i = head_ + 1 BY <4>1, <2>5
      <4>2. CASE i \in 1..head_ BY <4>2, <2>4, <2>5 DEF FifoNoLoss
      <4> QED BY <4>1, <4>2, <2>2
    <3> QED BY <3>1, <3>2, <2>5, <1>7 DEF FifoNoLoss, MoveOut
  <2>10. Consumer' /\ Distinct'
    BY <1>7, <2>0 DEF MoveOut, Consumer, Consuming, Distinct, pvars
  <2>11. Reserving'
    <3> SUFFICES ASSUME NEW q \in Producers, ppc[q] = "publish"
                 PROVE  storage'[Slot(ctail[q])] = item[q]
      BY <1>7, <2>0 DEF MoveOut, Reserving, pvars
    <3>1. q \in Owners BY DEF Owners
    <3>2. /\ ctail[q] # head_ /\ ctail[q] \in Nat
          /\ head_ <= ctail[q] /\ ctail[q] < head_ + Capacity
      BY <3>1, <2>0 DEF Reserving, Window, QueueTypeOK
    <3> QED BY <3>2, <2>6 DEF Reserving
  <2>12. Cells'
    <3> SUFFICES ASSUME NEW k \in Nat, head_ <= k, k < head_ + Capacity
                 PROVE  (/\ ready[Slot(k)] <=> /\ k < tail_ /\ \A q \in Owners : ctail[q] # k
                                               /\ ~(k = head_ /\ todo = {"advance"})
                         /\ (ready[Slot(k)] /\ ~(k = head_ /\ todo = {"clear", "advance"}))
                               => storage[Slot(k)] = tickets[k + 1])'
      BY <1>7 DEF MoveOut, Cells
    <3>1. /\ ready' = ready /\ ctail' = ctail /\ tail_' = tail_ /\ head_' = head_
          /\ tickets' = tickets
      BY <1>7 DEF MoveOut, pvars
    <3>2. CASE k = head_ BY <3>2, <3>1, <2>0, <2>1, <2>3
    <3>3. CASE k # head_ BY <3>3, <3>1, <2>0, <2>6 DEF Cells
    <3> QED BY <3>2, <3>3
  <2> QED BY <2>7, <2>8, <2>9, <2>10, <2>11, <2>12 DEF RingInv
<1>8. ASSUME ClearReady PROVE RingInv'
  <2>0. /\ Owners' = Owners /\ todo = {"clear", "advance"} /\ todo' = {"advance"}
        /\ cur = head_ /\ head_ < tail_ /\ \A p \in Owners : ctail[p] # head_
    BY <1>8, TodoValues DEF ClearReady, Owners, pvars, Consumer, Consuming
  <2>1. todo # {"advance"} /\ todo' # {"clear", "advance"} BY <2>0, TodoValues
  <2>2. head_ \in Nat /\ tail_ \in Nat BY DEF QueueTypeOK
  <2>3. \A k \in Nat : (head_ <= k /\ k < head_ + Capacity /\ k # head_)
           => ready'[Slot(k)] = ready[Slot(k)]
    <3> SUFFICES ASSUME NEW k \in Nat, head_ <= k, k < head_ + Capacity, k # head_
                 PROVE  ready'[Slot(k)] = ready[Slot(k)]
      OBVIOUS
    <3>1. Slot(k) # Slot(head_)
      BY <2>0, <2>2, WindowDistinct
    <3>2. ready' = [ready EXCEPT ![Slot(head_)] = ready'[Slot(head_)]]
      BY <1>8, <2>0, <2>2, SlotWraps DEF ClearReady, QueueTypeOK
    <3> QED BY <3>1, <3>2, SlotWraps DEF QueueTypeOK
  <2>4. ready'[Slot(head_)] = FALSE
    BY <1>8, <2>0, <2>2, SlotWraps DEF ClearReady, QueueTypeOK
  <2>5. QueueTypeOK' BY <1>8, <2>0 DEF ClearReady, QueueTypeOK, pvars
  <2>6. Window' /\ FifoNoLoss' BY <1>8, <2>0 DEF ClearReady, Window, FifoNoLoss
  <2>7. Consumer' /\ Distinct' /\ Reserving'
    BY <1>8, <2>0 DEF ClearReady, Consumer, Consuming, Distinct, Reserving, pvars
  <2>8. Cells'
    <3> SUFFICES ASSUME NEW k \in Nat, head_ <= k, k < head_ + Capacity
                 PROVE  (/\ ready[Slot(k)] <=> /\ k < tail_ /\ \A q \in Owners : ctail[q] # k
                                               /\ ~(k = head_ /\ todo = {"advance"})
                         /\ (ready[Slot(k)] /\ ~(k = head_ /\ todo = {"clear", "advance"}))
                               => storage[Slot(k)] = tickets[k + 1])'
      BY <1>8 DEF ClearReady, Cells
    <3>1. /\ storage' = storage /\ ctail' = ctail /\ tail_' = tail_ /\ head_' = head_
          /\ tickets' = tickets
      BY <1>8 DEF ClearReady, pvars
    <3>2. CASE k = head_ BY <3>2, <3>1, <2>0, <2>4
    <3>3. CASE k # head_ BY <3>3, <3>1, <2>0, <2>3 DEF Cells
    <3> QED BY <3>2, <3>3
  <2> QED BY <2>5, <2>6, <2>7, <2>8 DEF RingInv
<1>9. ASSUME AdvanceHead PROVE RingInv'
  <2>0. /\ Owners' = Owners /\ todo = {"advance"} /\ todo' = {}
        /\ cur = head_ /\ head_ < tail_ /\ \A p \in Owners : ctail[p] # head_
        /\ head_' = head_ + 1
    BY <1>9, TodoValues DEF AdvanceHead, Owners, pvars, Consumer, Consuming
  <2>1. head_ \in Nat /\ tail_ \in Nat BY DEF QueueTypeOK
  <2>2. todo' \notin {{"clear", "advance"}, {"advance"}} BY <2>0
  <2>3. QueueTypeOK' BY <1>9, <2>0, <2>1 DEF AdvanceHead, QueueTypeOK, pvars
  <2>4. Window' /\ FifoNoLoss'
    BY <1>9, <2>0, <2>1, <2>2 DEF AdvanceHead, Window, FifoNoLoss
  <2>5. Consumer' /\ Distinct'
    BY <1>9, <2>0 DEF AdvanceHead, Consumer, Consuming, Distinct, pvars
  <2>6. Reserving'
    BY <1>9, <2>0, <2>1 DEF AdvanceHead, Reserving, Owners, QueueTypeOK, pvars
  <2>7. Cells'
    <3> SUFFICES ASSUME NEW k \in Nat, head_ + 1 <= k, k < head_ + 1 + Capacity
                 PROVE  (/\ ready[Slot(k)] <=> /\ k < tail_ /\ \A q \in Owners : ctail[q] # k
                                               /\ ~(k = head_ /\ todo = {"advance"})
                         /\ (ready[Slot(k)] /\ ~(k = head_ /\ todo = {"clear", "advance"}))
                               => storage[Slot(k)] = tickets[k + 1])'
      BY <2>0 DEF Cells
    <3>1. /\ storage' = storage /\ ctail' = ctail /\ tail_' = tail_ /\ ready' = ready
          /\ tickets' = tickets
      BY <1>9 DEF AdvanceHead, pvars
    <3>2. CASE k = head_ + Capacity
      <4>1. ~ready[Slot(k)]
        BY <3>2, <2>0, <2>1, SlotWraps DEF Cells
      <4>2. ~(k < tail_) BY <3>2, <2>1 DEF Window
      <4> QED BY <4>1, <4>2, <3>1
    <3>3. CASE k < head_ + Capacity
      <4>1. k # head_ /\ head_ <= k BY <2>1
      <4> QED BY <4>1, <3>1, <3>3, <2>0, <2>2 DEF Cells
    <3> QED BY <3>2, <3>3, <2>1
  <2> QED BY <2>3, <2>4, <2>5, <2>6, <2>7 DEF RingInv
<1>10. ASSUME UNCHANGED queueVars PROVE RingInv'
  BY <1>10, ZenonT(40) DEF queueVars, RingInv, QueueTypeOK, Window, Consumer, Consuming, Reserving,
               Distinct, Cells, FifoNoLoss, Owners
<1> QED BY <1>1, <1>2, <1>3, <1>4, <1>5, <1>6, <1>7, <1>8, <1>9, <1>10
        DEF QueueNext, Produce, Dequeue

(* The invariant implies the properties the runs check.                    *)
LEMMA RingInvImplies == RingInv => FifoNoLoss /\ SlotExclusive /\ OccupancyBounded
<1> SUFFICES ASSUME RingInv PROVE FifoNoLoss /\ SlotExclusive /\ OccupancyBounded
  OBVIOUS
<1> USE MpscAssumption
<1>0. QueueTypeOK /\ Window /\ Consumer /\ Reserving /\ Distinct /\ FifoNoLoss
  BY DEF RingInv
<1>1. \A p \in Owners : /\ ctail[p] \in Nat /\ chead[p] \in Nat
                        /\ head_ <= ctail[p] /\ ctail[p] < head_ + Capacity
                        /\ chead[p] <= ctail[p] /\ ctail[p] < chead[p] + Capacity
  <2> SUFFICES ASSUME NEW p \in Owners
               PROVE  /\ ctail[p] \in Nat /\ chead[p] \in Nat
                      /\ head_ <= ctail[p] /\ ctail[p] < head_ + Capacity
                      /\ chead[p] <= ctail[p] /\ ctail[p] < chead[p] + Capacity
    OBVIOUS
  <2>1. p \in Producers BY DEF Owners
  <2>2. ctail[p] \in Nat /\ chead[p] \in Nat /\ head_ \in Nat /\ tail_ \in Nat
    BY <1>0, <2>1 DEF QueueTypeOK
  <2>3. /\ head_ <= ctail[p] /\ ctail[p] < tail_ /\ chead[p] <= head_
        /\ ctail[p] < chead[p] + Capacity
    BY <1>0, <2>1 DEF Reserving
  <2> QED BY <1>0, <2>2, <2>3 DEF Window
<1>2. OccupancyBounded
  BY <1>0, <1>1 DEF OccupancyBounded, Occupancy, Window, QueueTypeOK
<1>3. \A p, q \in Owners : p # q => Slot(ctail[p]) # Slot(ctail[q])
  BY <1>0, <1>1, WindowDistinct DEF Distinct, QueueTypeOK
<1>4. todo \cap {"move", "clear"} # {} => \A p \in Owners : Slot(ctail[p]) # Slot(cur)
  <2> SUFFICES ASSUME todo # {}, NEW p \in Owners PROVE Slot(ctail[p]) # Slot(cur)
    OBVIOUS
  <2>1. cur = head_ /\ ctail[p] # head_ /\ head_ \in Nat
    BY <1>0 DEF Consumer, Consuming, QueueTypeOK
  <2> QED BY <2>1, <1>1, WindowDistinct
<1> QED BY <1>0, <1>2, <1>3, <1>4 DEF SlotExclusive

(* The queue is a FIFO: for any number of producers, any Capacity and any  *)
(* interleaving, Dequeue returns exactly the enqueued items in ticket      *)
(* order, none lost, duplicated or read before it was constructed.         *)
THEOREM QueueIsFifo == ASSUME ~ReorderStores PROVE QueueSpec => []FifoNoLoss
<1>1. RingInv /\ [QueueNext]_queueVars => RingInv' BY RingInvStep
<1> QED BY <1>1, RingInvInit, RingInvImplies, PTL DEF QueueSpec

(* No cell is ever used by two threads at once.                            *)
THEOREM CellsAreExclusive == ASSUME ~ReorderStores PROVE QueueSpec => []SlotExclusive
<1>1. RingInv /\ [QueueNext]_queueVars => RingInv' BY RingInvStep
<1> QED BY <1>1, RingInvInit, RingInvImplies, PTL DEF QueueSpec

(* The ring is sound: types, exclusive cells and bounded occupancy.        *)
THEOREM RingIsSound == ASSUME ~ReorderStores PROVE QueueSpec => []RingSound
<1>1. RingInv /\ [QueueNext]_queueVars => RingInv' BY RingInvStep
<1>2. RingInv => RingSound BY RingInvImplies DEF RingInv, RingSound
<1> QED BY <1>1, <1>2, RingInvInit, PTL DEF QueueSpec

(* The ring never overfills, and the occupancy TryEnqueue reports is a     *)
(* number in 1 .. Capacity.                                                *)
THEOREM RingIsBounded == ASSUME ~ReorderStores PROVE QueueSpec => []OccupancyBounded
<1>1. RingInv /\ [QueueNext]_queueVars => RingInv' BY RingInvStep
<1> QED BY <1>1, RingInvInit, RingInvImplies, PTL DEF QueueSpec

(* RejectsOnlyWhenFull: TryEnqueue returns false only while the ring is    *)
(* full.  The tail_ it compares may be stale, but is never ahead.          *)
THEOREM RejectsOnlyWhenFull == ASSUME ~ReorderStores PROVE QueueSpec => RejectMeansFull
<1>1. RingInv /\ [QueueNext]_queueVars => RingInv' BY RingInvStep
<1> DEFINE Reject == \A p \in Producers :
              (ppc[p] = "head" /\ ppc'[p] = "idle") => tail_ - head_ >= Capacity
<1>2. RingInv /\ [QueueNext]_queueVars => [Reject]_queueVars
  <2> SUFFICES ASSUME RingInv, QueueNext, NEW p \in Producers,
                      ppc[p] = "head", ppc'[p] = "idle"
               PROVE  tail_ - head_ >= Capacity
    OBVIOUS
  <2>1. LoadHead(p)
    BY DEF RingInv, QueueTypeOK, QueueNext, Produce, Dequeue, LoadTail, LoadHead,
           ClaimTicket, Construct, PublishReady, DequeueBegin, MoveOut,
           ClearReady, AdvanceHead, pvars
  <2>2. ctail[p] - head_ >= Capacity
    BY <2>1 DEF LoadHead, RingInv, QueueTypeOK
  <2>3. ctail[p] <= tail_
    BY DEF RingInv, Reserving
  <2> QED BY <2>2, <2>3, MpscAssumption DEF RingInv, QueueTypeOK
<1> QED BY <1>1, <1>2, RingInvInit, PTL DEF QueueSpec, RejectMeansFull
----------------------------------------------------------------------------
(* The ring implements BoundedFifo.                                        *)

(* A reservation appends to what is left of the tickets.                   *)
LEMMA BufReserve ==
  ASSUME NEW S, NEW s \in Seq(S), NEW x \in S, NEW m \in 0..Len(s)
  PROVE  SubSeq(Append(s, x), m + 1, Len(s) + 1)
            = Append(SubSeq(s, m + 1, Len(s)), x)
<1> DEFINE n == Len(s)
           t == SubSeq(Append(s, x), m + 1, n + 1)
           u == Append(SubSeq(s, m + 1, n), x)
<1>1. n \in Nat /\ m \in Nat /\ m <= n /\ Append(s, x) \in Seq(S) /\ Len(Append(s, x)) = n + 1
  OBVIOUS
<1>2. SubSeq(s, m + 1, n) \in Seq(S) /\ Len(SubSeq(s, m + 1, n)) = n - m
  BY <1>1
<1>3. /\ t \in Seq(S) /\ Len(t) = n + 1 - m
      /\ u \in Seq(S) /\ Len(u) = n + 1 - m
  BY <1>1, <1>2
<1>4. ASSUME NEW i \in 1..(n + 1 - m) PROVE t[i] = u[i]
  <2>1. CASE i = n + 1 - m
    <3>1. u[i] = x
      BY <1>2, <2>1
    <3>2. t[i] = Append(s, x)[m + i]
      BY <1>1
    <3> QED BY <1>1, <2>1, <3>1, <3>2
  <2>2. CASE i # n + 1 - m
    <3>0. i \in 1..(n - m) /\ m + i \in 1..n
      BY <1>1, <2>2
    <3>1. u[i] = s[m + i]
      BY <1>1, <1>2, <3>0
    <3>2. t[i] = Append(s, x)[m + i]
      BY <1>1
    <3> QED BY <1>1, <3>0, <3>1, <3>2
  <2> QED BY <2>1, <2>2
<1> HIDE DEF t, u
<1>5. t = u
  BY <1>3, <1>4
<1> QED BY <1>5 DEF t, u

(* Taking the next ticket removes the head of what is left.                *)
LEMMA BufTake ==
  ASSUME NEW S, NEW s \in Seq(S), NEW m \in 0..(Len(s) - 1)
  PROVE  /\ SubSeq(s, m + 1, Len(s)) # <<>>
         /\ Head(SubSeq(s, m + 1, Len(s))) = s[m + 1]
         /\ Tail(SubSeq(s, m + 1, Len(s))) = SubSeq(s, m + 2, Len(s))
<1> DEFINE n == Len(s)
           t == SubSeq(s, m + 1, n)
           u == SubSeq(s, m + 2, n)
<1>1. n \in Nat /\ m \in Nat /\ m < n
  OBVIOUS
<1>2. t \in Seq(S) /\ Len(t) = n - m /\ \A i \in 1..(n - m) : t[i] = s[m + i]
  BY <1>1
<1>3. u \in Seq(S) /\ Len(u) = n - m - 1 /\ \A i \in 1..(n - m - 1) : u[i] = s[m + 1 + i]
  BY <1>1
<1> HIDE DEF t, u, n
<1>4. t # <<>> /\ Head(t) = t[1]
  BY <1>1, <1>2
<1>5. Tail(t) \in Seq(S) /\ Len(Tail(t)) = n - m - 1 /\ \A i \in 1..(n - m - 1) : Tail(t)[i] = t[i + 1]
  BY <1>1, <1>2, <1>4
<1>6. \A i \in 1..(n - m - 1) : Tail(t)[i] = u[i]
  <2> SUFFICES ASSUME NEW i \in 1..(n - m - 1) PROVE Tail(t)[i] = u[i]
    OBVIOUS
  <2>1. i + 1 \in 1..(n - m) /\ m + (i + 1) = m + 1 + i
    BY <1>1
  <2>2. Tail(t)[i] = t[i + 1] /\ u[i] = s[m + 1 + i]
    BY <1>3, <1>5
  <2>3. t[i + 1] = s[m + (i + 1)]
    BY <1>2, <2>1
  <2> QED BY <2>1, <2>2, <2>3
<1>7. Tail(t) = u
  BY <1>3, <1>5, <1>6
<1>8. t[1] = s[m + 1]
  BY <1>1, <1>2
<1> QED BY <1>4, <1>7, <1>8 DEF t, u, n

(* Append leaves the elements before it.                                   *)
LEMMA AppendKeeps ==
  ASSUME NEW S, NEW s \in Seq(S), NEW x, NEW i \in 1..Len(s)
  PROVE  Append(s, x)[i] = s[i]
OBVIOUS

(* The flags of tickets m .. n-1, of which those in H are not published.   *)
Pub(H, m, n) == [i \in 1..(n - m) |-> m + i - 1 \notin H]

(* A new ticket is not published.                                          *)
LEMMA PubReserve ==
  ASSUME NEW m \in Nat, NEW n \in Nat, m <= n, NEW H
  PROVE  Pub(H \cup {n}, m, n + 1) = Append(Pub(H, m, n), FALSE)
<1> DEFINE f == Pub(H, m, n)
           g == Pub(H \cup {n}, m, n + 1)
           a == Append(f, FALSE)
<1>1. /\ f \in Seq(BOOLEAN) /\ Len(f) = n - m
      /\ g \in Seq(BOOLEAN) /\ Len(g) = n + 1 - m
  BY DEF Pub
<1>2. a \in Seq(BOOLEAN) /\ Len(a) = n + 1 - m
  BY <1>1
<1>3. ASSUME NEW i \in 1..(n + 1 - m) PROVE g[i] = a[i]
  <2>1. CASE i = n + 1 - m
    <3>1. a[i] = FALSE
      BY <1>1, <2>1
    <3>2. m + i - 1 = n
      BY <2>1
    <3>3. g[i] = (m + i - 1 \notin H \cup {n})
      BY DEF Pub
    <3> HIDE DEF f, g, a
    <3>4. g[i] = FALSE
      BY <3>2, <3>3
    <3> QED BY <3>1, <3>4
  <2>2. CASE i # n + 1 - m
    <3>0. i \in 1..(n - m) /\ m + i - 1 # n
      BY <2>2
    <3>1. a[i] = f[i]
      BY <1>1, <3>0, AppendKeeps
    <3>2. f[i] = (m + i - 1 \notin H)
      BY <3>0 DEF Pub
    <3>3. g[i] = (m + i - 1 \notin H \cup {n})
      BY DEF Pub
    <3>4. (m + i - 1 \notin H) = (m + i - 1 \notin H \cup {n})
      BY <3>0
    <3> HIDE DEF f, g, a
    <3> QED BY <3>1, <3>2, <3>3, <3>4
  <2> QED BY <2>1, <2>2
<1> HIDE DEF f, g, a
<1>4. g = a
  BY <1>1, <1>2, <1>3
<1> QED BY <1>4 DEF f, g, a

(* An owned ticket is published.                                           *)
LEMMA PubPublish ==
  ASSUME NEW m \in Nat, NEW n \in Nat, NEW H, NEW k \in H, k \in Nat, m <= k, k < n
  PROVE  /\ k - m + 1 \in 1..(n - m) /\ ~Pub(H, m, n)[k - m + 1]
         /\ Pub(H \ {k}, m, n)[k - m + 1]
         /\ \A i \in 1..(n - m) : i # k - m + 1 =>
               (Pub(H \ {k}, m, n)[i] <=> Pub(H, m, n)[i])
<1> DEFINE j == k - m + 1
<1>1. j \in 1..(n - m) /\ m + j - 1 = k
  OBVIOUS
<1>2. ~Pub(H, m, n)[j]
  BY <1>1 DEF Pub
<1>3. Pub(H \ {k}, m, n)[j]
  BY <1>1 DEF Pub
<1>4. ASSUME NEW i \in 1..(n - m), i # j
      PROVE  Pub(H \ {k}, m, n)[i] <=> Pub(H, m, n)[i]
  <2>1. m + i - 1 # k
    BY <1>4
  <2> HIDE DEF j
  <2>2. (m + i - 1 \notin H \ {k}) = (m + i - 1 \notin H)
    BY <2>1
  <2> QED BY <2>2 DEF Pub
<1> QED BY <1>1, <1>2, <1>3, <1>4

(* The first ticket is taken.                                              *)
LEMMA PubTake ==
  ASSUME NEW m \in Nat, NEW n \in Nat, m < n, NEW H, m \notin H
  PROVE  /\ Pub(H, m, n)[1] /\ Tail(Pub(H, m, n)) = Pub(H, m + 1, n)
<1> DEFINE f == Pub(H, m, n)
           g == Pub(H, m + 1, n)
<1>1. /\ f \in Seq(BOOLEAN) /\ Len(f) = n - m
      /\ g \in Seq(BOOLEAN) /\ Len(g) = n - m - 1
  BY DEF Pub
<1>2. f[1]
  <2>1. 1 \in 1..(n - m) /\ m + 1 - 1 = m
    OBVIOUS
  <2> QED BY <2>1 DEF Pub
<1>3. ASSUME NEW i \in 1..(n - m - 1) PROVE Tail(f)[i] = g[i]
  <2>1. Tail(f)[i] = f[i + 1]
    BY <1>1
  <2>2. i + 1 \in 1..(n - m) /\ m + (i + 1) - 1 = (m + 1) + i - 1 /\ i \in 1..(n - (m + 1))
    OBVIOUS
  <2>3. f[i + 1] = (m + (i + 1) - 1 \notin H)
    BY <2>2 DEF Pub
  <2>4. g[i] = ((m + 1) + i - 1 \notin H)
    BY <2>2 DEF Pub
  <2> HIDE DEF f, g
  <2> QED BY <2>1, <2>2, <2>3, <2>4
<1> HIDE DEF f, g
<1>4. Tail(f) \in Seq(BOOLEAN) /\ Len(Tail(f)) = n - m - 1
  BY <1>1
<1>5. Tail(f) = g
  BY <1>1, <1>3, <1>4
<1> QED BY <1>2, <1>5 DEF f, g

LEMMA FlagsArePub == Flags = Pub(Held, Len(out), Len(tickets))
BY DEF Flags, Pub

(* What holds of the mapped variables in every state of the ring.          *)
LEMMA MappedFacts ==
  ASSUME RingInv
  PROVE  /\ tickets \in Seq(Items) /\ Len(tickets) = tail_ /\ tail_ \in Nat
         /\ Len(out) \in Nat /\ head_ <= Len(out) /\ Len(out) <= tail_
         /\ head_ \in Nat /\ tail_ <= head_ + Capacity
         /\ Len(Buf) = tail_ - Len(out)
         /\ \A p \in Owners : /\ ctail[p] \in Nat /\ Len(out) <= ctail[p]
                              /\ ctail[p] < tail_ /\ p \in Producers
<1>1. /\ tickets \in Seq(Items) /\ Len(tickets) = tail_ /\ tail_ \in Nat
      /\ Len(out) \in Nat /\ head_ \in Nat /\ tail_ <= head_ + Capacity
  BY DEF RingInv, QueueTypeOK, Window
<1>2. head_ <= Len(out) /\ Len(out) <= head_ + 1
  BY <1>1 DEF RingInv, Window
<1>3. Len(out) <= tail_
  BY <1>1 DEF RingInv, FifoNoLoss
<1>4. Len(Buf) = tail_ - Len(out)
  BY <1>1, <1>3 DEF Buf
<1>5. ASSUME NEW p \in Owners
      PROVE  /\ ctail[p] \in Nat /\ Len(out) <= ctail[p]
             /\ ctail[p] < tail_ /\ p \in Producers
  <2>1. p \in Producers /\ ctail[p] \in Nat
    BY DEF Owners, RingInv, QueueTypeOK
  <2>2. head_ <= ctail[p] /\ ctail[p] < tail_
    BY <2>1 DEF RingInv, Reserving
  <2>3. Len(out) # head_ => ctail[p] # head_
    <3>1. Len(out) # head_ => Consuming
      <4>1. Len(out) # head_ => todo \in {{"clear", "advance"}, {"advance"}}
        BY <1>1 DEF RingInv, Window
      <4> QED BY <4>1 DEF Consuming
    <3> QED BY <3>1 DEF RingInv, Consumer
  <2> QED BY <1>1, <1>2, <2>1, <2>2, <2>3
<1> QED BY <1>1, <1>2, <1>3, <1>4, <1>5

(* TryEnqueue wins a ticket: Reserve.                                      *)
LEMMA ClaimReserves ==
  ASSUME RingInv, NEW p \in Producers, ClaimTicket(p), tail_' # tail_
  PROVE  /\ Len(Buf) < Capacity /\ \E x \in Items : Buf' = Append(Buf, x)
         /\ Flags' = Append(Flags, FALSE) /\ out' = out
<1>0. /\ tail_ = ctail[p] /\ tail_' = tail_ + 1 /\ ctail' = ctail /\ out' = out
      /\ tickets' = Append(tickets, item[p]) /\ ppc[p] = "cas"
      /\ ppc' = [ppc EXCEPT ![p] = "construct"]
  BY DEF ClaimTicket
<1>1. item[p] \in Items
  BY DEF RingInv, QueueTypeOK
<1>2. tail_ < head_ + Capacity
  <2>1. ctail[p] < chead[p] + Capacity /\ chead[p] <= head_
    BY <1>0 DEF RingInv, Reserving
  <2> QED BY <1>0, <2>1, MpscAssumption DEF RingInv, QueueTypeOK
<1>3. Len(Buf) < Capacity
  BY <1>2, MappedFacts, MpscAssumption
<1>4. Len(tickets') = Len(tickets) + 1
  BY <1>0, MappedFacts
<1>5. Buf' = Append(Buf, item[p])
  <2>1. SubSeq(Append(tickets, item[p]), Len(out) + 1, Len(tickets) + 1)
           = Append(SubSeq(tickets, Len(out) + 1, Len(tickets)), item[p])
    <3>1. tickets \in Seq(Items) /\ Len(out) \in 0..Len(tickets)
      BY MappedFacts
    <3> QED BY <1>1, <3>1, BufReserve
  <2> QED BY <1>0, <1>4, <2>1 DEF Buf
<1>6. Owners' = Owners \cup {p}
  BY <1>0 DEF Owners, RingInv, QueueTypeOK
<1>7. Held' = Held \cup {tail_}
  BY <1>0, <1>6 DEF Held
<1>8. Flags' = Append(Flags, FALSE)
  <2>1. Pub(Held \cup {tail_}, Len(out), tail_ + 1)
           = Append(Pub(Held, Len(out), tail_), FALSE)
    BY MappedFacts, PubReserve
  <2>2. Flags' = Pub(Held', Len(out'), Len(tickets'))
    BY DEF Flags, Pub
  <2> QED BY <1>0, <1>4, <1>7, <2>1, <2>2, MappedFacts, FlagsArePub
<1> QED BY <1>0, <1>1, <1>3, <1>5, <1>8

(* It makes its cell ready: Publish.                                       *)
LEMMA ReadyPublishes ==
  ASSUME RingInv, NEW p \in Producers, PublishReady(p)
  PROVE  /\ \E i \in DOMAIN Flags : /\ ~Flags[i]
                                    /\ Flags' = [Flags EXCEPT ![i] = TRUE]
         /\ Buf' = Buf /\ out' = out
<1>0. /\ ppc[p] = "publish" /\ ppc' = [ppc EXCEPT ![p] = "idle"]
      /\ UNCHANGED <<ctail, tickets, out>>
  BY DEF PublishReady
<1>1. p \in Owners /\ Owners' = Owners \ {p}
  BY <1>0 DEF Owners, RingInv, QueueTypeOK
<1>2. ctail[p] \in Held /\ Held' = Held \ {ctail[p]}
  BY <1>0, <1>1 DEF Held, RingInv, Distinct
<1>3. /\ ctail[p] \in Nat /\ Len(out) <= ctail[p] /\ ctail[p] < Len(tickets)
      /\ Len(out) \in Nat /\ Len(tickets) \in Nat
  BY <1>1, MappedFacts
<1>4. Flags' = Pub(Held \ {ctail[p]}, Len(out), Len(tickets))
  BY <1>0, <1>2 DEF Flags, Pub
<1>5. /\ ctail[p] - Len(out) + 1 \in DOMAIN Flags
      /\ ~Flags[ctail[p] - Len(out) + 1]
      /\ Flags' = [Flags EXCEPT ![ctail[p] - Len(out) + 1] = TRUE]
  <2> DEFINE m == Len(out)  n == Len(tickets)  k == ctail[p]  H == Held
             j == k - m + 1
             F == Flags
             G == Pub(H \ {k}, m, n)
  <2>1. m \in Nat /\ n \in Nat /\ k \in H /\ k \in Nat /\ m <= k /\ k < n
    BY <1>2, <1>3
  <2>2. F = Pub(H, m, n) /\ F \in [1..(n - m) -> BOOLEAN]
        /\ G \in [1..(n - m) -> BOOLEAN]
    BY FlagsArePub DEF Pub
  <2>3. Flags' = G
    BY <1>4
  <2> HIDE DEF m, n, k, H, F
  <2>4. /\ j \in 1..(n - m) /\ ~Pub(H, m, n)[j] /\ G[j]
        /\ \A i \in 1..(n - m) : i # j => (G[i] <=> Pub(H, m, n)[i])
    <3>1. j \in 1..(n - m) /\ ~Pub(H, m, n)[j]
      BY <2>1, PubPublish
    <3>2. G[j]
      BY <2>1, PubPublish
    <3>3. \A i \in 1..(n - m) : i # j => (G[i] <=> Pub(H, m, n)[i])
      BY <2>1, PubPublish
    <3> QED BY <3>1, <3>2, <3>3
  <2> HIDE DEF j, G
  <2>5. G = [F EXCEPT ![j] = TRUE]
    <3>1. ASSUME NEW i \in 1..(n - m) PROVE G[i] = [F EXCEPT ![j] = TRUE][i]
      <4>1. CASE i = j
        BY <2>2, <2>4, <4>1
      <4>2. CASE i # j
        BY <2>2, <2>4, <4>2
      <4> QED BY <4>1, <4>2
    <3>2. [F EXCEPT ![j] = TRUE] \in [1..(n - m) -> BOOLEAN]
      BY <2>2
    <3> QED BY <2>2, <3>1, <3>2
  <2>6. j \in DOMAIN F /\ ~F[j]
    BY <2>2, <2>4
  <2> QED BY <2>3, <2>5, <2>6 DEF F, j, k, m
<1>6. Buf' = Buf
  BY <1>0 DEF Buf
<1> QED BY <1>0, <1>5, <1>6

(* Dequeue moves the item out: Take.                                       *)
LEMMA MoveTakes ==
  ASSUME ~ReorderStores, RingInv, MoveOut
  PROVE  /\ Buf # <<>> /\ Flags[1] /\ out' = Append(out, Head(Buf))
         /\ Buf' = Tail(Buf) /\ Flags' = Tail(Flags)
<1>0. /\ "move" \in todo /\ out' = Append(out, storage[Slot(cur)])
      /\ UNCHANGED <<tickets, ctail, ppc>>
  BY DEF MoveOut, pvars
<1>1. todo = {"move", "clear", "advance"} /\ Consuming
  BY <1>0, TodoValues DEF RingInv, Consumer, Consuming
<1>2. /\ cur = head_ /\ head_ < tail_ /\ Len(out) = head_
      /\ \A p \in Owners : ctail[p] # head_
  <2>1. todo \notin {{"clear", "advance"}, {"advance"}}
    BY <1>0, TodoValues
  <2>2. head_ \in Nat
    BY DEF RingInv, QueueTypeOK
  <2>3. Len(out) = head_
    BY <2>1, <2>2 DEF RingInv, Window
  <2> QED BY <1>1, <2>3 DEF RingInv, Consumer
<1>3. head_ \in Nat /\ head_ <= head_ /\ head_ < head_ + Capacity
  BY MpscAssumption DEF RingInv, QueueTypeOK
<1>4. todo # {"advance"} /\ todo # {"clear", "advance"}
  BY <1>0, TodoValues
<1>5. ready[Slot(head_)]
  BY <1>2, <1>3, <1>4 DEF RingInv, Cells
<1>6. storage[Slot(cur)] = tickets[Len(out) + 1]
  BY <1>2, <1>3, <1>4, <1>5 DEF RingInv, Cells
<1>7. Len(out') = Len(out) + 1
  BY <1>0 DEF RingInv, QueueTypeOK
<1>8. Len(out) \in 0..(Len(tickets) - 1)
  BY <1>2, MappedFacts
<1>9. Buf # <<>> /\ Head(Buf) = tickets[Len(out) + 1] /\ Buf' = Tail(Buf)
  <2>1. Len(out) + 1 + 1 = Len(out) + 2
    BY <1>8
  <2> QED BY <1>0, <1>7, <1>8, <2>1, MappedFacts, BufTake DEF Buf
<1>10. Held' = Held /\ Len(out) \notin Held
  BY <1>0, <1>2 DEF Held, Owners
<1>11. Flags[1] /\ Flags' = Tail(Flags)
  <2>1. Pub(Held, Len(out), tail_)[1]
        /\ Tail(Pub(Held, Len(out), tail_)) = Pub(Held, Len(out) + 1, tail_)
    BY <1>2, <1>10, MappedFacts, PubTake
  <2>2. Flags' = Pub(Held', Len(out'), Len(tickets'))
    BY DEF Flags, Pub
  <2> QED BY <1>0, <1>7, <1>10, <2>1, <2>2, MappedFacts, FlagsArePub
<1> QED BY <1>0, <1>6, <1>9, <1>11

(* Every other step changes nothing the mapping sees.                      *)
LEMMA OtherStepsStutter ==
  ASSUME RingInv, [QueueNext]_queueVars, ~MoveOut, \A p \in Producers : ~PublishReady(p),
         tail_' = tail_
  PROVE  Buf' = Buf /\ Flags' = Flags /\ out' = out
<1>1. tickets' = tickets /\ out' = out
  BY DEF RingInv, QueueTypeOK, QueueNext, Produce, Dequeue, LoadTail, LoadHead,
         ClaimTicket, Construct, DequeueBegin, ClearReady, AdvanceHead, queueVars
<1>2. Owners' = Owners /\ \A p \in Owners : ctail'[p] = ctail[p]
  <2>1. CASE UNCHANGED <<ppc, ctail>>
    BY <2>1 DEF Owners
  <2>2. ASSUME NEW p \in Producers,
               LoadTail(p) \/ LoadHead(p) \/ ClaimTicket(p) \/ Construct(p)
        PROVE  Owners' = Owners /\ \A q \in Owners : ctail'[q] = ctail[q]
    BY <2>2 DEF RingInv, QueueTypeOK, Owners, LoadTail, LoadHead, ClaimTicket,
                Construct
  <2>3. \/ UNCHANGED <<ppc, ctail>>
        \/ \E p \in Producers :
              LoadTail(p) \/ LoadHead(p) \/ ClaimTicket(p) \/ Construct(p)
    BY DEF QueueNext, Produce, Dequeue, DequeueBegin, ClearReady, AdvanceHead, pvars,
           queueVars
  <2> QED BY <2>1, <2>2, <2>3
<1>3. Held' = Held
  BY <1>2 DEF Held
<1> QED BY <1>1, <1>3 DEF Buf, Flags

(* QueueImplementsFifo: under the mapping of MpscQueue the ring is a       *)
(* bounded FIFO.  Winning a ticket is its Reserve, making the cell ready   *)
(* its Publish, and moving the item out its Take.                          *)
THEOREM QueueImplementsFifo == ASSUME ~ReorderStores PROVE QueueSpec => ImplementsFifo
<1>1. RingInv /\ [QueueNext]_queueVars => RingInv' BY RingInvStep
<1>2. QueueInit => Fifo!FifoInit
  <2> SUFFICES ASSUME QueueInit PROVE Buf = <<>> /\ Flags = <<>> /\ out = <<>>
    BY DEF Fifo!FifoInit
  <2> QED BY DEF QueueInit, Buf, Flags
<1>3. RingInv /\ [QueueNext]_queueVars => [Fifo!FifoNext]_(Fifo!fifoVars)
  <2> SUFFICES ASSUME RingInv, [QueueNext]_queueVars
               PROVE  [Fifo!FifoNext]_(Fifo!fifoVars)
    OBVIOUS
  <2>1. ASSUME NEW p \in Producers, ClaimTicket(p), tail_' # tail_
        PROVE  Fifo!Reserve
    BY <2>1, ClaimReserves DEF Fifo!Reserve
  <2>2. ASSUME NEW p \in Producers, PublishReady(p)
        PROVE  Fifo!Publish
    BY <2>2, ReadyPublishes DEF Fifo!Publish
  <2>3. CASE MoveOut
    BY <2>3, MoveTakes DEF Fifo!FifoNext, Fifo!Take
  <2>4. CASE /\ ~MoveOut /\ \A p \in Producers : ~PublishReady(p)
             /\ tail_' = tail_
    BY <2>4, OtherStepsStutter DEF Fifo!fifoVars
  <2>5. tail_' # tail_ => \E p \in Producers : ClaimTicket(p)
    BY DEF QueueNext, Produce, Dequeue, LoadTail, LoadHead, Construct, PublishReady,
           DequeueBegin, MoveOut, ClearReady, AdvanceHead, queueVars
  <2> QED BY <2>1, <2>2, <2>3, <2>4, <2>5 DEF Fifo!FifoNext
<1> QED BY <1>1, <1>2, <1>3, RingInvInit, PTL
        DEF QueueSpec, ImplementsFifo, Fifo!FifoSpec
=============================================================================
