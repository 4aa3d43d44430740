------------------------------ MODULE MpscQueue ------------------------------
(***************************************************************************)
(* base::MpscQueue<T, Capacity> (base/mpsc_queue.h): a lock-free ring with *)
(* many producers and one consumer.  Every atomic access and every access  *)
(* to a cell's storage is a step of its own.                               *)
(*                                                                         *)
(* Dequeue ends with ready.store(false, release) and then a relaxed store  *)
(* of head_.  A release store does not order later stores, so on a weakly  *)
(* ordered machine the new head_ may be visible before the item has been   *)
(* moved out and ready cleared; ReorderStores admits that outcome.         *)
(***************************************************************************)
EXTENDS Integers, Sequences

CONSTANTS Producers, Items, Capacity,
          MaxTickets,     \* bound: tickets ever handed out
          ReorderStores   \* TRUE: relaxed store of head_ may be seen early

ASSUME MpscAssumption == /\ Capacity \in Nat \ {0}
                         /\ MaxTickets \in Nat
                         /\ ReorderStores \in BOOLEAN

CONSTANT Raw  \* storage bytes that hold no constructed T
ASSUME RawAssumption == Raw \notin Items

VARIABLES tail_, head_,  \* next ticket to hand out; next ticket to dequeue
          ready,         \* ready[i]: Cell::ready of ring_[i]
          storage,       \* storage[i]: the T in ring_[i], or Raw
          ppc,           \* control point of each producer
          item,          \* the argument of its TryEnqueue
          ctail, chead,  \* its current_tail and current_head
          todo,          \* the effects Dequeue has still to make visible
          cur,           \* Dequeue's current_head
          tickets,       \* history: the items in ticket order
          out            \* history: the items dequeued, in order

pvars == <<ppc, item, ctail, chead>>
cvars == <<todo, cur, out>>
queueVars == <<tail_, head_, ready, storage, ppc, item, ctail, chead, todo, cur,
          tickets, out>>

Slots == 0..(Capacity - 1)
Slot(k) == k % Capacity

QueueInit == /\ tail_ = 0 /\ head_ = 0
             /\ ready = [i \in Slots |-> FALSE]
             /\ storage = [i \in Slots |-> Raw]
             /\ ppc = [p \in Producers |-> "idle"]
             /\ item \in [Producers -> Items]
             /\ ctail = [p \in Producers |-> 0]
             /\ chead = [p \in Producers |-> 0]
             /\ todo = {} /\ cur = 0
             /\ tickets = <<>> /\ out = <<>>
----------------------------------------------------------------------------
(* TryEnqueue, producer p.                                                 *)
LoadTail(p) ==
  /\ ppc[p] = "idle"
  /\ \E x \in Items : item' = [item EXCEPT ![p] = x]
  /\ ctail' = [ctail EXCEPT ![p] = tail_]
  /\ ppc' = [ppc EXCEPT ![p] = "head"]
  /\ UNCHANGED <<tail_, head_, ready, storage, chead, todo, cur, tickets, out>>

(* Slip: an off-by-one in the capacity test.                               *)
LoadHead_OffByOne(p) ==
  /\ ppc[p] = "head"
  /\ chead' = [chead EXCEPT ![p] = head_]
  /\ ppc' = [ppc EXCEPT ![p] =
               IF ctail[p] - head_ > Capacity THEN "idle" ELSE "cas"]
  /\ UNCHANGED <<tail_, head_, ready, storage, item, ctail, todo, cur,
                 tickets, out>>

(* Load head_; a full ring makes TryEnqueue return false.                  *)
LoadHead(p) ==
  /\ ppc[p] = "head"
  /\ chead' = [chead EXCEPT ![p] = head_]
  /\ ppc' = [ppc EXCEPT ![p] =
               IF ctail[p] - head_ >= Capacity THEN "idle" ELSE "cas"]
  /\ UNCHANGED <<tail_, head_, ready, storage, item, ctail, todo, cur,
                 tickets, out>>

(* Slip: the ticket is taken with a plain load and store.                  *)
ClaimTicket_NotAtomic(p) ==
  /\ ppc[p] = "cas"
  /\ tail_ < MaxTickets
  /\ tail_' = ctail[p] + 1
  /\ tickets' = Append(tickets, item[p])
  /\ ppc' = [ppc EXCEPT ![p] = "construct"]
  /\ UNCHANGED <<head_, ready, storage, item, ctail, chead, todo, cur, out>>

(* compare_exchange_weak: on failure, spurious or not, current_tail is     *)
(* reloaded and the capacity is tested again.                              *)
ClaimTicket(p) ==
  /\ ppc[p] = "cas"
  /\ \/ /\ tail_ = ctail[p] /\ tail_ < MaxTickets
        /\ tail_' = tail_ + 1
        /\ tickets' = Append(tickets, item[p])
        /\ ppc' = [ppc EXCEPT ![p] = "construct"]
        /\ UNCHANGED ctail
     \/ /\ ctail' = [ctail EXCEPT ![p] = tail_]
        /\ ppc' = [ppc EXCEPT ![p] = "head"]
        /\ UNCHANGED <<tail_, tickets>>
  /\ UNCHANGED <<head_, ready, storage, item, chead, todo, cur, out>>

Construct(p) ==
  /\ ppc[p] = "construct"
  /\ storage' = [storage EXCEPT ![Slot(ctail[p])] = item[p]]
  /\ ppc' = [ppc EXCEPT ![p] = "publish"]
  /\ UNCHANGED <<tail_, head_, ready, item, ctail, chead, todo, cur, tickets,
                 out>>

Occupancy(p) == (ctail[p] + 1) - chead[p]

PublishReady(p) ==
  /\ ppc[p] = "publish"
  /\ ready' = [ready EXCEPT ![Slot(ctail[p])] = TRUE]
  /\ ppc' = [ppc EXCEPT ![p] = "idle"]
  /\ UNCHANGED <<tail_, head_, storage, item, ctail, chead, todo, cur,
                 tickets, out>>
----------------------------------------------------------------------------
(* Dequeue, the single consumer.  A cell that is not ready makes it return *)
(* false, which changes nothing.                                           *)
DequeueBegin ==
  /\ todo = {}
  /\ ready[Slot(head_)]
  /\ cur' = head_
  /\ todo' = {"move", "clear", "advance"}
  /\ UNCHANGED <<tail_, head_, ready, storage, pvars, tickets, out>>

MoveOut ==
  /\ "move" \in todo
  /\ out' = Append(out, storage[Slot(cur)])
  /\ storage' = [storage EXCEPT ![Slot(cur)] = Raw]
  /\ todo' = todo \ {"move"}
  /\ UNCHANGED <<tail_, head_, ready, pvars, cur, tickets>>

(* Slip: ready is never cleared.                                           *)
ClearReady_Forgotten ==
  /\ "clear" \in todo /\ "move" \notin todo
  /\ todo' = todo \ {"clear"}
  /\ UNCHANGED <<tail_, head_, ready, storage, pvars, cur, tickets, out>>

(* A release store: everything before it is visible first.                 *)
ClearReady ==
  /\ "clear" \in todo /\ "move" \notin todo
  /\ ready' = [ready EXCEPT ![Slot(cur)] = FALSE]
  /\ todo' = todo \ {"clear"}
  /\ UNCHANGED <<tail_, head_, storage, pvars, cur, tickets, out>>

AdvanceHead ==
  /\ "advance" \in todo
  /\ ReorderStores \/ todo = {"advance"}
  /\ head_' = cur + 1
  /\ todo' = todo \ {"advance"}
  /\ UNCHANGED <<tail_, ready, storage, pvars, cur, tickets, out>>
----------------------------------------------------------------------------
Produce(p) == LoadHead(p) \/ ClaimTicket(p) \/ Construct(p) \/ PublishReady(p)
Dequeue == DequeueBegin \/ MoveOut \/ ClearReady \/ AdvanceHead

QueueNext == \/ \E p \in Producers : LoadTail(p) \/ Produce(p)
             \/ Dequeue

QueueSpec == QueueInit /\ [][QueueNext]_queueVars

(* Threads inside TryEnqueue are scheduled; the consumer keeps polling.    *)
QueueFairness == /\ WF_queueVars(Dequeue)
                 /\ \A p \in Producers : WF_queueVars(Produce(p))
----------------------------------------------------------------------------
(* Cursors are natural numbers, every cell holds an entry and a ready      *)
(* flag, and every producer is at a program point of push.                 *)
QueueTypeOK == /\ tail_ \in Nat /\ head_ \in Nat
               /\ ready \in [Slots -> BOOLEAN]
               /\ storage \in [Slots -> Items \cup {Raw}]
               /\ ppc \in [Producers -> {"idle", "head", "cas", "construct", "publish"}]
               /\ item \in [Producers -> Items]
               /\ ctail \in [Producers -> Nat] /\ chead \in [Producers -> Nat]
               /\ todo \in SUBSET {"move", "clear", "advance"}
               /\ cur \in Nat
               /\ tickets \in Seq(Items) /\ out \in Seq(Items)

(* Producers that won a ticket and have not published it yet.              *)
Owners == {p \in Producers : ppc[p] \in {"construct", "publish"}}

(* Nobody touches a cell that somebody else is using: two producers never  *)
(* fill the same cell, and none fills the cell the consumer is emptying.   *)
SlotExclusive ==
  /\ \A p, q \in Owners : p # q => Slot(ctail[p]) # Slot(ctail[q])
  /\ todo \cap {"move", "clear"} # {}
        => \A p \in Owners : Slot(ctail[p]) # Slot(cur)

(* The consumer gets exactly the items of tickets 0, 1, 2, ... in that     *)
(* order: none is lost, duplicated, reordered or read unconstructed.       *)
FifoNoLoss == /\ Len(out) <= Len(tickets)
              /\ \A i \in 1..Len(out) : out[i] = tickets[i]

(* The ring never holds more than Capacity tickets, and the occupancy a    *)
(* successful TryEnqueue reports is in 1..Capacity although head_ was read *)
(* earlier (LogQueue compares it with kThreshold).                         *)
OccupancyBounded == /\ 0 <= tail_ - head_ /\ tail_ - head_ <= Capacity
                    /\ \A p \in Owners : Occupancy(p) \in 1..Capacity

(* TryEnqueue returns false only at a moment when the ring really is full, *)
(* however stale its copy of tail_ is.                                     *)
RejectMeansFull ==
  [][\A p \in Producers :
       (ppc[p] = "head" /\ ppc'[p] = "idle") => tail_ - head_ >= Capacity]_queueVars

(* Every item whose ticket was handed out reaches the consumer: tickets    *)
(* are taken in order and there are MaxTickets of them, so the consumer    *)
(* catches up with all that were handed out.                               *)
EveryTicketTaken == (Len(out) < Len(tickets)) ~> (Len(out) = Len(tickets))

(* The refinement mapping: the tickets not yet taken are the buffer, and   *)
(* those that no producer still holds are published.                       *)
Held == {ctail[p] : p \in Owners}
Buf == SubSeq(tickets, Len(out) + 1, Len(tickets))
Flags == [i \in 1..(Len(tickets) - Len(out)) |-> Len(out) + i - 1 \notin Held]

Fifo == INSTANCE BoundedFifo WITH buf <- Buf, published <- Flags

(* The ring implements the bounded FIFO: mapping the reserved and not yet  *)
(* consumed tickets to its buffer, every step of the ring is one of its    *)
(* operations or changes nothing it can see.                               *)
ImplementsFifo == Fifo!FifoSpec
(* The ring is sound: types, no cell of it used by two threads at once,    *)
(* and an occupancy that TryEnqueue computes from stale cursors in bounds. *)
RingSound == QueueTypeOK /\ SlotExclusive /\ OccupancyBounded

(* What TryEnqueue and Dequeue promise their callers: the ring implements  *)
(* the bounded FIFO, rejects only when it is full, and delivers every item *)
(* whose ticket it handed out.                                             *)
QueueContract == ImplementsFifo /\ RejectMeansFull /\ EveryTicketTaken
============================================================================
