----------------------------- MODULE BoundedFifo -----------------------------
(***************************************************************************)
(* What base::MpscQueue promises: a bounded FIFO in which a producer first *)
(* reserves the next place and later publishes the item in it.  The        *)
(* consumer takes items strictly in reservation order; an unpublished item *)
(* at the front holds back everything behind it.                           *)
(***************************************************************************)
EXTENDS Naturals, Sequences

CONSTANTS Items, Capacity

VARIABLES buf,        \* the items reserved and not yet taken, oldest first
          published,  \* published[i]: buf[i] may be taken
          out         \* every item taken so far, oldest first

fifoVars == <<buf, published, out>>

FifoInit == buf = <<>> /\ published = <<>> /\ out = <<>>

Reserve == /\ Len(buf) < Capacity
           /\ \E x \in Items : buf' = Append(buf, x)
           /\ published' = Append(published, FALSE)
           /\ UNCHANGED out

Publish == /\ \E i \in DOMAIN published :
                /\ ~published[i]
                /\ published' = [published EXCEPT ![i] = TRUE]
           /\ UNCHANGED <<buf, out>>

Take == /\ buf # <<>> /\ published[1]
        /\ out' = Append(out, Head(buf))
        /\ buf' = Tail(buf)
        /\ published' = Tail(published)

FifoNext == Reserve \/ Publish \/ Take

FifoSpec == FifoInit /\ [][FifoNext]_fifoVars
============================================================================
