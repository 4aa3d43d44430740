----------------------------- MODULE LogWriter ------------------------------
(***************************************************************************)
(* base::LogQueue (base/log_queue.h) and base::internal::LogWriterThread   *)
(* (base/log_writer_thread.h, .cc): clients push log entries into a        *)
(* bounded queue and one background thread moves them to the sinks.        *)
(*                                                                         *)
(* The queue is the BoundedFifo that MpscQueue implements; an entry is     *)
(* known by its severity and its ticket.  A sink buffer holds the units    *)
(* (bytes) of records: of entries, whose size depends on the severity, and *)
(* of notices that entries were dropped, of one unit.  A write may end in  *)
(* the middle of a record.                                                 *)
(* Sleeping and its back-off only take time, and Poke() stores the value   *)
(* that it loaded, so neither changes the state.                           *)
(***************************************************************************)
EXTENDS BoundedFifo, SequencesExt, FiniteSetsExt

CONSTANTS NumSinks,
          Mask,           \* Mask[s]: SinkState::severity_mask
          Size,           \* Size[v]: units of an entry of severity v
          Broken,         \* sinks on which write() may fail for good
          Stuck,          \* sinks that may stay congested for ever
          Quota,          \* kMaxEntriesPerQueuePerCycle
          MaxBuffered,    \* kMaxSinkBufferedBytes
          MaxChunk,       \* kMaxChunkSizeBytes
          Sweeps,         \* the 50 attempts of the final flush
          Flushers,       \* threads that call Flush
          Pushers,        \* bound: threads inside Push at once
          MaxPushes       \* bound: calls of Push

Sinks == 1..NumSinks
NumSeverities == Cardinality(Items)
kFatal == NumSeverities   \* the last severity

ASSUME LogAssumption ==
  /\ Items = 1..NumSeverities /\ Size \in [Items -> Nat \ {0}]
  /\ Mask \in [Sinks -> SUBSET Items] /\ Broken \cup Stuck \subseteq Sinks
  /\ {Quota, MaxBuffered, MaxChunk, Sweeps, Pushers} \subseteq Nat \ {0}

VARIABLES dropped,   \* LogQueue::dropped_counts_
          sinks_,    \* SinkState of each sink, with what write() accepted
          pc,        \* where RunLoop is
          i,         \* its severity or sink index
          n,         \* popped_count, or the number of sweeps made
          more,      \* more_queues \/ more_sinks, or ~all_empty
          stop,      \* stop_notification_
          ahead,     \* flushers whose `now` precedes the writer's `now`
          covered,   \* flushers whose `now` is at most last_flush_
          flushing,  \* flushers inside Flush
          owed       \* history: unwritten tickets pushed before the Flush

flushVars == <<ahead, covered, flushing, owed>>
vars == <<fifoVars, dropped, sinks_, pc, i, n, more, stop, flushVars>>

Init == /\ FifoInit
        /\ dropped = [v \in Items |-> 0]
        /\ sinks_ = [s \in Sinks |->
                       [pending |-> <<>>, total |-> 0, overflow |-> 0,
                        reported |-> [v \in Items |-> 0], file |-> <<>>]]
        /\ pc = "top" /\ i = 1 /\ n = 0 /\ more = FALSE /\ stop = FALSE
        /\ ahead = {} /\ covered = {} /\ flushing = {}
        /\ owed = [f \in Flushers |-> {}]
----------------------------------------------------------------------------
(* Clients.  The ticket of an entry is its place in the order of           *)
(* reservation, from 1 on.                                                 *)
Pushes == Len(out) + Len(buf) + SumFunction(dropped)
Unpublished == {k \in DOMAIN published : ~published[k]}

(* Push reserves a place.  When the queue is full it drops the entry and   *)
(* counts that, unless the entry is fatal.                                 *)
PushBegin ==
  /\ Pushes < MaxPushes /\ Cardinality(Unpublished) < Pushers
  /\ \/ Reserve /\ UNCHANGED dropped
     \/ /\ Len(buf) >= Capacity
        /\ \E v \in Items : dropped' = IF v < kFatal THEN [dropped EXCEPT ![v] = @ + 1]
                                                   ELSE dropped
        /\ UNCHANGED fifoVars
  /\ UNCHANGED <<sinks_, pc, i, n, more, stop, flushVars>>

PushEnd == /\ Publish
           /\ UNCHANGED <<dropped, sinks_, pc, i, n, more, stop, flushVars>>

Stop == /\ ~stop /\ stop' = TRUE
        /\ UNCHANGED <<fifoVars, dropped, sinks_, pc, i, n, more, flushVars>>

(* The tickets whose Push has returned and that some sink still lacks.     *)
InFile(s, t) == \E k \in DOMAIN sinks_[s].file :
                   sinks_[s].file[k].ticket = t /\ sinks_[s].file[k].left = 0
Unwritten == {t \in DOMAIN out : \E s \in Sinks : out[t] \in Mask[s] /\ ~InFile(s, t)}
             \cup {Len(out) + k : k \in DOMAIN buf \ Unpublished}

(* Flush reads the clock and waits until last_flush_ has caught up.  Two   *)
(* readings of the clock differ, and only their order matters.             *)
FlushBegin(f) ==
  /\ f \notin flushing /\ flushing' = flushing \cup {f}
  /\ ahead' = ahead \ {f} /\ covered' = covered \ {f}
  /\ owed' = [owed EXCEPT ![f] = Unwritten]
  /\ UNCHANGED <<fifoVars, dropped, sinks_, pc, i, n, more, stop>>

FlushEnd(f) ==
  /\ f \in flushing \cap covered /\ flushing' = flushing \ {f}
  /\ ahead' = ahead \ {f} /\ covered' = covered \ {f}
  /\ owed' = [owed EXCEPT ![f] = {}]
  /\ UNCHANGED <<fifoVars, dropped, sinks_, pc, i, n, more, stop>>
----------------------------------------------------------------------------
(* The sinks.  A unit knows how many units of its record are left.         *)
Entry(ticket, v) ==
  [p \in 1..Size[v] |->
     [ticket |-> ticket, severity |-> v, lost |-> 0, left |-> Size[v] - p]]
Notice(v, delta) == <<[ticket |-> 0, severity |-> v, lost |-> delta, left |-> 0]>>

(* A record that does not fit the last chunk opens one, whatever its size. *)
AppendToSink(k, r) ==
  IF k.total + Len(r) > MaxBuffered THEN [k EXCEPT !.overflow = @ + 1]
  ELSE [k EXCEPT !.total = @ + Len(r),
                 !.pending = IF @ = <<>> \/ Len(Last(@)) + Len(r) > MaxChunk
                             THEN Append(@, r)
                             ELSE Append(Front(@), Last(@) \o r)]

(* Only sinks that accept the severity get the record.                     *)
ProcessAndRouteEntry(ticket, v) ==
  [s \in Sinks |-> IF v \in Mask[s] THEN AppendToSink(sinks_[s], Entry(ticket, v))
                                    ELSE sinks_[s]]

CheckDropsForSeverity(v) ==
  [s \in Sinks |->
     LET delta == dropped[v] - sinks_[s].reported[v]
     IN  IF v \notin Mask[s] \/ delta <= 0 THEN sinks_[s]
         ELSE AppendToSink([sinks_[s] EXCEPT !.reported[v] = dropped[v]],
                           Notice(v, delta))]

(* The part of Written that every outcome shares.                          *)
Accepted(k, w) == [k EXCEPT !.total = @ - w,
                         !.file = @ \o SubSeq(Head(k.pending), 1, w)]

(* Slip: a short write keeps the whole chunk.                              *)
Written_KeepsChunk(k, w) ==
  IF w = Len(Head(k.pending)) THEN [Accepted(k, w) EXCEPT !.pending = Tail(@)]
                              ELSE Accepted(k, w)

(* write() accepted w units of the front chunk.                            *)
Written(k, w) ==
  LET chunk == Head(k.pending)
      t == Accepted(k, w)
  IN  IF w = Len(chunk) THEN [t EXCEPT !.pending = Tail(@)]
      ELSE [t EXCEPT !.pending = <<SubSeq(chunk, w + 1, Len(chunk))>> \o Tail(@)]
----------------------------------------------------------------------------
(* RunLoop.  A phase runs its index over the severities or the sinks.      *)
Queues == <<fifoVars, dropped, stop, flushVars>>

Phase(from, to) == pc = from /\ pc' = to /\ i' = 1

LoopTop == /\ Phase("top", IF stop THEN "lastDrain" ELSE "drops")
           /\ n' = 0 /\ more' = FALSE
           /\ UNCHANGED <<Queues, sinks_>>

(* CheckAndReportDrops, one severity: one load of its counter.             *)
CheckDrops ==
  /\ pc \in {"drops", "lastDrops"}
  /\ sinks_' = CheckDropsForSeverity(i)
  /\ \/ i < NumSeverities /\ i' = i + 1 /\ UNCHANGED pc
     \/ /\ i = NumSeverities /\ i' = 1
        /\ pc' = IF pc = "drops" THEN "drain" ELSE "sweep"
  /\ UNCHANGED <<Queues, n, more>>

(* DrainQueues: Pop fails on an empty queue and on an unpublished front.   *)
PopFails == ~(buf # <<>> /\ published[1])

Pop == /\ Take
       /\ sinks_' = ProcessAndRouteEntry(Len(out) + 1, Head(buf))
       /\ UNCHANGED <<dropped, stop, flushVars>>

Drain == /\ pc = "drain" /\ n < Quota /\ Pop
         /\ n' = n + 1
         /\ UNCHANGED <<pc, i, more>>

DrainEnds == /\ n = Quota \/ PopFails
             /\ Phase("drain", "write")
             /\ more' = (n = Quota) /\ n' = 0
             /\ UNCHANGED <<Queues, sinks_>>

LastDrain == pc = "lastDrain" /\ Pop /\ UNCHANGED <<pc, i, n, more>>

LastDrainEnds == /\ PopFails /\ Phase("lastDrain", "lastDrops")
                 /\ UNCHANGED <<Queues, sinks_, n, more>>

(* WriteSinkBuffer for sink i: nothing to do, congested or interrupted,    *)
(* failed for good, or some of the front chunk accepted.  Its result says  *)
(* whether work remains.                                                   *)
WriteSinkBuffer ==
  LET k == sinks_[i]
  IN  \/ k.pending = <<>> /\ UNCHANGED <<sinks_, more>>
      \/ k.pending # <<>> /\ more' = TRUE /\ UNCHANGED sinks_
      \/ k.pending # <<>> /\ i \in Broken /\ UNCHANGED <<sinks_, more>>
      \/ /\ k.pending # <<>>
         /\ \E w \in 1..Len(Head(k.pending)) :
              sinks_' = [sinks_ EXCEPT ![i] = Written(k, w)]
         /\ more' = (more \/ sinks_'[i].pending # <<>>)

(* Slip: FlushBuffers stops at the first sink that is congested.           *)
Write_StopsEarly == /\ pc \in {"write", "sweep"} /\ i <= NumSinks
                    /\ WriteSinkBuffer
                    /\ i' = IF more' THEN NumSinks + 1 ELSE i + 1
                    /\ UNCHANGED <<Queues, pc, n>>

(* FlushBuffers (and one sweep of DrainRemainingQueues) goes over the      *)
(* sinks.                                                                  *)
Write == /\ pc \in {"write", "sweep"} /\ i <= NumSinks /\ WriteSinkBuffer
         /\ i' = i + 1
         /\ UNCHANGED <<Queues, pc, n>>

(* A cycle that left nothing behind reads the clock for last_flush_.       *)
CycleEnds ==
  /\ i > NumSinks
  /\ \/ more /\ Phase("write", "top") /\ UNCHANGED ahead
     \/ ~more /\ Phase("write", "stamp") /\ ahead' = flushing
  /\ UNCHANGED <<fifoVars, dropped, stop, covered, flushing, owed, sinks_, n,
                 more>>

StoreLastFlush == /\ Phase("stamp", "top")
                  /\ covered' = ahead
                  /\ UNCHANGED <<fifoVars, dropped, stop, ahead, flushing,
                                 owed, sinks_, n, more>>

(* Slip: the final sweeps go on until the sinks are empty.                 *)
SweepEnds_OnlyEmpty ==
  /\ pc = "sweep" /\ i > NumSinks
  /\ \/ ~more /\ pc' = "closed" /\ UNCHANGED <<i, n, more>>
     \/ more /\ i' = 1 /\ more' = FALSE /\ UNCHANGED <<pc, n>>
  /\ UNCHANGED <<Queues, sinks_>>

(* The files are closed after a sweep that left nothing, or the last one.  *)
SweepEnds ==
  /\ pc = "sweep" /\ i > NumSinks
  /\ \/ /\ ~more \/ n + 1 = Sweeps
        /\ pc' = "closed" /\ UNCHANGED <<i, n, more>>
     \/ /\ more /\ n + 1 < Sweeps
        /\ i' = 1 /\ n' = n + 1 /\ more' = FALSE /\ UNCHANGED pc
  /\ UNCHANGED <<Queues, sinks_>>
----------------------------------------------------------------------------
RunLoop == \/ LoopTop \/ CheckDrops \/ Drain \/ DrainEnds
           \/ LastDrain \/ LastDrainEnds \/ Write \/ CycleEnds
           \/ StoreLastFlush \/ SweepEnds

Next == \/ PushBegin \/ PushEnd \/ Stop \/ RunLoop
        \/ \E f \in Flushers : FlushBegin(f) \/ FlushEnd(f)

Spec == Init /\ [][Next]_vars

(* write() on sink s accepts the front chunk.                              *)
SinkAccepts(s) == /\ Write /\ i = s
                  /\ sinks_'[s].pending # sinks_[s].pending

(* The threads keep running, and a sink whose reader is alive does not     *)
(* answer EAGAIN for ever.  Nobody has to push, flush or stop.             *)
FairSpec == /\ Spec /\ WF_vars(RunLoop) /\ WF_vars(PushEnd)
            /\ \A f \in Flushers : WF_vars(FlushEnd(f))
            /\ \A s \in Sinks \ Stuck : SF_vars(SinkAccepts(s))
----------------------------------------------------------------------------
Units == [ticket : 0..MaxPushes, severity : Items, lost : 0..MaxPushes,
          left : 0..Max({Size[v] : v \in Items})]

(* Queues, the writer's buffers and its program point hold what the code   *)
(* can put there.                                                          *)
TypeOK ==
  /\ dropped \in [Items -> Nat]
  /\ \A s \in Sinks : /\ sinks_[s].pending \in Seq(Seq(Units))
                      /\ sinks_[s].file \in Seq(Units)
                      /\ {sinks_[s].total, sinks_[s].overflow} \subseteq Nat
                      /\ sinks_[s].reported \in [Items -> Nat]
  /\ pc \in {"top", "drops", "drain", "write", "stamp", "lastDrain",
             "lastDrops", "sweep", "closed"}
  /\ i \in 1..Max({NumSeverities, NumSinks + 1}) /\ n \in 0..Max({Quota, Sweeps})
  /\ {more, stop} \subseteq BOOLEAN
  /\ covered \subseteq Flushers /\ ahead \subseteq Flushers

(* All that a sink has been given and has not discarded, and the records   *)
(* in it, each named by its last unit.                                     *)
Stream(s) == sinks_[s].file \o FlattenSeq(sinks_[s].pending)
Entries(s) == SelectSeq(Stream(s), LAMBDA u : u.ticket > 0 /\ u.left = 0)

(* The drops of severity v that the notices in a sequence of units report. *)
Told(units, v) ==
  FoldLeft(LAMBDA sum, u : IF u.ticket = 0 /\ u.severity = v THEN sum + u.lost ELSE sum,
           0, units)

(* The tickets drained so far that sink s accepts.                         *)
Due(s) == {t \in DOMAIN out : out[t] \in Mask[s]}

(* Records are whole: over short writes that end inside a record and over  *)
(* chunk boundaries, the units of a record follow each other without a gap *)
(* and without another record between them.                                *)
RecordsWhole == \A s \in Sinks :
  LET u == Stream(s)
  IN  \A k \in DOMAIN u :
        /\ u[k].left > 0 => /\ k < Len(u)
                            /\ u[k + 1] = [u[k] EXCEPT !.left = @ - 1]
        /\ k = 1 \/ u[k - 1].left = 0 =>
             u[k].left = IF u[k].ticket = 0 THEN 0 ELSE Size[u[k].severity] - 1

(* Every sink gets the entries in the order in which they were logged,     *)
(* each at most once and with its own severity, across chunk boundaries    *)
(* and short writes.                                                       *)
InOrderOnce == \A s \in Sinks :
  LET e == Entries(s)
  IN  /\ \A j, k \in DOMAIN e : j < k => e[j].ticket < e[k].ticket
      /\ \A k \in DOMAIN e : e[k].ticket \in Due(s) /\ out[e[k].ticket] = e[k].severity

(* Nothing vanishes: as long as sink s has not overflowed, every drained   *)
(* entry that it accepts is in its file or its buffer, and its notices add *)
(* up to last_reported_drops, which never exceeds the count; an overflow   *)
(* may discard a notice, never add one.                                    *)
NothingVanishes == \A s \in Sinks :
  /\ sinks_[s].overflow = 0 => Len(Entries(s)) = Cardinality(Due(s))
  /\ \A v \in Mask[s] :
       LET told == Told(Stream(s), v)
       IN  /\ told <= sinks_[s].reported[v] /\ sinks_[s].reported[v] <= dropped[v]
           /\ sinks_[s].overflow = 0 => told = sinks_[s].reported[v]

(* The memory a sink may hold is bounded: total_buffered_bytes is exactly  *)
(* what the chunks hold, within the limit; no chunk is empty, and only one *)
(* that is (the rest of) a single record exceeds kMaxChunkSizeBytes.       *)
BufferBounded == \A s \in Sinks :
  /\ sinks_[s].total = Len(FlattenSeq(sinks_[s].pending))
  /\ sinks_[s].total <= MaxBuffered
  /\ \A k \in DOMAIN sinks_[s].pending :
       LET chunk == sinks_[s].pending[k]
       IN  /\ chunk # <<>>
           /\ Len(chunk) <= MaxChunk \/ \A j \in DOMAIN chunk : chunk[j].ticket = chunk[1].ticket

(* The promise of Flush ("Returns when all previously-enqueued elements    *)
(* have been pulled from LogQueues and written to disk"): when it may      *)
(* return, every entry pushed before it began is written to every sink     *)
(* that accepts it and has not overflowed.                                 *)
FlushContract == \A f \in flushing \cap covered, s \in Sinks :
  sinks_[s].overflow = 0 =>
    \A t \in owed[f] : t \in Due(s) \/ t > Len(out) => InFile(s, t)

(* The severity of ticket t, once its Push has published it.               *)
IsPublished(t) == t \in DOMAIN out \/ (t - Len(out) \in DOMAIN buf \ Unpublished)
Logged(t) == (out \o buf)[t]

Working == Sinks \ (Stuck \cup Broken)

(* A published entry reaches the file of every working sink that accepts   *)
(* it, even while another sink stays congested, unless logging is stopped  *)
(* or the sink overflows.                                                  *)
EntriesReachFiles == \A s \in Working, t \in 1..MaxPushes :
  (IsPublished(t) /\ Logged(t) \in Mask[s])
     ~> (InFile(s, t) \/ sinks_[s].overflow > 0 \/ stop)

(* The file of a working sink comes to tell of every drop that was counted *)
(* of a severity it accepts, unless logging is stopped or the sink         *)
(* overflows: a notice discarded then is not repeated, since               *)
(* last_reported_drops has been raised.  Dropped fatal entries are not     *)
(* counted, so no file tells of them.                                      *)
DropsAreReported == \A s \in Working : \A v \in Mask[s] :
  (dropped[v] > Told(sinks_[s].file, v))
     ~> (dropped[v] = Told(sinks_[s].file, v) \/ sinks_[s].overflow > 0 \/ stop)

(* Flush returns unless logging is stopped or a sink stays congested.      *)
FlushEnds == \A f \in Flushers :
  (f \in flushing) ~> (\/ f \notin flushing \/ stop
                       \/ \E s \in Stuck : sinks_[s].pending # <<>>)

(* Stop ends the writer although a sink never accepts its data and a       *)
(* pusher has reserved a place that it has not published.                  *)
StopCloses == stop ~> (pc = "closed")
(* What the sinks hold is intact: types, whole records in order, nothing   *)
(* lost or doubled over short writes and congestion, and bounded exactly   *)
(* counted memory.                                                         *)
SinkIntact == TypeOK /\ RecordsWhole /\ InOrderOnce /\ NothingVanishes /\ BufferBounded

(* Nothing is forgotten: published entries and counted drops reach the     *)
(* files of the working sinks, whatever the other sinks do.                *)
NothingForgotten == EntriesReachFiles /\ DropsAreReported

(* A caller of Flush, which polls until last_flush_ has caught up, is      *)
(* released; and the thread that Stop notifies (Stop itself does not wait) *)
(* closes the files.                                                       *)
CallersReleased == FlushEnds /\ StopCloses
=============================================================================
