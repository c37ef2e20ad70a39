----------------------------- MODULE RingBuffer -----------------------------
(***************************************************************************)
(* The ring buffer of SketchLearn (ringbuffer.c) between the thread that   *)
(* reads the trace and the thread that feeds the sketch (dp_simulate.c).   *)
(*                                                                         *)
(* Neither thread takes a lock.  Each keeps its own position and a copy of *)
(* the other's, and publishes its position only once per batch, or when    *)
(* the writer flushes after a tuple that ends an interval or the trace.    *)
(* A step here makes at most one access to what the other thread may       *)
(* change.  A call that fails is repeated by its caller, so failing is     *)
(* waiting.  Memory is taken to be sequentially consistent.                *)
(***************************************************************************)
EXTENDS Naturals, Sequences

CONSTANTS
    Keys,        \* the ordinary tuples
    PUNC,        \* the tuple that ends an interval
    TERM,        \* the tuple that ends the trace
    RB_SIZE,     \* 2000
    RB_BATCH,    \* 50
    MaxTuples    \* bound on the tuples of a trace before TERM

ASSUME RingAssumption ==
    /\ RB_SIZE \in Nat /\ RB_SIZE >= 2
    /\ RB_BATCH \in Nat \ {0}
    /\ MaxTuples \in Nat
    /\ PUNC \notin Keys /\ TERM \notin Keys /\ PUNC # TERM

VARIABLES
    readIndex, writeIndex,                        \* published
    localWriteIndex, nextReadIndex, rBatchCount,  \* of the reader
    localReadIndex, nextWriteIndex, wBatchCount,  \* of the writer
    data,
    wpc, out, flushed,   \* writer: where it is, its tuple, what flush has read
    rpc, in,             \* reader: where it is, its tuple
    sem,                 \* args->sem, posted by the reader after an interval
    sent, delivered      \* history

writer == <<writeIndex, localReadIndex, nextWriteIndex, wBatchCount, data, wpc, out, flushed, sent>>
reader == <<localWriteIndex, nextReadIndex, rBatchCount, rpc, in, delivered>>
vars == <<readIndex, sem, writer, reader>>

Tuples == Keys \cup {PUNC, TERM}

Slots == 0 .. RB_SIZE - 1

nextVal(x) == IF x + 1 >= RB_SIZE THEN 0 ELSE x + 1

\* create_ringbuffer_shm fills the buffer with zeroes; which tuple that is does
\* not matter, because none is read before it is written.
Init ==
    /\ readIndex = 0 /\ writeIndex = 0
    /\ localWriteIndex = 0 /\ nextReadIndex = 0 /\ rBatchCount = 0
    /\ localReadIndex = 0 /\ nextWriteIndex = 0 /\ wBatchCount = 0
    /\ data = [i \in Slots |-> PUNC]
    /\ wpc = "next" /\ out = PUNC /\ flushed = 0
    /\ rpc = "check" /\ in = PUNC
    /\ sem = 0
    /\ sent = <<>> /\ delivered = <<>>

-----------------------------------------------------------------------------

\* The main loop turns to its next tuple: a packet, the end of an interval, or
\* the end of the trace.
NextTuple ==
    /\ wpc = "next"
    /\ \E t \in Tuples :
          /\ t # TERM => Len(sent) < MaxTuples
          /\ out' = t
    /\ wpc' = "check"
    /\ UNCHANGED <<readIndex, sem, reader, writeIndex, localReadIndex, nextWriteIndex,
                   wBatchCount, data, flushed, sent>>

\* write_ringbuffer up to its early return; readIndex is read only if the
\* writer's copy of it leaves no room.
WriteCheck ==
    /\ wpc = "check"
    /\ \/ nextVal(nextWriteIndex) # localReadIndex /\ wpc' = "copy"
       \/ /\ nextVal(nextWriteIndex) = localReadIndex
          /\ nextVal(nextWriteIndex) # readIndex
          /\ wpc' = "refresh"
    /\ UNCHANGED <<readIndex, sem, reader, writeIndex, localReadIndex, nextWriteIndex,
                   wBatchCount, data, out, flushed, sent>>

WriteRefresh ==
    /\ wpc = "refresh"
    /\ localReadIndex' = readIndex
    /\ wpc' = "copy"
    /\ UNCHANGED <<readIndex, sem, reader, writeIndex, nextWriteIndex, wBatchCount, data,
                   out, flushed, sent>>

WriteCopy ==
    /\ wpc = "copy"
    /\ data' = [data EXCEPT ![nextWriteIndex] = out]
    /\ wpc' = "publish"
    /\ UNCHANGED <<readIndex, sem, reader, writeIndex, localReadIndex, nextWriteIndex,
                   wBatchCount, out, flushed, sent>>

WritePublish_Ahead ==
    /\ wpc = "publish"
    /\ nextWriteIndex' = nextVal(nextWriteIndex)
    /\ IF wBatchCount + 1 >= RB_BATCH
       THEN writeIndex' = nextVal(nextVal(nextWriteIndex)) /\ wBatchCount' = 0
       ELSE writeIndex' = writeIndex /\ wBatchCount' = wBatchCount + 1
    /\ wpc' = IF out \in Keys THEN "next" ELSE "flush"
    /\ sent' = Append(sent, out)
    /\ UNCHANGED <<readIndex, sem, reader, localReadIndex, data, out, flushed>>

WritePublish ==
    /\ wpc = "publish"
    /\ nextWriteIndex' = nextVal(nextWriteIndex)
    /\ IF wBatchCount + 1 >= RB_BATCH
       THEN writeIndex' = nextVal(nextWriteIndex) /\ wBatchCount' = 0
       ELSE writeIndex' = writeIndex /\ wBatchCount' = wBatchCount + 1
    /\ wpc' = IF out \in Keys THEN "next" ELSE "flush"
    /\ sent' = Append(sent, out)
    /\ UNCHANGED <<readIndex, sem, reader, localReadIndex, data, out, flushed>>

\* flush_ringbuffer: the writer publishes its own position, and then, in two
\* accesses, the reader's.
FlushWrite_Nothing ==
    /\ wpc = "flush"
    /\ wpc' = "flushRead"
    /\ UNCHANGED <<readIndex, sem, reader, writeIndex, localReadIndex, nextWriteIndex,
                   wBatchCount, data, out, flushed, sent>>

FlushWrite ==
    /\ wpc = "flush"
    /\ writeIndex' = nextWriteIndex
    /\ wpc' = "flushRead"
    /\ UNCHANGED <<readIndex, sem, reader, localReadIndex, nextWriteIndex, wBatchCount, data,
                   out, flushed, sent>>

FlushRead ==
    /\ wpc = "flushRead"
    /\ flushed' = nextReadIndex
    /\ wpc' = "flushStore"
    /\ UNCHANGED <<readIndex, sem, reader, writeIndex, localReadIndex, nextWriteIndex,
                   wBatchCount, data, out, sent>>

FlushStore ==
    /\ wpc = "flushStore"
    /\ readIndex' = flushed
    /\ wpc' = IF out = PUNC THEN "wait" ELSE "join"
    /\ UNCHANGED <<sem, reader, writeIndex, localReadIndex, nextWriteIndex, wBatchCount, data,
                   out, flushed, sent>>

\* sem_wait after an interval, pthread_join after the trace.
Wait ==
    /\ \/ wpc = "wait" /\ sem > 0 /\ sem' = sem - 1 /\ wpc' = "next"
       \/ wpc = "join" /\ rpc = "done" /\ wpc' = "done" /\ UNCHANGED sem
    /\ UNCHANGED <<readIndex, reader, writeIndex, localReadIndex, nextWriteIndex, wBatchCount,
                   data, out, flushed, sent>>

Writer ==
    \/ NextTuple \/ WriteCheck \/ WriteRefresh \/ WriteCopy \/ WritePublish
    \/ FlushWrite \/ FlushRead \/ FlushStore \/ Wait

-----------------------------------------------------------------------------

ReadCheck ==
    /\ rpc = "check"
    /\ \/ nextReadIndex # localWriteIndex /\ rpc' = "copy"
       \/ /\ nextReadIndex = localWriteIndex
          /\ nextReadIndex # writeIndex
          /\ rpc' = "refresh"
    /\ UNCHANGED <<readIndex, sem, writer, localWriteIndex, nextReadIndex, rBatchCount, in,
                   delivered>>

ReadRefresh ==
    /\ rpc = "refresh"
    /\ localWriteIndex' = writeIndex
    /\ rpc' = "copy"
    /\ UNCHANGED <<readIndex, sem, writer, nextReadIndex, rBatchCount, in, delivered>>

ReadCopy ==
    /\ rpc = "copy"
    /\ in' = data[nextReadIndex]
    /\ delivered' = Append(delivered, data[nextReadIndex])
    /\ rpc' = "advance"
    /\ UNCHANGED <<readIndex, sem, writer, localWriteIndex, nextReadIndex, rBatchCount>>

ReadAdvance ==
    /\ rpc = "advance"
    /\ nextReadIndex' = nextVal(nextReadIndex)
    /\ rBatchCount' = rBatchCount + 1
    /\ rpc' = IF rBatchCount + 1 >= RB_BATCH THEN "publish" ELSE "handle"
    /\ UNCHANGED <<readIndex, sem, writer, localWriteIndex, in, delivered>>

ReadPublish ==
    /\ rpc = "publish"
    /\ readIndex' = nextReadIndex
    /\ rBatchCount' = 0
    /\ rpc' = "handle"
    /\ UNCHANGED <<sem, writer, localWriteIndex, nextReadIndex, in, delivered>>

Handle_PostAlways ==
    /\ rpc = "handle"
    /\ rpc' = IF in = TERM THEN "done" ELSE "check"
    /\ sem' = sem + 1
    /\ UNCHANGED <<readIndex, writer, localWriteIndex, nextReadIndex, rBatchCount, in, delivered>>

\* thread_handler: the sketch is updated, or printed and reset, or the thread
\* ends.
Handle ==
    /\ rpc = "handle"
    /\ rpc' = IF in = TERM THEN "done" ELSE "check"
    /\ sem' = IF in = PUNC THEN sem + 1 ELSE sem
    /\ UNCHANGED <<readIndex, writer, localWriteIndex, nextReadIndex, rBatchCount, in, delivered>>

Reader == ReadCheck \/ ReadRefresh \/ ReadCopy \/ ReadAdvance \/ ReadPublish \/ Handle

Next == Writer \/ Reader

Spec == Init /\ [][Next]_vars

\* Both threads are scheduled for ever; the trace ends.
FairSpec == Spec /\ WF_vars(Writer) /\ WF_vars(Reader)

-----------------------------------------------------------------------------

\* Positions stay inside the buffer, and the batch counters below a batch.
TypeOK ==
    /\ {readIndex, writeIndex, localWriteIndex, nextReadIndex, localReadIndex, nextWriteIndex,
        flushed} \subseteq Slots
    /\ rBatchCount \in 0 .. RB_BATCH /\ wBatchCount \in 0 .. RB_BATCH - 1
    /\ data \in [Slots -> Tuples]
    /\ wpc \in {"next", "check", "refresh", "copy", "publish", "flush", "flushRead",
                "flushStore", "wait", "join", "done"}
    /\ rpc \in {"check", "refresh", "copy", "advance", "publish", "handle", "done"}
    /\ {out, in} \subseteq Tuples
    /\ sem \in Nat
    /\ sent \in Seq(Tuples) /\ delivered \in Seq(Tuples)

\* The two calls of memcpy never touch the same tuple at the same time, although
\* each thread decides on a copy of the other's position that may be long out
\* of date.
NoOverlap == ~(wpc = "copy" /\ rpc = "copy" /\ nextWriteIndex = nextReadIndex)

Queue == INSTANCE Channel WITH Capacity <- RB_SIZE - 1
\* A tuple that read_ringbuffer delivers is the next one write_ringbuffer was
\* given: the ring buffer is a channel of RB_SIZE - 1 tuples.
Implements == Queue!Spec

\* When the main loop goes on after the end of an interval (sem_wait), the thread
\* has taken every tuple of the interval, so that its sketch was complete when it
\* was printed and is empty for the next one.
IntervalComplete ==
    [][wpc = "wait" /\ wpc' = "next" => delivered = sent]_vars

\* A trace that stays within one interval ends: although each thread publishes
\* its position only once per batch, neither waits for ever on the other, the
\* thread gets the terminating tuple and main joins it.
SingleIntervalEnds ==
    [](\A n \in 1 .. Len(sent) : sent[n] # PUNC) => <>(wpc = "done")

\* How far the reader is ahead of what it has published.
Unpublished ==
    IF nextReadIndex >= readIndex THEN nextReadIndex - readIndex
                                  ELSE nextReadIndex + RB_SIZE - readIndex

\* The picture in ringbuffer.h: between the global and the next read position
\* lies at most a batch.
AtMostRBatch == Unpublished <= RB_BATCH

=============================================================================
